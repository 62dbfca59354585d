---------------------------- MODULE ParserProofs ----------------------------
(***************************************************************************)
(* Parser implements ByteStream, whatever the limits of parameters and     *)
(* strings, the length of the runs and the cuts between reads; and what    *)
(* the machine's buffers hold, from which CAN is shown to recover and what *)
(* is handed over to be what was written.                                  *)
(***************************************************************************)
EXTENDS Parser, FiniteSetTheorems, WellFoundedInduction, TLAPS

(* Where the loop is, and what it holds there: bytes found by a scan wait   *)
(* only while the machine is in the ground state, which printing leaves as  *)
(* it is.                                                                   *)
LoopInv ==
  /\ run \in Seq(TextBytes)
  /\ pc \in {"loop", "scan", "emit", "byte"}
  /\ pc # "loop" => machine.state = "Ground"
  /\ pc \in {"loop", "byte"} => run = <<>>
  /\ pc \in {"loop", "scan"} => next = <<>>
  /\ next = <<>> \/ \E b \in Bytes : next = <<b>>
  /\ pc = "byte" => next # <<>>

-----------------------------------------------------------------------------
(* Printable text in the ground state is printed and changes nothing else. *)
LEMMA TextPrints ==
  ASSUME NEW m, m.state = "Ground", NEW b \in PrintableAscii
  PROVE  advance_byte(m, b).m = m /\ advance_byte(m, b).out = <<PrintChar(b)>>
<1>1. b \notin {"CAN", "ESC", "NEL"} \cup C0 \cup Introducers8 \cup Leads
  BY DEF C0, Introducers8, Leads, PrintableAscii, ParamBytes, Digits, Separators, Finals
<1>2. advance_byte(m, b) = Handle(m, b)
  BY <1>1 DEF advance_byte
<1>3. Handle(m, b) = ground(m, b)
  BY DEF Handle
<1>4. ground(m, b) = Do(m, PrintChar(b))
  BY <1>1 DEF ground, Introducers8
<1>5. QED BY <1>2, <1>3, <1>4 DEF Do

-----------------------------------------------------------------------------
(* LoopInv is inductive. *)
LEMMA InitLoop == ASSUME Init PROVE LoopInv
  BY DEF Init, LoopInv

LEMMA ConsumeStays ==
  ASSUME NEW b, Consume(b)
  PROVE  machine' = advance_byte(machine, b).m /\ performed' = advance_byte(machine, b).out
  BY DEF Consume

LEMMA NextLoop ==
  ASSUME LoopInv, [Next]_vars
  PROVE  LoopInv'
<1>1. CASE UNCHANGED vars
  BY <1>1 DEF LoopInv, vars
<1>2. CASE StartScan
  BY <1>2 DEF LoopInv, StartScan
<1>3. CASE Scan
  BY <1>3 DEF LoopInv, Scan
<1>4. CASE Emit
  <2>1. run' \in Seq(TextBytes)
    BY <1>4 DEF LoopInv, Emit
  <2>2. QED BY <1>4, <2>1 DEF LoopInv, Emit
<1>5. CASE EmitDone
  BY <1>5 DEF LoopInv, EmitDone
<1>6. CASE HandleNext
  BY <1>6 DEF LoopInv, HandleNext
<1>7. CASE HandleByte
  BY <1>7 DEF LoopInv, HandleByte
<1>8. QED BY <1>1, <1>2, <1>3, <1>4, <1>5, <1>6, <1>7 DEF Next

-----------------------------------------------------------------------------
(* Each step is a step of the stream, or none. *)

LEMMA InitMaps == ASSUME Init PROVE Stream!Init
  BY DEF Init, Stream!Init

(* What the scan finds is received. *)
LEMMA ScanReceives ==
  ASSUME LoopInv, Scan
  PROVE  Stream!Receive \/ UNCHANGED <<machine, performed, run \o next>>
<1>1. next = <<>> /\ run \in Seq(TextBytes) /\ UNCHANGED <<machine, performed>>
  BY DEF LoopInv, Scan
<1>2. run \o next = run
  BY <1>1
<1>3. ASSUME NEW b \in TextBytes, run' = Append(run, b), UNCHANGED next
      PROVE  Stream!Receive
  <2>1. b \in Bytes
    BY TextAssumption DEF Bytes
  <2>2. run' \o next' = Append(run \o next, b)
    BY <1>1, <1>2, <1>3
  <2>3. QED BY <1>1, <2>1, <2>2 DEF Stream!Receive
<1>4. ASSUME NEW b \in Bytes, next' = <<b>>, UNCHANGED run
      PROVE  Stream!Receive
  <2>1. run' \o next' = Append(run \o next, b)
    BY <1>1, <1>2, <1>4
  <2>2. QED BY <1>1, <2>1 DEF Stream!Receive
<1>5. QED BY <1>1, <1>3, <1>4 DEF Scan

(* A byte that is printed is taken from the front. *)
LEMMA EmitTakes ==
  ASSUME LoopInv, Emit
  PROVE  Stream!Take
<1>1. /\ run \in Seq(TextBytes) /\ run # <<>> /\ machine.state = "Ground"
      /\ next = <<>> \/ \E b \in Bytes : next = <<b>>
      /\ performed' = <<PrintChar(Head(run))>> /\ run' = Tail(run)
      /\ UNCHANGED <<machine, next>>
  BY DEF LoopInv, Emit
<1>2. TextBytes \subseteq Bytes /\ next \in Seq(Bytes)
  <2>1. TextBytes \subseteq Bytes
    BY TextAssumption DEF Bytes
  <2>2. CASE next = <<>>
    BY <2>1, <2>2
  <2>3. ASSUME NEW b \in Bytes, next = <<b>> PROVE next \in Seq(Bytes)
    BY <2>3
  <2>4. QED BY <1>1, <2>1, <2>2, <2>3
<1>3. run \in Seq(Bytes) /\ Head(run) \in TextBytes
  BY <1>1, <1>2
<1>4. /\ run \o next # <<>> /\ Head(run \o next) = Head(run)
      /\ Tail(run \o next) = Tail(run) \o next
  BY <1>1, <1>2, <1>3
<1>5. Head(run) \in PrintableAscii
  BY <1>3, TextAssumption
<1>6. Stream!Handles(Head(run))
  BY <1>1, <1>5, TextPrints DEF Stream!Handles
<1>7. QED BY <1>1, <1>4, <1>6 DEF Stream!Take

(* So is the byte that ended the run. *)
LEMMA HandleNextTakes ==
  ASSUME LoopInv, HandleNext
  PROVE  Stream!Take
<1>1. PICK b \in Bytes : next = <<b>>
  BY DEF LoopInv, HandleNext
<1>2. run = <<>> /\ run' = <<>> /\ next' = <<>> /\ Consume(b)
  BY <1>1 DEF LoopInv, HandleNext
<1>3. run \o next = <<b>> /\ run' \o next' = <<>>
  BY <1>1, <1>2
<1>4. Stream!Handles(b)
  BY <1>2, ConsumeStays DEF Stream!Handles
<1>5. QED BY <1>3, <1>4 DEF Stream!Take

(* Elsewhere a byte is received and handled at once. *)
LEMMA HandleByteReceivesAndTakes ==
  ASSUME LoopInv, HandleByte
  PROVE  Stream!ReceiveAndTake
<1>1. PICK b \in Bytes : Consume(b)
  BY DEF HandleByte
<1>2. run = <<>> /\ next = <<>> /\ UNCHANGED <<run, next>>
  BY DEF LoopInv, HandleByte
<1>3. run \o next = <<>> /\ run' \o next' = <<>>
  BY <1>2
<1>4. Stream!Handles(b)
  BY <1>1, ConsumeStays DEF Stream!Handles
<1>5. QED BY <1>3, <1>4 DEF Stream!ReceiveAndTake

LEMMA NextMaps ==
  ASSUME LoopInv, [Next]_vars
  PROVE  [Stream!Next]_<<machine, performed, run \o next>>
<1>1. CASE UNCHANGED vars \/ StartScan \/ EmitDone
  BY <1>1 DEF vars, StartScan, EmitDone
<1>2. CASE Scan
  BY <1>2, ScanReceives DEF Stream!Next
<1>3. CASE Emit
  BY <1>3, EmitTakes DEF Stream!Next
<1>4. CASE HandleNext
  BY <1>4, HandleNextTakes DEF Stream!Next
<1>5. CASE HandleByte
  BY <1>5, HandleByteReceivesAndTakes DEF Stream!Next
<1>6. QED BY <1>1, <1>2, <1>3, <1>4, <1>5 DEF Next

-----------------------------------------------------------------------------
(* The machine between bytes: what it holds fits the buffers of the code,   *)
(* and a UTF-8 character still lacks between one and three bytes.           *)
ParamsType ==
  [values : Seq(0..MaxValue), flags : Seq(BOOLEAN), current : 0..MaxCurrent,
   has_current : BOOLEAN, trailing_sep : BOOLEAN, pending_colon : BOOLEAN]

ParamsWhole(p) ==
  p \in ParamsType /\ Len(p.values) <= MaxParams /\ Len(p.flags) = Len(p.values)

Utf8Type == [lead : Bytes, valid : BOOLEAN, idx : Nat, len : 0..4]

MachineType ==
  [state : States, params : ParamsType, intermediates : Seq(Bytes),
   osc_data : Seq({";", "data"}), utf8 : Utf8Type]

MachineWhole(m) ==
  /\ m \in MachineType
  /\ ParamsWhole(m.params)
  /\ Len(m.intermediates) <= MaxIntermediates
  /\ Len(m.osc_data) <= MaxOscData
  /\ m.state = "Utf8" => 1 <= m.utf8.idx /\ m.utf8.idx < m.utf8.len

(* What byte b may leave behind: a character begins with a lead byte only.  *)
Left(m, b) == MachineWhole(m) /\ (m.state = "Utf8" => b \in Leads)

LEMMA AppendFits ==
  ASSUME NEW S, NEW q \in Seq(S), NEW x \in S, NEW max \in Nat, Len(q) < max
  PROVE  Append(q, x) \in Seq(S) /\ Len(Append(q, x)) <= max
  OBVIOUS

LEMMA PushDigitWhole ==
  ASSUME NEW p, ParamsWhole(p), NEW b
  PROVE  ParamsWhole(PushDigit(p, b))
<1> DEFINE product == p.current * Base
           scaled == AtMost(product, MaxCurrent)
           current == AtMost(scaled + DigitValue(b), MaxCurrent)
<1>1. product \in Nat /\ DigitValue(b) \in Nat /\ MaxCurrent \in Nat
  <2>1. \A x, y \in Nat : x * y \in Nat
    OBVIOUS
  <2>2. p.current \in Nat /\ Base \in Nat /\ MaxCurrent \in Nat
    BY ParamsAssumption DEF ParamsWhole, ParamsType
  <2>3. QED BY <2>1, <2>2 DEF DigitValue
<1> HIDE DEF product
<1>2. scaled \in Nat
  BY <1>1 DEF AtMost
<1> HIDE DEF scaled
<1>3. current \in 0..MaxCurrent
  BY <1>1, <1>2 DEF AtMost
<1> HIDE DEF current
<1>4. PushDigit(p, b) = [p EXCEPT !.has_current = TRUE, !.trailing_sep = FALSE, !.current = current]
  BY DEF PushDigit, current, scaled, product, ParamsWhole, ParamsType
<1>5. QED BY <1>3, <1>4 DEF ParamsWhole, ParamsType

LEMMA PushSeparatorWhole ==
  ASSUME NEW p, ParamsWhole(p), NEW b
  PROVE  ParamsWhole(PushSeparator(p, b))
<1> DEFINE value == Pending(p)
           values == IF HasRoom(p) THEN Append(p.values, value) ELSE p.values
           flags == IF HasRoom(p) THEN Append(p.flags, p.pending_colon) ELSE p.flags
<1>1. value \in 0..MaxValue
  <2>1. p.current \in Nat /\ MaxValue \in Nat
    BY ParamsAssumption DEF ParamsWhole, ParamsType
  <2>2. AtMost(p.current, MaxValue) \in 0..MaxValue
    BY <2>1 DEF AtMost
  <2>3. QED BY <2>1, <2>2 DEF Pending
<1> HIDE DEF value
<1>2. /\ p.values \in Seq(0..MaxValue) /\ Len(p.values) <= MaxParams
      /\ p.flags \in Seq(BOOLEAN) /\ Len(p.flags) = Len(p.values)
      /\ p.pending_colon \in BOOLEAN /\ MaxParams \in Nat
  BY ParamsAssumption DEF ParamsWhole, ParamsType
<1>3. /\ values \in Seq(0..MaxValue) /\ Len(values) <= MaxParams
      /\ flags \in Seq(BOOLEAN) /\ Len(flags) = Len(values)
  <2>1. CASE HasRoom(p)
    <3>1. values = Append(p.values, value) /\ flags = Append(p.flags, p.pending_colon)
      BY <2>1
    <3>2. Len(p.values) < MaxParams
      BY <2>1 DEF HasRoom
    <3> HIDE DEF values, flags
    <3>3. values \in Seq(0..MaxValue) /\ Len(values) = Len(p.values) + 1
      BY <1>1, <1>2, <3>1
    <3>4. flags \in Seq(BOOLEAN) /\ Len(flags) = Len(p.flags) + 1
      BY <1>2, <3>1
    <3>5. QED BY <1>2, <3>2, <3>3, <3>4
  <2>2. CASE ~HasRoom(p)
    BY <1>2, <2>2
  <2>3. QED BY <2>1, <2>2
<1> HIDE DEF values, flags
<1>4. PushSeparator(p, b) =
        [values |-> values, flags |-> flags, current |-> 0, has_current |-> FALSE,
         trailing_sep |-> b = ";" \/ p.trailing_sep, pending_colon |-> b = ":"]
  BY DEF PushSeparator, values, flags, value
<1>5. (b = ";" \/ p.trailing_sep) \in BOOLEAN /\ (b = ":") \in BOOLEAN /\ 0 \in 0..MaxCurrent
  BY ParamsAssumption
<1> DEFINE sep == b = ";" \/ p.trailing_sep
           colon == b = ":"
<1> HIDE DEF sep, colon
<1>6. PushSeparator(p, b) =
        [values |-> values, flags |-> flags, current |-> 0, has_current |-> FALSE,
         trailing_sep |-> sep, pending_colon |-> colon]
  BY <1>4 DEF sep, colon
<1>7. sep \in BOOLEAN /\ colon \in BOOLEAN
  BY <1>5 DEF sep, colon
<1>8. QED BY <1>3, <1>5, <1>6, <1>7 DEF ParamsWhole, ParamsType

LEMMA PushParamWhole ==
  ASSUME NEW m, MachineWhole(m), NEW b
  PROVE  MachineWhole(PushParam(m, b)) /\ PushParam(m, b).state = m.state
<1> DEFINE p == push(m.params, b)
<1>1. ParamsWhole(p)
  BY PushDigitWhole, PushSeparatorWhole DEF MachineWhole, push
<1> HIDE DEF p
<1>2. PushParam(m, b) = [m EXCEPT !.params = p]
  BY DEF PushParam, p
<1>3. QED BY <1>1, <1>2 DEF MachineWhole, MachineType, ParamsWhole

LEMMA PushIntermediateWhole ==
  ASSUME NEW m, MachineWhole(m), NEW b \in Bytes
  PROVE  MachineWhole(PushIntermediate(m, b)) /\ PushIntermediate(m, b).state = m.state
<1>1. CASE Len(m.intermediates) < MaxIntermediates
  <2> DEFINE s == Append(m.intermediates, b)
  <2>1. s \in Seq(Bytes) /\ Len(s) <= MaxIntermediates
    <3>1. m.intermediates \in Seq(Bytes)
      BY DEF MachineWhole, MachineType
    <3>2. QED BY <1>1, <3>1, BufferAssumption
  <2> HIDE DEF s
  <2>2. PushIntermediate(m, b) = [m EXCEPT !.intermediates = s]
    BY <1>1 DEF PushIntermediate, s
  <2>3. QED BY <2>1, <2>2 DEF MachineWhole, MachineType
<1>2. CASE ~(Len(m.intermediates) < MaxIntermediates)
  BY <1>2 DEF PushIntermediate
<1>3. QED BY <1>1, <1>2

LEMMA PushOscWhole ==
  ASSUME NEW m, MachineWhole(m), NEW b
  PROVE  MachineWhole(PushOsc(m, b)) /\ PushOsc(m, b).state = m.state
<1>1. CASE Len(m.osc_data) < MaxOscData
  <2> DEFINE s == Append(m.osc_data, Datum(b))
  <2>1. s \in Seq({";", "data"}) /\ Len(s) <= MaxOscData
    <3>1. PICK x \in {";", "data"} : s = Append(m.osc_data, x)
      BY DEF Datum
    <3> DEFINE data == {";", "data"}
    <3>2. m.osc_data \in Seq(data) /\ x \in data /\ MaxOscData \in Nat
      BY BufferAssumption DEF MachineWhole, MachineType
    <3> HIDE DEF s, data
    <3>3. s \in Seq(data) /\ Len(s) <= MaxOscData
      BY <1>1, <3>1, <3>2, AppendFits
    <3>4. QED BY <3>3 DEF data
  <2> HIDE DEF s
  <2>2. PushOsc(m, b) = [m EXCEPT !.osc_data = s]
    BY <1>1 DEF PushOsc, s
  <2>3. QED BY <2>1, <2>2 DEF MachineWhole, MachineType
<1>2. CASE ~(Len(m.osc_data) < MaxOscData)
  BY <1>2 DEF PushOsc
<1>3. QED BY <1>1, <1>2

LEMMA NoParamsWhole == ParamsWhole(NoParams)
  BY ParamsAssumption DEF ParamsWhole, ParamsType, NoParams

LEMMA ClearWhole ==
  ASSUME NEW m, MachineWhole(m)
  PROVE  MachineWhole(Clear(m)) /\ Clear(m).state = m.state
<1>1. Clear(m) = [m EXCEPT !.params = NoParams, !.intermediates = <<>>]
  BY DEF Clear
<1> DEFINE none == <<>>
<1>2. none \in Seq(Bytes) /\ Len(none) = 0
  OBVIOUS
<1> HIDE DEF none
<1>3. Clear(m) = [m EXCEPT !.params = NoParams, !.intermediates = none]
  BY <1>1 DEF none
<1> DEFINE n == Clear(m)
<1>4. n \in MachineType
  BY <1>2, <1>3, NoParamsWhole DEF MachineWhole, MachineType, ParamsWhole
<1>5. /\ n.state = m.state /\ n.params = NoParams /\ n.intermediates = none
      /\ n.osc_data = m.osc_data /\ n.utf8 = m.utf8
  BY <1>3 DEF MachineWhole, MachineType
<1> HIDE DEF n
<1>6. MachineWhole(n) /\ n.state = m.state
  BY <1>2, <1>4, <1>5, NoParamsWhole, BufferAssumption DEF MachineWhole
<1>7. QED BY <1>6 DEF n

LEMMA ToWhole ==
  ASSUME NEW m, MachineWhole(m), NEW s \in States \ {"Utf8"}
  PROVE  MachineWhole(To(m, s)) /\ To(m, s).state = s
  BY DEF To, MachineWhole, MachineType

LEMMA EnterWhole ==
  ASSUME NEW m, MachineWhole(m)
  PROVE  \A n \in {EnterDcs(m).m, EnterCsi(m).m, EnterOsc(m).m, EnterString(m).m} :
           MachineWhole(n) /\ n.state # "Utf8"
<1>1. \A s \in States \ {"Utf8"} : MachineWhole(To(Clear(m), s)) /\ To(Clear(m), s).state = s
  BY ClearWhole, ToWhole
<1>2. \A s \in States \ {"Utf8"} : MachineWhole(To(m, s)) /\ To(m, s).state = s
  BY ToWhole
<1>3. {"DcsEntry", "CsiEntry", "OscString", "SosPmApcString"} \subseteq States \ {"Utf8"}
  BY DEF States
<1>4. MachineWhole(EnterOsc(m).m) /\ EnterOsc(m).m.state = "OscString"
  <2> DEFINE n == To(m, "OscString")
  <2>1. MachineWhole(n) /\ n.state = "OscString"
    BY <1>2, <1>3
  <2> HIDE DEF n
  <2> DEFINE none == <<>>
  <2>2. none \in Seq({";", "data"}) /\ Len(none) = 0
    OBVIOUS
  <2> HIDE DEF none
  <2>3. EnterOsc(m).m = [n EXCEPT !.osc_data = none]
    BY DEF EnterOsc, Stay, n, none
  <2> DEFINE k == EnterOsc(m).m
  <2>4. k \in MachineType
    BY <2>1, <2>2, <2>3 DEF MachineWhole, MachineType
  <2>5. /\ k.state = n.state /\ k.params = n.params /\ k.intermediates = n.intermediates
        /\ k.osc_data = none /\ k.utf8 = n.utf8
    BY <2>1, <2>3 DEF MachineWhole, MachineType
  <2> HIDE DEF k
  <2>6. MachineWhole(k) /\ k.state = "OscString"
    BY <2>1, <2>2, <2>4, <2>5, BufferAssumption DEF MachineWhole
  <2>7. QED BY <2>6 DEF k
<1>5. /\ EnterDcs(m).m = To(Clear(m), "DcsEntry") /\ EnterCsi(m).m = To(Clear(m), "CsiEntry")
      /\ EnterString(m).m = To(m, "SosPmApcString")
  BY DEF EnterDcs, EnterCsi, EnterString, Stay
<1>6. QED BY <1>1, <1>2, <1>3, <1>4, <1>5

LEMMA EnterUtf8Whole ==
  ASSUME NEW m, MachineWhole(m), NEW b \in Leads
  PROVE  MachineWhole(EnterUtf8(m, b).m)
<1> DEFINE u == [lead |-> b, valid |-> b # "OVERLONG", idx |-> 1, len |-> LeadLength(b)]
           n == [m EXCEPT !.state = "Utf8", !.utf8 = u]
<1>1. u \in Utf8Type /\ u.idx = 1 /\ 1 < u.len
  BY DEF Utf8Type, LeadLength, Bytes, Leads
<1> HIDE DEF u
<1>2. EnterUtf8(m, b).m = n
  BY DEF EnterUtf8, Stay, To, u, MachineWhole, MachineType
<1>3. n \in MachineType
  BY <1>1 DEF MachineWhole, MachineType, States
<1>4. /\ n.params = m.params /\ n.intermediates = m.intermediates
      /\ n.osc_data = m.osc_data /\ n.utf8 = u
  BY DEF MachineWhole, MachineType
<1> HIDE DEF n
<1>5. MachineWhole(n)
  BY <1>1, <1>3, <1>4 DEF MachineWhole
<1>6. QED BY <1>2, <1>5

-----------------------------------------------------------------------------
(* Each state of the machine. *)
LEMMA GroundLeft ==
  ASSUME NEW m, MachineWhole(m), m.state # "Utf8", NEW b \in Bytes
  PROVE  Left(ground(m, b).m, b)
<1>1. Left(m, b)
  BY DEF Left
<1>2. \A n \in {EnterDcs(m).m, EnterCsi(m).m, EnterOsc(m).m, EnterString(m).m} : Left(n, b)
  BY EnterWhole DEF Left
<1>3. b \in Leads => Left(EnterUtf8(m, b).m, b)
  BY EnterUtf8Whole DEF Left
<1>4. QED BY <1>1, <1>2, <1>3 DEF ground, Do, Stay

(* What the other handlers are made of. *)
LEMMA HelpersLeft ==
  ASSUME NEW m, MachineWhole(m), m.state # "Utf8", NEW b \in Bytes
  PROVE  /\ Left(m, b) /\ Left(PushIntermediate(m, b), b)
         /\ Left(PushParam(m, b), b) /\ Left(PushOsc(m, b), b)
         /\ \A s \in States \ {"Utf8"} :
              /\ Left(To(m, s), b) /\ Left(To(PushIntermediate(m, b), s), b)
              /\ Left(To(PushParam(m, b), s), b)
         /\ \A n \in {EnterDcs(m).m, EnterCsi(m).m, EnterOsc(m).m, EnterString(m).m} : Left(n, b)
  BY PushIntermediateWhole, PushParamWhole, PushOscWhole, ToWhole, EnterWhole DEF Left

LEMMA OtherStates ==
  {"Ground", "Escape", "EscapeIntermediate", "CsiEntry", "CsiParam", "CsiIntermediate",
   "CsiIgnore", "OscString", "DcsEntry", "DcsParam", "DcsIntermediate", "DcsPassthrough",
   "DcsIgnore", "SosPmApcString"} \subseteq States \ {"Utf8"}
  BY DEF States

LEMMA EscapeLeft ==
  ASSUME NEW m, MachineWhole(m), m.state # "Utf8", NEW b \in Bytes
  PROVE  Left(escape(m, b).m, b)
  BY HelpersLeft, OtherStates DEF escape, Do, Stay

LEMMA EscapeIntermediateLeft ==
  ASSUME NEW m, MachineWhole(m), m.state # "Utf8", NEW b \in Bytes
  PROVE  Left(escape_intermediate(m, b).m, b)
  BY HelpersLeft, OtherStates DEF escape_intermediate, Do, Stay

LEMMA CsiCommonLeft ==
  ASSUME NEW m, MachineWhole(m), m.state # "Utf8", NEW b \in Bytes
  PROVE  Left(CsiCommon(m, b).m, b)
  BY HelpersLeft, OtherStates DEF CsiCommon, Do, Stay

LEMMA CsiEntryLeft ==
  ASSUME NEW m, MachineWhole(m), m.state # "Utf8", NEW b \in Bytes
  PROVE  Left(csi_entry(m, b).m, b)
  BY HelpersLeft, OtherStates, CsiCommonLeft DEF csi_entry, Do, Stay

LEMMA CsiParamLeft ==
  ASSUME NEW m, MachineWhole(m), m.state # "Utf8", NEW b \in Bytes
  PROVE  Left(csi_param(m, b).m, b)
  BY HelpersLeft, OtherStates, CsiCommonLeft DEF csi_param, Do, Stay

LEMMA CsiIntermediateLeft ==
  ASSUME NEW m, MachineWhole(m), m.state # "Utf8", NEW b \in Bytes
  PROVE  Left(csi_intermediate(m, b).m, b)
  BY HelpersLeft, OtherStates, CsiCommonLeft DEF csi_intermediate, Do, Stay

LEMMA CsiIgnoreLeft ==
  ASSUME NEW m, MachineWhole(m), m.state # "Utf8", NEW b \in Bytes
  PROVE  Left(csi_ignore(m, b).m, b)
  BY HelpersLeft, OtherStates DEF csi_ignore, Do, Stay

LEMMA OscStringLeft ==
  ASSUME NEW m, MachineWhole(m), m.state # "Utf8", NEW b \in Bytes
  PROVE  Left(osc_string(m, b).m, b)
  BY HelpersLeft, OtherStates DEF osc_string, Do, Stay

LEMMA DcsEntryLeft ==
  ASSUME NEW m, MachineWhole(m), m.state # "Utf8", NEW b \in Bytes
  PROVE  Left(dcs_entry(m, b).m, b)
  BY HelpersLeft, OtherStates DEF dcs_entry, Do, Stay

LEMMA DcsParamLeft ==
  ASSUME NEW m, MachineWhole(m), m.state # "Utf8", NEW b \in Bytes
  PROVE  Left(dcs_param(m, b).m, b)
  BY HelpersLeft, OtherStates DEF dcs_param, Do, Stay

LEMMA DcsIntermediateLeft ==
  ASSUME NEW m, MachineWhole(m), m.state # "Utf8", NEW b \in Bytes
  PROVE  Left(dcs_intermediate(m, b).m, b)
  BY HelpersLeft, OtherStates DEF dcs_intermediate, Do, Stay

LEMMA DcsPassthroughLeft ==
  ASSUME NEW m, MachineWhole(m), m.state # "Utf8", NEW b \in Bytes
  PROVE  Left(dcs_passthrough(m, b).m, b)
  BY HelpersLeft, OtherStates DEF dcs_passthrough, Do, Stay

LEMMA IgnoreStringLeft ==
  ASSUME NEW m, MachineWhole(m), m.state # "Utf8", NEW b \in Bytes
  PROVE  Left(ignore_string(m, b).m, b)
  BY HelpersLeft, OtherStates DEF ignore_string, Stay

LEMMA HandleLeft ==
  ASSUME NEW m, MachineWhole(m), m.state # "Utf8", NEW b \in Bytes
  PROVE  Left(Handle(m, b).m, b)
  BY GroundLeft, EscapeLeft, EscapeIntermediateLeft, CsiEntryLeft, CsiParamLeft,
     CsiIntermediateLeft, CsiIgnoreLeft, OscStringLeft, DcsEntryLeft, DcsParamLeft,
     DcsIntermediateLeft, DcsPassthroughLeft, IgnoreStringLeft DEF Handle

-----------------------------------------------------------------------------
(* Bytes a UTF-8 character still lacks. *)
Lacks(m) == IF m.state = "Utf8" THEN m.utf8.len - m.utf8.idx ELSE 0

LEMMA ContinueWhole ==
  ASSUME NEW m, MachineWhole(m), m.state = "Utf8", NEW b \in Bytes
  PROVE  LET n == Continue(m, b).m
         IN  MachineWhole(n) /\ (n.state = "Utf8" => Lacks(n) = Lacks(m) - 1)
<1> DEFINE valid == m.utf8.valid /\ b \in C1 \cup {"CONT"}
           u == [m.utf8 EXCEPT !.idx = m.utf8.idx + 1, !.valid = valid]
           k == [m EXCEPT !.utf8 = u]
           g == [m EXCEPT !.state = "Ground", !.utf8 = NoUtf8]
           n == Continue(m, b).m
<1>1. /\ m.utf8 \in Utf8Type /\ 1 <= m.utf8.idx /\ m.utf8.idx < m.utf8.len
      /\ m \in MachineType
  BY DEF MachineWhole, MachineType
<1>2. valid \in BOOLEAN
  BY <1>1 DEF Utf8Type
<1> HIDE DEF valid
<1>3. u \in Utf8Type /\ u.idx = m.utf8.idx + 1 /\ u.len = m.utf8.len
  <2> DEFINE idx == m.utf8.idx + 1
  <2>1. idx \in Nat
    BY <1>1 DEF Utf8Type
  <2> HIDE DEF idx
  <2>2. u = [m.utf8 EXCEPT !.idx = idx, !.valid = valid]
    BY DEF idx
  <2> HIDE DEF u
  <2>3. u \in Utf8Type /\ u.idx = idx /\ u.len = m.utf8.len
    BY <1>1, <1>2, <2>1, <2>2 DEF Utf8Type
  <2>4. QED BY <2>3 DEF idx
<1>4. [m.utf8 EXCEPT !.idx = @ + 1, !.valid = @ /\ b \in C1 \cup {"CONT"}] = u
  BY <1>1 DEF valid, Utf8Type
<1>5. n = IF u.idx # u.len THEN k ELSE g
  BY <1>1, <1>4 DEF Continue, Stay, To, MachineType
<1> HIDE DEF u, n
<1>6. CASE u.idx # u.len
  <2>1. k \in MachineType
    BY <1>1, <1>3 DEF MachineType
  <2>2. /\ k.state = "Utf8" /\ k.params = m.params /\ k.intermediates = m.intermediates
        /\ k.osc_data = m.osc_data /\ k.utf8 = u
    BY <1>1 DEF MachineType
  <2> HIDE DEF k
  <2>3. m.utf8.idx \in Nat /\ m.utf8.len \in Nat
    BY <1>1 DEF Utf8Type
  <2>4. 1 <= u.idx /\ u.idx < u.len
    BY <1>1, <1>3, <1>6, <2>3
  <2>5. MachineWhole(k)
    BY <2>1, <2>2, <2>4 DEF MachineWhole
  <2>6. Lacks(k) = Lacks(m) - 1
    BY <1>3, <2>2, <2>3 DEF Lacks
  <2>7. QED BY <1>5, <1>6, <2>5, <2>6 DEF n
<1>7. CASE u.idx = u.len
  <2>1. g \in MachineType
    <3>1. NoUtf8 \in Utf8Type
      BY DEF NoUtf8, Utf8Type, Bytes
    <3>2. QED BY <1>1, <3>1 DEF MachineType, States
  <2>2. /\ g.state = "Ground" /\ g.params = m.params /\ g.intermediates = m.intermediates
        /\ g.osc_data = m.osc_data
    BY <1>1 DEF MachineType
  <2> HIDE DEF g
  <2>3. MachineWhole(g)
    BY <2>1, <2>2 DEF MachineWhole
  <2>4. QED BY <1>5, <1>7, <2>2, <2>3 DEF n
<1>8. QED BY <1>6, <1>7

LEMMA AfterWhole ==
  ASSUME NEW m, MachineWhole(m), NEW b \in Bytes
  PROVE  /\ MachineWhole(After(m, b))
         /\ m.state # "Utf8" => Left(After(m, b), b)
         /\ m.state # "Utf8" /\ b = "CAN" => After(m, b).state = "Ground"
         /\ m.state = "Utf8" /\ After(m, b).state = "Utf8"
              => Lacks(After(m, b)) = Lacks(m) - 1
<1>1. CASE m.state = "Utf8"
  BY <1>1, ContinueWhole DEF After, advance_byte
<1>2. CASE m.state # "Utf8" /\ b = "CAN"
  <2>1. After(m, b) = To(m, "Ground")
    BY <1>2 DEF After, advance_byte, Do
  <2>2. MachineWhole(To(m, "Ground")) /\ To(m, "Ground").state = "Ground"
    BY ToWhole, OtherStates
  <2>3. QED BY <1>2, <2>1, <2>2 DEF Left
<1>3. CASE m.state # "Utf8" /\ b = "ESC"
  <2> DEFINE n == To(m, "Escape")
             none == <<>>
             k == [n EXCEPT !.intermediates = none]
  <2>1. MachineWhole(n) /\ n.state = "Escape"
    BY ToWhole, OtherStates
  <2>2. After(m, b) = k
    BY <1>3 DEF After, advance_byte, Stay
  <2>3. none \in Seq(Bytes) /\ Len(none) = 0
    OBVIOUS
  <2> HIDE DEF n, none
  <2>4. k \in MachineType
    BY <2>1, <2>3 DEF MachineWhole, MachineType
  <2>5. /\ k.state = "Escape" /\ k.params = n.params /\ k.intermediates = none
        /\ k.osc_data = n.osc_data
    BY <2>1 DEF MachineWhole, MachineType
  <2> HIDE DEF k
  <2>6. MachineWhole(k) /\ k.state # "Utf8"
    BY <2>1, <2>3, <2>4, <2>5, BufferAssumption DEF MachineWhole
  <2>7. QED BY <1>3, <2>2, <2>6 DEF Left
<1>4. CASE m.state # "Utf8" /\ b \notin {"CAN", "ESC"}
  <2>1. After(m, b) = Handle(m, b).m
    BY <1>4 DEF After, advance_byte
  <2>2. QED BY <1>4, <2>1, HandleLeft DEF Left
<1>5. QED BY <1>1, <1>2, <1>3, <1>4

(* A character lacks three bytes at most, and each byte that begins none    *)
(* brings it closer to its end.                                             *)
LEMMA LacksFew ==
  ASSUME NEW m, MachineWhole(m)
  PROVE  Lacks(m) \in 0..3 /\ (m.state = "Utf8" <=> Lacks(m) > 0)
<1>1. m.utf8.idx \in Nat /\ m.utf8.len \in 0..4
  BY DEF MachineWhole, MachineType, Utf8Type
<1>2. QED BY <1>1 DEF MachineWhole, Lacks

LEMMA LacksLess ==
  ASSUME NEW m, MachineWhole(m), NEW b \in Bytes \ Leads
  PROVE  Lacks(After(m, b)) <= IF Lacks(m) > 0 THEN Lacks(m) - 1 ELSE 0
<1>1. MachineWhole(After(m, b))
  BY AfterWhole
<1>2. CASE After(m, b).state = "Utf8"
  <2>1. m.state = "Utf8" /\ Lacks(After(m, b)) = Lacks(m) - 1
    BY <1>2, AfterWhole DEF Left
  <2>2. QED BY <2>1, LacksFew
<1>3. CASE After(m, b).state # "Utf8"
  BY <1>1, <1>3, LacksFew DEF Lacks
<1>4. QED BY <1>2, <1>3

LEMMA CancelsWhole == ASSUME MachineWhole(machine) PROVE CancelRecovers
<1>1. SUFFICES ASSUME NEW b \in {"CAN", "A", "CONT"}
               PROVE  After(After(After(After(machine, b), b), b), "CAN").state = "Ground"
  BY DEF CancelRecovers
<1>2. b \in Bytes \ Leads /\ "CAN" \in Bytes
  BY DEF Bytes, Leads, PrintableAscii, Finals
<1> DEFINE m1 == After(machine, b)
           m2 == After(m1, b)
           m3 == After(m2, b)
<1>3. MachineWhole(m1) /\ Lacks(m1) <= 2
  <2>1. Lacks(m1) <= IF Lacks(machine) > 0 THEN Lacks(machine) - 1 ELSE 0
    BY <1>2, LacksLess
  <2>2. QED BY <1>2, <2>1, AfterWhole, LacksFew
<1> HIDE DEF m1
<1>4. MachineWhole(m2) /\ Lacks(m2) <= 1
  <2>1. Lacks(m2) <= IF Lacks(m1) > 0 THEN Lacks(m1) - 1 ELSE 0
    BY <1>2, <1>3, LacksLess
  <2>2. MachineWhole(m2)
    BY <1>2, <1>3, AfterWhole
  <2> HIDE DEF m2
  <2>3. Lacks(m1) \in 0..3 /\ Lacks(m2) \in 0..3
    BY <1>3, <2>2, LacksFew
  <2>4. QED BY <1>3, <2>1, <2>2, <2>3
<1> HIDE DEF m2
<1>5. MachineWhole(m3) /\ Lacks(m3) <= 0
  <2>1. Lacks(m3) <= IF Lacks(m2) > 0 THEN Lacks(m2) - 1 ELSE 0
    BY <1>2, <1>4, LacksLess
  <2>2. QED BY <1>2, <1>4, <2>1, AfterWhole, LacksFew
<1> HIDE DEF m3
<1>6. m3.state # "Utf8"
  BY <1>5, LacksFew
<1>7. QED BY <1>2, <1>5, <1>6, AfterWhole DEF m1, m2, m3

-----------------------------------------------------------------------------
LEMMA NewWhole == MachineWhole(new)
<1> DEFINE none == <<>>
<1>1. /\ none \in Seq(Bytes) /\ none \in Seq({";", "data"}) /\ Len(none) = 0
  OBVIOUS
<1>2. NoUtf8 \in Utf8Type
  BY DEF NoUtf8, Utf8Type, Bytes
<1>3. ParamsWhole(NoParams) /\ NoParams \in ParamsType
  BY NoParamsWhole DEF ParamsWhole
<1>4. new = [state |-> "Ground", params |-> NoParams, intermediates |-> none,
             osc_data |-> none, utf8 |-> NoUtf8]
  BY DEF new
<1> HIDE DEF none
<1>5. QED BY <1>1, <1>2, <1>3, <1>4, BufferAssumption DEF MachineWhole, MachineType, States

LEMMA NextWhole ==
  ASSUME LoopInv, MachineWhole(machine), [Next]_vars
  PROVE  MachineWhole(machine)'
<1>1. CASE UNCHANGED machine
  BY <1>1
<1>2. ASSUME NEW b \in Bytes, Consume(b) PROVE MachineWhole(machine)'
  <2>1. machine' = After(machine, b)
    BY <1>2, ConsumeStays DEF After
  <2>2. MachineWhole(After(machine, b))
    BY AfterWhole
  <2>3. QED BY <2>1, <2>2
<1>3. CASE HandleNext
  <2>1. PICK b \in Bytes : next = <<b>>
    BY <1>3 DEF LoopInv, HandleNext
  <2>2. Consume(b)
    BY <1>3, <2>1 DEF HandleNext
  <2>3. QED BY <1>2, <2>2
<1>4. CASE HandleByte
  BY <1>2, <1>4 DEF HandleByte
<1>5. QED BY <1>1, <1>3, <1>4 DEF Next, StartScan, Scan, Emit, EmitDone, vars

-----------------------------------------------------------------------------
(* Every set of numbers that is not empty has a least member. *)
LEMMA LeastNumber ==
  ASSUME NEW S \in SUBSET Nat, S # {}
  PROVE  \E k \in S : \A j \in S : k <= j
<1> DEFINE T == {0..j : j \in S}
<1>1. T \subseteq FiniteSubsetsOf(Nat) /\ T # {}
  <2>1. \A j \in S : 0..j \in FiniteSubsetsOf(Nat)
    BY FS_Interval DEF FiniteSubsetsOf
  <2> QED BY <2>1
<1>2. PICK x \in T : \A y \in T : ~(<<y, x>> \in StrictSubsetOrdering(Nat))
  <2> HIDE DEF T
  <2> QED BY <1>1, FS_StrictSubsetOrderingWellFounded, WFMin
<1>3. PICK k \in S : x = 0..k
  BY <1>2
<1>4. ASSUME NEW j \in S, j < k
      PROVE  FALSE
  <2>1. 0..j \in T /\ 0..j \subseteq x /\ k \in x /\ k \notin 0..j
    BY <1>3, <1>4
  <2>2. <<0..j, x>> \in StrictSubsetOrdering(Nat)
    <3>1. 0..j \in FiniteSubsetsOf(Nat) /\ x \in FiniteSubsetsOf(Nat) /\ 0..j # x
      BY <1>1, <2>1
    <3> QED BY <2>1, <3>1 DEF StrictSubsetOrdering
  <2> QED BY <1>2, <2>1, <2>2
<1> QED BY <1>3, <1>4

(* A set that holds 0 and with each number the next holds them all. *)
LEMMA CountsUp ==
  ASSUME NEW n \in Nat, NEW S, 0 \in S, \A i \in 1..n : i - 1 \in S => i \in S
  PROVE  \A i \in 0..n : i \in S
<1> DEFINE Bad == {i \in 0..n : i \notin S}
<1>1. SUFFICES ASSUME Bad # {} PROVE FALSE
  OBVIOUS
<1>2. PICK j \in Bad : \A i \in Bad : j <= i
  <2>1. Bad \in SUBSET Nat
    OBVIOUS
  <2> HIDE DEF Bad
  <2>2. QED BY <1>1, <2>1, LeastNumber
<1>3. j \in 1..n /\ j - 1 \in 0..n /\ ~(j <= j - 1)
  BY <1>2
<1>4. j - 1 \notin Bad
  BY <1>2, <1>3
<1>5. QED BY <1>2, <1>3, <1>4

(* What is computed along a sequence, element by element, exists. *)
Folds(f, s, start, step) ==
  f[0] = start /\ \A i \in 1..Len(s) : f[i] = step[f[i - 1]][s[i]]

LEMMA FoldExists ==
  ASSUME NEW T, NEW B, NEW start \in T, NEW step \in [T -> [B -> T]], NEW s \in Seq(B)
  PROVE  \E f \in [0..Len(s) -> T] : Folds(f, s, start, step)
<1> DEFINE Upto(j) == \E f \in [0..j -> T] :
                        f[0] = start /\ \A i \in 1..j : f[i] = step[f[i - 1]][s[i]]
           S == {j \in 0..Len(s) : Upto(j)}
<1>1. 0 \in S
  <2> DEFINE z == [i \in 0..0 |-> start]
  <2>1. z \in [0..0 -> T] /\ z[0] = start
    OBVIOUS
  <2> HIDE DEF z
  <2>2. \A i \in 1..0 : z[i] = step[z[i - 1]][s[i]]
    OBVIOUS
  <2>3. Upto(0)
    BY <2>1, <2>2
  <2>4. 0 \in 0..Len(s)
    OBVIOUS
  <2> HIDE DEF Upto
  <2>5. QED BY <2>3, <2>4
<1>2. ASSUME NEW j \in 1..Len(s), j - 1 \in S
      PROVE  j \in S
  <2>1. PICK f \in [0..j-1 -> T] :
          f[0] = start /\ \A i \in 1..j-1 : f[i] = step[f[i - 1]][s[i]]
    BY <1>2
  <2> DEFINE x == step[f[j - 1]][s[j]]
             e == [i \in 0..j |-> IF i < j THEN f[i] ELSE x]
  <2>2. x \in T
    <3>1. f[j - 1] \in T /\ s[j] \in B
      BY <2>1
    <3>2. QED BY <3>1
  <2>3. e \in [0..j -> T] /\ e[0] = start
    <3> HIDE DEF x
    <3>1. QED BY <2>1, <2>2
  <2>4. ASSUME NEW i \in 1..j
        PROVE  e[i] = step[e[i - 1]][s[i]]
    <3>1. CASE i = j
      <4>1. e[j] = x /\ e[j - 1] = f[j - 1]
        <5> HIDE DEF x
        <5>1. QED OBVIOUS
      <4> HIDE DEF e
      <4>2. QED BY <3>1, <4>1
    <3>2. CASE i # j
      <4>1. i \in 1..j-1 /\ i \in 0..j /\ i - 1 \in 0..j /\ i < j /\ i - 1 < j
        BY <3>2
      <4>2. e[i] = f[i] /\ e[i - 1] = f[i - 1]
        <5> HIDE DEF x
        <5>1. QED BY <4>1
      <4> HIDE DEF e
      <4>3. QED BY <2>1, <4>1, <4>2
    <3>3. QED BY <3>1, <3>2
  <2> HIDE DEF e, x
  <2>5. Upto(j)
    BY <2>3, <2>4
  <2>6. j \in 0..Len(s)
    OBVIOUS
  <2> HIDE DEF Upto
  <2>7. QED BY <2>5, <2>6
<1>3. Len(s) \in S
  <2> HIDE DEF S
  <2>1. Len(s) \in Nat /\ Len(s) \in 0..Len(s)
    OBVIOUS
  <2>2. QED BY <1>1, <1>2, <2>1, CountsUp
<1>4. QED BY <1>3 DEF Folds

-----------------------------------------------------------------------------
(* f goes along s and keeps the bytes of the kinds asked for. *)
Keeps(f, s, kinds) ==
  /\ f[0] = <<>>
  /\ \A i \in 1..Len(s) :
       f[i] = IF s[i] \in kinds THEN Append(f[i - 1], s[i]) ELSE f[i - 1]

(* Two ways along s, or beyond it, agree on s. *)
LEMMA KeepsAgree ==
  ASSUME NEW s \in Seq(Bytes), NEW t, Len(s) <= Len(t), Len(t) \in Nat,
         \A i \in 1..Len(s) : t[i] = s[i],
         NEW kinds, NEW f, NEW g, Keeps(f, s, kinds), Keeps(g, t, kinds)
  PROVE  \A i \in 0..Len(s) : f[i] = g[i]
<1> DEFINE n == Len(s)
<1>1. n \in Nat /\ \A i \in 1..n : i \in 1..Len(t)
  OBVIOUS
<1>2. f[0] = g[0] /\ \A i \in 1..n : f[i - 1] = g[i - 1] => f[i] = g[i]
  BY <1>1 DEF Keeps
<1> DEFINE S == {i \in 0..n : f[i] = g[i]}
<1>3. 0 \in S /\ \A i \in 1..n : i - 1 \in S => i \in S
  BY <1>1, <1>2
<1>4. \A i \in 0..n : i \in S
  <2> HIDE DEF S, n
  <2>1. QED BY <1>1, <1>3, CountsUp
<1>5. QED BY <1>4

(* There is such a way, and Kept ends where it does. *)
LEMMA KeptIs ==
  ASSUME NEW s \in Seq(Bytes), NEW kinds
  PROVE  \E f \in [0..Len(s) -> Seq(Bytes)] : Keeps(f, s, kinds) /\ Kept(s, kinds) = f[Len(s)]
<1> DEFINE step == [k \in Seq(Bytes) |->
                      [b \in Bytes |-> IF b \in kinds THEN Append(k, b) ELSE k]]
           Body(h) == [i \in 0..Len(s) |->
                         IF i = 0 THEN <<>>
                         ELSE IF s[i] \in kinds THEN Append(h[i - 1], s[i]) ELSE h[i - 1]]
           F == CHOOSE h : h = Body(h)
<1>1. step \in [Seq(Bytes) -> [Bytes -> Seq(Bytes)]] /\ <<>> \in Seq(Bytes)
  OBVIOUS
<1>2. PICK f \in [0..Len(s) -> Seq(Bytes)] :
        f[0] = <<>> /\ \A i \in 1..Len(s) : f[i] = step[f[i - 1]][s[i]]
  <2> DEFINE T == Seq(Bytes)
             none == <<>>
  <2>1. step \in [T -> [Bytes -> T]] /\ none \in T
    BY <1>1
  <2> HIDE DEF step, T, none
  <2>2. \E f \in [0..Len(s) -> T] : Folds(f, s, none, step)
    BY <2>1, FoldExists
  <2>3. QED BY <2>2 DEF Folds, T, none
<1>3. Keeps(f, s, kinds)
  <2>1. \A i \in 1..Len(s) : f[i - 1] \in Seq(Bytes) /\ s[i] \in Bytes
    OBVIOUS
  <2>2. QED BY <1>2, <2>1 DEF Keeps
<1>4. f = Body(f)
  <2>1. \A i \in 0..Len(s) : i # 0 => i \in 1..Len(s)
    OBVIOUS
  <2>2. \A i \in 0..Len(s) : f[i] = Body(f)[i]
    BY <1>3, <2>1 DEF Keeps
  <2>3. QED BY <2>2
<1>5. F = Body(F)
  <2> HIDE DEF Body
  <2>1. QED BY <1>4
<1> HIDE DEF F
<1>6. F[0] = <<>>
  <2>1. 0 \in 0..Len(s)
    OBVIOUS
  <2>2. QED BY <1>5, <2>1
<1>7. \A i \in 1..Len(s) :
        F[i] = IF s[i] \in kinds THEN Append(F[i - 1], s[i]) ELSE F[i - 1]
  <2> TAKE i \in 1..Len(s)
  <2>1. i \in 0..Len(s) /\ i # 0
    OBVIOUS
  <2>2. F[i] = Body(F)[i]
    BY <1>5
  <2>3. QED BY <2>1, <2>2
<1>8. \A i \in 0..Len(s) : F[i] = f[i]
  <2>1. Keeps(F, s, kinds)
    BY <1>6, <1>7 DEF Keeps
  <2>2. QED BY <1>3, <2>1, KeepsAgree
<1>9. Kept(s, kinds) = F[Len(s)]
  BY DEF Kept, F
<1>10. QED BY <1>3, <1>8, <1>9

(* Kept, one byte at a time. *)
LEMMA KeptNone == ASSUME NEW kinds PROVE Kept(<<>>, kinds) = <<>>
<1> DEFINE s == <<>>
<1>1. s \in Seq(Bytes) /\ Len(s) = 0
  OBVIOUS
<1> HIDE DEF s
<1>2. Kept(s, kinds) = <<>>
  <2>1. PICK f \in [0..Len(s) -> Seq(Bytes)] :
          Keeps(f, s, kinds) /\ Kept(s, kinds) = f[Len(s)]
    BY <1>1, KeptIs
  <2>2. QED BY <1>1, <2>1 DEF Keeps
<1>3. QED BY <1>2 DEF s

(* One more byte. *)
LEMMA KeptAppend ==
  ASSUME NEW s \in Seq(Bytes), NEW b \in Bytes, NEW kinds
  PROVE  /\ Kept(s, kinds) \in Seq(Bytes)
         /\ Kept(Append(s, b), kinds) =
              IF b \in kinds THEN Append(Kept(s, kinds), b) ELSE Kept(s, kinds)
<1> DEFINE t == Append(s, b)
<1>1. /\ t \in Seq(Bytes) /\ Len(t) = Len(s) + 1 /\ t[Len(s) + 1] = b
      /\ \A i \in 1..Len(s) : i \in 1..Len(t) /\ t[i] = s[i]
  OBVIOUS
<1> HIDE DEF t
<1>2. PICK f \in [0..Len(s) -> Seq(Bytes)] : Keeps(f, s, kinds) /\ Kept(s, kinds) = f[Len(s)]
  BY KeptIs
<1>3. PICK h \in [0..Len(t) -> Seq(Bytes)] : Keeps(h, t, kinds) /\ Kept(t, kinds) = h[Len(t)]
  BY <1>1, KeptIs
<1>4. \A i \in 0..Len(s) : f[i] = h[i]
  BY <1>1, <1>2, <1>3, KeepsAgree
<1>5. Kept(s, kinds) = h[Len(s)] /\ Kept(s, kinds) \in Seq(Bytes)
  BY <1>2, <1>4
<1>6. h[Len(t)] = IF b \in kinds THEN Append(h[Len(s)], b) ELSE h[Len(s)]
  BY <1>1, <1>3 DEF Keeps
<1>7. QED BY <1>3, <1>5, <1>6 DEF t

-----------------------------------------------------------------------------
NumberType == [value : Nat, colon : BOOLEAN]
NumbersType == Seq(NumberType) \ {<<>>}
First == <<[value |-> 0, colon |-> FALSE]>>

(* One more byte of text, as Numbers reads it. *)
Goes(w, b) ==
  IF b \in Separators THEN Append(w, [value |-> 0, colon |-> b = ":"])
  ELSE [w EXCEPT ![Len(w)].value = @ * Base + DigitValue(b)]

Reads(f, s) == f[0] = First /\ \A i \in 1..Len(s) : f[i] = Goes(f[i - 1], s[i])

(* A separator begins another number. *)
LEMMA GoesSeparator ==
  ASSUME NEW w \in NumbersType, NEW b \in Separators
  PROVE  /\ Goes(w, b) \in NumbersType
         /\ Len(Goes(w, b)) = Len(w) + 1
         /\ Goes(w, b)[Len(w) + 1] = [value |-> 0, colon |-> b = ":"]
         /\ \A i \in 1..Len(w) : Goes(w, b)[i] = w[i]
<1> DEFINE e == [value |-> 0, colon |-> b = ":"]
<1>1. w \in Seq(NumberType) /\ Len(w) \in Nat /\ e \in NumberType
  BY DEF NumbersType, NumberType
<1>2. Goes(w, b) = Append(w, e)
  BY DEF Goes
<1> HIDE DEF e
<1>3. /\ Append(w, e) \in Seq(NumberType) /\ Len(Append(w, e)) = Len(w) + 1
      /\ Append(w, e)[Len(w) + 1] = e /\ \A i \in 1..Len(w) : Append(w, e)[i] = w[i]
  BY <1>1
<1>4. Append(w, e) # <<>>
  BY <1>1, <1>3
<1>5. QED BY <1>2, <1>3, <1>4 DEF NumbersType, e

(* A digit extends the last one. *)
LEMMA GoesDigit ==
  ASSUME NEW w \in NumbersType, NEW b, b \notin Separators
  PROVE  /\ Goes(w, b) \in NumbersType
         /\ Len(Goes(w, b)) = Len(w)
         /\ Goes(w, b)[Len(w)].value = w[Len(w)].value * Base + DigitValue(b)
         /\ Goes(w, b)[Len(w)].colon = w[Len(w)].colon
         /\ \A i \in 1..Len(w) - 1 : Goes(w, b)[i] = w[i]
<1> DEFINE n == Len(w)
           v == w[n].value * Base + DigitValue(b)
           e == [w[n] EXCEPT !.value = v]
           u == [w EXCEPT ![n] = e]
<1>1. w \in Seq(NumberType) /\ n \in Nat /\ n # 0 /\ n \in 1..n
  BY DEF NumbersType
<1>2. w[n] \in NumberType
  BY <1>1
<1>3. v \in Nat
  <2>1. \A x, y \in Nat : x * y \in Nat
    OBVIOUS
  <2>2. w[n].value \in Nat /\ Base \in Nat /\ DigitValue(b) \in Nat
    BY <1>2, ParamsAssumption DEF NumberType, DigitValue
  <2>3. w[n].value * Base \in Nat
    BY <2>1, <2>2
  <2>4. QED BY <2>2, <2>3
<1>4. Goes(w, b) = u
  BY <1>1, <1>2 DEF Goes, NumberType
<1> HIDE DEF v
<1>5. e \in NumberType /\ e.value = v /\ e.colon = w[n].colon
  BY <1>2, <1>3 DEF NumberType
<1> HIDE DEF e
<1>6. /\ u \in Seq(NumberType) /\ Len(u) = n /\ u[n] = e
      /\ \A i \in 1..n - 1 : u[i] = w[i]
  BY <1>1, <1>5
<1>7. u # <<>>
  BY <1>1, <1>6
<1> HIDE DEF u
<1>8. /\ u \in NumbersType /\ Len(u) = Len(w) /\ u[Len(w)].value = v
      /\ u[Len(w)].colon = w[Len(w)].colon /\ \A i \in 1..Len(w) - 1 : u[i] = w[i]
  BY <1>5, <1>6, <1>7 DEF NumbersType
<1> HIDE DEF n
<1>9. v = w[Len(w)].value * Base + DigitValue(b)
  BY DEF v, n
<1>10. QED BY <1>4, <1>8, <1>9

(* Either leaves numbers. *)
LEMMA GoesType ==
  ASSUME NEW w \in NumbersType, NEW b
  PROVE  Goes(w, b) \in NumbersType
BY GoesSeparator, GoesDigit

(* Two ways of reading s, or beyond it, agree on s. *)
LEMMA ReadsAgree ==
  ASSUME NEW s \in Seq(ParamBytes), NEW t, Len(s) <= Len(t), Len(t) \in Nat,
         \A i \in 1..Len(s) : t[i] = s[i],
         NEW f, NEW g, Reads(f, s), Reads(g, t)
  PROVE  \A i \in 0..Len(s) : f[i] = g[i]
<1> DEFINE n == Len(s)
<1>1. n \in Nat /\ \A i \in 1..n : i \in 1..Len(t)
  OBVIOUS
<1>2. f[0] = g[0] /\ \A i \in 1..n : f[i - 1] = g[i - 1] => f[i] = g[i]
  BY <1>1 DEF Reads
<1> DEFINE S == {i \in 0..n : f[i] = g[i]}
<1>3. 0 \in S /\ \A i \in 1..n : i - 1 \in S => i \in S
  BY <1>1, <1>2
<1>4. \A i \in 0..n : i \in S
  <2> HIDE DEF S, n
  <2>1. QED BY <1>1, <1>3, CountsUp
<1>5. QED BY <1>4

(* There is such a way, and Numbers ends where it does. *)
LEMMA NumbersIs ==
  ASSUME NEW s \in Seq(ParamBytes)
  PROVE  \E f \in [0..Len(s) -> NumbersType] : Reads(f, s) /\ Numbers(s) = f[Len(s)]
<1> DEFINE step == [w \in NumbersType |-> [b \in ParamBytes |-> Goes(w, b)]]
           Body(h) == [i \in 0..Len(s) |->
                         IF i = 0 THEN <<[value |-> 0, colon |-> FALSE]>>
                         ELSE IF s[i] \in Separators
                         THEN Append(h[i - 1], [value |-> 0, colon |-> s[i] = ":"])
                         ELSE [h[i - 1] EXCEPT
                                 ![Len(h[i - 1])].value = @ * Base + DigitValue(s[i])]]
           F == CHOOSE h : h = Body(h)
<1>1. step \in [NumbersType -> [ParamBytes -> NumbersType]] /\ First \in NumbersType
  <2>1. First \in NumbersType
    <3> DEFINE e == [value |-> 0, colon |-> FALSE]
    <3>1. e \in NumberType
      BY DEF NumberType
    <3> HIDE DEF e
    <3>2. <<e>> \in Seq(NumberType) /\ <<e>> # <<>>
      BY <3>1
    <3>3. QED BY <3>2 DEF First, NumbersType, e
  <2>2. \A w \in NumbersType : \A b \in ParamBytes : Goes(w, b) \in NumbersType
    BY GoesType
  <2>3. QED BY <2>1, <2>2
<1>2. PICK f \in [0..Len(s) -> NumbersType] : Folds(f, s, First, step)
  <2> HIDE DEF step
  <2>1. QED BY <1>1, FoldExists
<1>3. Reads(f, s)
  <2>1. \A i \in 1..Len(s) : f[i - 1] \in NumbersType /\ s[i] \in ParamBytes
    OBVIOUS
  <2>2. QED BY <1>2, <2>1 DEF Reads, Folds
<1>4. f = Body(f)
  <2>1. \A i \in 0..Len(s) : i # 0 => i \in 1..Len(s)
    OBVIOUS
  <2>2. \A i \in 0..Len(s) : f[i] = Body(f)[i]
    BY <1>3, <2>1 DEF Reads, Goes, First
  <2>3. QED BY <2>2
<1>5. F = Body(F)
  <2> HIDE DEF Body
  <2>1. QED BY <1>4
<1> HIDE DEF F
<1>6. F[0] = First
  <2>1. 0 \in 0..Len(s)
    OBVIOUS
  <2>2. F[0] = Body(F)[0]
    BY <1>5
  <2>3. QED BY <2>1, <2>2 DEF First
<1>7. \A i \in 1..Len(s) : F[i] = Goes(F[i - 1], s[i])
  <2> TAKE i \in 1..Len(s)
  <2>1. i \in 0..Len(s) /\ i # 0
    OBVIOUS
  <2>2. F[i] = Body(F)[i]
    BY <1>5
  <2>3. QED BY <2>1, <2>2 DEF Goes
<1>8. \A i \in 0..Len(s) : F[i] = f[i]
  <2>1. Reads(F, s)
    BY <1>6, <1>7 DEF Reads
  <2>2. QED BY <1>3, <2>1, ReadsAgree
<1>9. Numbers(s) = F[Len(s)]
  BY DEF Numbers, F
<1>10. QED BY <1>3, <1>8, <1>9

(* Numbers, one byte at a time. *)
LEMMA NumbersNone == Numbers(<<>>) = First
<1> DEFINE s == <<>>
<1>1. s \in Seq(ParamBytes) /\ Len(s) = 0
  OBVIOUS
<1> HIDE DEF s
<1>2. PICK f \in [0..Len(s) -> NumbersType] : Reads(f, s) /\ Numbers(s) = f[Len(s)]
  BY <1>1, NumbersIs
<1>3. Numbers(s) = First
  BY <1>1, <1>2 DEF Reads
<1>4. QED BY <1>3 DEF s

(* One more byte. *)
LEMMA NumbersAppend ==
  ASSUME NEW s \in Seq(ParamBytes), NEW b \in ParamBytes
  PROVE  Numbers(s) \in NumbersType /\ Numbers(Append(s, b)) = Goes(Numbers(s), b)
<1> DEFINE t == Append(s, b)
<1>1. /\ t \in Seq(ParamBytes) /\ Len(t) = Len(s) + 1 /\ t[Len(s) + 1] = b
      /\ \A i \in 1..Len(s) : i \in 1..Len(t) /\ t[i] = s[i]
  OBVIOUS
<1> HIDE DEF t
<1>2. PICK f \in [0..Len(s) -> NumbersType] : Reads(f, s) /\ Numbers(s) = f[Len(s)]
  BY NumbersIs
<1>3. PICK h \in [0..Len(t) -> NumbersType] : Reads(h, t) /\ Numbers(t) = h[Len(t)]
  BY <1>1, NumbersIs
<1>4. \A i \in 0..Len(s) : f[i] = h[i]
  BY <1>1, <1>2, <1>3, ReadsAgree
<1>5. Numbers(s) = h[Len(s)] /\ Numbers(s) \in NumbersType
  BY <1>2, <1>4
<1>6. h[Len(t)] = Goes(h[Len(s)], b)
  BY <1>1, <1>3 DEF Reads
<1>7. QED BY <1>3, <1>5, <1>6 DEF t


(* Cutting a number off at each digit is cutting it off at the end. *)
LEMMA AtMostGoesOn ==
  ASSUME NEW v \in Nat, NEW d \in Nat
  PROVE  AtMost(AtMost(AtMost(v, MaxCurrent) * Base, MaxCurrent) + d, MaxCurrent)
           = AtMost(v * Base + d, MaxCurrent)
<1>1. MaxCurrent \in Nat /\ Base \in Nat \ {0}
  BY ParamsAssumption
<1>2. \A x \in Nat : x * Base \in Nat /\ x * Base >= x
  <2> TAKE x \in Nat
  <2>1. PICK c \in Nat : Base = c + 1
    <3>1. Base - 1 \in Nat /\ Base = (Base - 1) + 1
      BY <1>1
    <3>2. QED BY <3>1
  <2>2. \A y \in Nat : x * y \in Nat /\ x * (y + 1) = (x * y) + x
    OBVIOUS
  <2>3. QED BY <2>1, <2>2
<1> DEFINE m == MaxCurrent
           y == v * Base
           z == m * Base
<1>3. y \in Nat /\ y >= v /\ z \in Nat /\ z >= m
  BY <1>1, <1>2
<1>4. CASE v < m
  <2>1. AtMost(v, m) * Base = y
    BY <1>4 DEF AtMost
  <2> HIDE DEF y
  <2>2. AtMost(AtMost(y, m) + d, m) = AtMost(y + d, m)
    BY <1>1, <1>3 DEF AtMost
  <2>3. QED BY <2>1, <2>2 DEF y
<1>5. CASE ~(v < m)
  <2>1. AtMost(v, m) * Base = z
    BY <1>5 DEF AtMost
  <2> HIDE DEF y, z
  <2>2. AtMost(AtMost(z, m) + d, m) = AtMost(y + d, m)
    BY <1>1, <1>3, <1>5 DEF AtMost
  <2>3. QED BY <2>1, <2>2 DEF y
<1>6. QED BY <1>4, <1>5

(* A value cut to 32 bits and then to 16 is cut to 16. *)
LEMMA AtMostNarrows ==
  ASSUME NEW v \in Nat
  PROVE  AtMost(AtMost(v, MaxCurrent), MaxValue) = AtMost(v, MaxValue)
  BY ParamsAssumption DEF AtMost

(* What the accumulator holds when it has been given the bytes of t: all    *)
(* numbers but the last, as many as fit, and of the last what it must.      *)
AsRead(p, t) ==
  LET w == Numbers(t)
      n == Len(w)
  IN  /\ Len(p.values) = AtMost(n - 1, MaxParams)
      /\ \A k \in 1..Len(p.values) :
           p.values[k] = AtMost(w[k].value, MaxValue) /\ p.flags[k] = w[k].colon
      /\ p.current = AtMost(w[n].value, MaxCurrent)
      /\ p.pending_colon = w[n].colon
      /\ ~p.has_current => w[n].value = 0
      /\ t = <<>> => n = 1 /\ ~p.has_current /\ ~p.trailing_sep
      /\ t # <<>> /\ Last(t) \in Digits => p.has_current
      /\ t # <<>> /\ Last(t) = ";" => p.trailing_sep /\ ~w[n].colon

(* Before the first byte. *)
LEMMA AsReadNone == AsRead(NoParams, <<>>)
<1> DEFINE none == <<>>
           w == Numbers(none)
<1>1. /\ Len(w) = 1 /\ w[1].value = 0 /\ w[1].colon = FALSE
  BY NumbersNone DEF First
<1>2. none = <<>> /\ Len(none) = 0 /\ AtMost(0, MaxParams) = 0 /\ AtMost(0, MaxCurrent) = 0
  BY ParamsAssumption DEF AtMost
<1> HIDE DEF w, none
<1>3. /\ NoParams.values = none /\ NoParams.current = 0 /\ NoParams.has_current = FALSE
      /\ NoParams.trailing_sep = FALSE /\ NoParams.pending_colon = FALSE
  BY DEF NoParams, none
<1>4. Len(NoParams.values) = 0 /\ \A k \in 1..0 : FALSE
  BY <1>2, <1>3
<1>5. /\ Len(NoParams.values) = AtMost(Len(w) - 1, MaxParams)
      /\ NoParams.current = AtMost(w[1].value, MaxCurrent)
  BY <1>1, <1>2, <1>3, <1>4
<1>6. \A k \in 1..Len(NoParams.values) :
        NoParams.values[k] = AtMost(w[k].value, MaxValue) /\ NoParams.flags[k] = w[k].colon
  BY <1>4
<1>7. AsRead(NoParams, none)
  BY <1>1, <1>2, <1>3, <1>5, <1>6 DEF AsRead, w
<1>8. QED BY <1>7 DEF none

(* The last of a sequence that has just grown. *)
LEMMA LastAppended ==
  ASSUME NEW S, NEW t \in Seq(S), NEW b \in S
  PROVE  Append(t, b) # <<>> /\ Last(Append(t, b)) = b
<1> DEFINE u == Append(t, b)
<1>1. Len(u) = Len(t) + 1 /\ u[Len(t) + 1] = b /\ Len(t) \in Nat
  OBVIOUS
<1>2. u # <<>>
  BY <1>1
<1> HIDE DEF u
<1>3. QED BY <1>1, <1>2 DEF Last, u

(* A digit (PushDigit, params.rs). *)
LEMMA DigitAsRead ==
  ASSUME NEW p, ParamsWhole(p), NEW t \in Seq(ParamBytes), AsRead(p, t), NEW b \in Digits
  PROVE  AsRead(PushDigit(p, b), Append(t, b))
<1> DEFINE u == Append(t, b)
           w == Numbers(t)
           x == Numbers(u)
           n == Len(w)
           q == PushDigit(p, b)
<1>1. b \in ParamBytes /\ b \notin Separators /\ b # ";" /\ DigitValue(b) \in Nat
  BY DEF ParamBytes, Digits, Separators, DigitValue
<1>2. u # <<>> /\ Last(u) = b
  BY <1>1, LastAppended
<1>3. /\ w \in NumbersType /\ x \in NumbersType /\ Len(x) = n
      /\ x[n].value = w[n].value * Base + DigitValue(b) /\ x[n].colon = w[n].colon
      /\ \A i \in 1..n - 1 : x[i] = w[i]
  <2>1. w \in NumbersType /\ x = Goes(w, b)
    BY <1>1, NumbersAppend
  <2> HIDE DEF w, x
  <2>2. Goes(w, b) \in NumbersType
    BY <2>1, GoesType
  <2>3. /\ Len(Goes(w, b)) = Len(w)
        /\ Goes(w, b)[Len(w)].value = w[Len(w)].value * Base + DigitValue(b)
        /\ Goes(w, b)[Len(w)].colon = w[Len(w)].colon
        /\ \A i \in 1..Len(w) - 1 : Goes(w, b)[i] = w[i]
    BY <1>1, <2>1, GoesDigit
  <2>4. QED BY <2>1, <2>2, <2>3
<1>4. n \in Nat \ {0} /\ w[n].value \in Nat
  <2> HIDE DEF w
  <2>1. w \in Seq(NumberType) /\ w # <<>>
    BY <1>3 DEF NumbersType
  <2>2. n \in Nat \ {0} /\ w[n] \in NumberType
    BY <2>1
  <2>3. QED BY <2>2 DEF NumberType
<1>5. /\ Len(p.values) = AtMost(n - 1, MaxParams)
      /\ \A k \in 1..Len(p.values) :
           p.values[k] = AtMost(w[k].value, MaxValue) /\ p.flags[k] = w[k].colon
      /\ p.current = AtMost(w[n].value, MaxCurrent)
      /\ p.pending_colon = w[n].colon
  BY DEF AsRead
<1>6. /\ q.values = p.values /\ q.flags = p.flags /\ q.pending_colon = p.pending_colon
      /\ q.has_current = TRUE
      /\ q.current = AtMost(AtMost(p.current * Base, MaxCurrent) + DigitValue(b), MaxCurrent)
  BY DEF PushDigit, ParamsWhole, ParamsType
<1> HIDE DEF w, x, q, u
<1>7. q.current = AtMost(x[n].value, MaxCurrent)
  <2> DEFINE v == w[n].value
             d == DigitValue(b)
  <2>1. v \in Nat /\ d \in Nat
    BY <1>1, <1>4
  <2>2. p.current = AtMost(v, MaxCurrent) /\ x[n].value = v * Base + d
    BY <1>3, <1>5
  <2>3. q.current = AtMost(AtMost(p.current * Base, MaxCurrent) + d, MaxCurrent)
    BY <1>6
  <2> HIDE DEF v, d, n
  <2>4. AtMost(AtMost(AtMost(v, MaxCurrent) * Base, MaxCurrent) + d, MaxCurrent)
          = AtMost(v * Base + d, MaxCurrent)
    BY <2>1, AtMostGoesOn
  <2>5. QED BY <2>2, <2>3, <2>4
<1>8. \A k \in 1..Len(p.values) : k \in 1..n - 1
  BY <1>4, <1>5, ParamsAssumption DEF AtMost
<1>9. \A k \in 1..Len(q.values) :
        q.values[k] = AtMost(x[k].value, MaxValue) /\ q.flags[k] = x[k].colon
  BY <1>3, <1>5, <1>6, <1>8
<1>10. Len(q.values) = AtMost(Len(x) - 1, MaxParams)
  BY <1>3, <1>5, <1>6
<1> HIDE DEF n
<1>11. AsRead(q, u)
  BY <1>1, <1>2, <1>3, <1>5, <1>6, <1>7, <1>9, <1>10 DEF AsRead, x
<1>12. QED BY <1>11 DEF q, u


(* The value that a separator or the end of a sequence stores. *)
LEMMA PendingAsRead ==
  ASSUME NEW p, NEW t \in Seq(ParamBytes), AsRead(p, t)
  PROVE  LET w == Numbers(t)
         IN  /\ Len(w) \in Nat \ {0} /\ w[Len(w)] \in NumberType
             /\ Pending(p) = AtMost(w[Len(w)].value, MaxValue)
<1> DEFINE w == Numbers(t)
           n == Len(w)
<1>1. w \in NumbersType
  <2>1. PICK f \in [0..Len(t) -> NumbersType] : Reads(f, t) /\ Numbers(t) = f[Len(t)]
    BY NumbersIs
  <2>2. Len(t) \in 0..Len(t)
    OBVIOUS
  <2>3. QED BY <2>1, <2>2
<1>2. p.current = AtMost(w[n].value, MaxCurrent) /\ (~p.has_current => w[n].value = 0)
  BY DEF AsRead
<1> HIDE DEF w
<1>3. w \in Seq(NumberType) /\ w # <<>>
  BY <1>1 DEF NumbersType
<1>4. n \in Nat \ {0} /\ w[n] \in NumberType
  BY <1>3
<1>5. w[n].value \in Nat
  BY <1>4 DEF NumberType
<1>6. CASE p.has_current
  <2>1. Pending(p) = AtMost(AtMost(w[n].value, MaxCurrent), MaxValue)
    BY <1>2, <1>6 DEF Pending
  <2>2. QED BY <1>4, <1>5, <2>1, AtMostNarrows DEF w
<1>7. CASE ~p.has_current
  <2>1. Pending(p) = 0 /\ w[n].value = 0
    BY <1>2, <1>7 DEF Pending
  <2>2. AtMost(0, MaxValue) = 0
    BY ParamsAssumption DEF AtMost
  <2>3. QED BY <1>4, <2>1, <2>2 DEF w
<1>8. QED BY <1>6, <1>7

(* A separator (PushSeparator, params.rs). *)
LEMMA SeparatorAsRead ==
  ASSUME NEW p, ParamsWhole(p), NEW t \in Seq(ParamBytes), AsRead(p, t), NEW b \in Separators
  PROVE  AsRead(PushSeparator(p, b), Append(t, b))
<1> DEFINE u == Append(t, b)
           w == Numbers(t)
           x == Numbers(u)
           n == Len(w)
           q == PushSeparator(p, b)
<1>1. b \in ParamBytes /\ b \notin Digits /\ b \in {";", ":"}
  BY DEF ParamBytes, Digits, Separators
<1>2. u # <<>> /\ Last(u) = b
  BY <1>1, LastAppended
<1>3. /\ n \in Nat \ {0} /\ w[n] \in NumberType
      /\ Pending(p) = AtMost(w[n].value, MaxValue)
  BY PendingAsRead
<1>4. /\ Len(x) = n + 1 /\ x[n + 1].value = 0 /\ x[n + 1].colon = (b = ":")
      /\ \A i \in 1..n : x[i] = w[i]
  <2>1. w \in NumbersType /\ x = Goes(w, b)
    BY <1>1, NumbersAppend
  <2> DEFINE e == [value |-> 0, colon |-> b = ":"]
             y == Goes(w, b)
  <2> HIDE DEF w, x
  <2>2. /\ Len(y) = Len(w) + 1 /\ y[Len(w) + 1] = e
        /\ \A i \in 1..Len(w) : y[i] = w[i]
    BY <2>1, GoesSeparator
  <2>3. e.value = 0 /\ e.colon = (b = ":")
    OBVIOUS
  <2> HIDE DEF e, y
  <2>4. x = y
    BY <2>1 DEF y
  <2>5. QED BY <2>2, <2>3, <2>4
<1>5. /\ Len(p.values) = AtMost(n - 1, MaxParams)
      /\ \A k \in 1..Len(p.values) :
           p.values[k] = AtMost(w[k].value, MaxValue) /\ p.flags[k] = w[k].colon
      /\ p.pending_colon = w[n].colon
  BY DEF AsRead
<1>6. /\ q.values = IF HasRoom(p) THEN Append(p.values, Pending(p)) ELSE p.values
      /\ q.flags = IF HasRoom(p) THEN Append(p.flags, p.pending_colon) ELSE p.flags
      /\ q.current = 0 /\ q.has_current = FALSE /\ q.pending_colon = (b = ":")
      /\ q.trailing_sep = (b = ";" \/ p.trailing_sep)
  BY DEF PushSeparator
<1>7. /\ p.values \in Seq(0..MaxValue) /\ p.flags \in Seq(BOOLEAN)
      /\ Len(p.flags) = Len(p.values) /\ MaxParams \in Nat
  BY ParamsAssumption DEF ParamsWhole, ParamsType
<1> HIDE DEF w, x, q, u, n
<1>8. /\ Len(q.values) = AtMost(Len(x) - 1, MaxParams)
      /\ \A k \in 1..Len(q.values) :
           q.values[k] = AtMost(x[k].value, MaxValue) /\ q.flags[k] = x[k].colon
  <2>1. \A k \in 1..Len(p.values) : k \in 1..n
    BY <1>3, <1>5, <1>7 DEF AtMost
  <2>2. CASE HasRoom(p)
    <3>1. Len(p.values) = n - 1 /\ n - 1 < MaxParams
      BY <1>3, <1>5, <1>7, <2>2 DEF HasRoom, AtMost
    <3> DEFINE v == Pending(p)
               c == p.pending_colon
    <3>2. q.values = Append(p.values, v) /\ q.flags = Append(p.flags, c)
      BY <1>6, <2>2
    <3>3. v = AtMost(x[n].value, MaxValue) /\ c = x[n].colon
      BY <1>3, <1>4, <1>5
    <3> HIDE DEF v, c
    <3>4. /\ Len(q.values) = n /\ q.values[n] = v /\ q.flags[n] = c
          /\ \A k \in 1..n - 1 : q.values[k] = p.values[k] /\ q.flags[k] = p.flags[k]
      BY <1>3, <1>7, <3>1, <3>2
    <3>5. AtMost(n, MaxParams) = n
      BY <1>3, <1>7, <3>1 DEF AtMost
    <3>6. \A k \in 1..n : k = n \/ k \in 1..n - 1
      BY <1>3
    <3>7. \A k \in 1..n - 1 :
            q.values[k] = AtMost(x[k].value, MaxValue) /\ q.flags[k] = x[k].colon
      BY <1>4, <1>5, <2>1, <3>1, <3>4
    <3>8. QED BY <1>3, <1>4, <3>3, <3>4, <3>5, <3>6, <3>7
  <2>3. CASE ~HasRoom(p)
    <3>1. Len(p.values) = MaxParams /\ ~(n - 1 < MaxParams)
      BY <1>3, <1>5, <1>7, <2>3 DEF HasRoom, AtMost
    <3>2. AtMost(n, MaxParams) = MaxParams
      BY <1>3, <1>7, <3>1 DEF AtMost
    <3>3. q.values = p.values /\ q.flags = p.flags
      BY <1>6, <2>3
    <3>4. Len(q.values) = AtMost(Len(x) - 1, MaxParams)
      BY <1>3, <1>4, <3>1, <3>2, <3>3
    <3>5. \A k \in 1..Len(q.values) :
            q.values[k] = AtMost(x[k].value, MaxValue) /\ q.flags[k] = x[k].colon
      BY <1>4, <1>5, <2>1, <3>3
    <3>6. QED BY <3>4, <3>5
  <2>4. QED BY <2>2, <2>3
<1>9. q.current = AtMost(x[n + 1].value, MaxCurrent)
  <2>1. AtMost(0, MaxCurrent) = 0
    BY ParamsAssumption DEF AtMost
  <2>2. QED BY <1>4, <1>6, <2>1
<1>10. AsRead(q, u)
  BY <1>1, <1>2, <1>4, <1>6, <1>8, <1>9 DEF AsRead, x
<1>11. QED BY <1>10 DEF q, u

(* Either. *)
LEMMA PushAsRead ==
  ASSUME NEW p, ParamsWhole(p), NEW t \in Seq(ParamBytes), AsRead(p, t), NEW b \in ParamBytes
  PROVE  ParamsWhole(push(p, b)) /\ AsRead(push(p, b), Append(t, b))
<1>1. CASE b \in Digits
  BY <1>1, DigitAsRead, PushDigitWhole DEF push
<1>2. CASE b \in Separators
  <2>1. b \notin Digits
    BY <1>2 DEF Separators, Digits
  <2>2. QED BY <1>2, <2>1, SeparatorAsRead, PushSeparatorWhole DEF push
<1>3. QED BY <1>1, <1>2 DEF ParamBytes

(* The last number fits or it does not. *)
LEMMA AtMostLast ==
  ASSUME NEW m \in Nat \ {0}, NEW max \in Nat
  PROVE  /\ AtMost(0, max) = 0 /\ 0 \in 0..max
         /\ AtMost(m - 1, max) < max =>
              /\ AtMost(m - 1, max) = m - 1 /\ m - 1 < max
              /\ AtMost(m, max) = m /\ m \in 0..max
         /\ ~(AtMost(m - 1, max) < max) =>
              AtMost(m - 1, max) = max /\ AtMost(m, max) = max /\ max \in 0..max
  BY DEF AtMost

(* What would be handed over: every number, as many as fit. *)
LEMMA FinishedAsRead ==
  ASSUME NEW p, ParamsWhole(p), NEW t \in Seq(ParamBytes), AsRead(p, t),
         t = <<>> \/ Last(t) # ":"
  PROVE  LET w == Numbers(t)
             n == IF t = <<>> THEN 0 ELSE AtMost(Len(w), MaxParams)
         IN  /\ n \in 0..MaxParams /\ finished_len(p) = n
             /\ finished(p) = [k \in 1..n |-> AtMost(w[k].value, MaxValue)]
             /\ finished_subparam_flags(p) = [k \in 1..n |-> w[k].colon]
<1> DEFINE w == Numbers(t)
           m == Len(w)
           n == IF t = <<>> THEN 0 ELSE AtMost(m, MaxParams)
<1>1. /\ m \in Nat \ {0} /\ w[m] \in NumberType
      /\ Pending(p) = AtMost(w[m].value, MaxValue)
  BY PendingAsRead
<1>2. /\ Len(p.values) = AtMost(m - 1, MaxParams)
      /\ \A k \in 1..Len(p.values) :
           p.values[k] = AtMost(w[k].value, MaxValue) /\ p.flags[k] = w[k].colon
      /\ p.pending_colon = w[m].colon
      /\ t = <<>> => m = 1 /\ ~p.has_current /\ ~p.trailing_sep
      /\ t # <<>> /\ Last(t) \in Digits => p.has_current
      /\ t # <<>> /\ Last(t) = ";" => p.trailing_sep /\ ~w[m].colon
  BY DEF AsRead
<1>3. /\ p.values \in Seq(0..MaxValue) /\ p.flags \in Seq(BOOLEAN)
      /\ Len(p.flags) = Len(p.values) /\ MaxParams \in Nat
      /\ p.has_current \in BOOLEAN /\ p.pending_colon \in BOOLEAN
  BY ParamsAssumption DEF ParamsWhole, ParamsType
<1>4. t # <<>> => Last(t) \in Digits \/ Last(t) = ";"
  <2>1. t # <<>> => t[Len(t)] \in ParamBytes
    OBVIOUS
  <2>2. QED BY <2>1 DEF Last, ParamBytes, Separators
<1> HIDE DEF w, m
<1>5. CASE Unfinished(p)
  <2>1. /\ t # <<>> /\ Len(p.values) = m - 1 /\ m - 1 < MaxParams
    <3>1. t # <<>> /\ Len(p.values) < MaxParams
      BY <1>2, <1>5 DEF Unfinished, HasRoom
    <3>2. Len(p.values) = AtMost(m - 1, MaxParams)
      BY <1>2
    <3>3. m \in Nat \ {0} /\ MaxParams \in Nat
      BY <1>1, <1>3
    <3>4. QED BY <3>1, <3>2, <3>3, AtMostLast
  <2>2. n = m /\ m \in 0..MaxParams
    BY <1>1, <1>3, <2>1 DEF AtMost
  <2> DEFINE v == Pending(p)
             c == p.has_current /\ p.pending_colon
             vs == Append(p.values, v)
             cs == Append(p.flags, c)
  <2>3. c = w[m].colon /\ c \in BOOLEAN
    <3>1. w[m].colon \in BOOLEAN
      BY <1>1 DEF NumberType
    <3>2. CASE p.has_current
      BY <1>2, <1>3, <3>1, <3>2
    <3>3. CASE ~p.has_current
      BY <1>2, <1>4, <2>1, <3>1, <3>3
    <3>4. QED BY <3>2, <3>3
  <2>4. v = AtMost(w[m].value, MaxValue)
    BY <1>1
  <2>5. finished(p) = vs /\ finished_subparam_flags(p) = cs /\ finished_len(p) = m
    BY <1>1, <1>5, <2>1 DEF finished, finished_subparam_flags, finished_len
  <2> HIDE DEF v, c, n
  <2>6. /\ vs = [k \in 1..m |-> IF k = m THEN v ELSE p.values[k]]
        /\ cs = [k \in 1..m |-> IF k = m THEN c ELSE p.flags[k]]
    BY <1>1, <1>3, <2>1
  <2> HIDE DEF vs, cs
  <2>7. \A k \in 1..m : k = m \/ k \in 1..Len(p.values)
    BY <1>1, <2>1
  <2>8. vs = [k \in 1..m |-> AtMost(w[k].value, MaxValue)]
    BY <1>2, <2>4, <2>6, <2>7
  <2>9. cs = [k \in 1..m |-> w[k].colon]
    BY <1>2, <2>3, <2>6, <2>7
  <2>10. QED BY <2>2, <2>5, <2>8, <2>9 DEF n, m, w
<1>6. CASE ~Unfinished(p)
  <2>1. Len(p.values) = n /\ n \in 0..MaxParams
    <3>1. CASE t = <<>>
      <4>1. n = 0 /\ m = 1
        BY <1>2, <3>1
      <4>2. Len(p.values) = AtMost(m - 1, MaxParams)
        BY <1>2
      <4> HIDE DEF n
      <4>3. Len(p.values) = AtMost(0, MaxParams)
        BY <4>1, <4>2
      <4>4. AtMost(0, MaxParams) = 0 /\ 0 \in 0..MaxParams
        BY <1>1, <1>3, AtMostLast
      <4>5. QED BY <4>1, <4>3, <4>4
    <3>2. CASE t # <<>>
      <4>1. ~HasRoom(p)
        BY <1>2, <1>4, <1>6, <3>2 DEF Unfinished
      <4>2. n = AtMost(m, MaxParams)
        BY <3>2
      <4> HIDE DEF n
      <4>3. Len(p.values) = AtMost(m - 1, MaxParams) /\ ~(Len(p.values) < MaxParams)
        BY <1>2, <4>1 DEF HasRoom
      <4>4. m \in Nat \ {0} /\ MaxParams \in Nat
        BY <1>1, <1>3
      <4>5. QED BY <4>2, <4>3, <4>4, AtMostLast
    <3>3. QED BY <3>1, <3>2
  <2>2. /\ finished(p) = p.values /\ finished_subparam_flags(p) = p.flags
        /\ finished_len(p) = Len(p.values)
    BY <1>6 DEF finished, finished_subparam_flags, finished_len
  <2> HIDE DEF n
  <2>3. p.values = [k \in 1..n |-> AtMost(w[k].value, MaxValue)]
    <3>1. p.values = [k \in 1..n |-> p.values[k]]
      BY <1>3, <2>1
    <3>2. QED BY <1>2, <2>1, <3>1
  <2>4. p.flags = [k \in 1..n |-> w[k].colon]
    <3>1. p.flags = [k \in 1..n |-> p.flags[k]]
      BY <1>3, <2>1
    <3>2. QED BY <1>2, <2>1, <3>1
  <2>5. QED BY <2>1, <2>2, <2>3, <2>4 DEF n, m, w
<1>7. QED BY <1>5, <1>6

(* Reading one parameter is reading what would be handed over. *)
LEMMA GetAsRead ==
  ASSUME NEW p, ParamsWhole(p), NEW i \in Nat, NEW d
  PROVE  get(p, i, d) = IF i < finished_len(p) THEN finished(p)[i + 1] ELSE d
<1>1. p.values \in Seq(0..MaxValue)
  BY DEF ParamsWhole, ParamsType
<1> DEFINE v == Pending(p)
           m == Len(p.values)
<1>2. Append(p.values, v)[m + 1] = v /\ \A k \in 1..m : Append(p.values, v)[k] = p.values[k]
  BY <1>1
<1>3. m \in Nat
  BY <1>1
<1> HIDE DEF v, m
<1>4. CASE Unfinished(p)
  <2>1. finished_len(p) = m + 1 /\ finished(p) = Append(p.values, v)
    BY <1>4 DEF finished_len, finished, v, m
  <2>2. get(p, i, d) = IF i >= m + 1 THEN d ELSE IF i < m THEN p.values[i + 1] ELSE v
    BY <2>1 DEF get, v, m
  <2>3. CASE i < m
    <3>1. i + 1 \in 1..m /\ i < m + 1 /\ ~(i >= m + 1)
      BY <1>3, <2>3
    <3>2. QED BY <1>2, <2>1, <2>2, <2>3, <3>1
  <2>4. CASE i = m
    <3>1. i < m + 1 /\ ~(i >= m + 1) /\ ~(i < m)
      BY <1>3, <2>4
    <3>2. QED BY <1>2, <2>1, <2>2, <2>4, <3>1
  <2>5. CASE i > m
    BY <1>3, <2>1, <2>2, <2>5
  <2>6. QED BY <1>3, <2>3, <2>4, <2>5
<1>5. CASE ~Unfinished(p)
  <2>1. finished_len(p) = m /\ finished(p) = p.values
    BY <1>5 DEF finished_len, finished, m
  <2>2. get(p, i, d) = IF i >= m THEN d ELSE IF i < m THEN p.values[i + 1] ELSE v
    BY <2>1 DEF get, v, m
  <2>3. QED BY <1>3, <2>1, <2>2
<1>6. QED BY <1>4, <1>5


CsiStates == {"CsiEntry", "CsiParam", "CsiIntermediate"}
DcsStates == {"DcsEntry", "DcsParam", "DcsIntermediate"}
EscapeStates == {"Escape", "EscapeIntermediate"}
SequenceStates == CsiStates \cup DcsStates
Marks == {"!", "?"}

(* A machine n that has just begun a sequence or a string. *)
Begins(n) ==
  /\ n.state \in SequenceStates => n.params = NoParams
  /\ n.state \in SequenceStates \cup EscapeStates => n.intermediates = <<>>
  /\ n.state = "OscString" => n.osc_data = <<>>

(* What byte b adds in the middle of one: a machine m that becomes n. *)
Follows(m, n, b) ==
  /\ n.state \in SequenceStates =>
       /\ m.state \in SequenceStates
       /\ n.params = IF b \in ParamBytes THEN push(m.params, b) ELSE m.params
  /\ n.state \in SequenceStates \cup EscapeStates =>
       /\ m.state \in SequenceStates \cup EscapeStates
       /\ n.intermediates = IF b \in Marks THEN PushIntermediate(m, b).intermediates
                            ELSE m.intermediates
  /\ n.state = "OscString" =>
       /\ m.state = "OscString"
       /\ n.osc_data = IF b \in C0 THEN m.osc_data ELSE PushOsc(m, b).osc_data

(* The parts of the machine that its helpers change, and those they leave. *)
Same(n, m) ==
  n.params = m.params /\ n.intermediates = m.intermediates /\ n.osc_data = m.osc_data

(* To changes the state only. *)
LEMMA ToSame ==
  ASSUME NEW m \in MachineType, NEW s \in States
  PROVE  To(m, s).state = s /\ Same(To(m, s), m) /\ To(m, s) \in MachineType
  BY DEF To, Same, MachineType

(* PushParam changes the parameters only. *)
LEMMA PushParamSame ==
  ASSUME NEW m \in MachineType, NEW b, NEW s
  PROVE  LET n == PushParam(m, b)
         IN  /\ n.state = m.state /\ n.params = push(m.params, b)
             /\ n.intermediates = m.intermediates /\ n.osc_data = m.osc_data
             /\ To(n, s).state = s /\ Same(To(n, s), n)
<1> DEFINE p == push(m.params, b)
<1>1. PushParam(m, b) = [m EXCEPT !.params = p]
  BY DEF PushParam, MachineType
<1> HIDE DEF p
<1>2. QED BY <1>1 DEF MachineType, To, Same, p

(* PushIntermediate changes the intermediates only. *)
LEMMA PushIntermediateSame ==
  ASSUME NEW m \in MachineType, NEW b, NEW s
  PROVE  LET n == PushIntermediate(m, b)
         IN  /\ n.state = m.state /\ n.params = m.params /\ n.osc_data = m.osc_data
             /\ To(n, s).state = s /\ Same(To(n, s), n)
  BY DEF PushIntermediate, MachineType, To, Same

(* PushOsc keeps the state. *)
LEMMA PushOscSame ==
  ASSUME NEW m \in MachineType, NEW b
  PROVE  PushOsc(m, b).state = m.state
  BY DEF PushOsc, MachineType

(* A sequence or a string begins with nothing gathered. *)
LEMMA EnterBegins ==
  ASSUME NEW m \in MachineType
  PROVE  /\ Begins(EnterDcs(m).m) /\ Begins(EnterCsi(m).m)
         /\ Begins(EnterOsc(m).m) /\ Begins(EnterString(m).m)
<1> DEFINE none == <<>>
<1> HIDE DEF none
<1>1. /\ EnterDcs(m).m = [m EXCEPT !.params = NoParams, !.intermediates = none, !.state = "DcsEntry"]
      /\ EnterCsi(m).m = [m EXCEPT !.params = NoParams, !.intermediates = none, !.state = "CsiEntry"]
      /\ EnterOsc(m).m = [m EXCEPT !.state = "OscString", !.osc_data = none]
      /\ EnterString(m).m = [m EXCEPT !.state = "SosPmApcString"]
  BY DEF EnterDcs, EnterCsi, EnterOsc, EnterString, Stay, To, Clear, none, MachineType
<1>2. /\ EnterDcs(m).m.params = NoParams /\ EnterDcs(m).m.intermediates = none
      /\ EnterDcs(m).m.state = "DcsEntry"
      /\ EnterCsi(m).m.params = NoParams /\ EnterCsi(m).m.intermediates = none
      /\ EnterCsi(m).m.state = "CsiEntry"
      /\ EnterOsc(m).m.state = "OscString" /\ EnterOsc(m).m.osc_data = none
      /\ EnterString(m).m.state = "SosPmApcString"
  BY <1>1 DEF MachineType
<1>3. none = <<>>
  BY DEF none
<1>4. QED
  BY <1>2, <1>3 DEF Begins, SequenceStates, CsiStates, DcsStates, EscapeStates

(* From the ground state. *)
LEMMA GroundBegins ==
  ASSUME NEW m \in MachineType, m.state = "Ground", NEW b \in Bytes
  PROVE  Begins(ground(m, b).m)
<1>1. Begins(m)
  BY DEF Begins, SequenceStates, CsiStates, DcsStates, EscapeStates
<1>2. EnterUtf8(m, b).m.state = "Utf8"
  BY DEF EnterUtf8, Stay, To, MachineType
<1>3. Begins(EnterUtf8(m, b).m)
  BY <1>2 DEF Begins, SequenceStates, CsiStates, DcsStates, EscapeStates
<1>4. QED BY <1>1, <1>3, EnterBegins DEF ground, Do, Stay

(* After ESC. *)
LEMMA EscapeBegins ==
  ASSUME NEW m \in MachineType, NEW b \in {"P", "[", "]", "X"}
  PROVE  Begins(escape(m, b).m)
<1>1. b \notin C0 \cup {"!", "?", "A", "\\"} \cup ParamBytes
  BY DEF C0, ParamBytes, Digits, Separators
<1>2. escape(m, b) \in {EnterDcs(m), EnterCsi(m), EnterOsc(m), EnterString(m)}
  BY <1>1 DEF escape
<1>3. QED BY <1>2, EnterBegins

-----------------------------------------------------------------------------
(* In the middle of a sequence each byte adds what it is, or ends it. *)
LEMMA Ends ==
  ASSUME NEW m, NEW b, NEW n,
         n.state \notin SequenceStates \cup EscapeStates \cup {"OscString"}
  PROVE  Follows(m, n, b)
  BY DEF Follows

(* After ESC, an intermediate is gathered. *)
LEMMA EscapeFollows ==
  ASSUME NEW m \in MachineType, m.state \in EscapeStates, NEW b \in Bytes,
         b \notin {"P", "[", "]", "X"} \/ m.state = "EscapeIntermediate"
  PROVE  /\ m.state = "Escape" => Follows(m, escape(m, b).m, b)
         /\ m.state = "EscapeIntermediate" => Follows(m, escape_intermediate(m, b).m, b)
<1>1. m.state \notin SequenceStates \cup {"OscString"}
  BY DEF EscapeStates, SequenceStates, CsiStates, DcsStates
<1>2. b \in C0 \cup {"DEL"} => Follows(m, m, b)
  BY <1>1 DEF Follows, Marks, C0
<1>3. b = "!" => /\ Follows(m, To(PushIntermediate(m, b), "EscapeIntermediate"), b)
                 /\ Follows(m, PushIntermediate(m, b), b)
  <2>1. /\ PushIntermediate(m, b).state = m.state
        /\ To(PushIntermediate(m, b), "EscapeIntermediate").state = "EscapeIntermediate"
        /\ Same(To(PushIntermediate(m, b), "EscapeIntermediate"), PushIntermediate(m, b))
    BY PushIntermediateSame
  <2>2. "EscapeIntermediate" \in EscapeStates \ SequenceStates
    BY DEF EscapeStates, SequenceStates, CsiStates, DcsStates
  <2>3. QED BY <1>1, <2>1, <2>2 DEF Follows, Same, Marks, EscapeStates
<1>4. Follows(m, To(m, "Ground"), b)
  <2>1. To(m, "Ground").state = "Ground"
    BY ToSame DEF States
  <2>2. QED BY <2>1, Ends DEF EscapeStates, SequenceStates, CsiStates, DcsStates
<1>5. m.state = "Escape" => b \notin {"P", "[", "]", "X"}
  OBVIOUS
<1>6. m.state = "Escape" => Follows(m, escape(m, b).m, b)
  BY <1>2, <1>3, <1>4, <1>5 DEF escape, Do, Stay
<1>7. Follows(m, escape_intermediate(m, b).m, b)
  BY <1>2, <1>3, <1>4 DEF escape_intermediate, Do, Stay
<1>8. QED BY <1>6, <1>7

(* What the handlers of sequences are made of. *)
LEMMA SequencePieces ==
  ASSUME NEW m \in MachineType, m.state \in SequenceStates, NEW b \in Bytes
  PROVE  /\ b \notin ParamBytes \cup Marks => Follows(m, m, b)
         /\ b \in ParamBytes =>
              /\ Follows(m, PushParam(m, b), b)
              /\ \A s \in SequenceStates : Follows(m, To(PushParam(m, b), s), b)
         /\ b \in Marks =>
              /\ Follows(m, PushIntermediate(m, b), b)
              /\ \A s \in SequenceStates : Follows(m, To(PushIntermediate(m, b), s), b)
         /\ \A s \in {"Ground", "CsiIgnore", "DcsIgnore", "DcsPassthrough"} : Follows(m, To(m, s), b)
<1>1. "OscString" \notin SequenceStates /\ ParamBytes \cap Marks = {}
  BY DEF SequenceStates, CsiStates, DcsStates, ParamBytes, Digits, Separators, Marks
<1>2. b \notin ParamBytes \cup Marks => Follows(m, m, b)
  BY <1>1 DEF Follows
<1>3. ASSUME b \in ParamBytes
      PROVE  /\ Follows(m, PushParam(m, b), b)
             /\ \A s \in SequenceStates : Follows(m, To(PushParam(m, b), s), b)
  BY <1>1, <1>3, PushParamSame DEF Follows, Same
<1>4. ASSUME b \in Marks
      PROVE  /\ Follows(m, PushIntermediate(m, b), b)
             /\ \A s \in SequenceStates : Follows(m, To(PushIntermediate(m, b), s), b)
  BY <1>1, <1>4, PushIntermediateSame DEF Follows, Same
<1>5. ASSUME NEW s \in {"Ground", "CsiIgnore", "DcsIgnore", "DcsPassthrough"}
      PROVE  Follows(m, To(m, s), b)
  <2>1. To(m, s).state = s
    BY ToSame DEF States
  <2>2. QED BY <2>1, Ends DEF EscapeStates, SequenceStates, CsiStates, DcsStates
<1>6. QED BY <1>2, <1>3, <1>4, <1>5

(* The kinds of bytes differ. *)
LEMMA Kinds ==
  /\ C0 \cap (ParamBytes \cup Marks) = {} /\ Finals \cap (ParamBytes \cup Marks) = {}
  /\ "DEL" \notin ParamBytes \cup Marks /\ Marks \cap ParamBytes = {}
  /\ Marks = {"!", "?"}
  BY DEF C0, ParamBytes, Digits, Separators, Marks, Finals

(* The handlers of control sequences. *)
LEMMA CsiFollows ==
  ASSUME NEW m \in MachineType, m.state \in CsiStates, NEW b \in Bytes
  PROVE  /\ Follows(m, csi_entry(m, b).m, b) /\ Follows(m, csi_param(m, b).m, b)
         /\ Follows(m, csi_intermediate(m, b).m, b)
<1>1. m.state \in SequenceStates /\ {"CsiParam", "CsiIntermediate"} \subseteq SequenceStates
  BY DEF SequenceStates, CsiStates
<1>2. b \notin ParamBytes \cup {"?"} => Follows(m, CsiCommon(m, b).m, b)
  BY <1>1, SequencePieces, Kinds DEF CsiCommon, Do, Stay
<1>3. Follows(m, csi_entry(m, b).m, b)
  BY <1>1, <1>2, SequencePieces, Kinds DEF csi_entry, Stay
<1>4. Follows(m, csi_param(m, b).m, b)
  BY <1>1, <1>2, SequencePieces, Kinds DEF csi_param, Stay
<1>5. Follows(m, csi_intermediate(m, b).m, b)
  BY <1>1, <1>2, SequencePieces, Kinds DEF csi_intermediate, Stay
<1>6. QED BY <1>3, <1>4, <1>5

(* The handlers of device control strings. *)
LEMMA DcsFollows ==
  ASSUME NEW m \in MachineType, m.state \in DcsStates, NEW b \in Bytes
  PROVE  /\ Follows(m, dcs_entry(m, b).m, b) /\ Follows(m, dcs_param(m, b).m, b)
         /\ Follows(m, dcs_intermediate(m, b).m, b)
<1>1. m.state \in SequenceStates /\ {"DcsParam", "DcsIntermediate"} \subseteq SequenceStates
  BY DEF SequenceStates, DcsStates
<1>2. Follows(m, dcs_entry(m, b).m, b)
  BY <1>1, SequencePieces, Kinds DEF dcs_entry, Stay
<1>3. Follows(m, dcs_param(m, b).m, b)
  BY <1>1, SequencePieces, Kinds DEF dcs_param, Do, Stay
<1>4. Follows(m, dcs_intermediate(m, b).m, b)
  BY <1>1, SequencePieces, Kinds DEF dcs_intermediate, Do, Stay
<1>5. QED BY <1>2, <1>3, <1>4

(* The handler of OSC strings. *)
LEMMA OscFollows ==
  ASSUME NEW m \in MachineType, m.state = "OscString", NEW b \in Bytes
  PROVE  Follows(m, osc_string(m, b).m, b)
<1>1. "OscString" \notin SequenceStates \cup EscapeStates
  BY DEF SequenceStates, CsiStates, DcsStates, EscapeStates
<1>2. b \in C0 => Follows(m, m, b)
  BY <1>1 DEF Follows
<1>3. b \notin C0 => Follows(m, PushOsc(m, b), b)
  BY <1>1, PushOscSame DEF Follows
<1>4. Follows(m, To(m, "Ground"), b)
  <2>1. To(m, "Ground").state = "Ground"
    BY ToSame DEF States
  <2>2. QED BY <2>1, Ends DEF EscapeStates, SequenceStates, CsiStates, DcsStates
<1>5. QED BY <1>2, <1>3, <1>4 DEF osc_string, Do, Stay, C0

(* Elsewhere nothing is gathered. *)
LEMMA OthersFollow ==
  ASSUME NEW m \in MachineType, NEW b \in Bytes,
         m.state \in {"CsiIgnore", "DcsPassthrough", "DcsIgnore", "SosPmApcString"}
  PROVE  /\ Follows(m, csi_ignore(m, b).m, b) /\ Follows(m, dcs_passthrough(m, b).m, b)
         /\ Follows(m, ignore_string(m, b).m, b)
<1>1. To(m, "Ground").state = "Ground"
  BY ToSame DEF States
<1>2. Follows(m, m, b) /\ Follows(m, To(m, "Ground"), b)
  BY <1>1, Ends DEF SequenceStates, CsiStates, DcsStates, EscapeStates
<1>3. QED BY <1>2 DEF csi_ignore, dcs_passthrough, ignore_string, Do, Stay

(* Every state but those a sequence begins from. *)
LEMMA HandleFollows ==
  ASSUME NEW m \in MachineType, m.state \notin {"Utf8", "Ground"}, NEW b \in Bytes,
         m.state = "Escape" => b \notin {"P", "[", "]", "X"}
  PROVE  Follows(m, Handle(m, b).m, b)
<1>1. m.state \in States
  BY DEF MachineType
<1>2. CASE m.state \in EscapeStates
  BY <1>2, EscapeFollows DEF Handle, EscapeStates
<1>3. CASE m.state \in CsiStates
  BY <1>3, CsiFollows DEF Handle, CsiStates
<1>4. CASE m.state \in DcsStates
  BY <1>4, DcsFollows DEF Handle, DcsStates
<1>5. CASE m.state = "OscString"
  BY <1>5, OscFollows DEF Handle
<1>6. CASE m.state \in {"CsiIgnore", "DcsPassthrough", "DcsIgnore", "SosPmApcString"}
  BY <1>6, OthersFollow DEF Handle
<1>7. QED BY <1>1, <1>2, <1>3, <1>4, <1>5, <1>6 DEF States, EscapeStates, CsiStates, DcsStates

(* Any byte anywhere. *)
LEMMA AfterFollows ==
  ASSUME NEW m \in MachineType, NEW b \in Bytes
  PROVE  IF Restarts(m, b) THEN Begins(After(m, b))
         ELSE Follows(m, After(m, b), b)
<1>1. CASE m.state = "Utf8"
  <2>1. ~Restarts(m, b)
    BY <1>1 DEF Restarts
  <2>2. After(m, b).state \in {"Utf8", "Ground"}
    <3> DEFINE u == [m.utf8 EXCEPT !.idx = @ + 1, !.valid = @ /\ b \in C1 \cup {"CONT"}]
    <3>1. After(m, b) = Continue(m, b).m
      BY <1>1 DEF After, advance_byte
    <3>2. Continue(m, b).m = IF u.idx # u.len THEN [m EXCEPT !.utf8 = u]
                             ELSE [To(m, "Ground") EXCEPT !.utf8 = NoUtf8]
      BY DEF Continue, Stay
    <3> HIDE DEF u
    <3>3. [m EXCEPT !.utf8 = u].state = m.state
      BY DEF MachineType
    <3>4. [To(m, "Ground") EXCEPT !.utf8 = NoUtf8].state = "Ground"
      BY DEF MachineType, To
    <3>5. QED BY <1>1, <3>1, <3>2, <3>3, <3>4
  <2>3. Follows(m, After(m, b), b)
    BY <2>2, Ends DEF SequenceStates, CsiStates, DcsStates, EscapeStates
  <2>4. QED BY <2>1, <2>3
<1>2. CASE m.state # "Utf8" /\ b = "CAN"
  <2>1. After(m, b).state = "Ground"
    BY <1>2, ToSame DEF After, advance_byte, Do, States
  <2>2. Follows(m, After(m, b), b) /\ Begins(After(m, b))
    BY <2>1 DEF Follows, Begins, SequenceStates, CsiStates, DcsStates, EscapeStates
  <2>3. QED BY <2>2
<1>3. CASE m.state # "Utf8" /\ b = "ESC"
  <2> DEFINE none == <<>>
             k == To(m, "Escape")
  <2>1. After(m, b) = [k EXCEPT !.intermediates = none]
    BY <1>3 DEF After, advance_byte, Stay
  <2>2. k \in MachineType /\ k.state = "Escape"
    BY ToSame DEF States
  <2> HIDE DEF k, none
  <2>3. After(m, b).state = "Escape" /\ After(m, b).intermediates = none
    BY <2>1, <2>2 DEF MachineType
  <2>4. none = <<>>
    BY DEF none
  <2>5. Begins(After(m, b))
    BY <2>3, <2>4 DEF Begins, SequenceStates, CsiStates, DcsStates
  <2>6. QED BY <1>3, <2>5 DEF Restarts
<1>4. CASE m.state # "Utf8" /\ b \notin {"CAN", "ESC"}
  <2>1. After(m, b) = Handle(m, b).m
    BY <1>4 DEF After, advance_byte
  <2>2. CASE m.state = "Ground"
    BY <1>4, <2>1, <2>2, GroundBegins DEF Handle, Restarts
  <2>3. CASE m.state = "Escape" /\ b \in {"P", "[", "]", "X"}
    BY <1>4, <2>1, <2>3, EscapeBegins DEF Handle, Restarts
  <2>4. CASE m.state # "Ground" /\ ~(m.state = "Escape" /\ b \in {"P", "[", "]", "X"})
    BY <1>4, <2>1, <2>4, HandleFollows DEF Restarts
  <2>5. QED BY <2>2, <2>3, <2>4
<1>5. QED BY <1>1, <1>2, <1>3, <1>4


(* What the machine has gathered is what the bytes s say.                   *)
Gathered(m, s) ==
  /\ s \in Seq(Bytes)
  /\ Kept(s, ParamBytes) \in Seq(ParamBytes)
  /\ m.state \in SequenceStates => AsRead(m.params, Kept(s, ParamBytes))
  /\ m.state \in SequenceStates \cup EscapeStates =>
       LET own == Kept(s, Marks)
       IN  m.intermediates = SubSeq(own, 1, AtMost(Len(own), MaxIntermediates))
  /\ m.state = "OscString" =>
       LET own == Kept(s, Bytes \ C0)
       IN  m.osc_data = [i \in 1..AtMost(Len(own), MaxOscData) |-> Datum(own[i])]

(* Nothing is gathered when something begins. *)
LEMMA BeginsGathered ==
  ASSUME NEW n, Begins(n)
  PROVE  Gathered(n, <<>>)
<1> DEFINE none == <<>>
<1>1. /\ none \in Seq(Bytes) /\ none \in Seq(ParamBytes) /\ Len(none) = 0
      /\ SubSeq(none, 1, 0) = none
  OBVIOUS
<1>2. \A kinds : Kept(none, kinds) = none
  BY KeptNone
<1>3. AtMost(0, MaxIntermediates) = 0 /\ AtMost(0, MaxOscData) = 0
  BY BufferAssumption DEF AtMost
<1>4. none = [i \in 1..0 |-> Datum(none[i])]
  OBVIOUS
<1>5. /\ n.state \in SequenceStates => AsRead(n.params, none)
      /\ n.state \in SequenceStates \cup EscapeStates => n.intermediates = none
      /\ n.state = "OscString" => n.osc_data = none
  BY AsReadNone DEF Begins
<1> HIDE DEF none
<1>6. Gathered(n, none)
  BY <1>1, <1>2, <1>3, <1>4, <1>5 DEF Gathered
<1>7. QED BY <1>6 DEF none

(* The first bytes of what came, as many as max. *)
FirstOf(own, max) == SubSeq(own, 1, AtMost(Len(own), max))
DataOf(own, max) == [i \in 1..AtMost(Len(own), max) |-> Datum(own[i])]

(* AtMost of a number and of the next. *)
LEMMA AtMostMore ==
  ASSUME NEW n \in Nat, NEW max \in Nat
  PROVE  /\ AtMost(n, max) \in 0..n /\ AtMost(n, max) \in 0..max
         /\ n < max => AtMost(n, max) = n /\ AtMost(n + 1, max) = n + 1
         /\ ~(n < max) => AtMost(n, max) = max /\ AtMost(n + 1, max) = max
  BY DEF AtMost

(* A buffer that takes what it has room for holds the first of what came. *)
LEMMA FirstAppended ==
  ASSUME NEW own \in Seq(Bytes), NEW b \in Bytes, NEW max \in Nat
  PROVE  LET q == FirstOf(own, max)
         IN  FirstOf(Append(own, b), max) = IF Len(q) < max THEN Append(q, b) ELSE q
<1> DEFINE n == Len(own)
           more == Append(own, b)
           q == FirstOf(own, max)
<1>1. /\ n \in Nat /\ more \in Seq(Bytes) /\ Len(more) = n + 1
      /\ \A i \in 1..n : more[i] = own[i]
  OBVIOUS
<1>2. CASE n < max
  <2>1. AtMost(n, max) = n /\ AtMost(n + 1, max) = n + 1
    BY <1>1, <1>2, AtMostMore
  <2>2. SubSeq(own, 1, n) = own
    BY <1>1
  <2>3. q = own
    BY <2>1, <2>2 DEF FirstOf
  <2> HIDE DEF more
  <2>4. SubSeq(more, 1, n + 1) = more
    BY <1>1
  <2>5. FirstOf(more, max) = more
    BY <1>1, <2>1, <2>4 DEF FirstOf
  <2> HIDE DEF q
  <2>6. Len(q) < max
    BY <1>2, <2>3
  <2>7. QED BY <2>3, <2>5, <2>6 DEF more, q
<1>3. CASE ~(n < max)
  <2>1. AtMost(n, max) = max /\ AtMost(n + 1, max) = max /\ max \in 0..n
    BY <1>1, <1>3, AtMostMore
  <2>2. q = SubSeq(own, 1, max)
    BY <2>1 DEF FirstOf
  <2> HIDE DEF more
  <2>3. FirstOf(more, max) = SubSeq(more, 1, max)
    BY <1>1, <2>1 DEF FirstOf
  <2>4. SubSeq(more, 1, max) = SubSeq(own, 1, max)
    BY <1>1, <2>1
  <2>5. Len(SubSeq(own, 1, max)) = max
    BY <1>1, <2>1
  <2> HIDE DEF q, n
  <2>6. FirstOf(more, max) = q /\ Len(q) = max
    BY <2>2, <2>3, <2>4, <2>5
  <2>7. ~(Len(q) < max)
    BY <2>6
  <2>8. QED BY <2>6, <2>7 DEF more, q
<1>4. QED BY <1>2, <1>3

(* OSC data likewise. *)
LEMMA DataAppended ==
  ASSUME NEW own \in Seq(Bytes), NEW b \in Bytes, NEW max \in Nat
  PROVE  LET q == DataOf(own, max)
         IN  DataOf(Append(own, b), max) = IF Len(q) < max THEN Append(q, Datum(b)) ELSE q
<1> DEFINE n == Len(own)
           more == Append(own, b)
           q == DataOf(own, max)
           k == AtMost(n, max)
           data == {";", "data"}
<1>1. /\ n \in Nat /\ more \in Seq(Bytes) /\ Len(more) = n + 1 /\ more[n + 1] = b
      /\ \A i \in 1..n : more[i] = own[i]
  OBVIOUS
<1>2. k \in 0..max /\ k \in 0..n
  BY <1>1, AtMostMore
<1>3. \A x : Datum(x) \in data
  BY DEF Datum
<1>4. q = [i \in 1..k |-> Datum(own[i])]
  BY DEF DataOf
<1> HIDE DEF data, k, q, more
<1>5. q \in [1..k -> data] /\ k \in Nat
  BY <1>2, <1>3, <1>4
<1>6. q \in Seq(data) /\ Len(q) = k
  BY <1>5
<1>7. CASE n < max
  <2>1. k = n /\ AtMost(n + 1, max) = n + 1
    BY <1>1, <1>7, AtMostMore DEF k
  <2> DEFINE d == Datum(b)
             r == Append(q, d)
  <2>2. d \in data
    BY <1>3
  <2> HIDE DEF d
  <2>3. /\ r \in Seq(data) /\ Len(r) = n + 1 /\ r[n + 1] = d
        /\ \A i \in 1..n : r[i] = q[i]
    BY <1>1, <1>6, <2>1, <2>2
  <2> HIDE DEF r, n
  <2>4. \A i \in 1..n + 1 : i = n + 1 \/ i \in 1..n
    BY <1>1
  <2>5. \A i \in 1..n : q[i] = Datum(more[i])
    BY <1>1, <1>4, <2>1
  <2>6. d = Datum(more[n + 1])
    BY <1>1 DEF d
  <2>7. r = [i \in 1..n + 1 |-> Datum(more[i])]
    <3>1. \A i \in 1..n + 1 : r[i] = Datum(more[i])
      BY <2>3, <2>4, <2>5, <2>6
    <3>2. r = [i \in 1..n + 1 |-> r[i]]
      BY <2>3
    <3>3. QED BY <3>1, <3>2
  <2>8. DataOf(more, max) = r
    BY <1>1, <2>1, <2>7 DEF DataOf
  <2>9. Len(q) < max
    BY <1>6, <1>7, <2>1
  <2>10. QED BY <2>8, <2>9 DEF more, q, r, d
<1>8. CASE ~(n < max)
  <2>1. k = max /\ AtMost(n + 1, max) = max /\ max \in 0..n
    BY <1>1, <1>8, AtMostMore DEF k
  <2>2. \A i \in 1..max : Datum(more[i]) = Datum(own[i])
    BY <1>1, <2>1
  <2>3. DataOf(more, max) = [i \in 1..max |-> Datum(more[i])]
    BY <1>1, <2>1 DEF DataOf
  <2>4. DataOf(more, max) = q
    BY <1>4, <2>1, <2>2, <2>3
  <2>5. ~(Len(q) < max)
    BY <1>6, <2>1
  <2>6. QED BY <2>4, <2>5 DEF more, q
<1>9. QED BY <1>7, <1>8

(* One more byte in the middle of a sequence or a string. *)
LEMMA FollowsGathered ==
  ASSUME NEW m, MachineWhole(m), NEW s, Gathered(m, s), NEW b \in Bytes, NEW n, Follows(m, n, b)
  PROVE  Gathered(n, Append(s, b))
<1> DEFINE u == Append(s, b)
<1>1. s \in Seq(Bytes) /\ u \in Seq(Bytes)
  BY DEF Gathered
<1>2. \A kinds : /\ Kept(s, kinds) \in Seq(Bytes)
                 /\ Kept(u, kinds) = IF b \in kinds THEN Append(Kept(s, kinds), b) ELSE Kept(s, kinds)
  BY <1>1, KeptAppend
<1> HIDE DEF u
<1>3. Kept(u, ParamBytes) \in Seq(ParamBytes)
  <2>1. Kept(s, ParamBytes) \in Seq(ParamBytes)
    BY DEF Gathered
  <2>2. b \in ParamBytes => Append(Kept(s, ParamBytes), b) \in Seq(ParamBytes)
    BY <2>1
  <2>3. QED BY <1>2, <2>1, <2>2
<1>4. ASSUME n.state \in SequenceStates
      PROVE  AsRead(n.params, Kept(u, ParamBytes))
  <2>1. /\ ParamsWhole(m.params) /\ AsRead(m.params, Kept(s, ParamBytes))
        /\ Kept(s, ParamBytes) \in Seq(ParamBytes)
        /\ n.params = IF b \in ParamBytes THEN push(m.params, b) ELSE m.params
    BY <1>4 DEF Follows, Gathered, MachineWhole
  <2>2. CASE b \in ParamBytes
    <3> DEFINE p == m.params
               t == Kept(s, ParamBytes)
    <3>1. n.params = push(p, b) /\ Kept(u, ParamBytes) = Append(t, b)
      BY <1>2, <2>1, <2>2
    <3>2. ParamsWhole(p) /\ AsRead(p, t) /\ t \in Seq(ParamBytes)
      BY <2>1
    <3> HIDE DEF p, t
    <3>3. AsRead(push(p, b), Append(t, b))
      BY <2>2, <3>2, PushAsRead
    <3>4. QED BY <3>1, <3>3
  <2>3. CASE b \notin ParamBytes
    BY <1>2, <2>1, <2>3
  <2>4. QED BY <2>2, <2>3
<1>5. ASSUME n.state \in SequenceStates \cup EscapeStates
      PROVE  n.intermediates = SubSeq(Kept(u, Marks), 1, AtMost(Len(Kept(u, Marks)), MaxIntermediates))
  <2> DEFINE own == Kept(s, Marks)
             q == m.intermediates
  <2>1. /\ q = SubSeq(own, 1, AtMost(Len(own), MaxIntermediates))
        /\ n.intermediates = IF b \in Marks THEN PushIntermediate(m, b).intermediates ELSE q
    BY <1>5 DEF Follows, Gathered
  <2>2. PushIntermediate(m, b).intermediates = IF Len(q) < MaxIntermediates THEN Append(q, b) ELSE q
    BY DEF PushIntermediate, MachineWhole, MachineType
  <2>3. own \in Seq(Bytes) /\ MaxIntermediates \in Nat
    BY <1>2, BufferAssumption
  <2>4. CASE b \in Marks
    <3>1. Kept(u, Marks) = Append(own, b)
      BY <1>2, <2>4
    <3>2. n.intermediates = IF Len(q) < MaxIntermediates THEN Append(q, b) ELSE q
      BY <2>1, <2>2, <2>4
    <3> HIDE DEF own
    <3>3. FirstOf(Append(own, b), MaxIntermediates)
            = IF Len(FirstOf(own, MaxIntermediates)) < MaxIntermediates
              THEN Append(FirstOf(own, MaxIntermediates), b) ELSE FirstOf(own, MaxIntermediates)
      BY <2>3, FirstAppended
    <3>4. q = FirstOf(own, MaxIntermediates)
      BY <2>1 DEF FirstOf
    <3> HIDE DEF q
    <3>5. n.intermediates = FirstOf(Kept(u, Marks), MaxIntermediates)
      BY <3>1, <3>2, <3>3, <3>4
    <3>6. QED BY <3>5 DEF FirstOf
  <2>5. CASE b \notin Marks
    BY <1>2, <2>1, <2>5
  <2>6. QED BY <2>4, <2>5
<1>6. ASSUME n.state = "OscString"
      PROVE  n.osc_data = [i \in 1..AtMost(Len(Kept(u, Bytes \ C0)), MaxOscData) |->
                             Datum(Kept(u, Bytes \ C0)[i])]
  <2> DEFINE own == Kept(s, Bytes \ C0)
             q == m.osc_data
  <2>1. /\ q = [i \in 1..AtMost(Len(own), MaxOscData) |-> Datum(own[i])]
        /\ n.osc_data = IF b \in C0 THEN q ELSE PushOsc(m, b).osc_data
    BY <1>6 DEF Follows, Gathered
  <2>2. PushOsc(m, b).osc_data = IF Len(q) < MaxOscData THEN Append(q, Datum(b)) ELSE q
    BY DEF PushOsc, MachineWhole, MachineType
  <2>3. own \in Seq(Bytes) /\ MaxOscData \in Nat
    BY <1>2, BufferAssumption
  <2>4. CASE b \notin C0
    <3>1. Kept(u, Bytes \ C0) = Append(own, b)
      BY <1>2, <2>4
    <3>2. n.osc_data = IF Len(q) < MaxOscData THEN Append(q, Datum(b)) ELSE q
      BY <2>1, <2>2, <2>4
    <3> HIDE DEF own
    <3>3. DataOf(Append(own, b), MaxOscData)
            = IF Len(DataOf(own, MaxOscData)) < MaxOscData
              THEN Append(DataOf(own, MaxOscData), Datum(b)) ELSE DataOf(own, MaxOscData)
      BY <2>3, DataAppended
    <3>4. q = DataOf(own, MaxOscData)
      BY <2>1 DEF DataOf
    <3> HIDE DEF q
    <3>5. n.osc_data = DataOf(Kept(u, Bytes \ C0), MaxOscData)
      BY <3>1, <3>2, <3>3, <3>4
    <3>6. QED BY <3>5 DEF DataOf
  <2>5. CASE b \in C0
    <3>1. Kept(u, Bytes \ C0) = own
      BY <1>2, <2>5
    <3>2. n.osc_data = q
      BY <2>1, <2>5
    <3>3. QED BY <2>1, <3>1, <3>2
  <2>6. QED BY <2>4, <2>5
<1>7. Gathered(n, u)
  BY <1>1, <1>3, <1>4, <1>5, <1>6 DEF Gathered
<1>8. QED BY <1>7 DEF u

(* A step that handles a byte. *)
LEMMA ConsumeGathers ==
  ASSUME MachineWhole(machine), Gathered(machine, since), NEW b \in Bytes, Consume(b)
  PROVE  Gathered(machine', since')
<1>1. /\ machine' = After(machine, b)
      /\ since' = IF machine'.state \notin Collecting THEN <<>>
                  ELSE IF Restarts(machine, b) THEN <<>> ELSE Append(since, b)
  BY DEF Consume, After
<1>2. machine \in MachineType
  BY DEF MachineWhole
<1>3. CASE machine'.state \notin Collecting
  <2>1. Begins(machine')
    BY <1>3 DEF Begins, Collecting, SequenceStates, CsiStates, DcsStates, EscapeStates
  <2>2. QED BY <1>1, <1>3, <2>1, BeginsGathered
<1>4. CASE machine'.state \in Collecting /\ Restarts(machine, b)
  BY <1>1, <1>2, <1>4, AfterFollows, BeginsGathered
<1>5. CASE machine'.state \in Collecting /\ ~Restarts(machine, b)
  <2>1. Follows(machine, machine', b) /\ since' = Append(since, b)
    BY <1>1, <1>2, <1>5, AfterFollows
  <2>2. QED BY <2>1, FollowsGathered
<1>6. QED BY <1>3, <1>4, <1>5

(* Every step. *)
LEMMA NextGathered ==
  ASSUME LoopInv, MachineWhole(machine), Gathered(machine, since), [Next]_vars
  PROVE  Gathered(machine, since)'
<1>1. CASE UNCHANGED <<machine, since>>
  BY <1>1
<1>2. ASSUME NEW b \in Bytes, Consume(b) PROVE Gathered(machine, since)'
  BY <1>2, ConsumeGathers
<1>3. CASE HandleNext
  <2>1. PICK b \in Bytes : next = <<b>>
    BY <1>3 DEF LoopInv, HandleNext
  <2>2. Consume(b)
    BY <1>3, <2>1 DEF HandleNext
  <2>3. QED BY <1>2, <2>2
<1>4. CASE HandleByte
  BY <1>2, <1>4 DEF HandleByte
<1>5. QED BY <1>1, <1>3, <1>4 DEF Next, StartScan, Scan, Emit, EmitDone, vars

(* From what is gathered, what would be handed over. *)
LEMMA GatheredIsAsWritten ==
  ASSUME MachineWhole(machine), Gathered(machine, since)
  PROVE  SequenceAsWritten
<1>1. ASSUME InCsi \/ InDcs, ~EndsInColon(since)
      PROVE  LET p == machine.params
                 w == Written(since)
             IN  /\ finished(p) = [k \in DOMAIN w |-> w[k].value]
                 /\ finished_subparam_flags(p) = [k \in DOMAIN w |-> w[k].colon]
                 /\ \A i \in 0..MaxParams :
                      get_or(p, i, 7) =
                        IF i + 1 \in DOMAIN w /\ w[i + 1].value # 0 THEN w[i + 1].value ELSE 7
  <2> DEFINE p == machine.params
             t == Kept(since, ParamBytes)
             all == Numbers(t)
             n == IF t = <<>> THEN 0 ELSE AtMost(Len(all), MaxParams)
             w == Written(since)
  <2>1. machine.state \in SequenceStates
    BY <1>1 DEF InCsi, InDcs, SequenceStates, CsiStates, DcsStates
  <2>2. ParamsWhole(p) /\ t \in Seq(ParamBytes) /\ AsRead(p, t)
    BY <2>1 DEF Gathered, MachineWhole
  <2>3. t = <<>> \/ Last(t) # ":"
    BY <1>1 DEF EndsInColon
  <2>4. w = [k \in 1..n |-> [value |-> AtMost(all[k].value, MaxValue), colon |-> all[k].colon]]
    BY DEF Written
  <2> HIDE DEF p, t, w
  <2>5. /\ n \in 0..MaxParams /\ finished_len(p) = n
        /\ finished(p) = [k \in 1..n |-> AtMost(all[k].value, MaxValue)]
        /\ finished_subparam_flags(p) = [k \in 1..n |-> all[k].colon]
    BY <2>2, <2>3, FinishedAsRead
  <2> HIDE DEF all, n
  <2>6. /\ DOMAIN w = 1..n
        /\ \A k \in 1..n : w[k].value = AtMost(all[k].value, MaxValue) /\ w[k].colon = all[k].colon
    BY <2>4
  <2>7. finished(p) = [k \in DOMAIN w |-> w[k].value]
    BY <2>5, <2>6
  <2>8. finished_subparam_flags(p) = [k \in DOMAIN w |-> w[k].colon]
    BY <2>5, <2>6
  <2>9. ASSUME NEW i \in 0..MaxParams
        PROVE  get_or(p, i, 7) =
                 IF i + 1 \in DOMAIN w /\ w[i + 1].value # 0 THEN w[i + 1].value ELSE 7
    <3>1. i \in Nat /\ n \in Nat /\ (i < n <=> i + 1 \in 1..n)
      BY <2>5, ParamsAssumption
    <3>2. get(p, i, 0) = IF i < n THEN finished(p)[i + 1] ELSE 0
      BY <2>2, <2>5, <3>1, GetAsRead
    <3>3. i < n => finished(p)[i + 1] = w[i + 1].value
      BY <2>6, <2>7, <3>1
    <3>4. get(p, i, 0) = IF i + 1 \in DOMAIN w THEN w[i + 1].value ELSE 0
      BY <2>6, <3>1, <3>2, <3>3
    <3>5. QED BY <3>4 DEF get_or
  <2>10. QED BY <2>7, <2>8, <2>9 DEF p, w
<1>2. ParamsAsWritten
  BY <1>1 DEF ParamsAsWritten
<1>3. IntermediatesAsWritten
  <2>1. InCsi \/ InDcs \/ InEscape => machine.state \in SequenceStates \cup EscapeStates
    BY DEF InCsi, InDcs, InEscape, SequenceStates, CsiStates, DcsStates, EscapeStates
  <2>2. QED BY <2>1 DEF IntermediatesAsWritten, Gathered, Marks
<1>4. OscAsWritten
  BY DEF OscAsWritten, Gathered
<1>5. QED BY <1>2, <1>3, <1>4 DEF SequenceAsWritten

-----------------------------------------------------------------------------
(* The loop's state between bytes, for any reads (Parser::advance,          *)
(* parser.rs).                                                              *)
THEOREM ParserLoop == Spec => []LoopInv
  BY InitLoop, NextLoop, PTL DEF Spec

(* Cutting the output into reads anywhere, and looking ahead for runs of    *)
(* text, makes no difference: every byte is handled once, in its turn, as   *)
(* if it had come alone (Parser::advance, parser.rs).                       *)
THEOREM ParserImplementsByteStream == Spec => RefinesByteStream
<1>1. Init => Stream!Init
  BY InitMaps
<1>2. LoopInv /\ [Next]_vars => [Stream!Next]_<<machine, performed, run \o next>>
  BY NextMaps
<1>3. QED BY <1>1, <1>2, ParserLoop, PTL DEF Spec, RefinesByteStream, Stream!Spec

(* Whatever bytes come, parameters, intermediates and OSC data stay within  *)
(* their buffers, values within their width, and the buffer of a UTF-8      *)
(* character is never read beyond its end (parser.rs, params.rs).           *)
THEOREM ParserWhole == Spec => []MachineWhole(machine)
<1>1. Init => MachineWhole(machine)
  BY NewWhole DEF Init
<1>2. LoopInv /\ MachineWhole(machine) /\ [Next]_vars => MachineWhole(machine)'
  BY NextWhole
<1>3. QED BY <1>1, <1>2, ParserLoop, PTL DEF Spec

(* From wherever the output of a program left it, the parser is back in the *)
(* ground state three bytes and a CAN later (Parser::advance_byte,          *)
(* parser.rs).                                                              *)
THEOREM ParserCancelRecovers == Spec => []CancelRecovers
  BY CancelsWhole, ParserWhole, PTL

(* What is handed over with a sequence is its own: the parameters its bytes  *)
(* write, saturated and as many as fit, its intermediates and its data, and *)
(* nothing of a sequence before it or abandoned for it (parser.rs,          *)
(* params.rs).                                                              *)
THEOREM ParserSequenceAsWritten == Spec => []SequenceAsWritten
<1>1. Init => Gathered(machine, since)
  <2>1. ASSUME Init PROVE Begins(machine) /\ since = <<>>
    BY <2>1 DEF Init, new, Begins, SequenceStates, CsiStates, DcsStates, EscapeStates
  <2>2. QED BY <2>1, BeginsGathered
<1>2. LoopInv /\ MachineWhole(machine) /\ Gathered(machine, since) /\ [Next]_vars
        => Gathered(machine, since)'
  BY NextGathered
<1>3. MachineWhole(machine) /\ Gathered(machine, since) => SequenceAsWritten
  BY GatheredIsAsWritten
<1>4. QED BY <1>1, <1>2, <1>3, ParserLoop, ParserWhole, PTL DEF Spec
=============================================================================
