------------------------------- MODULE Params -------------------------------
(***************************************************************************)
(* The accumulator for the numeric parameters of a control sequence        *)
(* (crates/emux-vt/src/params.rs).  values[i + 1] is parameter i; flags    *)
(* says whether a colon came before it.  The number being read is in       *)
(* current.                                                                *)
(***************************************************************************)
EXTENDS Integers, Sequences

CONSTANTS MaxParams,     \* MAX_PARAMS, 32 in the source
          Base,          \* 10
          MaxValue,      \* u16::MAX
          MaxCurrent     \* u32::MAX

ASSUME ParamsAssumption ==
  /\ MaxParams \in Nat \ {0} /\ Base \in Nat \ {0}
  /\ MaxValue \in Nat /\ MaxCurrent \in Nat /\ MaxValue <= MaxCurrent

Digits == {"0", "1"}
DigitValue(b) == IF b = "1" THEN 1 ELSE 0
Separators == {";", ":"}

AtMost(n, max) == IF n < max THEN n ELSE max

NoParams ==
  [values |-> <<>>, flags |-> <<>>, current |-> 0, has_current |-> FALSE,
   trailing_sep |-> FALSE, pending_colon |-> FALSE]

PushDigit(p, b) ==
  [p EXCEPT !.has_current = TRUE, !.trailing_sep = FALSE,
            !.current = AtMost(AtMost(@ * Base, MaxCurrent) + DigitValue(b), MaxCurrent)]

Pending(p) == IF p.has_current THEN AtMost(p.current, MaxValue) ELSE 0
HasRoom(p) == Len(p.values) < MaxParams

\* A colon leaves trailing_sep as it is.
PushSeparator(p, b) ==
  [values |-> IF HasRoom(p) THEN Append(p.values, Pending(p)) ELSE p.values,
   flags |-> IF HasRoom(p) THEN Append(p.flags, p.pending_colon) ELSE p.flags,
   current |-> 0, has_current |-> FALSE,
   trailing_sep |-> b = ";" \/ p.trailing_sep,
   pending_colon |-> b = ":"]

push(p, b) ==
  IF b \in Digits THEN PushDigit(p, b)
  ELSE IF b \in Separators THEN PushSeparator(p, b) ELSE p

Unfinished(p) == HasRoom(p) /\ (p.has_current \/ p.trailing_sep)

finished(p) == IF Unfinished(p) THEN Append(p.values, Pending(p)) ELSE p.values

finished_subparam_flags(p) ==
  IF Unfinished(p) THEN Append(p.flags, p.has_current /\ p.pending_colon) ELSE p.flags

finished_len(p) == IF Unfinished(p) THEN Len(p.values) + 1 ELSE Len(p.values)

\* Parameter i, counted from 0.
get(p, i, default) ==
  IF i >= finished_len(p) THEN default
  ELSE IF i < Len(p.values) THEN p.values[i + 1] ELSE Pending(p)

get_or(p, i, default) == IF get(p, i, 0) = 0 THEN default ELSE get(p, i, 0)
=============================================================================
