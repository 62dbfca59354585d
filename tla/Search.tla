------------------------------- MODULE Search -------------------------------
(***************************************************************************)
(* Plain-text search in rows of text (crates/emux-term/src/search.rs).     *)
(* Lower-casing maps characters one to one; where it does not (a few       *)
(* letters outside ASCII), the code counts columns in the lower-cased text. *)
(***************************************************************************)
EXTENDS Integers, Sequences, SequencesExt

NoMatch == -1   \* SearchState::current = None; an index counts from 0

Lowercase == [A |-> "a", N |-> "n"]
to_lowercase(text) ==
  [i \in DOMAIN text |-> IF text[i] \in DOMAIN Lowercase THEN Lowercase[text[i]] ELSE text[i]]

(* The query occurs at the column, columns from 0. *)
OccursAt(text, query, col) ==
  /\ col + Len(query) <= Len(text)
  /\ to_lowercase(SubSeq(text, col + 1, col + Len(query))) = to_lowercase(query)

Occurrences(text, query) == {col \in 0 .. Len(text) - 1 : OccursAt(text, query, col)}

(* The leftmost occurrence, then the leftmost that begins behind its end... *)
MatchColumns(text, query) ==
  LET from[start \in 0 .. Len(text) + Len(query)] ==
        LET C == {col \in Occurrences(text, query) : col >= start}
            first == CHOOSE col \in C : \A c \in C : col <= c
        IN  IF C = {} THEN <<>> ELSE <<first>> \o from[first + Len(query)]
  IN  from[0]

MatchesOfRow(row, text, query) ==
  LET cols == MatchColumns(text, query)
  IN  [i \in DOMAIN cols |-> [row |-> row, col |-> cols[i], len |-> Len(query)]]

find_all_matches(texts, query) ==
  IF query = <<>> THEN <<>>
  ELSE FlattenSeq([r \in DOMAIN texts |-> MatchesOfRow(r - 1, texts[r], query)])

next_match_index(current, total) ==
  IF total = 0 THEN NoMatch ELSE (current + 1) % total

prev_match_index(current, total) ==
  CASE total = 0 -> NoMatch
    [] total > 0 /\ current \in {0, NoMatch} -> total - 1
    [] OTHER -> current - 1
=============================================================================
