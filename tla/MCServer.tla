------------------------------- MODULE MCServer -------------------------------
(***************************************************************************)
(* Instance of Server: two processes and two names; under one the disk     *)
(* holds a session that the standalone program saved, which calls all of   *)
(* them "main", and the socket of a process that crashed.                  *)
(***************************************************************************)
EXTENDS Server, TLC

Symmetry == Permutations(Servers)

SavedTab(name, titles) == [name |-> name, titles |-> titles]

MCSaved ==
  ("a" :> [name |-> "main", size |-> "80x24", active |-> 1,
           tabs |-> <<SavedTab("Tab 1", 0 :> "vim")>>])
  @@ ("b" :> NoFile)
=============================================================================
