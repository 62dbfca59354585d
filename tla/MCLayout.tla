------------------------------ MODULE MCLayout ------------------------------
(* Instances of Layout for model checking. *)
EXTENDS Layout, TLC

CONSTANTS p1, p2, p3, p4,  \* pane ids
          u1, u2, u3       \* leaf ids of templates (100, 101, 102 in the code)

MCSizes == {<<10, 5>>, <<8, 4>>, <<3, 2>>}
MCAmounts == {4, -4}

(* The templates swap_config.rs builds for one, two and three panes; a tab  *)
(* that ever had a hundred panes may have one whose id is that of a leaf.   *)
MCBases == {<<u1, u2, u3>>} \cup {<<u1, p, u3>> : p \in Ids} \cup {<<u1, u2, p>> : p \in Ids}
MCTemplates == {build_layout_node(base, n, "Horizontal", 30) : base \in MCBases, n \in 1 .. 3}

PaneSymmetry == Permutations(Ids)
=============================================================================
