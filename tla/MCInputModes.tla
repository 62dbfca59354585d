---------------------------- MODULE MCInputModes ----------------------------
(* One pane of five columns that can be split once; programs print two      *)
(* lines, one or four.  Each user has a part of the keys, of the area and   *)
(* of the sizes.                                                            *)
EXTENDS InputModes

MCSizes == {<<5, 4>>, <<5, 3>>, <<5, 2>>, <<5, 1>>}
MCText == <<<<"a", "a">>, <<"A", "n">>, <<"n", "a">>, <<" ", "n">>>>

\* Column 1 or 2 is where a border is or is dragged to; row 1 may be the status bar.
Searcher ==
  [keys |-> {"search", "split_right", "focus_left", "close_pane"} \cup SearchKeys,
   buttons |-> {}, points |-> {<<1, 0>>}, sizes |-> {<<5, 2>>, <<5, 1>>}, lines |-> 2]
Copier ==
  [keys |-> {"copy_mode", "scroll_up", "scroll_down", "Esc"} \cup DOMAIN CopyKey,
   buttons |-> {}, points |-> {<<1, 0>>}, sizes |-> {<<5, 3>>, <<5, 1>>}, lines |-> 2]
CopierWithMouse ==
  [keys |-> {"copy_mode", "split_right", "Dollar"},
   buttons |-> {"Left"}, points |-> {<<2, 0>>}, sizes |-> {<<5, 2>>, <<5, 1>>}, lines |-> 1]
MouseUser ==
  [keys |-> {"split_right"},
   buttons |-> {"Left"}, points |-> {<<1, 0>>, <<2, 1>>},
   sizes |-> {<<5, 2>>, <<5, 1>>}, lines |-> 2]
TwoButtonUser ==
  [keys |-> {"split_right"}, buttons |-> {"Left", "Right"}, points |-> {<<1, 0>>},
   sizes |-> {<<5, 2>>, <<5, 1>>}, lines |-> 1]

\* The pane grows by two rows, and takes two lines of its history back.
Stretcher ==
  [keys |-> {"scroll_up"}, buttons |-> {"Left"}, points |-> {<<1, 0>>},
   sizes |-> {<<5, 3>>, <<5, 1>>}, lines |-> 4]
Stacker ==
  [keys |-> {"split_down", "toggle_fullscreen", "toggle_float", "next_tab", "prev_tab", "close_tab"},
   buttons |-> {"Left"}, points |-> {<<1, 1>>}, sizes |-> {<<5, 4>>}, lines |-> 2]

Zoomer ==
  [keys |-> {"split_right", "split_down", "focus_left", "close_pane", "toggle_fullscreen"},
   buttons |-> {}, points |-> {<<1, 0>>}, sizes |-> {<<5, 2>>, <<5, 1>>}, lines |-> 1]
ZoomerWithMouse ==
  [keys |-> {"split_right", "toggle_fullscreen"},
   buttons |-> {"Left"}, points |-> {<<1, 0>>, <<3, 0>>}, sizes |-> {<<5, 1>>}, lines |-> 2]

MCUsers ==
  {Searcher, Copier, CopierWithMouse, MouseUser, TwoButtonUser, Stretcher, Stacker, Zoomer,
   ZoomerWithMouse}
=============================================================================
