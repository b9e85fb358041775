-------------------------- MODULE MCViewerSession --------------------------
(* Grants and repaints for the runs of ViewerSession. *)
EXTENDS ViewerSession

\* Less than asked, exactly that, control of the pointer alone, and a grant
\* without the screen.
AllGrants == {ViewOnly, ViewAndControl, {"view", "pointer"}, {"pointer"}}

Idle == [window |-> TRUE, canvas |-> TRUE, moved |-> FALSE, buttons |-> {},
         scrolled |-> FALSE, shift |-> FALSE, keys |-> <<>>]
Away == [Idle EXCEPT !.canvas = FALSE]

\* The canvas gains and loses the focus, and the window loses it with a button
\* held; a key goes down or up; a modifier goes down with a key, or stays down
\* while the focus comes and goes; the button goes down without the focus, and
\* up anywhere.
Repaints ==
  {Away, [Away EXCEPT !.moved = TRUE, !.scrolled = TRUE],
   [Away EXCEPT !.window = FALSE, !.shift = TRUE],
   [Away EXCEPT !.buttons = {"buttonDown"}], [Away EXCEPT !.buttons = {"buttonUp"}],
   [Idle EXCEPT !.keys = <<"keyDown">>], [Idle EXCEPT !.keys = <<"keyUp">>],
   [Idle EXCEPT !.shift = TRUE], [Idle EXCEPT !.shift = TRUE, !.keys = <<"keyDown">>]}

=============================================================================
