------------------------------ MODULE MCWindows ------------------------------
(***************************************************************************)
(* The window manager and the repainting of the screen for model checking. *)
(* A repaint happens inside one action of the window manager, so that the  *)
(* two are explored one at a time; the variable `part` says which:         *)
(*   - "moving": windows are moved and resized, there are at most two;     *)
(*   - "three": up to three windows, which are not moved one by one;       *)
(*   - "repaint": a repaint, for every placement of windows on a screen of *)
(*     3 x 3 pixels, the smallest in which a window can leave all of the   *)
(*     four parts around it.                                               *)
(* One request of a task lies beside the screen and its sums overflow. The *)
(* rectangles to update are the screen, a corner of it, one column of it,  *)
(* and nothing.                                                            *)
(***************************************************************************)
EXTENDS WindowManager, Compositor, TLC

WindowSymmetry == Permutations(Window)

MCFresh == {Rect(1, 0, 4, 2)}
MCArrows == {<<1, 0>>, <<0, -1>>}
MCRequests == {<<INT_MAX, -2, 2, 1>>}
MCParts == {<<1, 0, 2, 1>>}
MCMoves == {<<1, 0>>}
MCAreas == {Rect(0, 0, 3, 3), Rect(1, 0, 3, 2), Rect(0, 1, 1, 3), NullRect}

VARIABLE part

MCInit ==
  /\ WMInit /\ CompositorInit
  /\ part \in {"moving", "three", "repaint"}
  /\ part # "repaint" => area = NullRect /\ visible = {} /\ \A w \in WindowIndex : geometry[w] = NullRect

MCNext ==
  /\ UNCHANGED part
  /\ \/ /\ part = "moving"
        /\ WMNext /\ Len(m_windows') <= 2
        /\ UNCHANGED compositorVars
     \/ /\ part = "three"
        /\ LifeOps \/ VisibilityOps \/ SwitchFocus \/ Fullscreen \/ Mosaic \/ MouseClick
        /\ UNCHANGED compositorVars
     \/ /\ part = "repaint"
        /\ CompositorNext
        /\ UNCHANGED wmVars

MCSpec == MCInit /\ [][MCNext]_<<wmVars, compositorVars, part>>
=============================================================================
