----------------------------- MODULE Compositor -----------------------------
(***************************************************************************)
(* Repainting a part of the screen: update(), draw_windows() and the       *)
(* recursive draw_windows_helper() of kernel/wm/window_manager.cpp. One    *)
(* action is one call of the helper; jobs is the stack of calls that are   *)
(* still to be made, the next one first. The list of windows, from the top *)
(* to the bottom, does not change while the screen is repainted.           *)
(*                                                                         *)
(* A window is its position in the list. What is drawn is modelled by who  *)
(* was drawn at every pixel, and how often; frames, focus borders and the  *)
(* cursor are drawn on top afterwards and left out here.                   *)
(***************************************************************************)
EXTENDS Geometry, Sequences

CONSTANTS WindowCount,     \* windows in m_windows
          ScreenWidth,
          ScreenHeight,
          Areas            \* bound: the rectangles to update

ASSUME ScreenAssumption ==
  WindowCount \in Nat /\ ScreenWidth \in Nat \ {0} /\ ScreenHeight \in Nat \ {0}

VARIABLES geometry,   \* geometry of every window
          visible,    \* the visible windows
          area,         \* the rectangle to update
          jobs,         \* calls of draw_windows_helper to come: a window and a rectangle
          painter,      \* who was drawn last at a pixel: a window, BACKDROP, or NOBODY
          strokes       \* how often a pixel was drawn

compositorVars == <<geometry, visible, area, jobs, painter, strokes>>
sceneVars == <<geometry, visible, area>>

CanvasPixel == (0 .. ScreenWidth - 1) \X (0 .. ScreenHeight - 1)
ScreenRect == [x1 : 0 .. ScreenWidth, y1 : 0 .. ScreenHeight, x2 : 0 .. ScreenWidth, y2 : 0 .. ScreenHeight]

\* A window is on the screen (WindowManager), or its geometry was never set.
WindowRect == {r \in ScreenRect : r = NullRect \/ (r.x1 < r.x2 /\ r.y1 < r.y2)}

ASSUME AreasAssumption == Areas \subseteq WindowRect

WindowIndex == 1 .. WindowCount
BACKDROP == 0
NOBODY == WindowCount + 1

CompositorTypeOK ==
  /\ geometry \in [WindowIndex -> ScreenRect]
  /\ visible \subseteq WindowIndex
  /\ area \in ScreenRect
  /\ jobs \in Seq(WindowIndex \X ScreenRect)
  /\ painter \in [CanvasPixel -> WindowIndex \cup {BACKDROP, NOBODY}]
  /\ strokes \in [CanvasPixel -> Nat]

\* The drawing done by a call: the pixels of rectangle r show w.
Draws(w, R) ==
  LET Drawn == {p \in CanvasPixel : \E r \in R : In(p, r)}
  IN /\ painter' = [p \in CanvasPixel |-> IF p \in Drawn THEN w ELSE painter[p]]
     /\ strokes' = [p \in CanvasPixel |-> IF p \in Drawn THEN strokes[p] + 1 ELSE strokes[p]]

\* draw_windows(): with no window, the background is drawn at once.
CompositorInit ==
  /\ geometry \in [WindowIndex -> WindowRect]
  /\ visible \in SUBSET WindowIndex
  /\ area \in Areas
  /\ jobs = IF WindowCount = 0 THEN <<>> ELSE <<<<1, area>>>>
  /\ painter = [p \in CanvasPixel |->
                  IF WindowCount = 0 /\ In(p, area) THEN BACKDROP ELSE NOBODY]
  /\ strokes = [p \in CanvasPixel |-> IF WindowCount = 0 /\ In(p, area) THEN 1 ELSE 0]
-----------------------------------------------------------------------------
window == Head(jobs)[1]
rect == Head(jobs)[2]
intersection == intersection_with(rect, geometry[window])

has_next == window < WindowCount

\* The call has nothing to draw for the window: an invisible window, or one elsewhere.
Elsewhere == window \notin visible \/ is_null(intersection)

\* A null rectangle: the call returns.
NullUpdate ==
  /\ jobs # <<>> /\ is_null(rect)
  /\ jobs' = Tail(jobs)
  /\ UNCHANGED <<sceneVars, painter, strokes>>

\* The call goes on with the next window, or with the background.
SkipWindow ==
  /\ jobs # <<>> /\ ~is_null(rect) /\ Elsewhere
  /\ IF has_next
     THEN jobs' = <<<<window + 1, rect>>>> \o Tail(jobs) /\ UNCHANGED <<painter, strokes>>
     ELSE jobs' = Tail(jobs) /\ Draws(BACKDROP, {rect})
  /\ UNCHANGED sceneVars

\* Mutant of around: the part above is forgotten.
around_three(r, e) ==
  <<Rect(r.x1, r.y1, e.x1, r.y2), Rect(e.x2, r.y1, r.x2, r.y2),
    Rect(e.x1, e.y1, e.x2, e.y1), Rect(e.x1, e.y2, e.x2, r.y2)>>

\* The rectangles A, B, C and D around the part E of rectangle r.
around(r, e) ==
  <<Rect(r.x1, r.y1, e.x1, r.y2), Rect(e.x2, r.y1, r.x2, r.y2),
    Rect(e.x1, r.y1, e.x2, e.y1), Rect(e.x1, e.y2, e.x2, r.y2)>>

\* The window is drawn in E; the parts around are left to the windows below, or are background.
\* (The background parts are drawn after E and are disjoint from it.)
DrawWindow ==
  /\ jobs # <<>> /\ ~is_null(rect) /\ ~Elsewhere
  /\ LET parts == around(rect, intersection)
     IN IF has_next
        THEN /\ jobs' = [i \in 1 .. 4 |-> <<window + 1, parts[i]>>] \o Tail(jobs)
             /\ Draws(window, {intersection})
        ELSE LET Drawn == {p \in CanvasPixel : \E i \in 1 .. 4 : In(p, parts[i])}
                 times(p) == (IF In(p, intersection) THEN 1 ELSE 0) + (IF p \in Drawn THEN 1 ELSE 0)
             IN /\ jobs' = Tail(jobs)
                /\ painter' = [p \in CanvasPixel |-> IF p \in Drawn THEN BACKDROP
                                               ELSE IF In(p, intersection) THEN window ELSE painter[p]]
                /\ strokes' = [p \in CanvasPixel |-> strokes[p] + times(p)]
  /\ UNCHANGED sceneVars

CompositorNext == NullUpdate \/ SkipWindow \/ DrawWindow

CompositorSpec == CompositorInit /\ [][CompositorNext]_compositorVars
-----------------------------------------------------------------------------
\* The topmost visible window at a pixel, or the background.
TopWindow(p) ==
  LET Here == {w \in visible : In(p, geometry[w])}
  IN IF Here = {} THEN BACKDROP ELSE CHOOSE w \in Here : \A v \in Here : w <= v

\* A pixel is drawn once at the most, inside the rectangle to update only, and then shows the
\* topmost visible window: draw_windows_helper() never paints over what it has painted.
PaintsTopmost ==
  \A p \in CanvasPixel :
    /\ strokes[p] = 1 => In(p, area) /\ painter[p] = TopWindow(p)
    /\ strokes[p] \in {0, 1}

\* The parts that are left cover what is not drawn yet: no pixel of the update is forgotten.
NothingForgotten ==
  /\ CompositorTypeOK
  /\ \A p \in CanvasPixel :
       In(p, area) => strokes[p] = 1 \/ \E i \in 1 .. Len(jobs) : In(p, jobs[i][2])

\* Both: update() draws each pixel of its rectangle exactly once, and with the window that is seen.
PaintsRight == PaintsTopmost /\ NothingForgotten
=============================================================================
