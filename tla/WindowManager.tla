--------------------------- MODULE WindowManager ---------------------------
(***************************************************************************)
(* The window manager, class WindowManager of kernel/wm/window_manager.cpp *)
(* with the window system calls of pika_syscalls.cpp: the stack of         *)
(* windows, the focus, the geometry and what the screen shows.             *)
(*                                                                         *)
(* Every entry (a system call, a key, a mouse event) runs to completion    *)
(* with interrupts masked and is one action. Functions that call one       *)
(* another take and return a record of the state they share (stack).       *)
(* update() paints by its result, the topmost visible window at every      *)
(* pixel: module Compositor shows that its recursion computes that. Only   *)
(* focus messages are kept here, by the last one a window got; the message *)
(* queues and the tasks waiting on them are in TaskManager.                *)
(*                                                                         *)
(* The screen is there and has a wallpaper. The configuration is the one   *)
(* of CMakeLists.txt: no DMA, a cursor.                                    *)
(***************************************************************************)
EXTENDS Geometry, Sequences

CONSTANTS Window, NoWindow,
          BACKGROUND, CURSOR,         \* what a pixel may show besides a window
          m_screen_width, m_screen_height,
          MIN_WIDTH, MIN_HEIGHT, MAX_WIDTH, MAX_HEIGHT,
          CURSOR_WIDTH, CURSOR_HEIGHT,
          Arrows,      \* <<dx, dy>> of the arrow keys: the steps to move and to resize a window
          FreshRects,  \* what the uninitialised geometry of a new window may hold
          Requests,    \* bound: <<x, y, width, height>> that tasks ask for
          Parts,       \* bound: <<x, y, width, height>> of a window that tasks present
          Moves        \* bound: <<dx, dy>> of the mouse

ASSUME WindowAssumption == NoWindow \notin Window /\ BACKGROUND \notin Window /\ CURSOR \notin Window
ASSUME SizeAssumption ==
  /\ m_screen_width \in Nat /\ m_screen_height \in Nat
  /\ MIN_WIDTH \in 1 .. m_screen_width /\ MIN_HEIGHT \in 1 .. m_screen_height
  /\ MAX_WIDTH \in Nat /\ MIN_WIDTH <= MAX_WIDTH
  /\ MAX_HEIGHT \in Nat /\ MIN_HEIGHT <= MAX_HEIGHT
  /\ m_screen_width <= INT_MAX /\ m_screen_height <= INT_MAX

Int32Pair == Int32 \X Int32
RectOf == [x1 : Int32, y1 : Int32, x2 : Int32, y2 : Int32]

\* What callers and devices hand over are 32-bit numbers.
ASSUME RequestAssumption ==
  /\ FreshRects \subseteq RectOf
  /\ Requests \subseteq Int32 \X Int32 \X Int32 \X Int32
  /\ Arrows \subseteq Int32Pair /\ Moves \subseteq Int32Pair

VARIABLES m_windows,       \* the windows, from the top to the bottom
          m_focus_window,  \* the window with the focus, or NoWindow
          m_focus,         \* Window::m_focus: the windows that believe to have the focus
          told,            \* the windows whose last focus message was FOCUS_IN
          m_visible,       \* Window::m_visible: the visible windows
          m_geometry,      \* Window::m_geometry
          placed,          \* the windows whose geometry was set since they were created
          m_cursor,        \* <<m_cursor_x, m_cursor_y>>
          screen           \* what every pixel shows

focusVars == <<m_windows, m_focus_window, m_focus, told>>
windowVars == <<m_visible, m_geometry, placed>>
wmVars == <<focusVars, windowVars, m_cursor, screen>>

Pixel == (0 .. m_screen_width - 1) \X (0 .. m_screen_height - 1)
Live == {m_windows[i] : i \in 1 .. Len(m_windows)}

FocusTypeOK ==
  /\ m_windows \in Seq(Window)
  /\ m_focus_window \in Window \cup {NoWindow}
  /\ m_focus \subseteq Window /\ told \subseteq Window /\ m_visible \subseteq Window

PlaceTypeOK ==
  /\ placed \subseteq Window
  /\ m_geometry \in [Window -> RectOf]
  /\ m_cursor \in (0 .. m_screen_width) \X (0 .. m_screen_height)

ScreenTypeOK == screen \in [Pixel -> Window \cup {BACKGROUND, CURSOR}]

WMInit ==
  /\ m_windows = <<>> /\ m_focus_window = NoWindow
  /\ m_focus = {} /\ told = {} /\ m_visible = {} /\ placed = {}
  /\ m_geometry = [w \in Window |-> NullRect]
  /\ m_cursor = <<0, 0>>
  /\ screen = [p \in Pixel |-> IF p[1] < CURSOR_WIDTH /\ p[2] < CURSOR_HEIGHT THEN CURSOR ELSE BACKGROUND]
-----------------------------------------------------------------------------
\* The topmost visible window of the list at a pixel, or the background.
Topmost(windows, visible, geometry, p) ==
  LET Here == {i \in 1 .. Len(windows) : windows[i] \in visible /\ In(p, geometry[windows[i]])}
  IN IF Here = {} THEN BACKGROUND ELSE windows[CHOOSE i \in Here : \A j \in Here : i <= j]

\* The cursor, clipped to the screen.
cursor_rect(cursor) ==
  [x1 |-> Greater(0, cursor[1]), y1 |-> Greater(0, cursor[2]),
   x2 |-> Lesser(m_screen_width, cursor[1] + CURSOR_WIDTH),
   y2 |-> Lesser(m_screen_height, cursor[2] + CURSOR_HEIGHT)]

\* update(): the windows and the background in r, then the cursor if it is near.
update(shown, windows, visible, geometry, cursor, r) ==
  LET c == cursor_rect(cursor)
  IN [p \in Pixel |->
        IF intersects(c, r) /\ In(p, c) THEN CURSOR
        ELSE IF In(p, r) THEN Topmost(windows, visible, geometry, p)
        ELSE shown[p]]

\* erase(it): the list without the window.
erase(windows, w) ==
  LET i == CHOOSE j \in 1 .. Len(windows) : windows[j] = w
  IN SubSeq(windows, 1, i - 1) \o SubSeq(windows, i + 1, Len(windows))

\* The state the focus functions share; visible and geometry do not change in them.
stack == [windows |-> m_windows, focus |-> m_focus_window, flags |-> m_focus, told |-> told,
          visible |-> m_visible, geometry |-> m_geometry, shown |-> screen]

\* The second half of focus_window(): FOCUS_IN, the focus, the front of the list, a repaint.
give_focus(s, w) ==
  LET windows == <<w>> \o erase(s.windows, w)
  IN [s EXCEPT !.told = @ \cup {w}, !.focus = w, !.flags = @ \cup {w}, !.windows = windows,
               !.shown = update(@, windows, s.visible, s.geometry, m_cursor, s.geometry[w])]

\* The window unfocus_window() passes the focus on to: the last visible one of the list.
next_focus(s, w) ==
  LET Others == {i \in 1 .. Len(s.windows) : s.windows[i] # w /\ s.windows[i] \in s.visible}
  IN IF Others = {} THEN NoWindow ELSE s.windows[CHOOSE i \in Others : \A j \in Others : j <= i]

\* unfocus_window(): FOCUS_OUT, then focus_window() of another visible window. At that point
\* nobody has the focus, so that call has no window to unfocus.
unfocus_window(s, w) ==
  IF s.focus # w THEN s
  ELSE LET out == [s EXCEPT !.flags = @ \ {w}, !.told = @ \ {w}, !.focus = NoWindow]
           new_focus_window == next_focus(s, w)
       IN IF new_focus_window = NoWindow THEN out ELSE give_focus(out, new_focus_window)

\* focus_window(): the focused window is unfocused first, which may focus a third one.
focus_window(s, w) ==
  IF s.focus = w THEN s
  ELSE give_focus(IF s.focus = NoWindow THEN s ELSE unfocus_window(s, s.focus), w)

\* The state after an operation that only changes the stack.
Becomes(s) ==
  /\ m_windows' = s.windows /\ m_focus_window' = s.focus /\ m_focus' = s.flags /\ told' = s.told
  /\ screen' = s.shown
-----------------------------------------------------------------------------
\* SYS_WINDOW_CREATE: create_window(). The geometry is not initialised.
CreateWindow(w) ==
  /\ w \notin Live
  /\ \E r \in FreshRects :
       LET s == [stack EXCEPT !.windows = Append(@, w), !.geometry = [@ EXCEPT ![w] = r],
                              !.visible = @ \ {w}, !.flags = @ \ {w}, !.told = @ \ {w}]
       IN Becomes(focus_window(s, w)) /\ m_geometry' = s.geometry
  /\ m_visible' = m_visible \ {w} /\ placed' = placed \ {w}
  /\ UNCHANGED m_cursor

\* Mutant of destroy_window: the window keeps the focus when it is destroyed.
destroy_window_focused(w) ==
  LET windows == erase(m_windows, w)
      gone == [stack EXCEPT !.windows = windows]
      repainted == [gone EXCEPT !.shown = IF w \in m_visible
                                          THEN update(@, windows, m_visible, m_geometry, m_cursor, m_geometry[w])
                                          ELSE @]
  IN repainted

\* destroy_window(): the focus goes to the window at the back, visible or not.
destroy_window(w) ==
  LET s == unfocus_window(stack, w)
      windows == erase(s.windows, w)
      gone == [s EXCEPT !.windows = windows]
      repainted == [gone EXCEPT !.shown = IF w \in m_visible
                                          THEN update(@, windows, m_visible, m_geometry, m_cursor, m_geometry[w])
                                          ELSE @]
  IN IF windows = <<>> THEN repainted ELSE focus_window(repainted, windows[Len(windows)])

\* The end of the window's task. (SYS_WINDOW_DESTROY checks its argument and destroys nothing.)
DestroyWindow(w) ==
  /\ w \in Live
  /\ Becomes(destroy_window(w))
  /\ m_visible' = m_visible \ {w}
  /\ UNCHANGED <<m_geometry, placed, m_cursor>>

\* set_window_visibility(w, true): a window that is shown takes the focus if nobody has it.
shown_focus(s, w) == IF s.focus = NoWindow THEN focus_window(s, w) ELSE s

\* SYS_WINDOW_SET_VISIBILITY with true. Both ways end in a repaint of the window.
ShowWindow(w) ==
  /\ w \in Live \ m_visible
  /\ LET s == shown_focus([stack EXCEPT !.visible = @ \cup {w}], w)
     IN Becomes([s EXCEPT !.shown = update(@, s.windows, s.visible, s.geometry, m_cursor, s.geometry[w])])
  /\ m_visible' = m_visible \cup {w}
  /\ UNCHANGED <<m_geometry, placed, m_cursor>>

\* SYS_WINDOW_SET_VISIBILITY with false: the place of the window is not repainted.
HideWindow(w) ==
  /\ w \in Live \cap m_visible
  /\ Becomes(unfocus_window([stack EXCEPT !.visible = @ \ {w}], w))
  /\ m_visible' = m_visible \ {w}
  /\ UNCHANGED <<m_geometry, placed, m_cursor>>
-----------------------------------------------------------------------------
\* Mutant of constrain: the position is not constrained.
constrain_size_only(lo, hi, min_size, max_size, size) ==
  {<<lo, lo + clamp(n, min_size, Lesser(max_size, size))>> : n \in sub(hi, lo)}

\* The constraints of set_window_geometry() on one axis: the edges <<lo, hi>> the window gets.
constrain(lo, hi, min_size, max_size, size) ==
  {LET n == clamp(m, min_size, Lesser(max_size, size))
       at == clamp(lo, 0, size - n)
   IN <<at, at + n>> : m \in sub(hi, lo)}

\* The rectangles set_window_geometry() may give a window for the edges x1, y1, x2, y2.
constrained(x1, y1, x2, y2) ==
  {[x1 |-> h[1], x2 |-> h[2], y1 |-> v[1], y2 |-> v[2]] :
     h \in constrain(x1, x2, MIN_WIDTH, MAX_WIDTH, m_screen_width),
     v \in constrain(y1, y2, MIN_HEIGHT, MAX_HEIGHT, m_screen_height)}

\* from_pos_and_size() and the constraints.
place(x, y, w, h) ==
  UNION {LET r == Rect(x, y, x2, y2) IN constrained(r.x1, r.y1, r.x2, r.y2) :
           x2 \in add(x, w), y2 \in add(y, h)}

\* Mutant of set_window_geometry: the old place is not repainted.
set_window_geometry_leave(w, rect) ==
  LET geometry == [m_geometry EXCEPT ![w] = rect]
  IN /\ m_geometry' = geometry
     /\ placed' = placed \cup {w}
     /\ screen' = update(screen, m_windows, m_visible, geometry, m_cursor, rect)

\* set_window_geometry(): a repaint of the old and the new place when they differ.
set_window_geometry(w, rect) ==
  LET old_rect == m_geometry[w]
      geometry == [m_geometry EXCEPT ![w] = rect]
  IN /\ m_geometry' = geometry
     /\ placed' = placed \cup {w}
     /\ screen' = IF old_rect = rect THEN screen
                  ELSE update(screen, m_windows, m_visible, geometry, m_cursor, union_with(old_rect, rect))

\* SYS_WINDOW_SET_GEOMETRY. The positions DEFAULT and CENTERED are requests like any other.
SetGeometry(w, request) ==
  /\ w \in Live
  /\ \E rect \in place(request[1], request[2], request[3], request[4]) : set_window_geometry(w, rect)
  /\ UNCHANGED <<focusVars, m_visible, m_cursor>>

\* SYS_WINDOW_PRESENT: a part of the window, cut at its edges, is repainted.
Present(w, part) ==
  /\ w \in Live
  /\ LET r == m_geometry[w]
         x == Lesser(part[1], width(r))
         y == Lesser(part[2], height(r))
         w1 == Lesser(part[3], width(r) - x)
         h1 == Lesser(part[4], height(r) - y)
     IN screen' = update(screen, m_windows, m_visible, m_geometry, m_cursor,
                         Rect(r.x1 + x, r.y1 + y, r.x1 + x + w1, r.y1 + y + h1))
  /\ UNCHANGED <<focusVars, windowVars, m_cursor>>
-----------------------------------------------------------------------------
\* Alt+T, switch_focus(): the focused window goes to the back, the one behind it to the front.
SwitchFocus ==
  /\ m_windows # <<>>
  /\ IF m_focus_window = NoWindow
     THEN Becomes(focus_window(stack, Head(m_windows)))
     ELSE LET old == CHOOSE i \in 1 .. Len(m_windows) : m_windows[i] = m_focus_window
              new == m_windows[IF old = Len(m_windows) THEN 1 ELSE old + 1]
              windows == Append(erase(<<new>> \o erase(m_windows, new), m_focus_window), m_focus_window)
          IN /\ new # m_focus_window
             /\ m_focus' = (m_focus \ {m_focus_window}) \cup {new}
             /\ told' = (told \ {m_focus_window}) \cup {new}
             /\ m_focus_window' = new
             /\ m_windows' = windows
             /\ screen' = update(screen, windows, m_visible, m_geometry, m_cursor, m_geometry[new])
  /\ UNCHANGED <<windowVars, m_cursor>>

\* Alt and an arrow, move_focus_window().
MoveFocusWindow(d) ==
  /\ m_focus_window # NoWindow
  /\ LET r == m_geometry[m_focus_window]
     IN \E x1 \in add(r.x1, d[1]), x2 \in add(r.x2, d[1]), y1 \in add(r.y1, d[2]), y2 \in add(r.y2, d[2]) :
          \E rect \in constrained(x1, y1, x2, y2) : set_window_geometry(m_focus_window, rect)
  /\ UNCHANGED <<focusVars, m_visible, m_cursor>>

\* Alt, Shift and an arrow, resize_focus_window().
ResizeFocusWindow(d) ==
  /\ m_focus_window # NoWindow
  /\ LET r == m_geometry[m_focus_window]
         dx == IF width(r) + d[1] < MIN_WIDTH THEN MIN_WIDTH - width(r) ELSE d[1]
         dy == IF height(r) + d[2] < MIN_HEIGHT THEN MIN_HEIGHT - height(r) ELSE d[2]
     IN \E x2 \in add(r.x2, dx), y2 \in add(r.y2, dy) :
          \E rect \in constrained(r.x1, r.y1, x2, y2) : set_window_geometry(m_focus_window, rect)
  /\ UNCHANGED <<focusVars, m_visible, m_cursor>>

\* Alt+F: the focused window gets the whole screen.
Fullscreen ==
  /\ m_focus_window # NoWindow
  /\ \E rect \in place(0, 0, m_screen_width, m_screen_height) : set_window_geometry(m_focus_window, rect)
  /\ UNCHANGED <<focusVars, m_visible, m_cursor>>

\* ceil(sqrt(n)), the way mosaic_layout() wants its columns.
columns(n) == CHOOSE c \in 1 .. n : c * c >= n /\ (c - 1) * (c - 1) < n

\* Mutant of cell: the last window does not know where its column starts.
cell_last_wide(k, n) ==
  LET nb_columns == columns(n)
      nb_rows == (n + nb_columns - 1) \div nb_columns
      w == m_screen_width \div nb_columns
      h == m_screen_height \div nb_rows
      i == k % nb_columns
      x == IF k + 1 = n THEN 0 ELSE i * w
      is_last == k + 1 = n
  IN place(x, (k \div nb_columns) * h, IF is_last THEN nb_columns * w ELSE w, h)

\* The places of the k-th of n windows, from 0: a row takes nb_columns windows, the last window
\* takes the rest of its row.
cell(k, n) ==
  LET nb_columns == columns(n)
      nb_rows == (n + nb_columns - 1) \div nb_columns
      w == m_screen_width \div nb_columns
      h == m_screen_height \div nb_rows
      i == k % nb_columns
      is_last == k + 1 = n
  IN place(i * w, (k \div nb_columns) * h, IF is_last THEN (nb_columns - i) * w ELSE w, h)

\* Alt+M, mosaic_layout(). The repaints of the windows' old and new places, one after the
\* other, end with the screen as the last geometries want it in all of these places.
Mosaic ==
  /\ m_windows # <<>>
  /\ LET n == Len(m_windows)
         at(w) == CHOOSE i \in 1 .. n : m_windows[i] = w
     IN \E layout \in [Live -> UNION {cell(k, n) : k \in 0 .. n - 1}] :
          LET geometry == [w \in Window |-> IF w \in Live THEN layout[w] ELSE m_geometry[w]]
              \* The k first windows have moved.
              midway(k) == [w \in Window |-> IF w \in Live /\ at(w) <= k THEN layout[w] ELSE m_geometry[w]]
              shown[k \in 0 .. n] ==
                IF k = 0 THEN screen
                ELSE IF m_geometry[m_windows[k]] = layout[m_windows[k]] THEN shown[k - 1]
                ELSE update(shown[k - 1], m_windows, m_visible, midway(k), m_cursor,
                            union_with(m_geometry[m_windows[k]], layout[m_windows[k]]))
          IN /\ \A w \in Live : layout[w] \in cell(at(w) - 1, n)
             /\ m_geometry' = geometry
             /\ placed' = placed \cup Live
             /\ screen' = shown[n]
  /\ UNCHANGED <<focusVars, m_visible, m_cursor>>
-----------------------------------------------------------------------------
\* handle_mouse_move_event(): the old place of the cursor is repainted.
MouseMove(d) ==
  /\ LET cursor == <<clamp(m_cursor[1] + d[1], 0, m_screen_width), clamp(m_cursor[2] + d[2], 0, m_screen_height)>>
     IN /\ cursor # m_cursor
        /\ m_cursor' = cursor
        /\ screen' = update(screen, m_windows, m_visible, m_geometry, cursor, cursor_rect(m_cursor))
  /\ UNCHANGED <<focusVars, windowVars>>

\* handle_mouse_click_event(): the first window of the list under the cursor, visible or not.
MouseClick ==
  /\ LET Here == {i \in 1 .. Len(m_windows) : contains(m_geometry[m_windows[i]], m_cursor[1], m_cursor[2])}
     IN /\ Here # {}
        /\ Becomes(focus_window(stack, m_windows[CHOOSE i \in Here : \A j \in Here : i <= j]))
  /\ UNCHANGED <<windowVars, m_cursor>>

LifeOps == \E w \in Window : CreateWindow(w) \/ DestroyWindow(w)
VisibilityOps == \E w \in Window : ShowWindow(w) \/ HideWindow(w)
GeometryOps == \E w \in Window : (\E r \in Requests : SetGeometry(w, r)) \/ (\E r \in Parts : Present(w, r))
KeyOps == SwitchFocus \/ Fullscreen \/ Mosaic \/ \E d \in Arrows : MoveFocusWindow(d) \/ ResizeFocusWindow(d)
MouseOps == MouseClick \/ \E d \in Moves : MouseMove(d)

WMNext == LifeOps \/ VisibilityOps \/ GeometryOps \/ KeyOps \/ MouseOps

WMSpec == WMInit /\ [][WMNext]_wmVars
-----------------------------------------------------------------------------
\* The list holds a window once, the window with the focus is in front of all others and knows
\* that it has the focus, and the focus is never lost while a window is visible: every path
\* through focus_window() and unfocus_window(), which call one another, keeps this.
FocusInv ==
  /\ FocusTypeOK
  /\ \A i, j \in 1 .. Len(m_windows) : m_windows[i] = m_windows[j] => i = j
  /\ m_focus_window # NoWindow =>
       m_windows # <<>> /\ Head(m_windows) = m_focus_window /\ m_focus_window \in m_focus \cap told
  /\ m_focus_window = NoWindow => Live \cap m_visible = {}

\* A window whose geometry was set is on the screen as a whole, whatever was asked for and
\* even if the sums of the request overflow.
OnScreen ==
  /\ PlaceTypeOK
  /\ \A w \in Live \cap placed :
       LET r == m_geometry[w]
       IN /\ 0 <= r.x1 /\ r.x1 + MIN_WIDTH <= r.x2 /\ r.x2 <= m_screen_width
          /\ 0 <= r.y1 /\ r.y1 + MIN_HEIGHT <= r.y2 /\ r.y2 <= m_screen_height

\* The pixels that show neither the topmost visible window nor the cursor at its place.
Stale == {p \in Pixel : /\ screen[p] # Topmost(m_windows, m_visible, m_geometry, p)
                        /\ ~(screen[p] = CURSOR /\ In(p, cursor_rect(m_cursor)))}

\* Only hiding a window and Alt+T leave pixels behind that show what is no longer there: every
\* other operation repaints all it changes.
Repaints ==
  [][/\ ScreenTypeOK'
     /\ \/ Stale' \subseteq Stale
        \/ \E w \in Window : HideWindow(w)
        \/ SwitchFocus]_wmVars

\* The cells of a mosaic of n windows are no smaller than a window may be.
MosaicFits(n) ==
  /\ MIN_WIDTH <= m_screen_width \div columns(n)
  /\ MIN_HEIGHT <= m_screen_height \div ((n + columns(n) - 1) \div columns(n))

\* The mosaic layout, if the screen is large enough, leaves no two windows on one another.
MosaicIsDisjoint ==
  [][Mosaic /\ MosaicFits(Len(m_windows)) =>
       \A v, w \in Live : v # w => ~\E p \in Pixel : In(p, m_geometry'[v]) /\ In(p, m_geometry'[w])]_wmVars
-----------------------------------------------------------------------------
\* window.hpp, m_focus: "the window currently has the focus (receives keyboard inputs)?" The
\* windows that are flagged, and drawn with the focus border, are the ones with the focus.
OneFocus == m_focus \cap Live \subseteq {m_focus_window}
=============================================================================
