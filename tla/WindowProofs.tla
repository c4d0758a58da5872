---------------------------- MODULE WindowProofs ----------------------------
(***************************************************************************)
(* The focus of the window manager, the places of the windows and the      *)
(* repainting of the screen, for any number of windows and any screen; and *)
(* what the painter draws, for any buffer, any clipping and any font.      *)
(***************************************************************************)
EXTENDS WindowManager, Compositor, Painter, OrderTheorems, FiniteSetTheorems, TLAPS

\* A list holds a window, and holds every window once.
Has(windows, v) == \E i \in 1 .. Len(windows) : windows[i] = v
Once(windows) == \A i, j \in 1 .. Len(windows) : windows[i] = windows[j] => i = j

\* A list of windows without the i-th.
Without(e, windows, w, i) ==
  /\ windows[i] = w /\ Len(windows) \in Nat /\ e \in Seq(Window) /\ Len(e) = Len(windows) - 1
  /\ \A k \in 1 .. Len(windows) - 1 : e[k] = IF k < i THEN windows[k] ELSE windows[k + 1]

\* erase() moves the windows behind the one it takes out by one place.
LEMMA EraseIndex ==
  ASSUME NEW windows \in Seq(Window), NEW w, Has(windows, w)
  PROVE  \E i \in 1 .. Len(windows) : Without(erase(windows, w), windows, w, i)
<1> DEFINE i == CHOOSE j \in 1 .. Len(windows) : windows[j] = w
           t == erase(windows, w)
           n == Len(windows)
           A == SubSeq(windows, 1, i - 1)
           B == SubSeq(windows, i + 1, n)
<1>1. n \in Nat /\ i \in 1 .. n /\ windows[i] = w
  BY DEF Has
<1>2. t = A \o B
  BY DEF erase
<1> HIDE DEF i, t
<1>3. A \in Seq(Window) /\ Len(A) = i - 1 /\ \A k \in 1 .. i - 1 : A[k] = windows[k]
  BY <1>1
<1>4. B \in Seq(Window) /\ Len(B) = n - i /\ \A k \in 1 .. n - i : B[k] = windows[k + i]
  BY <1>1
<1> HIDE DEF A, B
<1>5. t \in Seq(Window) /\ Len(t) = n - 1
  <2>1. A \o B \in Seq(Window) /\ Len(A \o B) = Len(A) + Len(B)
    BY <1>3, <1>4, ConcatFacts
  <2> QED
    BY <1>1, <1>2, <1>3, <1>4, <2>1
<1>6. ASSUME NEW k \in 1 .. n - 1 PROVE t[k] = IF k < i THEN windows[k] ELSE windows[k + 1]
  <2>1. CASE k < i
    <3>1. k \in 1 .. Len(A) /\ k \in 1 .. i - 1
      BY <1>1, <1>3, <2>1
    <3> QED
      BY <1>2, <1>3, <1>4, <2>1, <3>1, ConcatFacts
  <2>2. CASE ~(k < i)
    <3>1. k \in Len(A) + 1 .. Len(A) + Len(B) /\ k - Len(A) \in 1 .. n - i /\ k - Len(A) + i = k + 1
      BY <1>1, <1>3, <1>4, <2>2
    <3>2. t[k] = B[k - Len(A)]
      BY <1>2, <1>3, <1>4, <3>1, ConcatFacts
    <3>3. B[k - Len(A)] = windows[k - Len(A) + i]
      BY <1>4, <3>1
    <3> QED
      BY <2>2, <3>1, <3>2, <3>3
  <2> QED
    BY <2>1, <2>2
<1>7. Without(t, windows, w, i)
  BY <1>1, <1>5, <1>6 DEF Without
<1> QED
  BY <1>1, <1>7 DEF t

\* erase() takes out the window and keeps the others, once each; the first one stays the first.
LEMMA EraseFacts ==
  ASSUME NEW windows \in Seq(Window), Once(windows), NEW w, Has(windows, w)
  PROVE  /\ erase(windows, w) \in Seq(Window) /\ Once(erase(windows, w))
         /\ \A v : Has(erase(windows, w), v) <=> Has(windows, v) /\ v # w
         /\ Len(erase(windows, w)) = Len(windows) - 1 /\ Len(windows) \in Nat
         /\ windows[1] # w => Len(windows) > 1 /\ erase(windows, w)[1] = windows[1]
<1> DEFINE t == erase(windows, w)
           n == Len(windows)
<1>1. PICK i \in 1 .. n : Without(t, windows, w, i)
  BY EraseIndex
<1> HIDE DEF t
<1>2. /\ n \in Nat /\ i \in 1 .. n /\ windows[i] = w
      /\ t \in Seq(Window) /\ Len(t) = n - 1
      /\ \A k \in 1 .. n - 1 : t[k] = IF k < i THEN windows[k] ELSE windows[k + 1]
  BY <1>1 DEF Without
<1>3. Once(t)
  <2> SUFFICES ASSUME NEW k \in 1 .. n - 1, NEW l \in 1 .. n - 1, t[k] = t[l] PROVE k = l
    BY <1>2 DEF Once
  <2> DEFINE K == IF k < i THEN k ELSE k + 1
             L == IF l < i THEN l ELSE l + 1
  <2>1. K \in 1 .. n /\ L \in 1 .. n /\ t[k] = windows[K] /\ t[l] = windows[L]
    BY <1>2
  <2>2. K = L
    BY <2>1 DEF Once
  <2> QED
    BY <1>2, <2>2
<1>4. ASSUME NEW v PROVE Has(t, v) <=> Has(windows, v) /\ v # w
  <2>1. ASSUME NEW k \in 1 .. n - 1, t[k] = v PROVE Has(windows, v) /\ v # w
    <3> DEFINE K == IF k < i THEN k ELSE k + 1
    <3>1. K \in 1 .. n /\ K # i /\ t[k] = windows[K]
      BY <1>2
    <3> QED
      BY <1>2, <2>1, <3>1 DEF Has, Once
  <2>2. ASSUME NEW k \in 1 .. n, windows[k] = v, v # w PROVE \E l \in 1 .. n - 1 : t[l] = v
    <3>1. k # i
      BY <1>2, <2>2
    <3>2. CASE k < i
      <4>1. k \in 1 .. n - 1 /\ t[k] = windows[k]
        BY <1>2, <3>2
      <4> QED
        BY <2>2, <4>1
    <3>3. CASE i < k
      <4>1. k - 1 \in 1 .. n - 1 /\ ~(k - 1 < i) /\ k - 1 + 1 = k
        BY <1>2, <3>3
      <4>2. t[k - 1] = windows[k]
        BY <1>2, <4>1
      <4> QED
        BY <2>2, <4>1, <4>2
    <3> QED
      BY <1>2, <3>1, <3>2, <3>3
  <2> QED
    BY <1>2, <2>1, <2>2 DEF Has
<1>5. windows[1] # w => Len(windows) > 1 /\ t[1] = windows[1]
  BY <1>2
<1> QED
  BY <1>2, <1>3, <1>4, <1>5 DEF t

\* What a list with one more window in front holds.
LEMMA ConsFacts ==
  ASSUME NEW w \in Window, NEW e \in Seq(Window)
  PROVE  /\ <<w>> \o e \in Seq(Window) /\ Len(<<w>> \o e) = Len(e) + 1 /\ Len(e) \in Nat
         /\ (<<w>> \o e)[1] = w
         /\ \A k \in 2 .. Len(e) + 1 : (<<w>> \o e)[k] = e[k - 1]
OBVIOUS

\* The windows, once each, with w in front.
FrontOf(t, windows, w) ==
  /\ t \in Seq(Window) /\ Once(t) /\ \A v : Has(t, v) <=> Has(windows, v)
  /\ t[1] = w /\ w \in Window /\ Len(t) \in Nat /\ Len(t) > 0

\* Moving a window to the front keeps the windows, once each.
LEMMA FrontFacts ==
  ASSUME NEW windows \in Seq(Window), Once(windows), NEW w, Has(windows, w)
  PROVE  FrontOf(<<w>> \o erase(windows, w), windows, w)
<1> DEFINE t == <<w>> \o erase(windows, w)
<1> DEFINE e == erase(windows, w)
<1>1. /\ e \in Seq(Window) /\ Once(e) /\ (\A v : Has(e, v) <=> Has(windows, v) /\ v # w) /\ Len(e) \in Nat
  BY EraseFacts
<1>2. w \in Window
  BY DEF Has
<1>3. t = <<w>> \o e
  OBVIOUS
<1> HIDE DEF e, t
<1>4. /\ t \in Seq(Window) /\ Len(t) = Len(e) + 1 /\ t[1] = w
      /\ \A k \in 2 .. Len(e) + 1 : t[k] = e[k - 1]
  <2>1. e \in Seq(Window)
    BY <1>1
  <2>2. /\ <<w>> \o e \in Seq(Window) /\ Len(<<w>> \o e) = Len(e) + 1
        /\ (<<w>> \o e)[1] = w
        /\ \A k \in 2 .. Len(e) + 1 : (<<w>> \o e)[k] = e[k - 1]
    BY <1>2, <2>1, ConsFacts
  <2> QED
    BY <1>3, <2>2
<1>5. Once(t)
  <2> SUFFICES ASSUME NEW k \in 1 .. Len(e) + 1, NEW l \in 1 .. Len(e) + 1, t[k] = t[l] PROVE k = l
    BY <1>4 DEF Once
  <2>1. \A m \in 2 .. Len(e) + 1 : m - 1 \in 1 .. Len(e) /\ t[m] = e[m - 1] /\ t[m] # w
    <3>1. \A m \in 2 .. Len(e) + 1 : m - 1 \in 1 .. Len(e) /\ t[m] = e[m - 1]
      BY <1>1, <1>4
    <3> QED
      BY <1>1, <3>1 DEF Has
  <2>2. CASE k = 1 \/ l = 1
    BY <1>1, <1>4, <2>1, <2>2
  <2>3. CASE k # 1 /\ l # 1
    <3>1. k \in 2 .. Len(e) + 1 /\ l \in 2 .. Len(e) + 1
      BY <1>1, <2>3
    <3>2. k - 1 = l - 1
      BY <1>1, <2>1, <3>1 DEF Once
    <3> QED
      BY <3>1, <3>2
  <2> QED
    BY <2>2, <2>3
<1>6. ASSUME NEW v PROVE Has(t, v) <=> Has(windows, v)
  <2>1. ASSUME NEW k \in 1 .. Len(e) + 1, t[k] = v PROVE v = w \/ Has(e, v)
    <3>1. k = 1 \/ (k \in 2 .. Len(e) + 1 /\ k - 1 \in 1 .. Len(e))
      BY <1>1
    <3> QED
      BY <1>4, <2>1, <3>1 DEF Has
  <2>2. ASSUME NEW k \in 1 .. Len(e), e[k] = v PROVE Has(t, v)
    <3>1. k + 1 \in 2 .. Len(e) + 1 /\ k + 1 \in 1 .. Len(e) + 1 /\ k + 1 - 1 = k
      BY <1>1
    <3>2. t[k + 1] = e[k + 1 - 1] /\ k + 1 \in 1 .. Len(t)
      BY <1>4, <3>1
    <3> QED
      BY <2>2, <3>1, <3>2 DEF Has
  <2>3. Has(t, w)
    <3>1. 1 \in 1 .. Len(t)
      BY <1>1, <1>4
    <3> QED
      BY <1>4, <3>1 DEF Has
  <2>4. Has(t, v) => v = w \/ Has(e, v)
    BY <1>4, <2>1 DEF Has
  <2>5. Has(e, v) => Has(t, v)
    BY <2>2 DEF Has
  <2>6. CASE v = w
    BY <2>3, <2>6
  <2>7. CASE v # w
    <3>1. Has(e, v) <=> Has(windows, v)
      BY <1>1, <2>7
    <3> QED
      BY <2>4, <2>5, <2>7, <3>1
  <2> QED
    BY <2>6, <2>7
<1>7. \A v : Has(t, v) <=> Has(windows, v)
  BY <1>6
<1>8. Len(t) \in Nat /\ Len(t) > 0
  BY <1>1, <1>4
<1>9. FrontOf(t, windows, w)
  BY <1>2, <1>4, <1>5, <1>7, <1>8 DEF FrontOf
<1> QED
  BY <1>9 DEF t

\* A window that is new to the list goes to its end.
LEMMA AppendFacts ==
  ASSUME NEW windows \in Seq(Window), Once(windows), NEW w \in Window, ~Has(windows, w)
  PROVE  /\ Append(windows, w) \in Seq(Window) /\ Once(Append(windows, w)) /\ Has(Append(windows, w), w)
         /\ Len(Append(windows, w)) = Len(windows) + 1 /\ Len(windows) \in Nat
         /\ \A i \in 1 .. Len(windows) : Append(windows, w)[i] = windows[i]
<1> DEFINE t == Append(windows, w)
           n == Len(windows)
<1>1. /\ n \in Nat /\ t \in Seq(Window) /\ Len(t) = n + 1 /\ t[n + 1] = w
      /\ \A i \in 1 .. n : t[i] = windows[i]
  OBVIOUS
<1> HIDE DEF t
<1>2. Has(t, w)
  <2>1. n + 1 \in 1 .. Len(t)
    BY <1>1
  <2> QED
    BY <1>1, <2>1 DEF Has
<1>3. Once(t)
  <2> SUFFICES ASSUME NEW k \in 1 .. n + 1, NEW l \in 1 .. n + 1, t[k] = t[l] PROVE k = l
    BY <1>1 DEF Once
  <2>1. \A m \in 1 .. n : t[m] # w
    BY <1>1 DEF Has
  <2>2. (k \in 1 .. n \/ k = n + 1) /\ (l \in 1 .. n \/ l = n + 1)
    BY <1>1
  <2>3. CASE k \in 1 .. n /\ l \in 1 .. n
    BY <1>1, <2>3 DEF Once
  <2> QED
    BY <1>1, <2>1, <2>2, <2>3
<1> QED
  BY <1>1, <1>2, <1>3 DEF t
-----------------------------------------------------------------------------
\* The state the focus functions share is sound: the window with the focus is in front and knows.
Sound(s) ==
  /\ DOMAIN s = {"windows", "focus", "flags", "told", "visible", "geometry", "shown"}
  /\ s.windows \in Seq(Window) /\ Once(s.windows) /\ s.focus \in Window \cup {NoWindow}
  /\ s.flags \subseteq Window /\ s.told \subseteq Window /\ s.visible \subseteq Window
  /\ s.focus # NoWindow =>
       Len(s.windows) > 0 /\ s.windows[1] = s.focus /\ s.focus \in s.flags /\ s.focus \in s.told

\* If nobody has the focus, no window of the set is in the list.
Covered(s, Visible) == s.focus = NoWindow => \A v \in Visible : ~Has(s.windows, v)

\* Between two states of the stack the same windows are there and the same are visible.
SameWindows(r, s) == r.visible = s.visible /\ \A v : Has(r.windows, v) <=> Has(s.windows, v)

\* give_focus() leaves the window in front, flagged and told.
LEMMA GiveFocusSound ==
  ASSUME NEW s, Sound(s), NEW w, Has(s.windows, w)
  PROVE  /\ Sound(give_focus(s, w)) /\ give_focus(s, w).focus = w /\ w \in Window
         /\ SameWindows(give_focus(s, w), s)
<1> DEFINE t == <<w>> \o erase(s.windows, w)
           shown == update(s.shown, t, s.visible, s.geometry, m_cursor, s.geometry[w])
           r == give_focus(s, w)
<1>1. r = [s EXCEPT !.told = @ \cup {w}, !.focus = w, !.flags = @ \cup {w}, !.windows = t,
                    !.shown = shown]
  BY DEF give_focus
<1>2. s.windows \in Seq(Window) /\ Once(s.windows)
  BY DEF Sound
<1>3. FrontOf(t, s.windows, w)
  BY <1>2, FrontFacts
<1> HIDE DEF r, shown, t
<1>4. DOMAIN s = {"windows", "focus", "flags", "told", "visible", "geometry", "shown"}
  BY DEF Sound
<1>5. /\ DOMAIN r = DOMAIN s /\ r.windows = t /\ r.focus = w /\ r.flags = s.flags \cup {w}
      /\ r.told = s.told \cup {w} /\ r.visible = s.visible
  BY <1>1, <1>4
<1>6. s.flags \subseteq Window /\ s.told \subseteq Window /\ s.visible \subseteq Window
  BY DEF Sound
<1>7. Sound(r)
  BY <1>3, <1>4, <1>5, <1>6 DEF Sound, FrontOf
<1>8. SameWindows(r, s)
  BY <1>3, <1>5 DEF SameWindows, FrontOf
<1> QED
  BY <1>3, <1>5, <1>7, <1>8 DEF r, FrontOf

\* next_focus() is another visible window of the list, if there is one.
LEMMA NextFocusFacts ==
  ASSUME NEW s, s.windows \in Seq(Window), NEW w
  PROVE  \/ /\ next_focus(s, w) = NoWindow /\ \A v \in s.visible \ {w} : ~Has(s.windows, v)
         \/ next_focus(s, w) # w /\ Has(s.windows, next_focus(s, w)) /\ next_focus(s, w) \in Window
<1> DEFINE Others == {i \in 1 .. Len(s.windows) : s.windows[i] # w /\ s.windows[i] \in s.visible}
           last == CHOOSE i \in Others : \A j \in Others : j <= i
<1>1. s.windows \in Seq(Window) /\ Len(s.windows) \in Nat
  OBVIOUS
<1>2. next_focus(s, w) = IF Others = {} THEN NoWindow ELSE s.windows[last]
  BY DEF next_focus
<1>3. CASE Others = {}
  <2>1. \A v \in s.visible \ {w} : ~Has(s.windows, v)
    BY <1>3 DEF Has
  <2> QED
    BY <1>2, <1>3, <2>1
<1>4. CASE Others # {}
  <2>1. \E i \in Others : \A j \in Others : j <= i
    BY <1>1, <1>4, GreatestNatural, Others \subseteq 0 .. Len(s.windows)
  <2>2. last \in Others
    BY <2>1
  <2> HIDE DEF last
  <2>3. last \in 1 .. Len(s.windows) /\ s.windows[last] # w
    BY <2>2
  <2>4. s.windows[last] \in Window /\ Has(s.windows, s.windows[last])
    BY <1>1, <2>3 DEF Has
  <2> QED
    BY <1>2, <1>4, <2>3, <2>4
<1> QED
  BY <1>3, <1>4

\* unfocus_window(): the window is left without the focus, and if nobody gets it, there is no
\* other visible window.
LEMMA UnfocusSound ==
  ASSUME NEW s, Sound(s), NEW w \in Window, Has(s.windows, w), Covered(s, s.visible \ {w})
  PROVE  /\ Sound(unfocus_window(s, w)) /\ unfocus_window(s, w).focus # w
         /\ SameWindows(unfocus_window(s, w), s) /\ Covered(unfocus_window(s, w), s.visible \ {w})
<1>1. CASE s.focus # w
  <2>1. unfocus_window(s, w) = s
    BY <1>1 DEF unfocus_window
  <2>2. SameWindows(s, s)
    BY DEF SameWindows
  <2> QED
    BY <1>1, <2>1, <2>2
<1>2. CASE s.focus = w
  <2> DEFINE out == [s EXCEPT !.flags = @ \ {w}, !.told = @ \ {w}, !.focus = NoWindow]
             next == next_focus(s, w)
             r == unfocus_window(s, w)
  <2>1. r = IF next = NoWindow THEN out ELSE give_focus(out, next)
    BY <1>2 DEF unfocus_window
  <2>2. DOMAIN s = {"windows", "focus", "flags", "told", "visible", "geometry", "shown"}
    BY DEF Sound
  <2>3. /\ DOMAIN out = DOMAIN s /\ out.windows = s.windows /\ out.focus = NoWindow
        /\ out.flags = s.flags \ {w} /\ out.told = s.told \ {w} /\ out.visible = s.visible
    BY <2>2
  <2>4. \/ next = NoWindow /\ \A v \in s.visible \ {w} : ~Has(s.windows, v)
        \/ next # w /\ Has(s.windows, next) /\ next \in Window
    BY NextFocusFacts DEF Sound
  <2> HIDE DEF out, next, r
  <2>5. Sound(out)
    BY <2>2, <2>3 DEF Sound
  <2>6. CASE next = NoWindow
    <3>1. r = out
      BY <2>1, <2>6
    <3>2. w # NoWindow
      BY WindowAssumption
    <3>3. Covered(out, s.visible \ {w})
      BY <2>3, <2>4, <2>6, WindowAssumption DEF Covered
    <3>4. SameWindows(out, s)
      BY <2>3 DEF SameWindows
    <3> QED
      BY <2>3, <2>5, <3>1, <3>2, <3>3, <3>4 DEF r
  <2>7. CASE next # NoWindow
    <3>1. next # w /\ Has(out.windows, next) /\ next \in Window
      BY <2>3, <2>4, <2>7
    <3>2. r = give_focus(out, next)
      BY <2>1, <2>7
    <3>3. Sound(r) /\ r.focus = next /\ SameWindows(r, out)
      BY <2>5, <3>1, <3>2, GiveFocusSound
    <3>4. SameWindows(r, s)
      BY <2>3, <3>3 DEF SameWindows
    <3>5. Covered(r, s.visible \ {w})
      BY <2>7, <3>3 DEF Covered
    <3> QED
      BY <3>1, <3>3, <3>4, <3>5 DEF r
  <2> QED
    BY <2>6, <2>7
<1> QED
  BY <1>1, <1>2

\* focus_window(): the window has the focus, also when a third one got it in between.
LEMMA FocusSound ==
  ASSUME NEW s, Sound(s), NEW w \in Window, Has(s.windows, w)
  PROVE  /\ Sound(focus_window(s, w)) /\ focus_window(s, w).focus = w
         /\ SameWindows(focus_window(s, w), s)
<1>1. CASE s.focus = w
  <2>1. focus_window(s, w) = s
    BY <1>1 DEF focus_window
  <2>2. SameWindows(s, s)
    BY DEF SameWindows
  <2> QED
    BY <1>1, <2>1, <2>2
<1>2. CASE s.focus # w
  <2> DEFINE u == IF s.focus = NoWindow THEN s ELSE unfocus_window(s, s.focus)
             r == focus_window(s, w)
  <2>1. r = give_focus(u, w)
    BY <1>2 DEF focus_window
  <2>2. Sound(u) /\ SameWindows(u, s)
    <3>1. CASE s.focus = NoWindow
      BY <3>1 DEF SameWindows
    <3>2. CASE s.focus # NoWindow
      <4>1. s.focus \in Window /\ Has(s.windows, s.focus)
        <5>1. s.focus \in Window /\ s.windows \in Seq(Window) /\ Len(s.windows) > 0 /\ s.windows[1] = s.focus
          BY <3>2 DEF Sound
        <5>2. 1 \in 1 .. Len(s.windows)
          BY <5>1
        <5> QED
          BY <5>1, <5>2 DEF Has
      <4>2. Covered(s, s.visible \ {s.focus})
        BY <3>2 DEF Covered
      <4>3. Sound(unfocus_window(s, s.focus)) /\ SameWindows(unfocus_window(s, s.focus), s)
        BY <4>1, <4>2, UnfocusSound
      <4> QED
        BY <3>2, <4>3
    <3> QED
      BY <3>1, <3>2
  <2> HIDE DEF u, r
  <2>3. Has(u.windows, w)
    BY <2>2 DEF SameWindows
  <2>4. Sound(r) /\ r.focus = w /\ SameWindows(r, u)
    BY <2>1, <2>2, <2>3, GiveFocusSound
  <2>5. SameWindows(r, s)
    BY <2>2, <2>4 DEF SameWindows
  <2> QED
    BY <2>4, <2>5 DEF r
<1> QED
  BY <1>1, <1>2
-----------------------------------------------------------------------------
\* The invariant says that the stack is sound and that the focus is not lost.
LEMMA StackSound ==
  ASSUME FocusInv
  PROVE  Sound(stack) /\ Covered(stack, m_visible) /\ \A v : v \in Live <=> Has(m_windows, v)
<1>1. /\ DOMAIN stack = {"windows", "focus", "flags", "told", "visible", "geometry", "shown"}
      /\ stack.windows = m_windows /\ stack.focus = m_focus_window /\ stack.flags = m_focus
      /\ stack.told = told /\ stack.visible = m_visible
  BY DEF stack
<1>2. \A v : v \in Live <=> Has(m_windows, v)
  BY DEF Live, Has
<1>3. Once(m_windows)
  BY DEF FocusInv, Once
<1>4. m_focus_window # NoWindow =>
        /\ Len(m_windows) > 0 /\ m_windows[1] = m_focus_window
        /\ m_focus_window \in m_focus /\ m_focus_window \in told
  BY DEF FocusInv, FocusTypeOK
<1>5. Sound(stack)
  BY <1>1, <1>3, <1>4 DEF Sound, FocusInv, FocusTypeOK
<1>6. Covered(stack, m_visible)
  BY <1>1, <1>2 DEF Covered, FocusInv
<1> QED
  BY <1>2, <1>5, <1>6

\* A step to a sound stack in which the focus is not lost keeps the invariant.
LEMMA BecomesInv ==
  ASSUME NEW s, Sound(s), Becomes(s), m_visible' \subseteq s.visible, Covered(s, m_visible')
  PROVE  FocusInv'
<1>1. /\ m_windows' = s.windows /\ m_focus_window' = s.focus /\ m_focus' = s.flags /\ told' = s.told
  BY DEF Becomes
<1>2. FocusTypeOK'
  BY <1>1 DEF FocusTypeOK, Sound
<1>3. (\A i, j \in 1 .. Len(m_windows) : m_windows[i] = m_windows[j] => i = j)'
  BY <1>1 DEF Sound, Once
<1>4. (m_focus_window # NoWindow =>
         m_windows # <<>> /\ Head(m_windows) = m_focus_window /\ m_focus_window \in m_focus \cap told)'
  BY <1>1 DEF Sound
<1>5. (m_focus_window = NoWindow => Live \cap m_visible = {})'
  BY <1>1 DEF Covered, Has, Live
<1> QED
  BY <1>2, <1>3, <1>4, <1>5 DEF FocusInv
-----------------------------------------------------------------------------
\* The fields of the stack.
LEMMA StackFields ==
  /\ DOMAIN stack = {"windows", "focus", "flags", "told", "visible", "geometry", "shown"}
  /\ stack.windows = m_windows /\ stack.focus = m_focus_window /\ stack.flags = m_focus
  /\ stack.told = told /\ stack.visible = m_visible
BY DEF stack

\* create_window(): the new window goes to the back and then gets the focus.
LEMMA CreateFocus ==
  ASSUME FocusInv, NEW w \in Window, CreateWindow(w)
  PROVE  FocusInv'
<1>1. PICK r \in FreshRects :
        LET s == [stack EXCEPT !.windows = Append(@, w), !.geometry = [@ EXCEPT ![w] = r],
                               !.visible = @ \ {w}, !.flags = @ \ {w}, !.told = @ \ {w}]
        IN Becomes(focus_window(s, w)) /\ m_geometry' = s.geometry
  BY DEF CreateWindow
<1> DEFINE s == [stack EXCEPT !.windows = Append(@, w), !.geometry = [@ EXCEPT ![w] = r],
                              !.visible = @ \ {w}, !.flags = @ \ {w}, !.told = @ \ {w}]
           f == focus_window(s, w)
<1>2. Becomes(f)
  BY <1>1
<1>3. /\ DOMAIN s = DOMAIN stack /\ s.windows = Append(m_windows, w) /\ s.focus = m_focus_window
      /\ s.flags = m_focus \ {w} /\ s.told = told \ {w} /\ s.visible = m_visible \ {w}
  BY StackFields
<1> HIDE DEF s, f
<1>4. /\ m_windows \in Seq(Window) /\ Once(m_windows) /\ ~Has(m_windows, w)
      /\ Sound(stack)
  BY StackSound, StackFields DEF CreateWindow, Sound
<1>5. /\ s.windows \in Seq(Window) /\ Once(s.windows) /\ Has(s.windows, w)
      /\ Len(s.windows) = Len(m_windows) + 1 /\ Len(m_windows) \in Nat
      /\ \A i \in 1 .. Len(m_windows) : s.windows[i] = m_windows[i]
  BY <1>3, <1>4, AppendFacts
<1>6. m_focus_window # NoWindow =>
        /\ Len(m_windows) > 0 /\ m_windows[1] = m_focus_window
        /\ m_focus_window \in m_focus /\ m_focus_window \in told
  BY <1>4, StackFields DEF Sound
<1>7. m_focus_window # NoWindow =>
        Len(s.windows) > 0 /\ s.windows[1] = m_focus_window /\ m_focus_window # w
  BY <1>4, <1>5, <1>6 DEF Has
<1>8. Sound(s)
  <2>1. /\ m_focus_window \in Window \cup {NoWindow} /\ m_focus \subseteq Window
        /\ told \subseteq Window /\ m_visible \subseteq Window
    BY DEF FocusInv, FocusTypeOK
  <2> QED
    BY <1>3, <1>5, <1>6, <1>7, <2>1, StackFields DEF Sound
<1>9. Sound(f) /\ f.focus = w /\ SameWindows(f, s)
  BY <1>5, <1>8, FocusSound DEF f
<1>10. m_visible' \subseteq f.visible
  BY <1>3, <1>9 DEF SameWindows, CreateWindow
<1>11. Covered(f, m_visible')
  BY <1>9, WindowAssumption DEF Covered
<1> QED
  BY <1>2, <1>9, <1>10, <1>11, BecomesInv

\* destroy_window(): the focus was passed on before the window goes, and goes to the back after.
LEMMA DestroyFocus ==
  ASSUME FocusInv, NEW w \in Window, DestroyWindow(w)
  PROVE  FocusInv'
<1> DEFINE s == unfocus_window(stack, w)
           windows == erase(s.windows, w)
           gone == [s EXCEPT !.windows = windows]
           shown == IF w \in m_visible
                    THEN update(gone.shown, windows, m_visible, m_geometry, m_cursor, m_geometry[w])
                    ELSE gone.shown
           repainted == [gone EXCEPT !.shown = shown]
           last == windows[Len(windows)]
           d == destroy_window(w)
<1>1. Becomes(d) /\ m_visible' = m_visible \ {w} /\ Has(m_windows, w)
  BY StackSound DEF DestroyWindow
<1>2. d = IF windows = <<>> THEN repainted ELSE focus_window(repainted, last)
  BY DEF destroy_window
<1>3. Sound(stack) /\ Covered(stack, stack.visible \ {w})
  BY StackSound, StackFields DEF Covered
<1>4. /\ Sound(s) /\ s.focus # w /\ SameWindows(s, stack)
  BY <1>1, <1>3, StackFields, UnfocusSound
<1>5. s.visible = m_visible /\ Has(s.windows, w)
  BY <1>1, <1>4, StackFields DEF SameWindows
<1>6. /\ DOMAIN s = {"windows", "focus", "flags", "told", "visible", "geometry", "shown"}
      /\ s.windows \in Seq(Window) /\ Once(s.windows)
  BY <1>4 DEF Sound
<1> HIDE DEF s
<1>7. /\ DOMAIN gone = DOMAIN s /\ gone.windows = windows /\ gone.focus = s.focus
      /\ gone.flags = s.flags /\ gone.told = s.told /\ gone.visible = s.visible
  BY <1>6
<1> HIDE DEF gone, shown
<1>8. /\ DOMAIN repainted = DOMAIN s /\ repainted.windows = windows /\ repainted.focus = s.focus
      /\ repainted.flags = s.flags /\ repainted.told = s.told /\ repainted.visible = s.visible
  BY <1>6, <1>7
<1> HIDE DEF repainted
<1>9. /\ windows \in Seq(Window) /\ Once(windows) /\ Len(windows) = Len(s.windows) - 1
      /\ Len(s.windows) \in Nat
      /\ s.windows[1] # w => Len(s.windows) > 1 /\ windows[1] = s.windows[1]
  BY <1>5, <1>6, EraseFacts
<1> HIDE DEF windows
<1>10. Sound(repainted)
  <2>1. s.focus # NoWindow => Len(windows) > 0 /\ windows[1] = s.focus
    BY <1>4, <1>9 DEF Sound
  <2> QED
    BY <1>4, <1>8, <1>9, <2>1 DEF Sound
<1>11. CASE windows = <<>>
  <2>1. d = repainted /\ m_visible' \subseteq d.visible
    BY <1>1, <1>2, <1>5, <1>8, <1>11
  <2>2. Covered(d, m_visible')
    <3>1. Len(windows) = 0
      BY <1>11
    <3> QED
      BY <1>8, <2>1, <3>1 DEF Covered, Has
  <2> QED
    BY <1>1, <1>10, <2>1, <2>2, BecomesInv
<1>12. CASE windows # <<>>
  <2>1. Len(windows) \in 1 .. Len(windows) /\ last \in Window
    BY <1>9, <1>12
  <2>2. Has(repainted.windows, last)
    BY <1>8, <2>1 DEF Has
  <2>3. Sound(d) /\ d.focus = last /\ SameWindows(d, repainted)
    BY <1>2, <1>10, <1>12, <2>1, <2>2, FocusSound
  <2>4. m_visible' \subseteq d.visible /\ Covered(d, m_visible')
    BY <1>1, <1>5, <1>8, <2>1, <2>3, WindowAssumption DEF SameWindows, Covered
  <2> QED
    BY <1>1, <2>3, <2>4, BecomesInv
<1> QED
  BY <1>11, <1>12

\* set_window_visibility(): a window that is shown takes a free focus.
LEMMA ShowFocus ==
  ASSUME FocusInv, NEW w \in Window, ShowWindow(w)
  PROVE  FocusInv'
<1> DEFINE a == [stack EXCEPT !.visible = @ \cup {w}]
           s == shown_focus(a, w)
           r == [s EXCEPT !.shown = update(@, s.windows, s.visible, s.geometry, m_cursor, s.geometry[w])]
<1>1. Becomes(r) /\ m_visible' = m_visible \cup {w} /\ Has(m_windows, w)
  BY StackSound DEF ShowWindow
<1>2. /\ DOMAIN a = DOMAIN stack /\ a.windows = m_windows /\ a.focus = m_focus_window
      /\ a.flags = m_focus /\ a.told = told /\ a.visible = m_visible \cup {w}
  BY StackFields
<1>3. Sound(stack)
  BY StackSound
<1> HIDE DEF a
<1>4. Sound(a)
  BY <1>2, <1>3, StackFields DEF Sound
<1>5. Sound(s) /\ s.focus # NoWindow /\ SameWindows(s, a)
  <2>1. CASE a.focus = NoWindow
    BY <1>1, <1>2, <1>4, <2>1, FocusSound, WindowAssumption DEF shown_focus
  <2>2. CASE a.focus # NoWindow
    BY <1>4, <2>2 DEF shown_focus, SameWindows
  <2> QED
    BY <2>1, <2>2
<1> HIDE DEF s
<1>6. DOMAIN s = {"windows", "focus", "flags", "told", "visible", "geometry", "shown"}
  BY <1>5 DEF Sound
<1>7. /\ DOMAIN r = DOMAIN s /\ r.windows = s.windows /\ r.focus = s.focus
      /\ r.flags = s.flags /\ r.told = s.told /\ r.visible = s.visible
  BY <1>6
<1> HIDE DEF r
<1>8. Sound(r)
  BY <1>5, <1>7 DEF Sound
<1>9. m_visible' \subseteq r.visible /\ Covered(r, m_visible')
  BY <1>1, <1>2, <1>5, <1>7 DEF SameWindows, Covered
<1> QED
  BY <1>1, <1>8, <1>9, BecomesInv

\* A window that is hidden passes the focus on.
LEMMA HideFocus ==
  ASSUME FocusInv, NEW w \in Window, HideWindow(w)
  PROVE  FocusInv'
<1> DEFINE a == [stack EXCEPT !.visible = @ \ {w}]
           r == unfocus_window(a, w)
<1>1. Becomes(r) /\ m_visible' = m_visible \ {w} /\ Has(m_windows, w)
  BY StackSound DEF HideWindow
<1>2. /\ DOMAIN a = DOMAIN stack /\ a.windows = m_windows /\ a.focus = m_focus_window
      /\ a.flags = m_focus /\ a.told = told /\ a.visible = m_visible \ {w}
  BY StackFields
<1>3. Sound(stack) /\ Covered(stack, m_visible)
  BY StackSound
<1> HIDE DEF a
<1>4. Sound(a)
  BY <1>2, <1>3, StackFields DEF Sound
<1>5. Covered(a, a.visible \ {w}) /\ a.visible \ {w} = m_visible \ {w}
  BY <1>2, <1>3, StackFields DEF Covered
<1>6. Sound(r) /\ SameWindows(r, a) /\ Covered(r, m_visible \ {w})
  BY <1>1, <1>2, <1>4, <1>5, UnfocusSound
<1>7. m_visible' \subseteq r.visible
  BY <1>1, <1>2, <1>6 DEF SameWindows
<1> QED
  BY <1>1, <1>6, <1>7, BecomesInv

\* switch_focus(): the focused window goes behind all others, its successor in front of them.
LEMMA SwitchFocusInv ==
  ASSUME FocusInv, SwitchFocus
  PROVE  FocusInv'
<1>1. Sound(stack) /\ m_visible' = m_visible /\ m_windows # <<>>
  BY StackSound DEF SwitchFocus, windowVars
<1>2. /\ m_windows \in Seq(Window) /\ Once(m_windows) /\ Len(m_windows) \in Nat /\ Len(m_windows) > 0
      /\ m_focus \subseteq Window /\ told \subseteq Window /\ m_visible \subseteq Window
  BY <1>1, StackFields DEF Sound
<1>3. CASE m_focus_window = NoWindow
  <2> DEFINE w == m_windows[1]
             r == focus_window(stack, w)
  <2>1. w \in Window /\ w = Head(m_windows) /\ 1 \in 1 .. Len(m_windows)
    BY <1>2
  <2>2. Becomes(r)
    BY <1>3, <2>1 DEF SwitchFocus
  <2>3. Has(stack.windows, w)
    BY <2>1, StackFields DEF Has
  <2> HIDE DEF w
  <2>4. Sound(r) /\ r.focus = w /\ SameWindows(r, stack)
    BY <1>1, <2>1, <2>3, FocusSound
  <2>5. m_visible' \subseteq r.visible /\ Covered(r, m_visible')
    BY <1>1, <2>1, <2>4, StackFields, WindowAssumption DEF SameWindows, Covered
  <2> QED
    BY <2>2, <2>4, <2>5, BecomesInv
<1>4. CASE m_focus_window # NoWindow
  <2> DEFINE f == m_focus_window
             old == CHOOSE i \in 1 .. Len(m_windows) : m_windows[i] = f
             new == m_windows[IF old = Len(m_windows) THEN 1 ELSE old + 1]
             t == <<new>> \o erase(m_windows, new)
             e == erase(t, f)
             windows == Append(e, f)
  <2>1. /\ new # f /\ m_focus' = (m_focus \ {f}) \cup {new} /\ told' = (told \ {f}) \cup {new}
        /\ m_focus_window' = new /\ m_windows' = windows
    BY <1>4 DEF SwitchFocus
  <2>2. f \in Window /\ Has(m_windows, f)
    <3>1. f \in Window /\ m_windows[1] = f /\ 1 \in 1 .. Len(m_windows)
      BY <1>1, <1>2, <1>4, StackFields DEF Sound
    <3> QED
      BY <3>1 DEF Has
  <2>3. Has(m_windows, new)
    <3>1. old \in 1 .. Len(m_windows)
      BY <2>2 DEF Has
    <3> HIDE DEF old
    <3>2. (IF old = Len(m_windows) THEN 1 ELSE old + 1) \in 1 .. Len(m_windows)
      BY <1>2, <3>1
    <3> QED
      BY <3>2 DEF Has
  <2> HIDE DEF new, f
  <2>4. /\ t \in Seq(Window) /\ Once(t) /\ (\A v : Has(t, v) <=> Has(m_windows, v)) /\ t[1] = new
        /\ new \in Window
    <3>1. FrontOf(t, m_windows, new)
      BY <1>2, <2>3, FrontFacts
    <3> HIDE DEF t
    <3> QED
      BY <3>1 DEF FrontOf
  <2> HIDE DEF t
  <2>5. Has(t, f) /\ t[1] # f
    BY <2>1, <2>2, <2>4
  <2>6. /\ e \in Seq(Window) /\ Once(e) /\ ~Has(e, f) /\ Len(e) = Len(t) - 1 /\ Len(t) \in Nat
        /\ Len(t) > 1 /\ e[1] = new
    BY <2>4, <2>5, EraseFacts
  <2> HIDE DEF e
  <2>7. /\ windows \in Seq(Window) /\ Once(windows) /\ Len(windows) = Len(e) + 1
        /\ \A i \in 1 .. Len(e) : windows[i] = e[i]
    BY <2>2, <2>6, AppendFacts
  <2> HIDE DEF windows
  <2>8. Len(windows) > 0 /\ windows[1] = new
    BY <2>6, <2>7
  <2>9. new # NoWindow
    BY <2>4, WindowAssumption
  <2>10. FocusTypeOK'
    BY <1>1, <1>2, <2>1, <2>4, <2>7 DEF FocusTypeOK
  <2>11. (\A i, j \in 1 .. Len(m_windows) : m_windows[i] = m_windows[j] => i = j)'
    BY <2>1, <2>7 DEF Once
  <2>12. (m_windows # <<>> /\ Head(m_windows) = m_focus_window /\ m_focus_window \in m_focus \cap told)'
    BY <2>1, <2>7, <2>8
  <2> QED
    BY <2>1, <2>9, <2>10, <2>11, <2>12 DEF FocusInv
<1> QED
  BY <1>3, <1>4

\* handle_mouse_click_event(): the window under the cursor gets the focus.
LEMMA ClickFocus ==
  ASSUME FocusInv, MouseClick
  PROVE  FocusInv'
<1> DEFINE Here == {i \in 1 .. Len(m_windows) : contains(m_geometry[m_windows[i]], m_cursor[1], m_cursor[2])}
           first == CHOOSE i \in Here : \A j \in Here : i <= j
           w == m_windows[first]
           r == focus_window(stack, w)
<1>1. Here # {} /\ Becomes(r) /\ m_visible' = m_visible
  BY DEF MouseClick, windowVars
<1>2. m_windows \in Seq(Window) /\ Sound(stack)
  BY StackSound DEF FocusInv, FocusTypeOK
<1>3. Here \subseteq Nat /\ Here \subseteq 1 .. Len(m_windows)
  BY <1>2
<1> HIDE DEF Here
<1>4. \E i \in Here : \A j \in Here : i <= j
  BY <1>1, <1>3, LeastNatural
<1>5. first \in 1 .. Len(m_windows)
  BY <1>3, <1>4
<1> HIDE DEF first
<1>6. w \in Window /\ Has(stack.windows, w)
  BY <1>2, <1>5, StackFields DEF Has
<1> HIDE DEF w
<1>7. Sound(r) /\ r.focus = w /\ SameWindows(r, stack)
  BY <1>2, <1>6, FocusSound
<1>8. m_visible' \subseteq r.visible /\ Covered(r, m_visible')
  BY <1>1, <1>6, <1>7, StackFields, WindowAssumption DEF SameWindows, Covered
<1> QED
  BY <1>1, <1>7, <1>8, BecomesInv

\* Every step keeps the focus.
LEMMA FocusStep ==
  ASSUME FocusInv, [WMNext]_wmVars
  PROVE  FocusInv'
<1>1. CASE UNCHANGED <<focusVars, m_visible>>
  BY <1>1 DEF FocusInv, FocusTypeOK, Live, focusVars
<1>2. CASE LifeOps
  BY <1>2, CreateFocus, DestroyFocus DEF LifeOps
<1>3. CASE VisibilityOps
  BY <1>3, ShowFocus, HideFocus DEF VisibilityOps
<1>4. CASE GeometryOps
  BY <1>1, <1>4 DEF GeometryOps, SetGeometry, Present, windowVars
<1>5. CASE KeyOps
  BY <1>1, <1>5, SwitchFocusInv DEF KeyOps, Fullscreen, Mosaic, MoveFocusWindow, ResizeFocusWindow
<1>6. CASE MouseOps
  BY <1>1, <1>6, ClickFocus DEF MouseOps, MouseMove, windowVars
<1> QED
  BY <1>1, <1>2, <1>3, <1>4, <1>5, <1>6 DEF WMNext, wmVars, windowVars

\* However windows are created, destroyed, shown, hidden, clicked and switched between, the list
\* holds a window once, the window with the focus is in front and knows that it has the focus,
\* and the focus is never lost while a window is visible (focus_window(), unfocus_window()).
THEOREM FocusCorrect == WMSpec => []FocusInv
<1>1. WMInit => FocusInv
  BY WindowAssumption DEF WMInit, FocusInv, FocusTypeOK, Live
<1>2. FocusInv /\ [WMNext]_wmVars => FocusInv'
  BY FocusStep
<1> QED
  BY <1>1, <1>2, PTL DEF WMSpec
-----------------------------------------------------------------------------
\* A rectangle that is on the screen as a whole and no smaller than a window may be.
Fits(r) ==
  /\ r \in RectOf
  /\ 0 <= r.x1 /\ r.x1 + MIN_WIDTH <= r.x2 /\ r.x2 <= m_screen_width
  /\ 0 <= r.y1 /\ r.y1 + MIN_HEIGHT <= r.y2 /\ r.y2 <= m_screen_height

\* A sum or a difference, also one that overflows, is a number.
LEMMA SumsAreNumbers ==
  ASSUME NEW a \in Int, NEW b \in Int
  PROVE  add(a, b) \subseteq Int /\ sub(a, b) \subseteq Int
BY IntAssumption DEF add, sub, Int32

\* The constraints on one axis keep the edges within the screen.
LEMMA ConstrainFits ==
  ASSUME NEW lo \in Int, NEW hi \in Int, NEW size \in Nat, NEW min \in 1 .. size, NEW max \in Nat,
         min <= max, NEW e \in constrain(lo, hi, min, max, size)
  PROVE  /\ e[1] \in Int /\ e[2] \in Int
         /\ 0 <= e[1] /\ e[1] + min <= e[2] /\ e[2] <= size
<1> DEFINE n(m) == clamp(m, min, Lesser(max, size))
           at(m) == clamp(lo, 0, size - n(m))
<1>1. PICK m \in sub(hi, lo) : e = <<at(m), at(m) + n(m)>>
  BY DEF constrain
<1>2. m \in Int
  BY SumsAreNumbers
<1>3. n(m) \in Int /\ min <= n(m) /\ n(m) <= size
  BY <1>2 DEF clamp, Lesser, Greater
<1> HIDE DEF n
<1>4. at(m) \in Int /\ 0 <= at(m) /\ at(m) <= size - n(m)
  BY <1>3 DEF clamp, Lesser, Greater
<1> HIDE DEF at
<1> QED
  BY <1>1, <1>3, <1>4

\* What set_window_geometry() gives a window fits, whatever the edges asked for are.
LEMMA ConstrainedFits ==
  ASSUME NEW x1 \in Int, NEW y1 \in Int, NEW x2 \in Int, NEW y2 \in Int,
         NEW r \in constrained(x1, y1, x2, y2)
  PROVE  Fits(r)
<1>1. PICK h \in constrain(x1, x2, MIN_WIDTH, MAX_WIDTH, m_screen_width),
           v \in constrain(y1, y2, MIN_HEIGHT, MAX_HEIGHT, m_screen_height) :
             r = [x1 |-> h[1], x2 |-> h[2], y1 |-> v[1], y2 |-> v[2]]
  BY DEF constrained
<1>2. /\ h[1] \in Int /\ h[2] \in Int
      /\ 0 <= h[1] /\ h[1] + MIN_WIDTH <= h[2] /\ h[2] <= m_screen_width
  BY SizeAssumption, ConstrainFits
<1>3. /\ v[1] \in Int /\ v[2] \in Int
      /\ 0 <= v[1] /\ v[1] + MIN_HEIGHT <= v[2] /\ v[2] <= m_screen_height
  BY SizeAssumption, ConstrainFits
<1>4. h[1] \in Int32 /\ h[2] \in Int32 /\ v[1] \in Int32 /\ v[2] \in Int32
  BY <1>2, <1>3, SizeAssumption, IntAssumption DEF Int32
<1> QED
  BY <1>1, <1>2, <1>3, <1>4 DEF Fits, RectOf

\* The same from a position and a size, which from_pos_and_size() may overflow.
LEMMA PlaceFits ==
  ASSUME NEW x \in Int, NEW y \in Int, NEW w \in Int, NEW h \in Int, NEW r \in place(x, y, w, h)
  PROVE  Fits(r)
<1>1. PICK x2 \in add(x, w), y2 \in add(y, h) :
        LET s == Rect(x, y, x2, y2) IN r \in constrained(s.x1, s.y1, s.x2, s.y2)
  BY DEF place
<1>2. x2 \in Int /\ y2 \in Int
  BY SumsAreNumbers
<1> DEFINE s == Rect(x, y, x2, y2)
<1>3. s.x1 \in Int /\ s.y1 \in Int /\ s.x2 \in Int /\ s.y2 \in Int
  BY <1>2 DEF Rect, Lesser, Greater
<1>4. r \in constrained(s.x1, s.y1, s.x2, s.y2)
  BY <1>1
<1> HIDE DEF s
<1> QED
  BY <1>3, <1>4, ConstrainedFits

\* There is a number of columns, and of rows, for any number of windows.
LEMMA ColumnsExist ==
  ASSUME NEW n \in Nat, n > 0
  PROVE  columns(n) \in 1 .. n
<1> DEFINE T == {c \in 1 .. n : c * c >= n}
<1>1. n * n >= n
  BY Z3
<1>2. n \in T /\ T \subseteq Nat
  BY <1>1
<1>3. PICK c \in T : \A d \in T : c <= d
  BY <1>2, LeastNatural
<1>4. (c - 1) * (c - 1) < n
  <2>1. CASE c = 1
    BY <2>1
  <2>2. CASE c # 1
    <3>1. c - 1 \in 1 .. n /\ ~(c <= c - 1)
      BY <1>3, <2>2
    <3>2. c - 1 \notin T
      BY <1>3, <3>1
    <3>3. (c - 1) * (c - 1) \in Int
      BY <3>1
    <3> QED
      BY <3>1, <3>2, <3>3
  <2> QED
    BY <2>1, <2>2
<1>5. \E d \in 1 .. n : d * d >= n /\ (d - 1) * (d - 1) < n
  BY <1>3, <1>4
<1> QED
  BY <1>5 DEF columns

\* A cell of the mosaic fits, also on a screen that is too small for it.
LEMMA CellFits ==
  ASSUME NEW n \in Nat, n > 0, NEW k \in 0 .. n - 1, NEW r \in cell(k, n)
  PROVE  Fits(r)
<1> DEFINE nb_columns == columns(n)
           nb_rows == (n + nb_columns - 1) \div nb_columns
           w == m_screen_width \div nb_columns
           h == m_screen_height \div nb_rows
           i == k % nb_columns
           row == k \div nb_columns
           wide == IF k + 1 = n THEN (nb_columns - i) * w ELSE w
<1>1. nb_columns \in 1 .. n
  BY ColumnsExist
<1>2. r \in place(i * w, row * h, wide, h)
  BY DEF cell
<1> HIDE DEF nb_columns
<1>3. nb_rows \in Int /\ nb_rows > 0
  BY <1>1
<1> HIDE DEF nb_rows
<1>4. w \in Int /\ h \in Int /\ i \in Int /\ row \in Int
  BY <1>1, <1>3, SizeAssumption
<1> HIDE DEF w, h, i, row
<1>5. i * w \in Int /\ row * h \in Int /\ wide \in Int
  BY <1>1, <1>4
<1> HIDE DEF wide
<1> QED
  BY <1>2, <1>4, <1>5, PlaceFits

\* The windows whose geometry was set fit, those that were destroyed since included.
PlaceInv == PlaceTypeOK /\ \A w \in placed : Fits(m_geometry[w])

\* Giving one window a rectangle that fits.
LEMMA SetGeometryFits ==
  ASSUME PlaceInv, NEW w \in Window, NEW new_rect, Fits(new_rect),
         set_window_geometry(w, new_rect), m_cursor' = m_cursor
  PROVE  PlaceInv'
<1>1. m_geometry' = [m_geometry EXCEPT ![w] = new_rect] /\ placed' = placed \cup {w}
  BY DEF set_window_geometry
<1>2. new_rect \in RectOf
  BY DEF Fits
<1>3. m_geometry \in [Window -> RectOf] /\ placed \subseteq Window
  BY DEF PlaceInv, PlaceTypeOK
<1>4. PlaceTypeOK'
  BY <1>1, <1>2, <1>3 DEF PlaceInv, PlaceTypeOK
<1>5. ASSUME NEW v \in placed' PROVE Fits(m_geometry'[v])
  <2>1. CASE v = w
    BY <1>1, <1>3, <2>1
  <2>2. CASE v # w
    BY <1>1, <1>3, <2>2 DEF PlaceInv
  <2> QED
    BY <2>1, <2>2
<1>6. (\A v \in placed : Fits(m_geometry[v]))'
  BY <1>5 DEF Fits
<1> QED
  BY <1>4, <1>6 DEF PlaceInv

\* The edges of a window are numbers.
LEMMA EdgesAreNumbers ==
  ASSUME PlaceInv, NEW w \in Window
  PROVE  /\ m_geometry[w].x1 \in Int /\ m_geometry[w].x2 \in Int
         /\ m_geometry[w].y1 \in Int /\ m_geometry[w].y2 \in Int
<1>1. m_geometry[w] \in RectOf
  BY DEF PlaceInv, PlaceTypeOK
<1> QED
  BY <1>1, IntAssumption DEF RectOf, Int32

\* A step that leaves the places of the windows alone, or forgets one.
LEMMA SamePlaces ==
  ASSUME PlaceInv, UNCHANGED <<m_geometry, placed, m_cursor>>
  PROVE  PlaceInv'
BY DEF PlaceInv, PlaceTypeOK, Fits

\* create_window(): the geometry of a new window is any, but it was not set.
LEMMA CreateFits ==
  ASSUME PlaceInv, NEW w \in Window, CreateWindow(w)
  PROVE  PlaceInv'
<1>1. PICK r \in FreshRects :
        LET s == [stack EXCEPT !.windows = Append(@, w), !.geometry = [@ EXCEPT ![w] = r],
                               !.visible = @ \ {w}, !.flags = @ \ {w}, !.told = @ \ {w}]
        IN Becomes(focus_window(s, w)) /\ m_geometry' = s.geometry
  BY DEF CreateWindow
<1> DEFINE s == [stack EXCEPT !.windows = Append(@, w), !.geometry = [@ EXCEPT ![w] = r],
                              !.visible = @ \ {w}, !.flags = @ \ {w}, !.told = @ \ {w}]
<1>2. stack.geometry = m_geometry
  BY DEF stack
<1>3. s.geometry = [m_geometry EXCEPT ![w] = r]
  BY <1>2, StackFields
<1>4. m_geometry' = s.geometry
  BY <1>1
<1> HIDE DEF s
<1>5. m_geometry' = [m_geometry EXCEPT ![w] = r] /\ placed' = placed \ {w} /\ m_cursor' = m_cursor
  BY <1>3, <1>4 DEF CreateWindow
<1>6. m_geometry \in [Window -> RectOf] /\ placed \subseteq Window /\ r \in RectOf
  BY RequestAssumption DEF PlaceInv, PlaceTypeOK
<1>7. PlaceTypeOK'
  BY <1>5, <1>6 DEF PlaceInv, PlaceTypeOK
<1>8. \A v \in placed' : v \in placed /\ m_geometry'[v] = m_geometry[v]
  BY <1>5, <1>6
<1>9. (\A v \in placed : Fits(m_geometry[v]))'
  BY <1>8 DEF PlaceInv, Fits
<1> QED
  BY <1>7, <1>9 DEF PlaceInv

\* SYS_WINDOW_SET_GEOMETRY.
LEMMA SetGeometryStep ==
  ASSUME PlaceInv, NEW w \in Window, NEW request \in Requests, SetGeometry(w, request)
  PROVE  PlaceInv'
<1>1. PICK new_rect \in place(request[1], request[2], request[3], request[4]) : set_window_geometry(w, new_rect)
  BY DEF SetGeometry
<1>2. request[1] \in Int /\ request[2] \in Int /\ request[3] \in Int /\ request[4] \in Int
  BY RequestAssumption, IntAssumption DEF Int32
<1>3. Fits(new_rect)
  BY <1>1, <1>2, PlaceFits
<1> QED
  BY <1>1, <1>3, SetGeometryFits DEF SetGeometry

\* move_focus_window() gives the focused window a place that fits.
LEMMA MovePlaces ==
  ASSUME FocusInv, PlaceInv, NEW d \in Arrows, MoveFocusWindow(d)
  PROVE  \E new_rect : Fits(new_rect) /\ set_window_geometry(m_focus_window, new_rect)
<1> DEFINE w == m_focus_window
           r == m_geometry[w]
<1>1. PICK x1 \in add(r.x1, d[1]), x2 \in add(r.x2, d[1]), y1 \in add(r.y1, d[2]), y2 \in add(r.y2, d[2]) :
        \E new_rect \in constrained(x1, y1, x2, y2) : set_window_geometry(w, new_rect)
  BY DEF MoveFocusWindow
<1>2. w \in Window
  BY DEF MoveFocusWindow, FocusInv, FocusTypeOK
<1>3. d[1] \in Int /\ d[2] \in Int
  BY RequestAssumption, IntAssumption DEF Int32Pair, Int32
<1>4. x1 \in Int /\ x2 \in Int /\ y1 \in Int /\ y2 \in Int
  BY <1>2, <1>3, EdgesAreNumbers, SumsAreNumbers
<1>5. PICK new_rect \in constrained(x1, y1, x2, y2) : set_window_geometry(w, new_rect)
  BY <1>1
<1>6. Fits(new_rect)
  BY <1>4, <1>5, ConstrainedFits
<1> QED
  BY <1>5, <1>6

\* resize_focus_window() does too.
LEMMA ResizePlaces ==
  ASSUME FocusInv, PlaceInv, NEW d \in Arrows, ResizeFocusWindow(d)
  PROVE  \E new_rect : Fits(new_rect) /\ set_window_geometry(m_focus_window, new_rect)
<1> DEFINE w == m_focus_window
           r == m_geometry[w]
           dx == IF width(r) + d[1] < MIN_WIDTH THEN MIN_WIDTH - width(r) ELSE d[1]
           dy == IF height(r) + d[2] < MIN_HEIGHT THEN MIN_HEIGHT - height(r) ELSE d[2]
<1>1. PICK x2 \in add(r.x2, dx), y2 \in add(r.y2, dy) :
        \E new_rect \in constrained(r.x1, r.y1, x2, y2) : set_window_geometry(w, new_rect)
  BY DEF ResizeFocusWindow
<1>2. w \in Window
  BY DEF ResizeFocusWindow, FocusInv, FocusTypeOK
<1>3. d[1] \in Int /\ d[2] \in Int
  BY RequestAssumption, IntAssumption DEF Int32Pair, Int32
<1>4. r.x1 \in Int /\ r.x2 \in Int /\ r.y1 \in Int /\ r.y2 \in Int
  BY <1>2, EdgesAreNumbers
<1>5. dx \in Int /\ dy \in Int
  BY <1>3, <1>4, SizeAssumption DEF width, height
<1> HIDE DEF dx, dy
<1>6. x2 \in Int /\ y2 \in Int
  BY <1>4, <1>5, SumsAreNumbers
<1>7. PICK new_rect \in constrained(r.x1, r.y1, x2, y2) : set_window_geometry(w, new_rect)
  BY <1>1
<1>8. Fits(new_rect)
  BY <1>4, <1>6, <1>7, ConstrainedFits
<1> QED
  BY <1>7, <1>8

\* Alt and an arrow.
LEMMA ArrowFits ==
  ASSUME FocusInv, PlaceInv, NEW d \in Arrows, MoveFocusWindow(d) \/ ResizeFocusWindow(d)
  PROVE  PlaceInv'
<1>1. PICK new_rect : Fits(new_rect) /\ set_window_geometry(m_focus_window, new_rect)
  BY MovePlaces, ResizePlaces
<1>2. m_focus_window \in Window /\ m_cursor' = m_cursor
  BY DEF MoveFocusWindow, ResizeFocusWindow, FocusInv, FocusTypeOK
<1> QED
  BY <1>1, <1>2, SetGeometryFits

\* Alt+F.
LEMMA FullscreenFits ==
  ASSUME FocusInv, PlaceInv, Fullscreen
  PROVE  PlaceInv'
<1>1. PICK new_rect \in place(0, 0, m_screen_width, m_screen_height) :
        set_window_geometry(m_focus_window, new_rect)
  BY DEF Fullscreen
<1>2. m_focus_window \in Window
  BY DEF Fullscreen, FocusInv, FocusTypeOK
<1>3. Fits(new_rect)
  <2>1. m_screen_width \in Int /\ m_screen_height \in Int /\ 0 \in Int
    BY SizeAssumption
  <2> QED
    BY <1>1, <2>1, PlaceFits
<1> QED
  BY <1>1, <1>2, <1>3, SetGeometryFits DEF Fullscreen

\* mosaic_layout() gives every window of the list a cell.
LEMMA MosaicFitsAll ==
  ASSUME FocusInv, PlaceInv, Mosaic
  PROVE  PlaceInv'
<1> DEFINE n == Len(m_windows)
           at(w) == CHOOSE i \in 1 .. n : m_windows[i] = w
<1>1. PICK layout \in [Live -> UNION {cell(k, n) : k \in 0 .. n - 1}] :
        /\ \A w \in Live : layout[w] \in cell(at(w) - 1, n)
        /\ m_geometry' = [w \in Window |-> IF w \in Live THEN layout[w] ELSE m_geometry[w]]
        /\ placed' = placed \cup Live
  BY DEF Mosaic
<1>2. n \in Nat /\ n > 0 /\ Live \subseteq Window
  BY DEF Mosaic, FocusInv, FocusTypeOK, Live
<1>3. ASSUME NEW w \in Live PROVE Fits(layout[w])
  <2>1. PICK k \in 0 .. n - 1 : layout[w] \in cell(k, n)
    BY <1>1
  <2> QED
    BY <1>2, <2>1, CellFits
<1>4. m_geometry \in [Window -> RectOf] /\ placed \subseteq Window
  BY DEF PlaceInv, PlaceTypeOK
<1>5. \A v \in Window : m_geometry'[v] = IF v \in Live THEN layout[v] ELSE m_geometry[v]
  BY <1>1
<1>6. \A v \in Window : m_geometry'[v] \in RectOf
  BY <1>3, <1>4, <1>5 DEF Fits
<1>7. PlaceTypeOK'
  <2>1. m_geometry' \in [Window -> RectOf]
    BY <1>1, <1>6
  <2>2. placed' \subseteq Window
    BY <1>1, <1>2, <1>4
  <2>3. m_cursor' = m_cursor
    BY DEF Mosaic
  <2> QED
    BY <2>1, <2>2, <2>3 DEF PlaceInv, PlaceTypeOK
<1>8. ASSUME NEW v \in placed' PROVE Fits(m_geometry'[v])
  <2>1. v \in Window /\ (v \in Live \/ v \in placed)
    BY <1>1, <1>2, <1>4
  <2>2. CASE v \in Live
    BY <1>3, <1>5, <2>1, <2>2
  <2>3. CASE v \notin Live
    BY <1>5, <2>1, <2>3 DEF PlaceInv
  <2> QED
    BY <2>2, <2>3
<1>9. (\A v \in placed : Fits(m_geometry[v]))'
  BY <1>8 DEF Fits
<1> QED
  BY <1>7, <1>9 DEF PlaceInv

\* handle_mouse_move_event() keeps the cursor on the screen.
LEMMA MouseMoveFits ==
  ASSUME PlaceInv, NEW d \in Moves, MouseMove(d)
  PROVE  PlaceInv'
<1>1. /\ m_cursor' = <<clamp(m_cursor[1] + d[1], 0, m_screen_width),
                        clamp(m_cursor[2] + d[2], 0, m_screen_height)>>
      /\ m_geometry' = m_geometry /\ placed' = placed
  BY DEF MouseMove, windowVars
<1>2. d[1] \in Int /\ d[2] \in Int /\ m_cursor[1] \in Int /\ m_cursor[2] \in Int
  BY RequestAssumption, IntAssumption DEF Int32Pair, Int32, PlaceInv, PlaceTypeOK
<1>3. m_cursor' \in (0 .. m_screen_width) \X (0 .. m_screen_height)
  BY <1>1, <1>2, SizeAssumption DEF clamp, Lesser, Greater
<1> QED
  BY <1>1, <1>3 DEF PlaceInv, PlaceTypeOK, Fits

\* Every step keeps the places on the screen.
LEMMA PlaceStep ==
  ASSUME FocusInv, PlaceInv, [WMNext]_wmVars
  PROVE  PlaceInv'
<1>1. CASE UNCHANGED <<m_geometry, placed, m_cursor>>
  BY <1>1, SamePlaces
<1>2. CASE LifeOps
  BY <1>1, <1>2, CreateFits DEF LifeOps, DestroyWindow
<1>3. CASE VisibilityOps
  BY <1>1, <1>3 DEF VisibilityOps, ShowWindow, HideWindow
<1>4. CASE GeometryOps
  BY <1>1, <1>4, SetGeometryStep DEF GeometryOps, Present, windowVars
<1>5. CASE KeyOps
  BY <1>1, <1>5, ArrowFits, FullscreenFits, MosaicFitsAll DEF KeyOps, SwitchFocus, windowVars
<1>6. CASE MouseOps
  BY <1>1, <1>6, MouseMoveFits DEF MouseOps, MouseClick, windowVars
<1> QED
  BY <1>1, <1>2, <1>3, <1>4, <1>5, <1>6 DEF WMNext, wmVars, windowVars

\* For every screen on which the smallest window fits and every request, also one whose sums
\* overflow, a window whose geometry was set is on the screen as a whole (set_window_geometry()).
THEOREM PlacesCorrect == WMSpec => []OnScreen
<1>1. WMInit => FocusInv
  BY WindowAssumption DEF WMInit, FocusInv, FocusTypeOK, Live
<1>2. WMInit => PlaceInv
  BY SizeAssumption, IntAssumption
     DEF WMInit, PlaceInv, PlaceTypeOK, RectOf, Int32, NullRect, Rect, Lesser, Greater
<1>3. FocusInv /\ [WMNext]_wmVars => FocusInv'
  BY FocusStep
<1>4. FocusInv /\ PlaceInv /\ [WMNext]_wmVars => PlaceInv'
  BY PlaceStep
<1>5. PlaceInv => OnScreen
  BY DEF PlaceInv, OnScreen, Fits
<1> QED
  BY <1>1, <1>2, <1>3, <1>4, <1>5, PTL DEF WMSpec
-----------------------------------------------------------------------------
\* A visible window at a pixel.
SeenAt(visible_ones, places, p, v) == v \in visible_ones /\ In(p, places[v])

\* What is on top of a list at a pixel: its first window that is seen there, or else the background.
IsTop(windows, visible_ones, places, p, x) ==
  \/ x = BACKGROUND /\ \A i \in 1 .. Len(windows) : ~SeenAt(visible_ones, places, p, windows[i])
  \/ \E i \in 1 .. Len(windows) :
       /\ x = windows[i] /\ SeenAt(visible_ones, places, p, windows[i])
       /\ \A j \in 1 .. Len(windows) : j < i => ~SeenAt(visible_ones, places, p, windows[j])

\* Topmost() is that, and nothing else is.
LEMMA TopmostIs ==
  ASSUME NEW windows \in Seq(Window), NEW V, NEW G, NEW p
  PROVE  /\ IsTop(windows, V, G, p, Topmost(windows, V, G, p))
         /\ \A x : IsTop(windows, V, G, p, x) => x = Topmost(windows, V, G, p)
         /\ Topmost(windows, V, G, p) \in Window \cup {BACKGROUND}
<1> DEFINE Here == {i \in 1 .. Len(windows) : SeenAt(V, G, p, windows[i])}
           first == CHOOSE i \in Here : \A j \in Here : i <= j
<1>1. Topmost(windows, V, G, p) = IF Here = {} THEN BACKGROUND ELSE windows[first]
  BY DEF Topmost, SeenAt
<1>2. Here \subseteq Nat /\ Len(windows) \in Nat /\ \A i \in Here : i \in 1 .. Len(windows)
  OBVIOUS
<1>3. CASE Here = {}
  <2>1. \A i \in 1 .. Len(windows) : ~SeenAt(V, G, p, windows[i])
    BY <1>3
  <2>2. \A x : IsTop(windows, V, G, p, x) <=> x = BACKGROUND
    BY <2>1 DEF IsTop
  <2> QED
    BY <1>1, <1>3, <2>2
<1>4. CASE Here # {}
  <2>1. first \in Here /\ \A j \in Here : first <= j
    <3>1. \E i \in Here : \A j \in Here : i <= j
      BY <1>2, <1>4, LeastNatural
    <3> QED
      BY <3>1
  <2> HIDE DEF first
  <2>2. /\ first \in 1 .. Len(windows) /\ SeenAt(V, G, p, windows[first])
        /\ \A j \in 1 .. Len(windows) : j < first => ~SeenAt(V, G, p, windows[j])
    BY <1>2, <2>1
  <2>3. ASSUME NEW x, IsTop(windows, V, G, p, x) PROVE x = windows[first]
    <3>1. PICK i \in 1 .. Len(windows) :
            /\ x = windows[i] /\ SeenAt(V, G, p, windows[i])
            /\ \A j \in 1 .. Len(windows) : j < i => ~SeenAt(V, G, p, windows[j])
      BY <2>2, <2>3, Zenon DEF IsTop
    <3>2. ~(i < first) /\ ~(first < i)
      BY <2>2, <3>1
    <3>3. i = first
      BY <1>2, <2>2, <3>2
    <3> QED
      BY <3>1, <3>3
  <2>4. IsTop(windows, V, G, p, windows[first])
    BY <2>2, Zenon DEF IsTop
  <2>5. windows[first] \in Window
    BY <2>2
  <2> QED
    BY <1>1, <1>4, <2>3, <2>4, <2>5
<1> QED
  BY <1>3, <1>4

\* What is on top depends only on where the windows of the list are seen.
LEMMA TopmostSame ==
  ASSUME NEW windows, NEW V, NEW G, NEW V2, NEW G2, NEW p,
         \A i \in 1 .. Len(windows) : SeenAt(V, G, p, windows[i]) <=> SeenAt(V2, G2, p, windows[i])
  PROVE  Topmost(windows, V, G, p) = Topmost(windows, V2, G2, p)
<1> DEFINE Here == {i \in 1 .. Len(windows) : SeenAt(V, G, p, windows[i])}
           Here2 == {i \in 1 .. Len(windows) : SeenAt(V2, G2, p, windows[i])}
           first(S) == IF S = {} THEN BACKGROUND ELSE windows[CHOOSE i \in S : \A j \in S : i <= j]
<1>1. Here = Here2
  OBVIOUS
<1>2. Topmost(windows, V, G, p) = first(Here)
  BY DEF Topmost, SeenAt
<1>3. Topmost(windows, V2, G2, p) = first(Here2)
  BY DEF Topmost, SeenAt
<1> HIDE DEF Here, Here2, first
<1> QED
  BY <1>1, <1>2, <1>3

\* A window that is not seen at a pixel may leave the list,
LEMMA EraseTop ==
  ASSUME NEW windows \in Seq(Window), NEW w, Has(windows, w), NEW V, NEW G, NEW p, ~SeenAt(V, G, p, w)
  PROVE  Topmost(erase(windows, w), V, G, p) = Topmost(windows, V, G, p)
<1> DEFINE e == erase(windows, w)
           n == Len(windows)
           x == Topmost(e, V, G, p)
           Seen(v) == SeenAt(V, G, p, v)
<1>0. PICK i \in 1 .. n : Without(e, windows, w, i)
  BY EraseIndex
<1> HIDE DEF e
<1>1. /\ i \in 1 .. n /\ windows[i] = w /\ n \in Nat /\ e \in Seq(Window) /\ Len(e) = n - 1
      /\ \A k \in 1 .. n - 1 : e[k] = IF k < i THEN windows[k] ELSE windows[k + 1]
  BY <1>0 DEF Without
<1>2. IsTop(e, V, G, p, x)
  BY <1>1, TopmostIs
<1> HIDE DEF x
<1>3. ASSUME NEW j \in 1 .. n, Seen(windows[j])
      PROVE  \E k \in 1 .. n - 1 : e[k] = windows[j] /\ (IF k < i THEN j = k ELSE j = k + 1)
  <2>1. j # i
    BY <1>1, <1>3
  <2>2. CASE j < i
    <3>1. j \in 1 .. n - 1 /\ e[j] = windows[j]
      BY <1>1, <2>2
    <3> QED
      BY <2>2, <3>1
  <2>3. CASE i < j
    <3>1. j - 1 \in 1 .. n - 1 /\ ~(j - 1 < i) /\ j = j - 1 + 1
      BY <1>1, <2>3
    <3>2. e[j - 1] = windows[j]
      BY <1>1, <3>1
    <3> QED
      BY <3>1, <3>2
  <2> QED
    BY <1>1, <2>1, <2>2, <2>3
<1>4. CASE x = BACKGROUND /\ \A k \in 1 .. Len(e) : ~Seen(e[k])
  <2>1. \A j \in 1 .. n : ~Seen(windows[j])
    BY <1>1, <1>3, <1>4
  <2>2. IsTop(windows, V, G, p, x)
    BY <1>4, <2>1, Zenon DEF IsTop
  <2> QED
    BY <2>2, TopmostIs DEF x, e
<1>5. ASSUME NEW k \in 1 .. Len(e), x = e[k], Seen(e[k]), \A l \in 1 .. Len(e) : l < k => ~Seen(e[l])
      PROVE  IsTop(windows, V, G, p, x)
  <2> DEFINE m == IF k < i THEN k ELSE k + 1
  <2>1. m \in 1 .. n /\ x = windows[m] /\ Seen(windows[m])
    BY <1>1, <1>5
  <2>2. ASSUME NEW j \in 1 .. n, j < m, Seen(windows[j]) PROVE FALSE
    <3>1. PICK l \in 1 .. n - 1 : e[l] = windows[j] /\ (IF l < i THEN j = l ELSE j = l + 1)
      BY <1>3, <2>2
    <3>2. l \in 1 .. Len(e) /\ l < k
      BY <1>1, <2>2, <3>1
    <3> QED
      BY <1>5, <2>2, <3>1, <3>2
  <2> HIDE DEF m
  <2>3. \A j \in 1 .. n : j < m => ~Seen(windows[j])
    BY <2>2
  <2> QED
    BY <2>1, <2>3, Zenon DEF IsTop
<1>6. \/ x = BACKGROUND /\ \A k \in 1 .. Len(e) : ~Seen(e[k])
      \/ \E k \in 1 .. Len(e) : x = e[k] /\ Seen(e[k]) /\ \A l \in 1 .. Len(e) : l < k => ~Seen(e[l])
  BY <1>2, Zenon DEF IsTop
<1>7. CASE IsTop(windows, V, G, p, x)
  BY <1>7, TopmostIs DEF x, e
<1> QED
  BY <1>4, <1>5, <1>6, <1>7, Zenon

\* come to its front,
LEMMA ConsTop ==
  ASSUME NEW e \in Seq(Window), NEW w \in Window, NEW V, NEW G, NEW p, ~SeenAt(V, G, p, w)
  PROVE  Topmost(<<w>> \o e, V, G, p) = Topmost(e, V, G, p)
<1> DEFINE t == <<w>> \o e
           x == Topmost(e, V, G, p)
           Seen(v) == SeenAt(V, G, p, v)
<1>1. /\ t \in Seq(Window) /\ Len(t) = Len(e) + 1 /\ Len(e) \in Nat /\ t[1] = w
      /\ \A k \in 2 .. Len(e) + 1 : t[k] = e[k - 1]
  BY ConsFacts
<1> HIDE DEF t
<1>2. IsTop(e, V, G, p, x)
  BY TopmostIs
<1> HIDE DEF x
<1>3. ASSUME NEW j \in 1 .. Len(t), Seen(t[j]) PROVE j - 1 \in 1 .. Len(e) /\ t[j] = e[j - 1]
  <2>1. j # 1
    BY <1>1, <1>3
  <2>2. j \in 2 .. Len(e) + 1
    BY <1>1, <2>1
  <2> QED
    BY <1>1, <2>2
<1>4. ASSUME x = BACKGROUND /\ \A k \in 1 .. Len(e) : ~Seen(e[k])
      PROVE  IsTop(t, V, G, p, x)
  <2>1. \A j \in 1 .. Len(t) : ~Seen(t[j])
    BY <1>3, <1>4
  <2> QED
    BY <1>4, <2>1, Zenon DEF IsTop
<1>5. ASSUME NEW k \in 1 .. Len(e), x = e[k], Seen(e[k]), \A l \in 1 .. Len(e) : l < k => ~Seen(e[l])
      PROVE  IsTop(t, V, G, p, x)
  <2>1. k + 1 \in 1 .. Len(t) /\ x = t[k + 1] /\ Seen(t[k + 1])
    <3>1. k + 1 \in 2 .. Len(e) + 1 /\ k + 1 \in 1 .. Len(t) /\ k + 1 - 1 = k
      BY <1>1
    <3>2. t[k + 1] = e[k + 1 - 1]
      BY <1>1, <3>1
    <3> QED
      BY <1>5, <3>1, <3>2
  <2>2. ASSUME NEW j \in 1 .. Len(t), j < k + 1, Seen(t[j]) PROVE FALSE
    <3>1. j - 1 \in 1 .. Len(e) /\ t[j] = e[j - 1]
      BY <1>3, <2>2
    <3>2. j - 1 < k
      BY <1>1, <2>2
    <3> QED
      BY <1>5, <2>2, <3>1, <3>2
  <2>3. \A j \in 1 .. Len(t) : j < k + 1 => ~Seen(t[j])
    BY <2>2
  <2> QED
    BY <2>1, <2>3, Zenon DEF IsTop
<1>6. IsTop(t, V, G, p, x)
  BY <1>2, <1>4, <1>5, Zenon DEF IsTop
<1> QED
  BY <1>1, <1>6, TopmostIs DEF x, t

\* or be added behind the others.
LEMMA AppendTop ==
  ASSUME NEW windows \in Seq(Window), NEW w \in Window, NEW V, NEW G, NEW p, ~SeenAt(V, G, p, w)
  PROVE  Topmost(Append(windows, w), V, G, p) = Topmost(windows, V, G, p)
<1> DEFINE t == Append(windows, w)
           n == Len(windows)
           x == Topmost(windows, V, G, p)
           Seen(v) == SeenAt(V, G, p, v)
<1>1. /\ n \in Nat /\ t \in Seq(Window) /\ Len(t) = n + 1 /\ t[n + 1] = w
      /\ \A i \in 1 .. n : t[i] = windows[i]
  OBVIOUS
<1> HIDE DEF t
<1>2. IsTop(windows, V, G, p, x)
  BY TopmostIs
<1> HIDE DEF x
<1>3. \A j \in 1 .. n + 1 : Seen(t[j]) => j \in 1 .. n
  BY <1>1
<1>4. ASSUME x = BACKGROUND /\ \A k \in 1 .. n : ~Seen(windows[k])
      PROVE  IsTop(t, V, G, p, x)
  <2>1. \A j \in 1 .. Len(t) : ~Seen(t[j])
    BY <1>1, <1>3, <1>4
  <2> QED
    BY <1>4, <2>1, Zenon DEF IsTop
<1>5. ASSUME NEW k \in 1 .. n, x = windows[k], Seen(windows[k]), \A l \in 1 .. n : l < k => ~Seen(windows[l])
      PROVE  IsTop(t, V, G, p, x)
  <2>1. k \in 1 .. Len(t) /\ x = t[k] /\ Seen(t[k])
    BY <1>1, <1>5
  <2>2. \A j \in 1 .. Len(t) : j < k => ~Seen(t[j])
    <3>1. \A j \in 1 .. Len(t) : j < k => j \in 1 .. n
      BY <1>1
    <3> QED
      BY <1>1, <1>5, <3>1
  <2> QED
    BY <2>1, <2>2, Zenon DEF IsTop
<1>6. IsTop(t, V, G, p, x)
  BY <1>2, <1>4, <1>5, Zenon DEF IsTop
<1> QED
  BY <1>1, <1>6, TopmostIs DEF x, t
-----------------------------------------------------------------------------
Shown == Window \cup {BACKGROUND, CURSOR}

\* A pixel that is not stale: it shows the topmost window or the cursor at its place.
FreshAt(p, windows, visible_ones, places, cursor, shown) ==
  \/ shown[p] = Topmost(windows, visible_ones, places, p)
  \/ shown[p] = CURSOR /\ In(p, cursor_rect(cursor))

\* update() makes the pixels of its rectangle fresh and leaves no other one stale.
LEMMA UpdateFacts ==
  ASSUME NEW windows \in Seq(Window), NEW shown \in [Pixel -> Shown], NEW V, NEW G, NEW c, NEW r
  PROVE  LET u == update(shown, windows, V, G, c, r)
         IN /\ u \in [Pixel -> Shown]
            /\ \A p \in Pixel : /\ FreshAt(p, windows, V, G, c, shown) => FreshAt(p, windows, V, G, c, u)
                                /\ In(p, r) => FreshAt(p, windows, V, G, c, u)
<1> DEFINE u == update(shown, windows, V, G, c, r)
           k == cursor_rect(c)
           near == intersects(k, r)
           Top(p) == Topmost(windows, V, G, p)
<1>1. u = [p \in Pixel |-> IF near /\ In(p, k) THEN CURSOR ELSE IF In(p, r) THEN Top(p) ELSE shown[p]]
  BY DEF update
<1>2. \A p : Top(p) \in Shown
  BY TopmostIs DEF Shown
<1> HIDE DEF near, u, Top
<1>3. ASSUME NEW p \in Pixel
      PROVE  /\ u[p] \in Shown
             /\ (u[p] = CURSOR /\ In(p, k)) \/ u[p] = Top(p) \/ (u[p] = shown[p] /\ ~In(p, r))
  BY <1>1, <1>2 DEF Shown
<1>4. u \in [Pixel -> Shown]
  BY <1>1, <1>3
<1>5. ASSUME NEW p \in Pixel
      PROVE  /\ FreshAt(p, windows, V, G, c, shown) => FreshAt(p, windows, V, G, c, u)
             /\ In(p, r) => FreshAt(p, windows, V, G, c, u)
  BY <1>3 DEF FreshAt, Top
<1> QED
  BY <1>4, <1>5 DEF u

\* A state of the stack whose lists and screen are what they should be.
WellDrawn(s) ==
  /\ DOMAIN s = {"windows", "focus", "flags", "told", "visible", "geometry", "shown"}
  /\ s.windows \in Seq(Window) /\ Once(s.windows) /\ s.shown \in [Pixel -> Shown]

Fresh(s, p) == FreshAt(p, s.windows, s.visible, s.geometry, m_cursor, s.shown)

\* From one state to another no window comes or goes, and no pixel becomes stale.
Repainted(s, r) ==
  /\ WellDrawn(r) /\ r.visible = s.visible /\ r.geometry = s.geometry
  /\ \A v : Has(r.windows, v) <=> Has(s.windows, v)
  /\ \A p \in Pixel : Fresh(s, p) => Fresh(r, p)

\* One after the other.
LEMMA RepaintedTwice ==
  ASSUME NEW s, NEW r, NEW q, Repainted(s, r), Repainted(r, q)
  PROVE  Repainted(s, q)
<1>1. \A p \in Pixel : Fresh(s, p) => Fresh(q, p)
  BY DEF Repainted
<1> QED
  BY <1>1 DEF Repainted

\* Nothing.
LEMMA RepaintedNot ==
  ASSUME NEW s, WellDrawn(s)
  PROVE  Repainted(s, s)
BY DEF Repainted

\* give_focus() repaints the window that comes to the front.
LEMMA GiveFocusRepaints ==
  ASSUME NEW s, WellDrawn(s), NEW w, Has(s.windows, w)
  PROVE  Repainted(s, give_focus(s, w)) /\ \A p \in Pixel : In(p, s.geometry[w]) => Fresh(give_focus(s, w), p)
<1> DEFINE e == erase(s.windows, w)
           t == <<w>> \o e
           u == update(s.shown, t, s.visible, s.geometry, m_cursor, s.geometry[w])
           r == give_focus(s, w)
<1>1. r = [s EXCEPT !.told = @ \cup {w}, !.focus = w, !.flags = @ \cup {w}, !.windows = t, !.shown = u]
  BY DEF give_focus
<1>2. s.windows \in Seq(Window) /\ Once(s.windows) /\ s.shown \in [Pixel -> Shown]
  BY DEF WellDrawn
<1>3. FrontOf(t, s.windows, w)
  BY <1>2, FrontFacts
<1>4. e \in Seq(Window) /\ w \in Window
  BY <1>2, EraseFacts DEF Has
<1> HIDE DEF r, u
<1>5. DOMAIN s = {"windows", "focus", "flags", "told", "visible", "geometry", "shown"}
  BY DEF WellDrawn
<1>6. /\ DOMAIN r = DOMAIN s /\ r.windows = t /\ r.visible = s.visible /\ r.geometry = s.geometry
      /\ r.shown = u
  BY <1>1, <1>5
<1>7. /\ t \in Seq(Window) /\ Once(t) /\ \A v : Has(t, v) <=> Has(s.windows, v)
  BY <1>3 DEF FrontOf
<1>8. /\ u \in [Pixel -> Shown]
      /\ \A p \in Pixel : FreshAt(p, t, s.visible, s.geometry, m_cursor, s.shown) => Fresh(r, p)
      /\ \A p \in Pixel : In(p, s.geometry[w]) => Fresh(r, p)
  BY <1>2, <1>6, <1>7, UpdateFacts DEF u, Fresh
<1>9. ASSUME NEW p \in Pixel, Fresh(s, p) PROVE Fresh(r, p)
  <2>1. CASE In(p, s.geometry[w])
    BY <1>8, <2>1
  <2>2. CASE ~In(p, s.geometry[w])
    <3>1. ~SeenAt(s.visible, s.geometry, p, w)
      BY <2>2 DEF SeenAt
    <3>2. Topmost(e, s.visible, s.geometry, p) = Topmost(s.windows, s.visible, s.geometry, p)
      BY <1>2, <3>1, EraseTop
    <3>3. Topmost(t, s.visible, s.geometry, p) = Topmost(e, s.visible, s.geometry, p)
      BY <1>4, <3>1, ConsTop
    <3>4. FreshAt(p, t, s.visible, s.geometry, m_cursor, s.shown)
      BY <1>9, <3>2, <3>3 DEF Fresh, FreshAt
    <3> QED
      BY <1>8, <3>4
  <2> QED
    BY <2>1, <2>2
<1>10. Repainted(s, r)
  BY <1>5, <1>6, <1>7, <1>8, <1>9 DEF Repainted, WellDrawn
<1> QED
  BY <1>8, <1>10 DEF r

\* unfocus_window() leaves no pixel stale,
LEMMA UnfocusRepaints ==
  ASSUME NEW s, WellDrawn(s), NEW w
  PROVE  Repainted(s, unfocus_window(s, w))
<1>1. CASE s.focus # w
  BY <1>1, RepaintedNot DEF unfocus_window
<1>2. CASE s.focus = w
  <2> DEFINE out == [s EXCEPT !.flags = @ \ {w}, !.told = @ \ {w}, !.focus = NoWindow]
             next == next_focus(s, w)
  <2>1. unfocus_window(s, w) = IF next = NoWindow THEN out ELSE give_focus(out, next)
    BY <1>2 DEF unfocus_window
  <2>2. next # NoWindow => Has(s.windows, next)
    BY NextFocusFacts DEF WellDrawn
  <2>3. DOMAIN s = {"windows", "focus", "flags", "told", "visible", "geometry", "shown"}
    BY DEF WellDrawn
  <2>4. /\ DOMAIN out = DOMAIN s /\ out.windows = s.windows /\ out.visible = s.visible
        /\ out.geometry = s.geometry /\ out.shown = s.shown
    BY <2>3
  <2> HIDE DEF out, next
  <2>5. WellDrawn(out) /\ \A p : Fresh(out, p) <=> Fresh(s, p)
    BY <2>4 DEF WellDrawn, Fresh
  <2>6. Repainted(s, out)
    BY <2>4, <2>5 DEF Repainted
  <2>7. CASE next # NoWindow
    <3>1. Repainted(out, give_focus(out, next))
      BY <2>2, <2>4, <2>5, <2>7, GiveFocusRepaints
    <3> QED
      BY <2>1, <2>6, <2>7, <3>1, RepaintedTwice
  <2> QED
    BY <2>1, <2>6, <2>7
<1> QED
  BY <1>1, <1>2

\* and focus_window() neither.
LEMMA FocusRepaints ==
  ASSUME NEW s, WellDrawn(s), NEW w, Has(s.windows, w)
  PROVE  Repainted(s, focus_window(s, w))
<1>1. CASE s.focus = w
  BY <1>1, RepaintedNot DEF focus_window
<1>2. CASE s.focus # w
  <2> DEFINE u == IF s.focus = NoWindow THEN s ELSE unfocus_window(s, s.focus)
  <2>1. focus_window(s, w) = give_focus(u, w)
    BY <1>2 DEF focus_window
  <2>2. Repainted(s, u)
    BY RepaintedNot, UnfocusRepaints
  <2> HIDE DEF u
  <2>3. WellDrawn(u) /\ Has(u.windows, w)
    BY <2>2 DEF Repainted
  <2>4. Repainted(u, give_focus(u, w))
    BY <2>3, GiveFocusRepaints
  <2> QED
    BY <2>1, <2>2, <2>4, RepaintedTwice
<1> QED
  BY <1>1, <1>2
-----------------------------------------------------------------------------
FreshPixel(p) == FreshAt(p, m_windows, m_visible, m_geometry, m_cursor, screen)

\* The screen is that of a state, and no pixel has become stale.
RepaintsAll == ScreenTypeOK' /\ \A p \in Pixel : FreshPixel(p) => FreshPixel(p)'

\* A step to a state of the stack that shows the windows as they then are.
LEMMA BecomesRepaints ==
  ASSUME NEW s, WellDrawn(s), Becomes(s), m_cursor' = m_cursor,
         \A p \in Pixel : Topmost(s.windows, m_visible', m_geometry', p) = Topmost(s.windows, s.visible, s.geometry, p),
         \A p \in Pixel : FreshPixel(p) => Fresh(s, p)
  PROVE  RepaintsAll
<1>1. m_windows' = s.windows /\ screen' = s.shown
  BY DEF Becomes
<1>2. ScreenTypeOK'
  BY <1>1 DEF WellDrawn, ScreenTypeOK, Shown, Pixel
<1>3. ASSUME NEW p \in Pixel, FreshPixel(p) PROVE FreshPixel(p)'
  <2>1. Fresh(s, p)
    BY <1>3
  <2>2. Topmost(m_windows', m_visible', m_geometry', p) = Topmost(s.windows, s.visible, s.geometry, p)
    BY <1>1
  <2>3. FreshPixel(p)' <=> FreshAt(p, m_windows', m_visible', m_geometry', m_cursor', screen')
    BY DEF FreshPixel
  <2> QED
    BY <1>1, <2>1, <2>2, <2>3 DEF Fresh, FreshAt
<1> QED
  BY <1>2, <1>3 DEF RepaintsAll

\* The stack of a state.
LEMMA StackDrawn ==
  ASSUME FocusInv, ScreenTypeOK
  PROVE  /\ WellDrawn(stack) /\ stack.geometry = m_geometry /\ stack.shown = screen
         /\ \A p \in Pixel : FreshPixel(p) <=> Fresh(stack, p)
<1>1. stack.geometry = m_geometry /\ stack.shown = screen
  BY DEF stack
<1>2. Once(m_windows) /\ m_windows \in Seq(Window)
  BY Zenon DEF FocusInv, FocusTypeOK, Once
<1>3. WellDrawn(stack)
  BY <1>1, <1>2, StackFields DEF WellDrawn, ScreenTypeOK, Shown, Pixel
<1>4. \A p \in Pixel : FreshPixel(p) <=> Fresh(stack, p)
  BY <1>1, StackFields DEF FreshPixel, Fresh
<1> QED
  BY <1>1, <1>3, <1>4

\* create_window(): the new window is not visible yet.
LEMMA CreateRepaints ==
  ASSUME FocusInv, ScreenTypeOK, NEW w \in Window, CreateWindow(w)
  PROVE  RepaintsAll
<1>1. PICK r \in FreshRects :
        LET s == [stack EXCEPT !.windows = Append(@, w), !.geometry = [@ EXCEPT ![w] = r],
                               !.visible = @ \ {w}, !.flags = @ \ {w}, !.told = @ \ {w}]
        IN Becomes(focus_window(s, w)) /\ m_geometry' = s.geometry
  BY DEF CreateWindow
<1> DEFINE s == [stack EXCEPT !.windows = Append(@, w), !.geometry = [@ EXCEPT ![w] = r],
                              !.visible = @ \ {w}, !.flags = @ \ {w}, !.told = @ \ {w}]
           f == focus_window(s, w)
<1>2. Becomes(f) /\ m_geometry' = s.geometry /\ m_visible' = m_visible \ {w} /\ m_cursor' = m_cursor
  BY <1>1 DEF CreateWindow
<1>3. /\ WellDrawn(stack) /\ stack.geometry = m_geometry /\ stack.shown = screen
      /\ \A p \in Pixel : FreshPixel(p) <=> Fresh(stack, p)
  BY StackDrawn
<1>4. /\ DOMAIN s = DOMAIN stack /\ s.windows = Append(m_windows, w) /\ s.visible = m_visible \ {w}
      /\ s.geometry = [m_geometry EXCEPT ![w] = r] /\ s.shown = screen
  BY <1>3, StackFields
<1> HIDE DEF s, f
<1>5. m_windows \in Seq(Window) /\ Once(m_windows) /\ ~Has(m_windows, w)
  BY StackSound, StackFields DEF CreateWindow, Sound
<1>6. s.windows \in Seq(Window) /\ Once(s.windows) /\ Has(s.windows, w)
  BY <1>4, <1>5, AppendFacts
<1>7. WellDrawn(s)
  BY <1>3, <1>4, <1>6, StackFields DEF WellDrawn
<1>8. ASSUME NEW p \in Pixel, FreshPixel(p) PROVE Fresh(s, p)
  <2>1. ~SeenAt(s.visible, s.geometry, p, w)
    BY <1>4 DEF SeenAt
  <2>2. Topmost(s.windows, s.visible, s.geometry, p) = Topmost(m_windows, s.visible, s.geometry, p)
    BY <1>4, <1>5, <2>1, AppendTop
  <2>3. \A i \in 1 .. Len(m_windows) :
          SeenAt(s.visible, s.geometry, p, m_windows[i]) <=> SeenAt(m_visible, m_geometry, p, m_windows[i])
    BY <1>4, <1>5 DEF SeenAt, Has
  <2>4. Topmost(m_windows, s.visible, s.geometry, p) = Topmost(m_windows, m_visible, m_geometry, p)
    BY <2>3, TopmostSame
  <2> QED
    BY <1>4, <1>8, <2>2, <2>4 DEF FreshPixel, Fresh, FreshAt
<1>9. Repainted(s, f)
  BY <1>6, <1>7, FocusRepaints DEF f
<1>10. WellDrawn(f) /\ m_visible' = f.visible /\ m_geometry' = f.geometry
  BY <1>2, <1>4, <1>9 DEF Repainted
<1>11. \A p \in Pixel : FreshPixel(p) => Fresh(f, p)
  BY <1>8, <1>9 DEF Repainted
<1> QED
  BY <1>2, <1>10, <1>11, BecomesRepaints

\* destroy_window(): the place of the window is repainted without it.
LEMMA DestroyRepaints ==
  ASSUME FocusInv, ScreenTypeOK, NEW w \in Window, DestroyWindow(w)
  PROVE  RepaintsAll
<1> DEFINE s == unfocus_window(stack, w)
           windows == erase(s.windows, w)
           gone == [s EXCEPT !.windows = windows]
           shown == IF w \in m_visible
                    THEN update(gone.shown, windows, m_visible, m_geometry, m_cursor, m_geometry[w])
                    ELSE gone.shown
           repainted == [gone EXCEPT !.shown = shown]
           last == windows[Len(windows)]
           d == destroy_window(w)
<1>1. /\ Becomes(d) /\ m_visible' = m_visible \ {w} /\ m_geometry' = m_geometry /\ m_cursor' = m_cursor
      /\ Has(m_windows, w)
  BY StackSound DEF DestroyWindow
<1>2. d = IF windows = <<>> THEN repainted ELSE focus_window(repainted, last)
  BY DEF destroy_window
<1>3. /\ WellDrawn(stack) /\ stack.geometry = m_geometry
      /\ \A p \in Pixel : FreshPixel(p) <=> Fresh(stack, p)
  BY StackDrawn
<1>4. Repainted(stack, s)
  BY <1>3, UnfocusRepaints
<1> HIDE DEF s
<1>5. /\ WellDrawn(s) /\ s.visible = m_visible /\ s.geometry = m_geometry /\ Has(s.windows, w)
      /\ \A p \in Pixel : FreshPixel(p) => Fresh(s, p)
  BY <1>1, <1>3, <1>4, StackFields DEF Repainted
<1>6. /\ DOMAIN s = {"windows", "focus", "flags", "told", "visible", "geometry", "shown"}
      /\ s.windows \in Seq(Window) /\ Once(s.windows) /\ s.shown \in [Pixel -> Shown]
  BY <1>5 DEF WellDrawn
<1>7. gone.shown = s.shown /\ DOMAIN gone = DOMAIN s
  BY <1>6
<1>8. /\ DOMAIN repainted = DOMAIN s /\ repainted.windows = windows
      /\ repainted.visible = s.visible /\ repainted.geometry = s.geometry /\ repainted.shown = shown
  BY <1>6
<1>9. windows \in Seq(Window) /\ Once(windows) /\ \A v : Has(windows, v) <=> Has(s.windows, v) /\ v # w
  BY <1>5, <1>6, EraseFacts
<1>10. /\ shown \in [Pixel -> Shown]
       /\ \A p \in Pixel :
            /\ FreshAt(p, windows, m_visible, m_geometry, m_cursor, s.shown)
               => FreshAt(p, windows, m_visible, m_geometry, m_cursor, shown)
            /\ w \in m_visible /\ In(p, m_geometry[w])
               => FreshAt(p, windows, m_visible, m_geometry, m_cursor, shown)
  <2> HIDE DEF windows, gone
  <2>1. CASE w \in m_visible
    <3>1. shown = update(s.shown, windows, m_visible, m_geometry, m_cursor, m_geometry[w])
      BY <1>7, <2>1
    <3> HIDE DEF shown
    <3> QED
      BY <1>6, <1>9, <3>1, UpdateFacts
  <2>2. CASE w \notin m_visible
    <3>1. shown = s.shown
      BY <1>7, <2>2
    <3> HIDE DEF shown
    <3> QED
      BY <1>6, <2>2, <3>1
  <2> QED
    BY <2>1, <2>2
<1>11. ASSUME NEW p \in Pixel, Fresh(s, p) PROVE Fresh(repainted, p)
  <2> HIDE DEF gone, shown, repainted
  <2>1. CASE SeenAt(m_visible, m_geometry, p, w)
    <3>1. w \in m_visible /\ In(p, m_geometry[w])
      BY <2>1 DEF SeenAt
    <3>2. FreshAt(p, windows, m_visible, m_geometry, m_cursor, shown)
      BY <1>10, <3>1
    <3> HIDE DEF windows
    <3> QED
      BY <1>5, <1>8, <3>2 DEF Fresh
  <2>2. CASE ~SeenAt(m_visible, m_geometry, p, w)
    <3>1. Topmost(windows, m_visible, m_geometry, p) = Topmost(s.windows, m_visible, m_geometry, p)
      BY <1>5, <1>6, <2>2, EraseTop
    <3> HIDE DEF windows
    <3>2. FreshAt(p, windows, m_visible, m_geometry, m_cursor, s.shown)
      BY <1>5, <1>11, <3>1 DEF Fresh, FreshAt
    <3>3. FreshAt(p, windows, m_visible, m_geometry, m_cursor, shown)
      BY <1>10, <3>2
    <3> QED
      BY <1>5, <1>8, <3>3 DEF Fresh
  <2> QED
    BY <2>1, <2>2
<1> HIDE DEF gone, shown, repainted, windows, d
<1>12. WellDrawn(repainted)
  BY <1>6, <1>8, <1>9, <1>10 DEF WellDrawn
<1>13. Repainted(repainted, d)
  <2>1. CASE windows = <<>>
    BY <1>2, <1>12, <2>1, RepaintedNot
  <2>2. CASE windows # <<>>
    <3>1. Len(windows) \in 1 .. Len(windows)
      BY <1>9, <2>2
    <3>2. Has(repainted.windows, last)
      BY <1>8, <3>1 DEF Has
    <3> QED
      BY <1>2, <1>12, <2>2, <3>2, FocusRepaints
  <2> QED
    BY <2>1, <2>2
<1>14. /\ WellDrawn(d) /\ d.visible = m_visible /\ d.geometry = m_geometry /\ ~Has(d.windows, w)
       /\ \A p \in Pixel : FreshPixel(p) => Fresh(d, p)
  BY <1>5, <1>8, <1>9, <1>11, <1>13 DEF Repainted
<1>15. \A p \in Pixel :
         Topmost(d.windows, m_visible', m_geometry', p) = Topmost(d.windows, d.visible, d.geometry, p)
  <2> TAKE p \in Pixel
  <2>1. \A i \in 1 .. Len(d.windows) :
          SeenAt(m_visible', m_geometry', p, d.windows[i]) <=> SeenAt(d.visible, d.geometry, p, d.windows[i])
    BY <1>1, <1>14 DEF SeenAt, Has
  <2> QED
    BY <2>1, TopmostSame
<1> QED
  BY <1>1, <1>14, <1>15, BecomesRepaints

\* set_window_visibility(): the window is repainted when it appears.
LEMMA ShowRepaints ==
  ASSUME FocusInv, ScreenTypeOK, NEW w \in Window, ShowWindow(w)
  PROVE  RepaintsAll
<1> DEFINE a == [stack EXCEPT !.visible = @ \cup {w}]
           s == shown_focus(a, w)
           r == [s EXCEPT !.shown = update(@, s.windows, s.visible, s.geometry, m_cursor, s.geometry[w])]
           u == update(s.shown, s.windows, s.visible, s.geometry, m_cursor, s.geometry[w])
<1>1. /\ Becomes(r) /\ m_visible' = m_visible \cup {w} /\ m_geometry' = m_geometry /\ m_cursor' = m_cursor
      /\ Has(m_windows, w)
  BY StackSound DEF ShowWindow
<1>2. /\ WellDrawn(stack) /\ stack.geometry = m_geometry
      /\ \A p \in Pixel : FreshPixel(p) <=> Fresh(stack, p)
  BY StackDrawn
<1>3. /\ DOMAIN a = DOMAIN stack /\ a.windows = m_windows /\ a.visible = m_visible \cup {w}
      /\ a.geometry = m_geometry /\ a.shown = stack.shown
  BY <1>2, StackFields
<1> HIDE DEF a
<1>4. WellDrawn(a)
  BY <1>2, <1>3, StackFields DEF WellDrawn
<1>5. Repainted(a, s)
  <2>1. CASE a.focus = NoWindow
    BY <1>1, <1>3, <1>4, <2>1, FocusRepaints DEF shown_focus
  <2>2. CASE a.focus # NoWindow
    BY <1>4, <2>2, RepaintedNot DEF shown_focus
  <2> QED
    BY <2>1, <2>2
<1> HIDE DEF s
<1>6. /\ DOMAIN s = {"windows", "focus", "flags", "told", "visible", "geometry", "shown"}
      /\ s.windows \in Seq(Window) /\ s.shown \in [Pixel -> Shown] /\ Once(s.windows)
      /\ s.visible = m_visible \cup {w} /\ s.geometry = m_geometry
  BY <1>3, <1>5 DEF Repainted, WellDrawn
<1>7. /\ DOMAIN r = DOMAIN s /\ r.windows = s.windows /\ r.visible = s.visible /\ r.geometry = s.geometry
      /\ r.shown = u
  BY <1>6
<1>8. /\ u \in [Pixel -> Shown]
      /\ \A p \in Pixel : /\ Fresh(s, p) => Fresh(r, p)
                          /\ In(p, m_geometry[w]) => Fresh(r, p)
  <2> HIDE DEF r
  <2> QED
    BY <1>6, <1>7, UpdateFacts DEF Fresh
<1> HIDE DEF r, u
<1>9. WellDrawn(r)
  BY <1>6, <1>7, <1>8 DEF WellDrawn
<1>10. ASSUME NEW p \in Pixel, FreshPixel(p) PROVE Fresh(r, p)
  <2>1. CASE In(p, m_geometry[w])
    BY <1>8, <2>1
  <2>2. CASE ~In(p, m_geometry[w])
    <3>1. \A i \in 1 .. Len(m_windows) :
            SeenAt(a.visible, a.geometry, p, m_windows[i]) <=> SeenAt(m_visible, m_geometry, p, m_windows[i])
      BY <1>3, <2>2 DEF SeenAt
    <3>2. Topmost(m_windows, a.visible, a.geometry, p) = Topmost(m_windows, m_visible, m_geometry, p)
      BY <3>1, TopmostSame
    <3>3. Fresh(stack, p)
      BY <1>2, <1>10
    <3>4. Fresh(a, p)
      BY <1>2, <1>3, <3>2, <3>3, StackFields DEF Fresh, FreshAt
    <3> QED
      BY <1>5, <1>8, <3>4 DEF Repainted
  <2> QED
    BY <2>1, <2>2
<1>11. m_visible' = r.visible /\ m_geometry' = r.geometry
  BY <1>1, <1>6, <1>7
<1> QED
  BY <1>1, <1>9, <1>10, <1>11, BecomesRepaints

\* A window that is hidden leaves a screen of windows,
LEMMA HideDraws ==
  ASSUME FocusInv, ScreenTypeOK, NEW w \in Window, HideWindow(w)
  PROVE  ScreenTypeOK'
<1> DEFINE a == [stack EXCEPT !.visible = @ \ {w}]
           r == unfocus_window(a, w)
<1>1. Becomes(r)
  BY DEF HideWindow
<1>2. WellDrawn(stack)
  BY StackDrawn
<1>3. DOMAIN a = DOMAIN stack /\ a.windows = stack.windows /\ a.shown = stack.shown
  BY StackFields
<1> HIDE DEF a
<1>4. WellDrawn(a)
  BY <1>2, <1>3 DEF WellDrawn
<1>5. WellDrawn(r)
  BY <1>4, UnfocusRepaints DEF Repainted
<1> HIDE DEF r
<1> QED
  BY <1>1, <1>5 DEF Becomes, WellDrawn, ScreenTypeOK, Shown, Pixel

\* and so does Alt+T.
LEMMA SwitchDraws ==
  ASSUME FocusInv, ScreenTypeOK, SwitchFocus
  PROVE  ScreenTypeOK'
<1>1. CASE m_focus_window = NoWindow
  <2>1. Becomes(focus_window(stack, Head(m_windows))) /\ m_windows # <<>> /\ m_windows \in Seq(Window)
    BY <1>1 DEF SwitchFocus, FocusInv, FocusTypeOK
  <2>2. WellDrawn(stack)
    BY StackDrawn
  <2>3. Head(m_windows) = m_windows[1] /\ 1 \in 1 .. Len(m_windows)
    BY <2>1
  <2>4. Has(stack.windows, Head(m_windows))
    BY <2>3, StackFields DEF Has
  <2>5. WellDrawn(focus_window(stack, Head(m_windows)))
    BY <2>2, <2>4, FocusRepaints DEF Repainted
  <2> QED
    BY <2>1, <2>5 DEF Becomes, WellDrawn, ScreenTypeOK, Shown, Pixel
<1>2. CASE m_focus_window # NoWindow
  <2>1. \E r : screen' = update(screen, m_windows', m_visible, m_geometry, m_cursor, r)
    BY <1>2, Zenon DEF SwitchFocus
  <2>2. m_windows' \in Seq(Window)
    <3>1. FocusInv'
      BY SwitchFocusInv
    <3> QED
      BY <3>1 DEF FocusInv, FocusTypeOK
  <2>3. screen \in [Pixel -> Shown]
    BY DEF ScreenTypeOK, Shown
  <2>4. screen' \in [Pixel -> Shown]
    BY <2>1, <2>2, <2>3, UpdateFacts
  <2> QED
    BY <2>4 DEF ScreenTypeOK, Shown, Pixel
<1> QED
  BY <1>1, <1>2
-----------------------------------------------------------------------------
\* The union of two rectangles has the pixels of both.
LEMMA UnionCovers ==
  ASSUME NEW r \in RectOf, NEW s \in RectOf, NEW p \in Pixel, In(p, r) \/ In(p, s)
  PROVE  In(p, union_with(r, s))
<1>1. /\ r.x1 \in Int /\ r.x2 \in Int /\ r.y1 \in Int /\ r.y2 \in Int
      /\ s.x1 \in Int /\ s.x2 \in Int /\ s.y1 \in Int /\ s.y2 \in Int
  BY IntAssumption DEF RectOf, Int32
<1>2. p[1] \in Int /\ p[2] \in Int
  BY SizeAssumption DEF Pixel
<1>3. ASSUME is_null(r) PROVE ~In(p, r)
  BY <1>1, <1>2, <1>3 DEF is_null, In, contains, width, height
<1>4. ASSUME is_null(s) PROVE ~In(p, s)
  BY <1>1, <1>2, <1>4 DEF is_null, In, contains, width, height
<1>5. ASSUME ~is_null(r), ~is_null(s) PROVE In(p, union_with(r, s))
  BY <1>1, <1>2, <1>5 DEF In, contains, union_with, Rect, Lesser, Greater
<1> QED
  BY <1>3, <1>4, <1>5 DEF union_with

\* What is on top of a pixel does not depend on where a window is that is not there.
LEMMA TopmostElsewhere ==
  ASSUME NEW windows \in Seq(Window), NEW V, NEW G, NEW G2, NEW w, NEW p,
         ~In(p, G[w]), ~In(p, G2[w]), \A v \in Window : v # w => G2[v] = G[v]
  PROVE  Topmost(windows, V, G2, p) = Topmost(windows, V, G, p)
<1>1. ASSUME NEW i \in 1 .. Len(windows) PROVE SeenAt(V, G2, p, windows[i]) <=> SeenAt(V, G, p, windows[i])
  <2>1. CASE windows[i] = w
    BY <2>1 DEF SeenAt
  <2>2. CASE windows[i] # w
    <3>1. windows[i] \in Window
      OBVIOUS
    <3> QED
      BY <2>2, <3>1 DEF SeenAt
  <2> QED
    BY <2>1, <2>2
<1> QED
  BY <1>1, TopmostSame

\* One window gets another place, and its old and its new one are repainted if they differ.
Moved(shown, windows, V, G, G2, w, r) ==
  IF G[w] = r THEN shown ELSE update(shown, windows, V, G2, m_cursor, union_with(G[w], r))

\* No pixel is stale after it that was not before.
LEMMA MovedRepaints ==
  ASSUME NEW windows \in Seq(Window), NEW shown \in [Pixel -> Shown], NEW V,
         NEW G \in [Window -> RectOf], NEW w \in Window, NEW r \in RectOf,
         NEW G2 \in [Window -> RectOf], G2[w] = r, \A v \in Window : v # w => G2[v] = G[v]
  PROVE  LET u == Moved(shown, windows, V, G, G2, w, r)
         IN /\ u \in [Pixel -> Shown]
            /\ \A p \in Pixel : FreshAt(p, windows, V, G, m_cursor, shown) => FreshAt(p, windows, V, G2, m_cursor, u)
<1> DEFINE u == Moved(shown, windows, V, G, G2, w, r)
<1>1. CASE G[w] = r
  <2>1. G2 = G
    <3>1. \A v \in Window : G2[v] = G[v]
      BY <1>1
    <3> QED
      BY <3>1
  <2>2. u = shown
    BY <1>1 DEF Moved
  <2> QED
    BY <2>1, <2>2
<1>2. CASE G[w] # r
  <2> DEFINE both == union_with(G[w], r)
  <2>1. u = update(shown, windows, V, G2, m_cursor, both)
    BY <1>2 DEF Moved
  <2>2. ASSUME NEW p \in Pixel, ~In(p, both), FreshAt(p, windows, V, G, m_cursor, shown)
        PROVE  FreshAt(p, windows, V, G2, m_cursor, shown)
    <3>1. ~In(p, G[w]) /\ ~In(p, r)
      BY <2>2, UnionCovers
    <3>2. Topmost(windows, V, G2, p) = Topmost(windows, V, G, p)
      BY <3>1, TopmostElsewhere
    <3> QED
      BY <2>2, <3>2 DEF FreshAt
  <2> HIDE DEF u, both
  <2>3. /\ u \in [Pixel -> Shown]
        /\ \A p \in Pixel :
             /\ FreshAt(p, windows, V, G2, m_cursor, shown) => FreshAt(p, windows, V, G2, m_cursor, u)
             /\ In(p, both) => FreshAt(p, windows, V, G2, m_cursor, u)
    BY <2>1, UpdateFacts
  <2>4. ASSUME NEW p \in Pixel, FreshAt(p, windows, V, G, m_cursor, shown)
        PROVE  FreshAt(p, windows, V, G2, m_cursor, u)
    BY <2>2, <2>3, <2>4
  <2> QED
    BY <2>3, <2>4 DEF u
<1> QED
  BY <1>1, <1>2

\* A step that leaves the list and the screen that fits its places.
LEMMA PlacedRepaints ==
  ASSUME UNCHANGED <<m_windows, m_visible>>,
         screen' \in [Pixel -> Shown],
         \A p \in Pixel : FreshPixel(p) => FreshAt(p, m_windows, m_visible, m_geometry', m_cursor', screen')
  PROVE  RepaintsAll
<1>1. ScreenTypeOK'
  BY DEF ScreenTypeOK, Shown, Pixel
<1>2. ASSUME NEW p \in Pixel, FreshPixel(p) PROVE FreshPixel(p)'
  <2>1. FreshPixel(p)' <=> FreshAt(p, m_windows', m_visible', m_geometry', m_cursor', screen')
    BY DEF FreshPixel
  <2> QED
    BY <1>2, <2>1
<1> QED
  BY <1>1, <1>2 DEF RepaintsAll

\* set_window_geometry().
LEMMA SetGeometryRepaints ==
  ASSUME FocusInv, PlaceInv, ScreenTypeOK, NEW w \in Window, NEW new_rect \in RectOf,
         set_window_geometry(w, new_rect), UNCHANGED <<focusVars, m_visible, m_cursor>>
  PROVE  RepaintsAll
<1>1. /\ m_windows \in Seq(Window) /\ screen \in [Pixel -> Shown] /\ m_geometry \in [Window -> RectOf]
  BY DEF FocusInv, FocusTypeOK, ScreenTypeOK, Shown, PlaceInv, PlaceTypeOK
<1>2. /\ m_geometry' = [m_geometry EXCEPT ![w] = new_rect]
      /\ screen' = Moved(screen, m_windows, m_visible, m_geometry, m_geometry', w, new_rect)
  BY DEF set_window_geometry, Moved
<1> DEFINE G2 == m_geometry'
<1>5. G2 \in [Window -> RectOf] /\ G2[w] = new_rect /\ \A v \in Window : v # w => G2[v] = m_geometry[v]
  BY <1>1, <1>2
<1>6. screen' = Moved(screen, m_windows, m_visible, m_geometry, G2, w, new_rect)
  BY <1>2
<1> HIDE DEF G2
<1>3. /\ screen' \in [Pixel -> Shown]
      /\ \A p \in Pixel : FreshAt(p, m_windows, m_visible, m_geometry, m_cursor, screen)
                          => FreshAt(p, m_windows, m_visible, m_geometry', m_cursor, screen')
  BY <1>1, <1>5, <1>6, MovedRepaints DEF G2
<1>4. UNCHANGED <<m_windows, m_visible, m_cursor>>
  BY DEF focusVars
<1> QED
  BY <1>3, <1>4, PlacedRepaints DEF FreshPixel

\* SYS_WINDOW_SET_GEOMETRY,
LEMMA SetGeometryOpRepaints ==
  ASSUME FocusInv, PlaceInv, ScreenTypeOK, NEW w \in Window, NEW request \in Requests, SetGeometry(w, request)
  PROVE  RepaintsAll
<1>1. PICK new_rect \in place(request[1], request[2], request[3], request[4]) : set_window_geometry(w, new_rect)
  BY DEF SetGeometry
<1>2. request[1] \in Int /\ request[2] \in Int /\ request[3] \in Int /\ request[4] \in Int
  BY RequestAssumption, IntAssumption DEF Int32
<1>3. new_rect \in RectOf
  BY <1>1, <1>2, PlaceFits DEF Fits
<1> QED
  BY <1>1, <1>3, SetGeometryRepaints DEF SetGeometry

\* move_focus_window(),
LEMMA MoveRepaints ==
  ASSUME FocusInv, PlaceInv, ScreenTypeOK, NEW d \in Arrows, MoveFocusWindow(d)
  PROVE  RepaintsAll
<1>1. PICK new_rect : Fits(new_rect) /\ set_window_geometry(m_focus_window, new_rect)
  BY MovePlaces
<1>2. m_focus_window \in Window
  BY DEF MoveFocusWindow, FocusInv, FocusTypeOK
<1> QED
  BY <1>1, <1>2, SetGeometryRepaints DEF MoveFocusWindow, Fits

\* resize_focus_window()
LEMMA ResizeRepaints ==
  ASSUME FocusInv, PlaceInv, ScreenTypeOK, NEW d \in Arrows, ResizeFocusWindow(d)
  PROVE  RepaintsAll
<1>1. PICK new_rect : Fits(new_rect) /\ set_window_geometry(m_focus_window, new_rect)
  BY ResizePlaces
<1>2. m_focus_window \in Window
  BY DEF ResizeFocusWindow, FocusInv, FocusTypeOK
<1> QED
  BY <1>1, <1>2, SetGeometryRepaints DEF ResizeFocusWindow, Fits

\* and Alt+F go through it.
LEMMA FullscreenRepaints ==
  ASSUME FocusInv, PlaceInv, ScreenTypeOK, Fullscreen
  PROVE  RepaintsAll
<1>1. PICK new_rect \in place(0, 0, m_screen_width, m_screen_height) :
        set_window_geometry(m_focus_window, new_rect)
  BY DEF Fullscreen
<1>2. m_focus_window \in Window
  BY DEF Fullscreen, FocusInv, FocusTypeOK
<1>3. new_rect \in RectOf
  <2>1. m_screen_width \in Int /\ m_screen_height \in Int /\ 0 \in Int
    BY SizeAssumption
  <2> QED
    BY <1>1, <2>1, PlaceFits DEF Fits
<1> QED
  BY <1>1, <1>2, <1>3, SetGeometryRepaints DEF Fullscreen

\* SYS_WINDOW_PRESENT.
LEMMA PresentRepaints ==
  ASSUME FocusInv, ScreenTypeOK, NEW w, NEW part, Present(w, part)
  PROVE  RepaintsAll
<1>1. PICK r : screen' = update(screen, m_windows, m_visible, m_geometry, m_cursor, r)
  BY Zenon DEF Present
<1>2. m_windows \in Seq(Window) /\ screen \in [Pixel -> Shown]
  BY DEF FocusInv, FocusTypeOK, ScreenTypeOK, Shown
<1>3. /\ screen' \in [Pixel -> Shown]
      /\ \A p \in Pixel : FreshAt(p, m_windows, m_visible, m_geometry, m_cursor, screen)
                          => FreshAt(p, m_windows, m_visible, m_geometry, m_cursor, screen')
  BY <1>1, <1>2, UpdateFacts
<1>4. UNCHANGED <<m_windows, m_visible, m_geometry, m_cursor>>
  BY DEF Present, focusVars, windowVars
<1> QED
  BY <1>3, <1>4, PlacedRepaints DEF FreshPixel

\* handle_mouse_move_event(): the old place of the cursor is repainted.
LEMMA MouseMoveRepaints ==
  ASSUME FocusInv, ScreenTypeOK, NEW d, MouseMove(d)
  PROVE  RepaintsAll
<1>1. screen' = update(screen, m_windows, m_visible, m_geometry, m_cursor', cursor_rect(m_cursor))
  BY DEF MouseMove
<1>2. m_windows \in Seq(Window) /\ screen \in [Pixel -> Shown]
  BY DEF FocusInv, FocusTypeOK, ScreenTypeOK, Shown
<1>3. /\ screen' \in [Pixel -> Shown]
      /\ \A p \in Pixel :
           /\ FreshAt(p, m_windows, m_visible, m_geometry, m_cursor', screen)
              => FreshAt(p, m_windows, m_visible, m_geometry, m_cursor', screen')
           /\ In(p, cursor_rect(m_cursor)) => FreshAt(p, m_windows, m_visible, m_geometry, m_cursor', screen')
  BY <1>1, <1>2, UpdateFacts
<1>4. UNCHANGED <<m_windows, m_visible, m_geometry>>
  BY DEF MouseMove, focusVars, windowVars
<1>5. ASSUME NEW p \in Pixel, FreshPixel(p)
      PROVE  FreshAt(p, m_windows, m_visible, m_geometry, m_cursor', screen')
  BY <1>3, <1>5 DEF FreshPixel, FreshAt
<1> QED
  BY <1>3, <1>4, <1>5, PlacedRepaints

\* handle_mouse_click_event().
LEMMA ClickRepaints ==
  ASSUME FocusInv, ScreenTypeOK, MouseClick
  PROVE  RepaintsAll
<1> DEFINE Here == {i \in 1 .. Len(m_windows) : contains(m_geometry[m_windows[i]], m_cursor[1], m_cursor[2])}
           first == CHOOSE i \in Here : \A j \in Here : i <= j
           w == m_windows[first]
           r == focus_window(stack, w)
<1>1. Here # {} /\ Becomes(r) /\ UNCHANGED <<m_visible, m_geometry, m_cursor>>
  BY DEF MouseClick, windowVars
<1>2. m_windows \in Seq(Window)
  BY DEF FocusInv, FocusTypeOK
<1>3. Here \subseteq Nat /\ Here \subseteq 1 .. Len(m_windows)
  BY <1>2
<1> HIDE DEF Here
<1>4. \E i \in Here : \A j \in Here : i <= j
  BY <1>1, <1>3, LeastNatural
<1>5. first \in 1 .. Len(m_windows)
  BY <1>3, <1>4
<1> HIDE DEF first
<1>6. Has(stack.windows, w)
  BY <1>5, StackFields DEF Has
<1> HIDE DEF w
<1>7. /\ WellDrawn(stack) /\ stack.geometry = m_geometry
      /\ \A p \in Pixel : FreshPixel(p) <=> Fresh(stack, p)
  BY StackDrawn
<1>8. Repainted(stack, r)
  BY <1>6, <1>7, FocusRepaints
<1> HIDE DEF r
<1>9. WellDrawn(r) /\ r.visible = m_visible /\ r.geometry = m_geometry /\ \A p \in Pixel : FreshPixel(p) => Fresh(r, p)
  BY <1>7, <1>8, StackFields DEF Repainted
<1> QED
  BY <1>1, <1>9, BecomesRepaints

\* The places of the windows when the first k of a mosaic have moved, and the screens then.
Midway(layout, k) ==
  [w \in Window |-> IF w \in Live /\ (CHOOSE i \in 1 .. Len(m_windows) : m_windows[i] = w) <= k
                    THEN layout[w] ELSE m_geometry[w]]

Screens(layout) ==
  LET shown[k \in 0 .. Len(m_windows)] ==
        IF k = 0 THEN screen
        ELSE IF m_geometry[m_windows[k]] = layout[m_windows[k]] THEN shown[k - 1]
        ELSE update(shown[k - 1], m_windows, m_visible, Midway(layout, k), m_cursor,
                    union_with(m_geometry[m_windows[k]], layout[m_windows[k]]))
  IN shown

\* There are such screens, and each one is that of a window that has moved on the one before.
LEMMA ScreensFollow ==
  ASSUME NEW layout, Len(m_windows) \in Nat
  PROVE  /\ Screens(layout)[0] = screen
         /\ \A k \in 1 .. Len(m_windows) :
              Screens(layout)[k] = Moved(Screens(layout)[k - 1], m_windows, m_visible, m_geometry,
                                         Midway(layout, k), m_windows[k], layout[m_windows[k]])
<1> DEFINE n == Len(m_windows)
           step(x, k) == IF m_geometry[m_windows[k]] = layout[m_windows[k]] THEN x
                         ELSE update(x, m_windows, m_visible, Midway(layout, k), m_cursor,
                                     union_with(m_geometry[m_windows[k]], layout[m_windows[k]]))
           Run(f, m) == f = [k \in 0 .. m |-> IF k = 0 THEN screen ELSE step(f[k - 1], k)]
           Bad == {m \in Nat : ~\E f : Run(f, m)}
           shown == Screens(layout)
<1>1. shown = CHOOSE f : Run(f, n)
  BY DEF Screens
<1>2. \A x, k : step(x, k) = Moved(x, m_windows, m_visible, m_geometry, Midway(layout, k),
                                   m_windows[k], layout[m_windows[k]])
  BY DEF Moved
<1> HIDE DEF step, shown
<1>3. Bad = {}
  <2> SUFFICES ASSUME Bad # {} PROVE FALSE
    OBVIOUS
  <2>1. PICK m \in Bad : \A j \in Bad : m <= j
    BY LeastNatural
  <2>2. CASE m = 0
    <3>1. Run([k \in 0 .. 0 |-> screen], 0)
      OBVIOUS
    <3> QED
      BY <2>1, <2>2, <3>1
  <2>3. CASE m # 0
    <3>0. m \in Nat
      BY <2>1
    <3>1. m - 1 \in Nat /\ m - 1 \notin Bad
      <4>1. m - 1 \in Nat /\ ~(m <= m - 1)
        BY <2>3, <3>0
      <4> HIDE DEF Bad
      <4> QED
        BY <2>1, <4>1
    <3>2. PICK f : Run(f, m - 1)
      BY <3>1
    <3> DEFINE g == [k \in 0 .. m |-> IF k = m THEN step(f[m - 1], m) ELSE f[k]]
    <3>3. ASSUME NEW k \in 0 .. m PROVE g[k] = IF k = 0 THEN screen ELSE step(g[k - 1], k)
      <4>1. CASE k = m
        <5>1. k # 0 /\ k - 1 \in 0 .. m /\ k - 1 # m
          BY <2>1, <2>3, <4>1
        <5> QED
          BY <4>1, <5>1
      <4>2. CASE k # m
        <5>1. k \in 0 .. m - 1 /\ g[k] = f[k]
          BY <2>1, <4>2
        <5>2. f[k] = IF k = 0 THEN screen ELSE step(f[k - 1], k)
          BY <3>2, <5>1
        <5>3. k # 0 => k - 1 \in 0 .. m /\ k - 1 # m
          BY <2>1, <5>1
        <5> QED
          BY <5>1, <5>2, <5>3
      <4> QED
        BY <4>1, <4>2
    <3>4. Run(g, m)
      BY <3>3
    <3> QED
      BY <2>1, <3>4
  <2> QED
    BY <2>2, <2>3
<1>4. Run(shown, n)
  BY <1>1, <1>3
<1>5. /\ shown[0] = screen
      /\ \A k \in 1 .. n : shown[k] = step(shown[k - 1], k)
  <2>1. \A k \in 1 .. n : k \in 0 .. n /\ k # 0
    OBVIOUS
  <2> QED
    BY <1>4, <2>1
<1> QED
  BY <1>2, <1>5 DEF shown

\* mosaic_layout(): every window is repainted at its old and its new place, one after the other.
LEMMA MosaicRepaints ==
  ASSUME FocusInv, PlaceInv, ScreenTypeOK, Mosaic
  PROVE  RepaintsAll
<1> DEFINE n == Len(m_windows)
           at(w) == CHOOSE i \in 1 .. n : m_windows[i] = w
<1>1. PICK layout \in [Live -> UNION {cell(k, n) : k \in 0 .. n - 1}] :
        /\ m_geometry' = [w \in Window |-> IF w \in Live THEN layout[w] ELSE m_geometry[w]]
        /\ screen' = Screens(layout)[n]
  BY DEF Mosaic, Screens, Midway
<1> DEFINE G(k) == Midway(layout, k)
           shown(k) == Screens(layout)[k]
           Kept(k) == /\ shown(k) \in [Pixel -> Shown]
                      /\ \A p \in Pixel : FreshPixel(p) => FreshAt(p, m_windows, m_visible, G(k), m_cursor, shown(k))
           Bad == {k \in 0 .. n : ~Kept(k)}
<1>2. /\ n \in Nat /\ n > 0 /\ Live \subseteq Window /\ m_windows \in Seq(Window)
      /\ \A i, j \in 1 .. n : m_windows[i] = m_windows[j] => i = j
  BY DEF Mosaic, FocusInv, FocusTypeOK, Live
<1>3. screen \in [Pixel -> Shown] /\ m_geometry \in [Window -> RectOf]
  BY DEF ScreenTypeOK, Shown, PlaceInv, PlaceTypeOK
<1>4. ASSUME NEW v \in Live PROVE layout[v] \in RectOf
  <2>1. PICK k \in 0 .. n - 1 : layout[v] \in cell(k, n)
    OBVIOUS
  <2>2. Fits(layout[v])
    BY <1>2, <2>1, CellFits
  <2> QED
    BY <2>2 DEF Fits
<1>5. ASSUME NEW k \in 1 .. n PROVE m_windows[k] \in Live /\ at(m_windows[k]) = k
  BY <1>2 DEF Live
<1>6. ASSUME NEW v \in Live PROVE at(v) \in 1 .. n /\ m_windows[at(v)] = v
  BY <1>2 DEF Live
<1>7. ASSUME NEW k \in 0 .. n
      PROVE  G(k) \in [Window -> RectOf] /\ \A v \in Window : G(k)[v] = IF v \in Live /\ at(v) <= k THEN layout[v] ELSE m_geometry[v]
  BY <1>3, <1>4 DEF Midway
<1>8. /\ shown(0) = screen
      /\ \A k \in 1 .. n : shown(k) = Moved(shown(k - 1), m_windows, m_visible, m_geometry, G(k),
                                            m_windows[k], layout[m_windows[k]])
  BY <1>2, ScreensFollow
<1>9. G(0) = m_geometry /\ G(n) = m_geometry'
  <2>1. \A v \in Live : ~(at(v) <= 0) /\ at(v) <= n
    BY <1>2, <1>6
  <2>2. G(0) = [w \in Window |-> m_geometry[w]]
    BY <2>1 DEF Midway
  <2>3. G(n) = [w \in Window |-> IF w \in Live THEN layout[w] ELSE m_geometry[w]]
    BY <2>1 DEF Midway
  <2> QED
    BY <1>1, <1>3, <2>2, <2>3
<1> HIDE DEF at, G, shown
<1>10. Kept(0)
  BY <1>3, <1>8, <1>9 DEF FreshPixel
<1>11. ASSUME NEW k \in 1 .. n, Kept(k - 1) PROVE Kept(k)
  <2> DEFINE w == m_windows[k]
             r == layout[w]
             H == G(k - 1)
             H2 == G(k)
             x == shown(k - 1)
             y == shown(k)
  <2>1. w \in Live /\ at(w) = k /\ w \in Window /\ r \in RectOf /\ k - 1 \in 0 .. n /\ k \in 0 .. n
    BY <1>2, <1>4, <1>5
  <2>2. H \in [Window -> RectOf] /\ H2 \in [Window -> RectOf]
    BY <1>7, <2>1
  <2>3. H[w] = m_geometry[w] /\ H2[w] = r
    <3>1. ~(at(w) <= k - 1) /\ at(w) <= k
      BY <2>1
    <3> QED
      BY <1>7, <2>1, <3>1
  <2>4. ASSUME NEW v \in Window, v # w PROVE H2[v] = H[v]
    <3>1. v \in Live => at(v) # k
      BY <1>6, <2>4
    <3>2. v \in Live => (at(v) <= k <=> at(v) <= k - 1)
      BY <1>6, <3>1
    <3> QED
      BY <1>7, <2>1, <3>2
  <2>5. y = Moved(x, m_windows, m_visible, m_geometry, H2, w, r)
    BY <1>8
  <2> HIDE DEF w, r, H, H2, x, y
  <2>6. y = Moved(x, m_windows, m_visible, H, H2, w, r)
    BY <2>3, <2>5 DEF Moved
  <2>7. x \in [Pixel -> Shown] /\ \A p \in Pixel : FreshPixel(p) => FreshAt(p, m_windows, m_visible, H, m_cursor, x)
    BY <1>11 DEF x, H
  <2>8. /\ y \in [Pixel -> Shown]
        /\ \A p \in Pixel : FreshAt(p, m_windows, m_visible, H, m_cursor, x)
                            => FreshAt(p, m_windows, m_visible, H2, m_cursor, y)
    BY <1>2, <2>1, <2>2, <2>3, <2>4, <2>6, <2>7, MovedRepaints
  <2>9. \A p \in Pixel : FreshPixel(p) => FreshAt(p, m_windows, m_visible, H2, m_cursor, y)
    BY <2>7, <2>8
  <2> QED
    BY <2>8, <2>9 DEF y, H2
<1> HIDE DEF Kept
<1>12. Bad = {}
  <2> SUFFICES ASSUME Bad # {} PROVE FALSE
    OBVIOUS
  <2>1. PICK k \in Bad : \A j \in Bad : k <= j
    <3>1. Bad \subseteq Nat
      OBVIOUS
    <3> QED
      BY <3>1, LeastNatural
  <2>2. k \in 1 .. n /\ k - 1 \in 0 .. n /\ ~(k <= k - 1)
    BY <1>2, <1>10, <2>1
  <2>3. Kept(k - 1)
    BY <2>1, <2>2
  <2> QED
    BY <1>11, <2>1, <2>2, <2>3
<1>13. n \in 0 .. n
  BY <1>2
<1>14. Kept(n)
  BY <1>12, <1>13
<1>15. /\ screen' \in [Pixel -> Shown]
       /\ \A p \in Pixel : FreshPixel(p) => FreshAt(p, m_windows, m_visible, m_geometry', m_cursor, screen')
  BY <1>1, <1>9, <1>14 DEF Kept, shown
<1>16. UNCHANGED <<m_windows, m_visible, m_cursor>>
  BY DEF Mosaic, focusVars
<1> QED
  BY <1>15, <1>16, PlacedRepaints
-----------------------------------------------------------------------------
\* Every step but hiding a window and Alt+T repaints all it changes.
LEMMA RepaintsStep ==
  ASSUME FocusInv, PlaceInv, ScreenTypeOK, WMNext
  PROVE  /\ ScreenTypeOK'
         /\ Stale' \subseteq Stale \/ (\E w \in Window : HideWindow(w)) \/ SwitchFocus
<1>1. CASE RepaintsAll
  <2>1. \A p \in Pixel : FreshPixel(p) => FreshPixel(p)'
    BY <1>1 DEF RepaintsAll
  <2>2. Stale = {p \in Pixel : ~FreshPixel(p)}
    BY DEF Stale, FreshPixel, FreshAt
  <2>3. Stale' = {p \in Pixel : ~FreshPixel(p)'}
    BY DEF Stale, FreshPixel, FreshAt, Pixel
  <2>4. Stale' \subseteq Stale
    BY <2>1, <2>2, <2>3
  <2> QED
    BY <1>1, <2>4 DEF RepaintsAll
<1>2. CASE LifeOps
  BY <1>1, <1>2, CreateRepaints, DestroyRepaints DEF LifeOps
<1>3. CASE VisibilityOps
  BY <1>1, <1>3, ShowRepaints, HideDraws DEF VisibilityOps
<1>4. CASE GeometryOps
  BY <1>1, <1>4, SetGeometryOpRepaints, PresentRepaints DEF GeometryOps
<1>5. CASE KeyOps
  BY <1>1, <1>5, SwitchDraws, MoveRepaints, ResizeRepaints, FullscreenRepaints, MosaicRepaints DEF KeyOps
<1>6. CASE MouseOps
  BY <1>1, <1>6, MouseMoveRepaints, ClickRepaints DEF MouseOps
<1> QED
  BY <1>2, <1>3, <1>4, <1>5, <1>6 DEF WMNext

\* For any windows, on any screen: only hiding a window and Alt+T leave pixels behind that show
\* what is no longer there, every other operation repaints all it changes (the calls of update()).
THEOREM RepaintsCorrect == WMSpec => Repaints
<1>1. WMInit => FocusInv
  BY WindowAssumption DEF WMInit, FocusInv, FocusTypeOK, Live
<1>2. WMInit => PlaceInv
  BY SizeAssumption, IntAssumption
     DEF WMInit, PlaceInv, PlaceTypeOK, RectOf, Int32, NullRect, Rect, Lesser, Greater
<1>3. WMInit => ScreenTypeOK
  BY DEF WMInit, ScreenTypeOK
<1>4. FocusInv /\ PlaceInv /\ ScreenTypeOK /\ [WMNext]_wmVars => FocusInv' /\ PlaceInv' /\ ScreenTypeOK'
  BY FocusStep, PlaceStep, RepaintsStep DEF wmVars, ScreenTypeOK, Pixel
<1>5. FocusInv /\ PlaceInv /\ ScreenTypeOK /\ [WMNext]_wmVars =>
        [/\ ScreenTypeOK'
         /\ \/ Stale' \subseteq Stale
            \/ \E w \in Window : HideWindow(w)
            \/ SwitchFocus]_wmVars
  BY RepaintsStep
<1> QED
  BY <1>1, <1>2, <1>3, <1>4, <1>5, PTL DEF WMSpec, Repaints
-----------------------------------------------------------------------------
\* Quotient and remainder.
LEMMA Division ==
  ASSUME NEW k \in Nat, NEW c \in Nat \ {0}
  PROVE  k \div c \in Nat /\ k % c \in 0 .. c - 1 /\ k = (k \div c) * c + (k % c)
OBVIOUS

\* A quotient of parts has room in the whole.
LEMMA Quotient ==
  ASSUME NEW a \in Nat, NEW d \in Nat \ {0}
  PROVE  a \div d \in Nat /\ d * (a \div d) \in Nat /\ d * (a \div d) <= a
OBVIOUS

\* Multiples do not overlap.
LEMMA Multiples ==
  ASSUME NEW a \in Nat, NEW b \in Nat, NEW c \in Nat, a < b
  PROVE  a * c \in Nat /\ b * c \in Nat /\ a * c + c <= b * c
<1> DEFINE d == b - a - 1
<1>1. d \in Nat /\ b = a + 1 + d
  OBVIOUS
<1> HIDE DEF d
<1>2. (a + 1 + d) * c = a * c + c + d * c
  BY <1>1
<1>3. a * c \in Nat /\ d * c \in Nat /\ b * c \in Nat
  BY <1>1
<1> QED
  BY <1>1, <1>2, <1>3

\* On one axis, a place of a window that is on the screen and wide enough keeps its start.
LEMMA ConstrainKeeps ==
  ASSUME NEW lo \in Nat, NEW size \in Nat, NEW len \in Nat, NEW min \in 1 .. size, NEW max \in Nat,
         min <= max, min <= len, lo + len <= size, size <= INT_MAX,
         NEW e \in constrain(lo, lo + len, min, max, size)
  PROVE  e[1] = lo /\ e[2] \in Int /\ e[2] <= lo + len
<1> DEFINE n(m) == clamp(m, min, Lesser(max, size))
           at(m) == clamp(lo, 0, size - n(m))
<1>1. PICK m \in sub(lo + len, lo) : e = <<at(m), at(m) + n(m)>>
  BY DEF constrain
<1>2. m = len
  <2>1. lo + len - lo = len /\ len \in Int32
    BY IntAssumption DEF Int32
  <2> QED
    BY <2>1 DEF sub
<1>3. n(m) \in Int /\ n(m) <= len /\ 0 <= n(m)
  BY <1>2 DEF clamp, Lesser, Greater
<1> HIDE DEF n
<1>4. at(m) = lo
  BY <1>3 DEF clamp, Lesser, Greater
<1> HIDE DEF at
<1> QED
  BY <1>1, <1>3, <1>4

\* A cell that is on the screen and large enough keeps its corner, and does not grow.
LEMMA PlaceKeeps ==
  ASSUME NEW x \in Nat, NEW y \in Nat, NEW w \in Nat, NEW h \in Nat,
         MIN_WIDTH <= w, MIN_HEIGHT <= h, x + w <= m_screen_width, y + h <= m_screen_height,
         NEW r \in place(x, y, w, h)
  PROVE  /\ r.x1 = x /\ r.x2 \in Int /\ r.x2 <= x + w
         /\ r.y1 = y /\ r.y2 \in Int /\ r.y2 <= y + h
<1>1. add(x, w) = {x + w} /\ add(y, h) = {y + h}
  BY SizeAssumption, IntAssumption DEF add, Int32
<1>2. Rect(x, y, x + w, y + h) = [x1 |-> x, y1 |-> y, x2 |-> x + w, y2 |-> y + h]
  BY DEF Rect, Lesser, Greater
<1>3. r \in constrained(x, y, x + w, y + h)
  <2>1. PICK x2 \in {x + w}, y2 \in {y + h} :
          LET s == Rect(x, y, x2, y2) IN r \in constrained(s.x1, s.y1, s.x2, s.y2)
    BY <1>1 DEF place
  <2>2. x2 = x + w /\ y2 = y + h
    BY <2>1
  <2> QED
    BY <1>2, <2>1, <2>2
<1>4. PICK a \in constrain(x, x + w, MIN_WIDTH, MAX_WIDTH, m_screen_width),
           b \in constrain(y, y + h, MIN_HEIGHT, MAX_HEIGHT, m_screen_height) :
             r = [x1 |-> a[1], x2 |-> a[2], y1 |-> b[1], y2 |-> b[2]]
  BY <1>3 DEF constrained
<1>5. a[1] = x /\ a[2] \in Int /\ a[2] <= x + w
  BY SizeAssumption, ConstrainKeeps
<1>6. b[1] = y /\ b[2] \in Int /\ b[2] <= y + h
  BY SizeAssumption, ConstrainKeeps
<1> QED
  BY <1>4, <1>5, <1>6

\* The corner of a cell in the grid of c columns of width w and rows of height h, and its ends.
InGrid(r, k, n, c, w, h) ==
  /\ r.x1 = (k % c) * w /\ r.x2 \in Int /\ (k + 1 # n => r.x2 <= r.x1 + w)
  /\ r.y1 = (k \div c) * h /\ r.y2 \in Int /\ r.y2 <= r.y1 + h

\* The cells of a mosaic that fits are those of a grid.
LEMMA CellKeeps ==
  ASSUME NEW n \in Nat, n > 0, MosaicFits(n), NEW k \in 0 .. n - 1, NEW r \in cell(k, n)
  PROVE  \E c \in Nat \ {0}, w \in Nat, h \in Nat :
           /\ c = columns(n) /\ w = m_screen_width \div c
           /\ h = m_screen_height \div ((n + c - 1) \div c)
           /\ InGrid(r, k, n, c, w, h)
<1> DEFINE c == columns(n)
           rows == (n + c - 1) \div c
           w == m_screen_width \div c
           h == m_screen_height \div rows
           i == k % c
           row == k \div c
           wide == IF k + 1 = n THEN (c - i) * w ELSE w
<1>1. c \in 1 .. n
  BY ColumnsExist
<1>2. r \in place(i * w, row * h, wide, h) /\ MIN_WIDTH <= w /\ MIN_HEIGHT <= h
  BY DEF cell, MosaicFits
<1> HIDE DEF c
<1>3. /\ i \in 0 .. c - 1 /\ row \in Nat /\ k = row * c + i
      /\ rows \in Nat /\ n + c - 1 = rows * c + ((n + c - 1) % c) /\ (n + c - 1) % c \in 0 .. c - 1
  <2>1. k \in Nat /\ c \in Nat \ {0} /\ n + c - 1 \in Nat
    BY <1>1
  <2> QED
    BY <2>1, Division
<1> DEFINE over == (n + c - 1) % c
<1> HIDE DEF i, row, rows, over
<1>4. row < rows
  <2> SUFFICES ASSUME ~(row < rows) PROVE FALSE
    OBVIOUS
  <2>1. row * c >= rows * c /\ row * c \in Nat /\ rows * c \in Nat
    <3>1. CASE row = rows
      BY <1>1, <1>3, <3>1
    <3>2. CASE rows < row
      BY <1>1, <1>3, <3>2, Multiples
    <3> QED
      BY <1>3, <3>1, <3>2
  <2>2. k <= n - 1 /\ n + c - 1 = rows * c + over /\ over <= c - 1 /\ over \in Int
    BY <1>1, <1>3 DEF over
  <2> QED
    BY <1>1, <1>3, <2>1, <2>2
<1>5. rows > 0
  BY <1>3, <1>4
<1>6. w \in Nat /\ c * w <= m_screen_width /\ c * w \in Nat
  BY <1>1, SizeAssumption, Quotient
<1>7. h \in Nat /\ rows * h <= m_screen_height /\ rows * h \in Nat
  BY <1>3, <1>5, SizeAssumption, Quotient
<1> HIDE DEF w, h
<1>8. i * w \in Nat /\ i * w + w <= m_screen_width
  <2>1. i \in Nat /\ c \in Nat /\ i < c
    BY <1>1, <1>3
  <2> QED
    BY <1>6, <2>1, Multiples, SizeAssumption
<1>9. row * h \in Nat /\ row * h + h <= m_screen_height
  BY <1>3, <1>4, <1>7, Multiples, SizeAssumption
<1>10. wide \in Nat /\ w <= wide /\ i * w + wide <= m_screen_width
  <2>1. CASE k + 1 = n
    <3>1. (c - i) * w + i * w = c * w
      BY <1>1, <1>3, <1>6
    <3>2. (c - i) * w \in Nat /\ w <= (c - i) * w
      <4>1. i \in Nat /\ c \in Nat /\ i < c
        BY <1>1, <1>3
      <4>2. i * w + w <= c * w
        BY <1>6, <4>1, Multiples
      <4>3. (c - i) * w \in Int
        BY <1>6, <4>1
      <4> QED
        BY <1>6, <1>8, <3>1, <4>2, <4>3
    <3> QED
      BY <1>6, <1>8, <2>1, <3>1, <3>2, SizeAssumption
  <2>2. CASE k + 1 # n
    BY <1>6, <1>8, <2>2
  <2> QED
    BY <2>1, <2>2
<1> DEFINE X == i * w
           Y == row * h
<1>11. k + 1 # n => wide = w
  OBVIOUS
<1> HIDE DEF wide, X, Y
<1>12. X \in Nat /\ Y \in Nat /\ X + wide <= m_screen_width /\ Y + h <= m_screen_height /\ r \in place(X, Y, wide, h)
  BY <1>2, <1>8, <1>9, <1>10 DEF X, Y
<1>13. MIN_WIDTH <= wide
  BY <1>2, <1>6, <1>10, SizeAssumption
<1>14. /\ r.x1 = X /\ r.x2 \in Int /\ r.x2 <= X + wide
       /\ r.y1 = Y /\ r.y2 \in Int /\ r.y2 <= Y + h
  BY <1>2, <1>7, <1>10, <1>12, <1>13, PlaceKeeps
<1>15. InGrid(r, k, n, c, w, h)
  BY <1>11, <1>14 DEF InGrid, X, Y, i, row
<1> QED
  BY <1>1, <1>6, <1>7, <1>15 DEF c, w, h, rows

\* Two cells of a grid have no pixel in common: in one row only the last one may be wider.
LEMMA GridIsDisjoint ==
  ASSUME NEW n \in Nat, NEW c \in Nat \ {0}, NEW w \in Nat, NEW h \in Nat,
         NEW k \in 0 .. n - 1, NEW l \in 0 .. n - 1, k < l,
         NEW r, InGrid(r, k, n, c, w, h), NEW s, InGrid(s, l, n, c, w, h),
         NEW p \in Pixel
  PROVE  ~(In(p, r) /\ In(p, s))
<1> DEFINE i == k % c
           j == l % c
           a == k \div c
           b == l \div c
<1>1. i \in 0 .. c - 1 /\ a \in Nat /\ k = a * c + i /\ j \in 0 .. c - 1 /\ b \in Nat /\ l = b * c + j
  <2>1. k \in Nat /\ l \in Nat
    OBVIOUS
  <2>2. i \in 0 .. c - 1 /\ a \in Nat /\ k = a * c + i
    BY <2>1, Division
  <2>3. j \in 0 .. c - 1 /\ b \in Nat /\ l = b * c + j
    BY <2>1, Division
  <2> QED
    BY <2>2, <2>3
<1>2. /\ r.x1 = i * w /\ r.x2 \in Int /\ r.x2 <= i * w + w /\ r.y1 = a * h /\ r.y2 \in Int /\ r.y2 <= a * h + h
      /\ s.x1 = j * w /\ s.y1 = b * h
  BY DEF InGrid
<1>3. p[1] \in Int /\ p[2] \in Int
  BY SizeAssumption DEF Pixel
<1> HIDE DEF i, j, a, b
<1>4. CASE a < b
  <2>1. a * h + h <= b * h /\ a * h \in Nat /\ b * h \in Nat
    BY <1>1, <1>4, Multiples
  <2> QED
    BY <1>2, <1>3, <2>1 DEF In, contains
<1>5. CASE a = b
  <2>1. i < j
    <3>1. a * c \in Nat
      BY <1>1
    <3> QED
      BY <1>1, <1>5, <3>1
  <2>2. i * w + w <= j * w /\ i * w \in Nat /\ j * w \in Nat
    BY <1>1, <2>1, Multiples
  <2> QED
    BY <1>2, <1>3, <2>2 DEF In, contains
<1>6. CASE b < a
  <2>1. b * c + c <= a * c /\ b * c \in Nat /\ a * c \in Nat
    BY <1>1, <1>6, Multiples
  <2> QED
    BY <1>1, <2>1
<1> QED
  BY <1>1, <1>4, <1>5, <1>6

\* mosaic_layout() on a screen that is large enough.
LEMMA MosaicApart ==
  ASSUME FocusInv, Mosaic, MosaicFits(Len(m_windows)), NEW v \in Live, NEW w \in Live, v # w
  PROVE  ~\E p \in Pixel : In(p, m_geometry'[v]) /\ In(p, m_geometry'[w])
<1> DEFINE n == Len(m_windows)
           at(u) == CHOOSE i \in 1 .. n : m_windows[i] = u
<1>1. PICK layout \in [Live -> UNION {cell(k, n) : k \in 0 .. n - 1}] :
        /\ \A u \in Live : layout[u] \in cell(at(u) - 1, n)
        /\ m_geometry' = [u \in Window |-> IF u \in Live THEN layout[u] ELSE m_geometry[u]]
  BY DEF Mosaic
<1>2. n \in Nat /\ n > 0 /\ Live \subseteq Window
  BY DEF Mosaic, FocusInv, FocusTypeOK, Live
<1>3. ASSUME NEW u \in Live PROVE at(u) \in 1 .. n /\ m_windows[at(u)] = u
  BY <1>2 DEF Live
<1>4. m_geometry'[v] \in cell(at(v) - 1, n) /\ m_geometry'[w] \in cell(at(w) - 1, n)
  BY <1>1, <1>2
<1>5. at(v) # at(w)
  BY <1>3
<1> DEFINE k == at(v) - 1
           l == at(w) - 1
           r == m_geometry'[v]
           s == m_geometry'[w]
<1>6. k \in 0 .. n - 1 /\ l \in 0 .. n - 1 /\ k # l /\ r \in cell(k, n) /\ s \in cell(l, n)
  <2>1. at(v) \in 1 .. n /\ at(w) \in 1 .. n
    BY <1>3
  <2> HIDE DEF at
  <2> QED
    BY <1>2, <1>4, <1>5, <2>1
<1> HIDE DEF at, k, l, r, s
<1>7. PICK c \in Nat \ {0}, x \in Nat, h \in Nat :
        /\ c = columns(n) /\ x = m_screen_width \div c /\ h = m_screen_height \div ((n + c - 1) \div c)
        /\ InGrid(r, k, n, c, x, h)
  BY <1>2, <1>6, CellKeeps
<1>8. InGrid(s, l, n, c, x, h)
  <2>1. PICK c2 \in Nat \ {0}, x2 \in Nat, h2 \in Nat :
          /\ c2 = columns(n) /\ x2 = m_screen_width \div c2 /\ h2 = m_screen_height \div ((n + c2 - 1) \div c2)
          /\ InGrid(s, l, n, c2, x2, h2)
    BY <1>2, <1>6, CellKeeps
  <2>2. c2 = c
    BY <1>7, <2>1
  <2>3. x2 = x /\ h2 = h
    BY <1>7, <2>1, <2>2, Zenon
  <2> QED
    BY <2>1, <2>2, <2>3
<1>9. ASSUME NEW p \in Pixel PROVE ~(In(p, r) /\ In(p, s))
  <2>1. k < l \/ l < k
    BY <1>2, <1>6
  <2> QED
    BY <1>2, <1>6, <1>7, <1>8, <2>1, GridIsDisjoint
<1> QED
  BY <1>9 DEF r, s

\* For any number of windows, and whatever the sizes are: if the screen is large enough for them,
\* mosaic_layout() leaves no two windows on one another, the last one of a row included.
THEOREM MosaicCorrect == WMSpec => MosaicIsDisjoint
<1>1. WMInit => FocusInv
  BY WindowAssumption DEF WMInit, FocusInv, FocusTypeOK, Live
<1>2. FocusInv /\ [WMNext]_wmVars => FocusInv'
  BY FocusStep
<1>3. FocusInv /\ [WMNext]_wmVars =>
        [Mosaic /\ MosaicFits(Len(m_windows)) =>
           \A v, w \in Live : v # w => ~\E p \in Pixel : In(p, m_geometry'[v]) /\ In(p, m_geometry'[w])]_wmVars
  BY MosaicApart
<1> QED
  BY <1>1, <1>2, <1>3, PTL DEF WMSpec, MosaicIsDisjoint
-----------------------------------------------------------------------------
\* A rectangle on the canvas of the compositor whose edges are in order.
Ordered(r) == r \in ScreenRect /\ r.x1 <= r.x2 /\ r.y1 <= r.y2

\* Rectangle e lies in rectangle r.
Within(e, r) == r.x1 <= e.x1 /\ e.x2 <= r.x2 /\ r.y1 <= e.y1 /\ e.y2 <= r.y2

\* Its edges.
LEMMA OrderedEdges ==
  ASSUME NEW r, Ordered(r)
  PROVE  /\ r.x1 \in 0 .. ScreenWidth /\ r.x2 \in 0 .. ScreenWidth /\ r.x1 <= r.x2
         /\ r.y1 \in 0 .. ScreenHeight /\ r.y2 \in 0 .. ScreenHeight /\ r.y1 <= r.y2
BY DEF Ordered, ScreenRect

\* Edges in order make a rectangle.
LEMMA MakeOrdered ==
  ASSUME NEW x1 \in 0 .. ScreenWidth, NEW x2 \in 0 .. ScreenWidth, x1 <= x2,
         NEW y1 \in 0 .. ScreenHeight, NEW y2 \in 0 .. ScreenHeight, y1 <= y2
  PROVE  /\ Rect(x1, y1, x2, y2) = [x1 |-> x1, y1 |-> y1, x2 |-> x2, y2 |-> y2]
         /\ Ordered(Rect(x1, y1, x2, y2))
<1>1. Rect(x1, y1, x2, y2) = [x1 |-> x1, y1 |-> y1, x2 |-> x2, y2 |-> y2]
  BY ScreenAssumption DEF Rect, Lesser, Greater
<1> QED
  BY <1>1 DEF Ordered, ScreenRect

\* intersection_with() is the intersection, also of rectangles that touch or are null.
LEMMA IntersectionFacts ==
  ASSUME NEW r, NEW g, Ordered(r), Ordered(g), NEW e, e = intersection_with(r, g)
  PROVE  /\ \A p \in CanvasPixel : In(p, e) <=> In(p, r) /\ In(p, g)
         /\ ~is_null(e) => Ordered(e) /\ Within(e, r)
         /\ is_null(e) => \A p \in CanvasPixel : ~In(p, e)
<1>1. /\ r.x1 \in Int /\ r.x2 \in Int /\ r.x1 <= r.x2 /\ r.y1 \in Int /\ r.y2 \in Int /\ r.y1 <= r.y2
      /\ g.x1 \in Int /\ g.x2 \in Int /\ g.x1 <= g.x2 /\ g.y1 \in Int /\ g.y2 \in Int /\ g.y1 <= g.y2
  BY OrderedEdges, ScreenAssumption
<1>2. \A p \in CanvasPixel : p[1] \in Int /\ p[2] \in Int
  BY ScreenAssumption DEF CanvasPixel
<1>3. CASE ~intersects(r, g)
  <2>1. e = [x1 |-> 0, y1 |-> 0, x2 |-> 0, y2 |-> 0]
    BY <1>3 DEF intersection_with, NullRect, Rect, Lesser, Greater
  <2>2. ASSUME NEW p \in CanvasPixel PROVE ~In(p, e) /\ ~(In(p, r) /\ In(p, g))
    <3>1. ~In(p, e)
      BY <1>2, <2>1 DEF In, contains
    <3>2. ~(In(p, r) /\ In(p, g))
      BY <1>1, <1>2, <1>3 DEF intersects, is_null, width, height, In, contains
    <3> QED
      BY <3>1, <3>2
  <2>3. is_null(e)
    BY <2>1 DEF is_null, width, height
  <2> QED
    BY <2>2, <2>3
<1>4. CASE intersects(r, g)
  <2> DEFINE a1 == Greater(r.x1, g.x1)
             a2 == Lesser(r.x2, g.x2)
             b1 == Greater(r.y1, g.y1)
             b2 == Lesser(r.y2, g.y2)
  <2>1. e = Rect(a1, b1, a2, b2)
    BY <1>4 DEF intersection_with
  <2>2. /\ a1 \in 0 .. ScreenWidth /\ a2 \in 0 .. ScreenWidth /\ a1 <= a2
        /\ b1 \in 0 .. ScreenHeight /\ b2 \in 0 .. ScreenHeight /\ b1 <= b2
    <3>1. r.x1 <= g.x2 /\ g.x1 <= r.x2 /\ r.y1 <= g.y2 /\ g.y1 <= r.y2
      BY <1>4 DEF intersects
    <3> QED
      BY <1>1, <3>1, OrderedEdges DEF Greater, Lesser
  <2>3. /\ a1 >= r.x1 /\ a1 >= g.x1 /\ (a1 = r.x1 \/ a1 = g.x1)
        /\ a2 <= r.x2 /\ a2 <= g.x2 /\ (a2 = r.x2 \/ a2 = g.x2)
        /\ b1 >= r.y1 /\ b1 >= g.y1 /\ (b1 = r.y1 \/ b1 = g.y1)
        /\ b2 <= r.y2 /\ b2 <= g.y2 /\ (b2 = r.y2 \/ b2 = g.y2)
    BY <1>1 DEF Greater, Lesser
  <2> HIDE DEF a1, a2, b1, b2
  <2>4. Ordered(e) /\ e = [x1 |-> a1, y1 |-> b1, x2 |-> a2, y2 |-> b2]
    BY <2>1, <2>2, MakeOrdered
  <2>5. e.x1 = a1 /\ e.x2 = a2 /\ e.y1 = b1 /\ e.y2 = b2
    BY <2>4
  <2>6. Within(e, r)
    BY <1>1, <2>2, <2>3, <2>5 DEF Within
  <2>7. ASSUME NEW p \in CanvasPixel PROVE In(p, e) <=> In(p, r) /\ In(p, g)
    BY <1>1, <1>2, <2>2, <2>3, <2>5 DEF In, contains
  <2>8. is_null(e) => \A p \in CanvasPixel : ~In(p, e)
    BY <1>2, <2>2, <2>5, ScreenAssumption DEF is_null, width, height, In, contains
  <2> QED
    BY <2>4, <2>6, <2>7, <2>8
<1> QED
  BY <1>3, <1>4

\* The four parts around e, and e, are a partition of the rectangle.
LEMMA AroundFacts ==
  ASSUME NEW r, NEW e, Ordered(r), Ordered(e), Within(e, r), NEW parts, parts = around(r, e)
  PROVE  /\ \A i \in 1 .. 4 : Ordered(parts[i])
         /\ \A p \in CanvasPixel :
              /\ In(p, r) <=> In(p, e) \/ \E i \in 1 .. 4 : In(p, parts[i])
              /\ \A i \in 1 .. 4 : ~(In(p, e) /\ In(p, parts[i]))
              /\ \A i, j \in 1 .. 4 : In(p, parts[i]) /\ In(p, parts[j]) => i = j
<1>1. /\ r.x1 \in 0 .. ScreenWidth /\ r.x2 \in 0 .. ScreenWidth /\ r.x1 <= r.x2
      /\ r.y1 \in 0 .. ScreenHeight /\ r.y2 \in 0 .. ScreenHeight /\ r.y1 <= r.y2
      /\ e.x1 \in 0 .. ScreenWidth /\ e.x2 \in 0 .. ScreenWidth /\ e.x1 <= e.x2
      /\ e.y1 \in 0 .. ScreenHeight /\ e.y2 \in 0 .. ScreenHeight /\ e.y1 <= e.y2
      /\ r.x1 <= e.x1 /\ e.x2 <= r.x2 /\ r.y1 <= e.y1 /\ e.y2 <= r.y2
  BY OrderedEdges DEF Within
<1>2. /\ parts[1] = Rect(r.x1, r.y1, e.x1, r.y2) /\ parts[2] = Rect(e.x2, r.y1, r.x2, r.y2)
      /\ parts[3] = Rect(e.x1, r.y1, e.x2, e.y1) /\ parts[4] = Rect(e.x1, e.y2, e.x2, r.y2)
  BY DEF around
<1>3. Ordered(parts[1]) /\ parts[1] = [x1 |-> r.x1, y1 |-> r.y1, x2 |-> e.x1, y2 |-> r.y2]
  BY <1>1, <1>2, MakeOrdered
<1>4. Ordered(parts[2]) /\ parts[2] = [x1 |-> e.x2, y1 |-> r.y1, x2 |-> r.x2, y2 |-> r.y2]
  BY <1>1, <1>2, MakeOrdered
<1>5. Ordered(parts[3]) /\ parts[3] = [x1 |-> e.x1, y1 |-> r.y1, x2 |-> e.x2, y2 |-> e.y1]
  BY <1>1, <1>2, MakeOrdered
<1>6. Ordered(parts[4]) /\ parts[4] = [x1 |-> e.x1, y1 |-> e.y2, x2 |-> e.x2, y2 |-> r.y2]
  BY <1>1, <1>2, MakeOrdered
<1>7. ASSUME NEW p \in CanvasPixel
      PROVE  /\ In(p, r) <=> \/ In(p, e)
                            \/ In(p, parts[1]) \/ In(p, parts[2]) \/ In(p, parts[3]) \/ In(p, parts[4])
             /\ In(p, e) => ~In(p, parts[1]) /\ ~In(p, parts[2]) /\ ~In(p, parts[3]) /\ ~In(p, parts[4])
             /\ In(p, parts[1]) => ~In(p, parts[2]) /\ ~In(p, parts[3]) /\ ~In(p, parts[4])
             /\ In(p, parts[2]) => ~In(p, parts[3]) /\ ~In(p, parts[4])
             /\ In(p, parts[3]) => ~In(p, parts[4])
  <2> DEFINE x == p[1]
             y == p[2]
  <2>1. x \in Int /\ y \in Int
    BY ScreenAssumption DEF CanvasPixel
  <2>2. /\ In(p, r) <=> x >= r.x1 /\ x < r.x2 /\ y >= r.y1 /\ y < r.y2
        /\ In(p, e) <=> x >= e.x1 /\ x < e.x2 /\ y >= e.y1 /\ y < e.y2
        /\ In(p, parts[1]) <=> x >= r.x1 /\ x < e.x1 /\ y >= r.y1 /\ y < r.y2
        /\ In(p, parts[2]) <=> x >= e.x2 /\ x < r.x2 /\ y >= r.y1 /\ y < r.y2
        /\ In(p, parts[3]) <=> x >= e.x1 /\ x < e.x2 /\ y >= r.y1 /\ y < e.y1
        /\ In(p, parts[4]) <=> x >= e.x1 /\ x < e.x2 /\ y >= e.y2 /\ y < r.y2
    BY <1>3, <1>4, <1>5, <1>6 DEF In, contains
  <2> HIDE DEF x, y
  <2> QED
    BY <1>1, <2>1, <2>2
<1>8. \A i \in 1 .. 4 : i = 1 \/ i = 2 \/ i = 3 \/ i = 4
  OBVIOUS
<1>9. \A i \in 1 .. 4 : Ordered(parts[i])
  BY <1>3, <1>4, <1>5, <1>6, <1>8
<1>10. ASSUME NEW p \in CanvasPixel
       PROVE  /\ In(p, r) <=> In(p, e) \/ \E i \in 1 .. 4 : In(p, parts[i])
              /\ \A i \in 1 .. 4 : ~(In(p, e) /\ In(p, parts[i]))
              /\ \A i, j \in 1 .. 4 : In(p, parts[i]) /\ In(p, parts[j]) => i = j
  <2>1. 1 \in 1 .. 4 /\ 2 \in 1 .. 4 /\ 3 \in 1 .. 4 /\ 4 \in 1 .. 4
    OBVIOUS
  <2> QED
    BY <1>7, <1>8, <2>1
<1> QED
  BY <1>9, <1>10
-----------------------------------------------------------------------------
\* The windows and the rectangle to update, which do not change.
SceneOK ==
  /\ geometry \in [WindowIndex -> ScreenRect] /\ \A w \in WindowIndex : Ordered(geometry[w])
  /\ visible \subseteq WindowIndex /\ area \in ScreenRect

\* The calls to come: their rectangles are apart, in the rectangle to update, and in none of
\* them can a window above the one of the call be seen.
JobsOK ==
  /\ jobs \in Seq(WindowIndex \X ScreenRect)
  /\ \A i \in 1 .. Len(jobs) : Ordered(jobs[i][2])
  /\ \A p \in CanvasPixel :
       /\ \A i, j \in 1 .. Len(jobs) : In(p, jobs[i][2]) /\ In(p, jobs[j][2]) => i = j
       /\ \A i \in 1 .. Len(jobs) : In(p, jobs[i][2]) =>
            In(p, area) /\ \A v \in visible : v < jobs[i][1] => ~In(p, geometry[v])

\* What is drawn is right, what is left is not drawn, and the two are all there is to draw.
CanvasOK ==
  /\ painter \in [CanvasPixel -> WindowIndex \cup {BACKDROP, NOBODY}]
  /\ strokes \in [CanvasPixel -> {0, 1}]
  /\ \A p \in CanvasPixel :
       /\ strokes[p] = 1 => In(p, area) /\ painter[p] = TopWindow(p)
       /\ \A i \in 1 .. Len(jobs) : In(p, jobs[i][2]) => strokes[p] = 0
       /\ In(p, area) => strokes[p] = 1 \/ \E i \in 1 .. Len(jobs) : In(p, jobs[i][2])

CompositorInv == SceneOK /\ JobsOK /\ CanvasOK

\* A call of the helper: the k first calls of the new list N and the pixels D that are drawn
\* share the rectangle of the call among them.
Splits(N, k, D) ==
  /\ jobs # <<>> /\ k \in Nat /\ N \in Seq(WindowIndex \X ScreenRect) /\ Len(N) = Len(jobs) - 1 + k
  /\ \A i \in k + 1 .. Len(N) : N[i] = jobs[i - k + 1]
  /\ \A i \in 1 .. k : Ordered(N[i][2])
  /\ D \subseteq CanvasPixel
  /\ \A p \in CanvasPixel :
       /\ In(p, rect) <=> p \in D \/ \E i \in 1 .. k : In(p, N[i][2])
       /\ \A i \in 1 .. k : In(p, N[i][2]) => p \notin D
       /\ \A i, j \in 1 .. k : In(p, N[i][2]) /\ In(p, N[j][2]) => i = j
       /\ \A i \in 1 .. k : In(p, N[i][2]) => \A v \in visible : v < N[i][1] => ~In(p, geometry[v])

\* The pixels D show what they should, the others what they did.
DrawsTop(D) ==
  /\ painter' \in [CanvasPixel -> WindowIndex \cup {BACKDROP, NOBODY}]
  /\ strokes' = [p \in CanvasPixel |-> IF p \in D THEN strokes[p] + 1 ELSE strokes[p]]
  /\ \A p \in CanvasPixel : painter'[p] = IF p \in D THEN TopWindow(p) ELSE painter[p]

\* The call in front of the list.
LEMMA FrontCall ==
  ASSUME JobsOK, jobs # <<>>
  PROVE  /\ Len(jobs) \in Nat /\ 1 \in 1 .. Len(jobs) /\ window = jobs[1][1] /\ rect = jobs[1][2]
         /\ window \in WindowIndex /\ Ordered(rect)
<1>1. Len(jobs) \in Nat /\ 1 \in 1 .. Len(jobs) /\ Head(jobs) = jobs[1]
  BY DEF JobsOK
<1>2. jobs[1] \in WindowIndex \X ScreenRect
  BY <1>1 DEF JobsOK
<1> QED
  BY <1>1, <1>2 DEF JobsOK, window, rect

\* A call that shares its rectangle among new calls and pixels it draws right keeps the invariant.
LEMMA SplitKeeps ==
  ASSUME CompositorInv, UNCHANGED sceneVars, NEW k, NEW D, Splits(jobs', k, D), DrawsTop(D)
  PROVE  CompositorInv'
<1> DEFINE N == jobs'
<1>1. geometry' = geometry /\ visible' = visible /\ area' = area
  BY DEF sceneVars
<1>2. SceneOK'
  BY <1>1 DEF CompositorInv, SceneOK
<1>3. \A p : TopWindow(p)' = TopWindow(p)
  BY <1>1 DEF TopWindow
<1>4. /\ Len(jobs) \in Nat /\ 1 \in 1 .. Len(jobs) /\ rect = jobs[1][2]
      /\ jobs # <<>> /\ k \in Nat /\ N \in Seq(WindowIndex \X ScreenRect) /\ Len(N) = Len(jobs) - 1 + k
  BY FrontCall DEF CompositorInv, Splits
<1>5. ASSUME NEW i \in 1 .. Len(N)
      PROVE  \/ i \in 1 .. k
             \/ /\ i \in k + 1 .. Len(N) /\ i - k + 1 \in 1 .. Len(jobs) /\ i - k + 1 # 1
                /\ N[i] = jobs[i - k + 1]
  <2>1. i \in 1 .. k \/ (i \in k + 1 .. Len(N) /\ i - k + 1 \in 1 .. Len(jobs) /\ i - k + 1 # 1)
    BY <1>4
  <2> QED
    BY <2>1 DEF Splits
<1>6. ASSUME NEW j \in 1 .. Len(jobs), j # 1
      PROVE  \E i \in 1 .. Len(N) : i \notin 1 .. k /\ N[i] = jobs[j]
  <2>1. j + k - 1 \in k + 1 .. Len(N) /\ j + k - 1 \in 1 .. Len(N) /\ j + k - 1 \notin 1 .. k
        /\ (j + k - 1) - k + 1 = j
    BY <1>4, <1>6
  <2>2. N[j + k - 1] = jobs[(j + k - 1) - k + 1]
    BY <2>1 DEF Splits
  <2> QED
    BY <2>1, <2>2
<1>7. \A i \in 1 .. k : i \in 1 .. Len(N)
  BY <1>4
<1> HIDE DEF N
<1>8. ASSUME NEW p \in CanvasPixel, NEW i \in 1 .. Len(N), i \notin 1 .. k, In(p, N[i][2])
      PROVE  ~In(p, rect) /\ p \notin D /\ \A j \in 1 .. k : ~In(p, N[j][2])
  <2>1. i - k + 1 \in 1 .. Len(jobs) /\ i - k + 1 # 1 /\ N[i] = jobs[i - k + 1]
    BY <1>5, <1>8
  <2>2. ~In(p, rect)
    BY <1>4, <1>8, <2>1 DEF CompositorInv, JobsOK
  <2> QED
    BY <2>2 DEF Splits, N
<1>9. JobsOK'
  <2>1. \A i \in 1 .. Len(N) : Ordered(N[i][2])
    BY <1>5 DEF Splits, N, CompositorInv, JobsOK
  <2>2. ASSUME NEW p \in CanvasPixel, NEW i \in 1 .. Len(N), NEW j \in 1 .. Len(N),
               In(p, N[i][2]), In(p, N[j][2])
        PROVE  i = j
    <3>1. CASE i \in 1 .. k /\ j \in 1 .. k
      BY <2>2, <3>1 DEF Splits, N
    <3>2. CASE i \notin 1 .. k /\ j \notin 1 .. k
      <4>1. /\ i - k + 1 \in 1 .. Len(jobs) /\ N[i] = jobs[i - k + 1]
            /\ j - k + 1 \in 1 .. Len(jobs) /\ N[j] = jobs[j - k + 1]
        BY <1>5, <3>2
      <4>2. i - k + 1 = j - k + 1
        BY <2>2, <4>1 DEF CompositorInv, JobsOK
      <4> QED
        BY <1>4, <4>2
    <3>3. CASE (i \in 1 .. k) # (j \in 1 .. k)
      BY <1>8, <2>2, <3>3
    <3> QED
      BY <3>1, <3>2, <3>3
  <2>3. ASSUME NEW p \in CanvasPixel, NEW i \in 1 .. Len(N), In(p, N[i][2])
        PROVE  In(p, area) /\ \A v \in visible : v < N[i][1] => ~In(p, geometry[v])
    <3>1. CASE i \in 1 .. k
      <4>1. In(p, rect)
        BY <2>3, <3>1 DEF Splits, N
      <4>2. In(p, area)
        BY <1>4, <4>1 DEF CompositorInv, JobsOK
      <4> QED
        BY <2>3, <3>1, <4>2 DEF Splits, N
    <3>2. CASE i \notin 1 .. k
      <4>1. i - k + 1 \in 1 .. Len(jobs) /\ N[i] = jobs[i - k + 1]
        BY <1>5, <3>2
      <4> QED
        BY <2>3, <4>1 DEF CompositorInv, JobsOK
    <3> QED
      BY <3>1, <3>2
  <2> QED
    BY <1>1, <1>4, <2>1, <2>2, <2>3 DEF JobsOK, N
<1>10. ASSUME NEW p \in CanvasPixel
       PROVE  /\ strokes'[p] \in {0, 1}
              /\ strokes'[p] = 1 => In(p, area) /\ painter'[p] = TopWindow(p)
              /\ \A i \in 1 .. Len(N) : In(p, N[i][2]) => strokes'[p] = 0
              /\ In(p, area) => strokes'[p] = 1 \/ \E i \in 1 .. Len(N) : In(p, N[i][2])
  <2>1. /\ strokes'[p] = IF p \in D THEN strokes[p] + 1 ELSE strokes[p]
        /\ painter'[p] = IF p \in D THEN TopWindow(p) ELSE painter[p]
        /\ strokes[p] \in {0, 1}
    BY DEF DrawsTop, CompositorInv, CanvasOK
  <2>2. In(p, rect) => In(p, area) /\ strokes[p] = 0
    BY <1>4 DEF CompositorInv, JobsOK, CanvasOK
  <2>3. p \in D => In(p, rect) /\ \A i \in 1 .. k : ~In(p, N[i][2])
    BY DEF Splits, N
  <2>4. p \in D => strokes'[p] = 1 /\ In(p, area) /\ painter'[p] = TopWindow(p)
    BY <2>1, <2>2, <2>3
  <2>5. p \notin D => strokes'[p] = strokes[p] /\ painter'[p] = painter[p]
    BY <2>1
  <2>6. strokes[p] = 1 => In(p, area) /\ painter[p] = TopWindow(p)
    BY DEF CompositorInv, CanvasOK
  <2>7. ASSUME NEW i \in 1 .. Len(N), In(p, N[i][2]) PROVE strokes'[p] = 0
    <3>1. CASE i \in 1 .. k
      <4>1. In(p, rect) /\ p \notin D
        BY <2>7, <3>1 DEF Splits, N
      <4> QED
        BY <2>2, <2>5, <4>1
    <3>2. CASE i \notin 1 .. k
      <4>1. i - k + 1 \in 1 .. Len(jobs) /\ N[i] = jobs[i - k + 1] /\ p \notin D
        BY <1>5, <1>8, <2>7, <3>2
      <4>2. strokes[p] = 0
        BY <2>7, <4>1 DEF CompositorInv, CanvasOK
      <4> QED
        BY <2>5, <4>1, <4>2
    <3> QED
      BY <3>1, <3>2
  <2>8. ASSUME In(p, area) PROVE strokes'[p] = 1 \/ \E i \in 1 .. Len(N) : In(p, N[i][2])
    <3>1. strokes[p] = 1 \/ \E j \in 1 .. Len(jobs) : In(p, jobs[j][2])
      BY <2>8 DEF CompositorInv, CanvasOK
    <3>2. CASE strokes[p] = 1
      BY <2>4, <2>5, <3>2
    <3>3. CASE In(p, rect)
      <4>1. p \in D \/ \E i \in 1 .. k : In(p, N[i][2])
        BY <3>3 DEF Splits, N
      <4> QED
        BY <1>7, <2>4, <4>1
    <3>4. ASSUME NEW j \in 1 .. Len(jobs), In(p, jobs[j][2]), j # 1
          PROVE  \E i \in 1 .. Len(N) : In(p, N[i][2])
      BY <1>6, <3>4
    <3> QED
      BY <1>4, <3>1, <3>2, <3>3, <3>4
  <2> QED
    BY <2>1, <2>4, <2>5, <2>6, <2>7, <2>8
<1>11. CanvasOK'
  <2>1. strokes' \in [CanvasPixel -> {0, 1}]
    BY <1>10 DEF DrawsTop
  <2>2. painter' \in [CanvasPixel -> WindowIndex \cup {BACKDROP, NOBODY}]
    BY DEF DrawsTop
  <2> QED
    BY <1>1, <1>3, <1>10, <2>1, <2>2 DEF CanvasOK, N
<1> QED
  BY <1>2, <1>9, <1>11 DEF CompositorInv

\* The list N is J with its front replaced by A.
Replaced(N, J, A) ==
  /\ Len(J) \in Nat /\ Len(N) = Len(J) - 1 + Len(A)
  /\ \A i \in 1 .. Len(A) : N[i] = A[i]
  /\ \A i \in Len(A) + 1 .. Len(N) : N[i] = J[i - Len(A) + 1]

\* Putting other calls in front of the tail replaces the front.
LEMMA ReplaceFront ==
  ASSUME NEW S, NEW J \in Seq(S), J # <<>>, NEW A \in Seq(S)
  PROVE  A \o Tail(J) \in Seq(S) /\ Replaced(A \o Tail(J), J, A)
<1> DEFINE T == Tail(J)
           N == A \o T
<1>1. /\ T \in Seq(S) /\ Len(J) \in Nat /\ Len(T) = Len(J) - 1 /\ Len(T) \in Nat
      /\ \A i \in 1 .. Len(J) - 1 : T[i] = J[i + 1]
  OBVIOUS
<1> HIDE DEF T
<1>2. /\ N \in Seq(S) /\ Len(N) = Len(A) + Len(T) /\ Len(A) \in Nat
      /\ \A i \in 1 .. Len(A) : N[i] = A[i]
      /\ \A i \in Len(A) + 1 .. Len(A) + Len(T) : N[i] = T[i - Len(A)]
  BY <1>1, ConcatFacts
<1> HIDE DEF N
<1>3. ASSUME NEW i \in Len(A) + 1 .. Len(N) PROVE N[i] = J[i - Len(A) + 1]
  <2>1. i \in Len(A) + 1 .. Len(A) + Len(T) /\ i - Len(A) \in 1 .. Len(J) - 1
    BY <1>1, <1>2
  <2> QED
    BY <1>1, <1>2, <2>1
<1>4. Len(N) = Len(J) - 1 + Len(A)
  BY <1>1, <1>2
<1>5. Replaced(N, J, A)
  BY <1>1, <1>2, <1>3, <1>4 DEF Replaced
<1> QED
  BY <1>2, <1>5 DEF N, T

\* A visible window at a pixel with none above it is the topmost one.
LEMMA TopIs ==
  ASSUME SceneOK, NEW p, NEW w \in visible, In(p, geometry[w]),
         \A v \in visible : v < w => ~In(p, geometry[v])
  PROVE  TopWindow(p) = w
<1> DEFINE Here == {v \in visible : In(p, geometry[v])}
<1>1. w \in Here /\ Here \subseteq Nat /\ \A v \in Here : w <= v
  <2>1. \A v \in visible : v \in Nat
    BY ScreenAssumption DEF SceneOK, WindowIndex
  <2>2. w \in Here /\ Here \subseteq Nat
    BY <2>1
  <2>3. \A v \in Here : ~(v < w)
    OBVIOUS
  <2> QED
    BY <2>2, <2>3
<1>2. \A u \in Here : (\A v \in Here : u <= v) => u = w
  BY <1>1
<1>3. TopWindow(p) = CHOOSE u \in Here : \A v \in Here : u <= v
  BY <1>1 DEF TopWindow
<1> HIDE DEF Here
<1> QED
  BY <1>1, <1>2, <1>3

\* Where no visible window is, the background is seen.
LEMMA TopIsBackdrop ==
  ASSUME NEW p, \A v \in visible : ~In(p, geometry[v])
  PROVE  TopWindow(p) = BACKDROP
BY DEF TopWindow

\* A null rectangle has no pixel.
LEMMA NullHasNoPixel ==
  ASSUME NEW r, Ordered(r), is_null(r), NEW p \in CanvasPixel
  PROVE  ~In(p, r)
BY OrderedEdges, ScreenAssumption DEF is_null, width, height, In, contains, CanvasPixel

\* draw_windows_helper() returns at once.
LEMMA NullUpdateKeeps ==
  ASSUME CompositorInv, NullUpdate
  PROVE  CompositorInv'
<1>1. /\ jobs # <<>> /\ is_null(rect) /\ jobs' = Tail(jobs) /\ painter' = painter /\ strokes' = strokes
      /\ UNCHANGED sceneVars
  BY DEF NullUpdate
<1>2. Ordered(rect)
  BY <1>1, FrontCall DEF CompositorInv
<1>3. \A p \in CanvasPixel : ~In(p, rect)
  BY <1>1, <1>2, NullHasNoPixel
<1>4. jobs \in Seq(WindowIndex \X ScreenRect) /\ Len(jobs) \in Nat
  BY DEF CompositorInv, JobsOK
<1>5. /\ jobs' \in Seq(WindowIndex \X ScreenRect) /\ Len(jobs') = Len(jobs) - 1
      /\ \A i \in 1 .. Len(jobs) - 1 : jobs'[i] = jobs[i + 1]
  BY <1>1, <1>4
<1>6. Splits(jobs', 0, {})
  <2>1. \A i \in 0 + 1 .. Len(jobs') : jobs'[i] = jobs[i - 0 + 1]
    BY <1>4, <1>5
  <2>2. Len(jobs') = Len(jobs) - 1 + 0
    BY <1>4, <1>5
  <2> QED
    BY <1>1, <1>3, <1>5, <2>1, <2>2 DEF Splits
<1>7. DrawsTop({})
  BY <1>1 DEF DrawsTop, CompositorInv, CanvasOK
<1> QED
  BY <1>1, <1>6, <1>7, SplitKeeps

\* What the call in front knows of a pixel of its rectangle.
LEMMA AtPixel ==
  ASSUME CompositorInv, jobs # <<>>, NEW p \in CanvasPixel, In(p, rect), NEW v \in visible
  PROVE  /\ v < window => ~In(p, geometry[v])
         /\ v \in WindowIndex /\ window \in WindowIndex
         /\ In(p, intersection) <=> In(p, geometry[window])
<1>1. SceneOK /\ JobsOK
  BY DEF CompositorInv
<1>2. /\ 1 \in 1 .. Len(jobs) /\ window = jobs[1][1] /\ rect = jobs[1][2]
      /\ window \in WindowIndex /\ Ordered(rect)
  BY <1>1, FrontCall
<1>3. Ordered(geometry[window])
  BY <1>1, <1>2 DEF SceneOK
<1>4. \A q \in CanvasPixel : In(q, intersection) <=> In(q, rect) /\ In(q, geometry[window])
  BY <1>2, <1>3, IntersectionFacts DEF intersection
<1>5. v < window => ~In(p, geometry[v])
  BY <1>1, <1>2 DEF JobsOK
<1> QED
  BY <1>1, <1>2, <1>4, <1>5 DEF SceneOK

\* A call that ends with drawing all of its rectangle.
LEMMA LastCall ==
  ASSUME CompositorInv, jobs # <<>>, jobs' = Tail(jobs), NEW D, D = {p \in CanvasPixel : In(p, rect)}
  PROVE  Splits(jobs', 0, D)
<1>1. jobs \in Seq(WindowIndex \X ScreenRect) /\ Len(jobs) \in Nat
  BY DEF CompositorInv, JobsOK
<1>2. /\ jobs' \in Seq(WindowIndex \X ScreenRect) /\ Len(jobs') = Len(jobs) - 1
      /\ \A i \in 1 .. Len(jobs) - 1 : jobs'[i] = jobs[i + 1]
  BY <1>1
<1>3. /\ Len(jobs') = Len(jobs) - 1 + 0
      /\ \A i \in 0 + 1 .. Len(jobs') : jobs'[i] = jobs[i - 0 + 1]
  BY <1>1, <1>2
<1> QED
  BY <1>2, <1>3 DEF Splits

\* The window of the call is not to be seen in its rectangle.
LEMMA SkipWindowKeeps ==
  ASSUME CompositorInv, SkipWindow
  PROVE  CompositorInv'
<1>1. jobs # <<>> /\ Elsewhere /\ UNCHANGED sceneVars /\ SceneOK /\ JobsOK
  BY DEF SkipWindow, CompositorInv
<1>2. /\ window \in WindowIndex /\ Ordered(rect) /\ Len(jobs) \in Nat
      /\ jobs \in Seq(WindowIndex \X ScreenRect) /\ rect \in ScreenRect
  BY <1>1, FrontCall DEF JobsOK, Ordered
<1>3. ASSUME NEW p \in CanvasPixel, In(p, rect), NEW v \in visible, v <= window
      PROVE  ~In(p, geometry[v])
  <2>1. v \in Nat /\ window \in Nat
    BY <1>2, <1>3, <1>1, AtPixel, ScreenAssumption DEF WindowIndex
  <2>2. CASE v < window
    BY <1>1, <1>3, <2>2, AtPixel
  <2>3. CASE v = window
    <3>1. is_null(intersection) /\ Ordered(geometry[window])
      BY <1>1, <1>2, <2>3 DEF Elsewhere, SceneOK
    <3>2. ~In(p, intersection)
      BY <1>2, <3>1, IntersectionFacts DEF intersection
    <3> QED
      BY <1>1, <1>3, <2>3, <3>2, AtPixel
  <2> QED
    BY <1>3, <2>1, <2>2, <2>3
<1>4. CASE has_next
  <2> DEFINE call == <<window + 1, rect>>
             A == <<call>>
  <2>1. jobs' = A \o Tail(jobs) /\ painter' = painter /\ strokes' = strokes
    BY <1>4 DEF SkipWindow
  <2>2. window + 1 \in WindowIndex
    BY <1>2, <1>4, ScreenAssumption DEF has_next, WindowIndex
  <2>3. call \in WindowIndex \X ScreenRect /\ call[1] = window + 1 /\ call[2] = rect
    BY <1>2, <2>2
  <2> HIDE DEF call
  <2>4. A \in Seq(WindowIndex \X ScreenRect) /\ Len(A) = 1 /\ A[1] = call
    BY <2>3
  <2> HIDE DEF A
  <2>5. /\ jobs' \in Seq(WindowIndex \X ScreenRect) /\ Len(jobs') = Len(jobs) - 1 + 1
        /\ \A i \in 1 .. 1 : jobs'[i] = call
        /\ \A i \in 1 + 1 .. Len(jobs') : jobs'[i] = jobs[i - 1 + 1]
    <3>1. jobs' \in Seq(WindowIndex \X ScreenRect) /\ Replaced(jobs', jobs, A)
      BY <1>1, <1>2, <2>1, <2>4, ReplaceFront
    <3> QED
      BY <2>4, <3>1 DEF Replaced
  <2>6. \A p \in CanvasPixel : In(p, rect) => \A v \in visible : v < window + 1 => ~In(p, geometry[v])
    <3>1. \A v \in visible : v < window + 1 => v <= window
      BY <1>1, <1>2, ScreenAssumption DEF SceneOK, WindowIndex
    <3> QED
      BY <1>3, <3>1
  <2>7. 1 \in 1 .. 1 /\ \A i \in 1 .. 1 : i = 1
    OBVIOUS
  <2>8. Splits(jobs', 1, {})
    BY <1>1, <1>2, <2>3, <2>5, <2>6, <2>7 DEF Splits
  <2>9. DrawsTop({})
    BY <2>1 DEF DrawsTop, CompositorInv, CanvasOK
  <2> QED
    BY <1>1, <2>8, <2>9, SplitKeeps
<1>5. CASE ~has_next
  <2> DEFINE D == {p \in CanvasPixel : In(p, rect)}
  <2>1. jobs' = Tail(jobs) /\ Draws(BACKDROP, {rect})
    BY <1>5 DEF SkipWindow
  <2>2. D = {p \in CanvasPixel : \E r \in {rect} : In(p, r)}
    OBVIOUS
  <2>3. Splits(jobs', 0, D)
    BY <1>1, <2>1, LastCall
  <2>4. ASSUME NEW p \in D PROVE TopWindow(p) = BACKDROP
    <3>1. \A v \in visible : v <= window
      BY <1>1, <1>2, <1>5, ScreenAssumption DEF has_next, SceneOK, WindowIndex
    <3>2. \A v \in visible : ~In(p, geometry[v])
      BY <1>3, <3>1
    <3> QED
      BY <3>2, TopIsBackdrop
  <2> HIDE DEF D
  <2>5. /\ painter' = [p \in CanvasPixel |-> IF p \in D THEN BACKDROP ELSE painter[p]]
        /\ strokes' = [p \in CanvasPixel |-> IF p \in D THEN strokes[p] + 1 ELSE strokes[p]]
    BY <2>1, <2>2 DEF Draws
  <2>6. DrawsTop(D)
    <3>1. painter' \in [CanvasPixel -> WindowIndex \cup {BACKDROP, NOBODY}]
      BY <2>5 DEF CompositorInv, CanvasOK
    <3> QED
      BY <2>4, <2>5, <3>1 DEF DrawsTop
  <2> QED
    BY <1>1, <2>3, <2>6, SplitKeeps
<1> QED
  BY <1>4, <1>5

\* The window of the call is drawn where it meets the rectangle; the rest is left to the calls
\* for the window below, or is background.
LEMMA DrawWindowKeeps ==
  ASSUME CompositorInv, DrawWindow
  PROVE  CompositorInv'
<1> DEFINE e == intersection
           parts == around(rect, intersection)
<1>1. jobs # <<>> /\ ~Elsewhere /\ UNCHANGED sceneVars /\ SceneOK /\ JobsOK
  BY DEF DrawWindow, CompositorInv
<1>2. /\ window \in WindowIndex /\ Ordered(rect) /\ Len(jobs) \in Nat
      /\ jobs \in Seq(WindowIndex \X ScreenRect)
  BY <1>1, FrontCall DEF JobsOK
<1>3. window \in visible /\ ~is_null(e) /\ Ordered(geometry[window])
  BY <1>1, <1>2 DEF Elsewhere, SceneOK
<1>4. /\ Ordered(e) /\ Within(e, rect)
      /\ \A p \in CanvasPixel : In(p, e) <=> In(p, rect) /\ In(p, geometry[window])
  BY <1>2, <1>3, IntersectionFacts DEF intersection
<1>5. /\ \A i \in 1 .. 4 : Ordered(parts[i])
      /\ \A p \in CanvasPixel :
           /\ In(p, rect) <=> In(p, e) \/ \E i \in 1 .. 4 : In(p, parts[i])
           /\ \A i \in 1 .. 4 : ~(In(p, e) /\ In(p, parts[i]))
           /\ \A i, j \in 1 .. 4 : In(p, parts[i]) /\ In(p, parts[j]) => i = j
  BY <1>2, <1>4, AroundFacts
<1>6. ASSUME NEW p \in CanvasPixel, In(p, e) PROVE TopWindow(p) = window
  BY <1>1, <1>3, <1>4, <1>6, AtPixel, TopIs
<1>7. ASSUME NEW p \in CanvasPixel, In(p, rect), ~In(p, e), NEW v \in visible, v < window + 1
      PROVE  ~In(p, geometry[v])
  <2>1. v = window \/ v < window
    BY <1>1, <1>2, <1>7, ScreenAssumption DEF SceneOK, WindowIndex
  <2>2. CASE v = window
    BY <1>4, <1>7, <2>2
  <2>3. CASE v < window
    BY <1>1, <1>7, <2>3, AtPixel
  <2> QED
    BY <2>1, <2>2, <2>3
<1>8. CASE has_next
  <2> DEFINE A == [i \in 1 .. 4 |-> <<window + 1, parts[i]>>]
             D == {p \in CanvasPixel : In(p, e)}
  <2>1. jobs' = A \o Tail(jobs) /\ Draws(window, {e})
    BY <1>8 DEF DrawWindow
  <2>2. D = {p \in CanvasPixel : \E r \in {e} : In(p, r)}
    OBVIOUS
  <2>3. window + 1 \in WindowIndex
    BY <1>2, <1>8, ScreenAssumption DEF has_next, WindowIndex
  <2> HIDE DEF e, parts
  <2>4. /\ A \in Seq(WindowIndex \X ScreenRect) /\ Len(A) = 4
        /\ \A i \in 1 .. 4 : A[i][1] = window + 1 /\ A[i][2] = parts[i]
    <3>1. \A i \in 1 .. 4 : parts[i] \in ScreenRect
      BY <1>5 DEF Ordered
    <3>2. A \in [1 .. 4 -> WindowIndex \X ScreenRect]
      BY <2>3, <3>1
    <3> QED
      BY <3>2
  <2> HIDE DEF A
  <2>5. /\ jobs' \in Seq(WindowIndex \X ScreenRect) /\ Len(jobs') = Len(jobs) - 1 + 4
        /\ \A i \in 1 .. 4 : jobs'[i] = A[i]
        /\ \A i \in 4 + 1 .. Len(jobs') : jobs'[i] = jobs[i - 4 + 1]
    <3>1. jobs' \in Seq(WindowIndex \X ScreenRect) /\ Replaced(jobs', jobs, A)
      BY <1>1, <1>2, <2>1, <2>4, ReplaceFront
    <3> QED
      BY <2>4, <3>1 DEF Replaced
  <2>6. \A i \in 1 .. 4 : jobs'[i][1] = window + 1 /\ jobs'[i][2] = parts[i]
    BY <2>4, <2>5
  <2>7. Splits(jobs', 4, D)
    <3>1. ASSUME NEW p \in CanvasPixel
          PROVE  /\ In(p, rect) <=> p \in D \/ \E i \in 1 .. 4 : In(p, jobs'[i][2])
                 /\ \A i \in 1 .. 4 : In(p, jobs'[i][2]) => p \notin D
                 /\ \A i, j \in 1 .. 4 : In(p, jobs'[i][2]) /\ In(p, jobs'[j][2]) => i = j
      BY <1>5, <2>6
    <3>2. ASSUME NEW p \in CanvasPixel, NEW i \in 1 .. 4, In(p, jobs'[i][2]),
                 NEW v \in visible, v < jobs'[i][1]
          PROVE  ~In(p, geometry[v])
      <4>1. In(p, parts[i]) /\ v < window + 1
        BY <2>6, <3>2
      <4>2. In(p, rect) /\ ~In(p, e)
        BY <1>5, <4>1
      <4> QED
        BY <1>7, <4>1, <4>2
    <3>3. \A i \in 1 .. 4 : Ordered(jobs'[i][2])
      BY <1>5, <2>6
    <3> HIDE DEF D
    <3>4. D \subseteq CanvasPixel
      BY DEF D
    <3> QED
      BY <1>1, <2>5, <3>1, <3>2, <3>3, <3>4 DEF Splits
  <2>8. \A p \in D : p \in CanvasPixel /\ TopWindow(p) = window
    BY <1>6
  <2> HIDE DEF D
  <2>9. /\ painter' = [p \in CanvasPixel |-> IF p \in D THEN window ELSE painter[p]]
        /\ strokes' = [p \in CanvasPixel |-> IF p \in D THEN strokes[p] + 1 ELSE strokes[p]]
    BY <2>1, <2>2 DEF Draws
  <2>10. DrawsTop(D)
    <3>1. painter' \in [CanvasPixel -> WindowIndex \cup {BACKDROP, NOBODY}]
      BY <1>2, <2>9 DEF CompositorInv, CanvasOK
    <3> QED
      BY <2>8, <2>9, <3>1 DEF DrawsTop
  <2> QED
    BY <1>1, <2>7, <2>10, SplitKeeps
<1>9. CASE ~has_next
  <2> DEFINE Drawn == {p \in CanvasPixel : \E i \in 1 .. 4 : In(p, parts[i])}
             times(p) == (IF In(p, e) THEN 1 ELSE 0) + (IF p \in Drawn THEN 1 ELSE 0)
             D == {p \in CanvasPixel : In(p, rect)}
  <2>1. /\ jobs' = Tail(jobs)
        /\ painter' = [p \in CanvasPixel |-> IF p \in Drawn THEN BACKDROP
                                           ELSE IF In(p, e) THEN window ELSE painter[p]]
        /\ strokes' = [p \in CanvasPixel |-> strokes[p] + times(p)]
    BY <1>9 DEF DrawWindow
  <2>2. Splits(jobs', 0, D)
    BY <1>1, <2>1, LastCall
  <2> HIDE DEF e, parts
  <2>3. ASSUME NEW p \in CanvasPixel
        PROVE  /\ p \in D <=> In(p, e) \/ p \in Drawn
               /\ ~(In(p, e) /\ p \in Drawn)
    BY <1>5
  <2>4. \A p \in CanvasPixel : strokes[p] \in {0, 1}
    BY DEF CompositorInv, CanvasOK
  <2>5. ASSUME NEW p \in Drawn PROVE TopWindow(p) = BACKDROP
    <3>1. p \in CanvasPixel /\ In(p, rect) /\ ~In(p, e)
      BY <1>5
    <3>2. \A v \in visible : v < window + 1
      BY <1>1, <1>2, <1>9, ScreenAssumption DEF has_next, SceneOK, WindowIndex
    <3>3. \A v \in visible : ~In(p, geometry[v])
      BY <1>7, <3>1, <3>2
    <3> QED
      BY <3>3, TopIsBackdrop
  <2> HIDE DEF Drawn, D
  <2>6. ASSUME NEW p \in CanvasPixel
        PROVE  /\ strokes[p] + times(p) = IF p \in D THEN strokes[p] + 1 ELSE strokes[p]
               /\ painter'[p] = IF p \in D THEN TopWindow(p) ELSE painter[p]
    <3>1. painter'[p] = IF p \in Drawn THEN BACKDROP ELSE IF In(p, e) THEN window ELSE painter[p]
      BY <2>1
    <3>2. CASE p \in Drawn
      BY <2>3, <2>4, <2>5, <3>1, <3>2
    <3>3. CASE p \notin Drawn /\ In(p, e)
      BY <1>6, <2>3, <2>4, <3>1, <3>3
    <3>4. CASE p \notin Drawn /\ ~In(p, e)
      BY <2>3, <2>4, <3>1, <3>4
    <3> QED
      BY <3>2, <3>3, <3>4
  <2>7. strokes' = [p \in CanvasPixel |-> IF p \in D THEN strokes[p] + 1 ELSE strokes[p]]
    BY <2>1, <2>6
  <2>8. painter' \in [CanvasPixel -> WindowIndex \cup {BACKDROP, NOBODY}]
    BY <1>2, <2>1 DEF CompositorInv, CanvasOK
  <2>9. DrawsTop(D)
    BY <2>6, <2>7, <2>8 DEF DrawsTop
  <2> QED
    BY <1>1, <2>2, <2>9, SplitKeeps
<1> QED
  BY <1>8, <1>9

\* draw_windows() starts with one call for the whole rectangle, or with the background.
LEMMA CompositorStart ==
  ASSUME CompositorInit
  PROVE  CompositorInv
<1>1. \A r \in WindowRect : Ordered(r)
  BY ScreenAssumption DEF WindowRect, Ordered, ScreenRect, NullRect, Rect, Lesser, Greater
<1>2. SceneOK /\ Ordered(area)
  <2>1. area \in WindowRect /\ geometry \in [WindowIndex -> WindowRect] /\ visible \subseteq WindowIndex
    BY AreasAssumption DEF CompositorInit
  <2>2. WindowRect \subseteq ScreenRect
    BY DEF WindowRect
  <2> QED
    BY <1>1, <2>1, <2>2 DEF SceneOK
<1>3. /\ painter \in [CanvasPixel -> WindowIndex \cup {BACKDROP, NOBODY}]
      /\ strokes \in [CanvasPixel -> {0, 1}]
  BY DEF CompositorInit
<1>4. CASE WindowCount = 0
  <2>1. /\ jobs = <<>> /\ Len(jobs) = 0 /\ visible = {}
        /\ \A p \in CanvasPixel : In(p, area) => strokes[p] = 1 /\ painter[p] = BACKDROP
        /\ \A p \in CanvasPixel : ~In(p, area) => strokes[p] = 0
    BY <1>2, <1>4 DEF CompositorInit, SceneOK, WindowIndex
  <2>2. JobsOK
    BY <2>1 DEF JobsOK
  <2>3. \A p : TopWindow(p) = BACKDROP
    BY <2>1, TopIsBackdrop
  <2>4. CanvasOK
    BY <1>3, <2>1, <2>3 DEF CanvasOK
  <2> QED
    BY <1>2, <2>2, <2>4 DEF CompositorInv
<1>5. CASE WindowCount # 0
  <2> DEFINE call == <<1, area>>
  <2>1. call \in WindowIndex \X ScreenRect /\ call[1] = 1 /\ call[2] = area
    BY <1>2, <1>5, ScreenAssumption DEF SceneOK, WindowIndex
  <2>2. jobs = <<call>> /\ \A p \in CanvasPixel : strokes[p] = 0
    BY <1>5 DEF CompositorInit
  <2> HIDE DEF call
  <2>3. jobs \in Seq(WindowIndex \X ScreenRect) /\ Len(jobs) = 1 /\ jobs[1] = call
    BY <2>1, <2>2
  <2>4. \A i \in 1 .. Len(jobs) : i = 1 /\ jobs[i][1] = 1 /\ jobs[i][2] = area
    BY <2>1, <2>3
  <2>5. \A v \in visible : ~(v < 1)
    BY <1>2, ScreenAssumption DEF SceneOK, WindowIndex
  <2>6. JobsOK
    BY <1>2, <2>3, <2>4, <2>5 DEF JobsOK
  <2>7. 1 \in 1 .. Len(jobs)
    BY <2>3
  <2>8. CanvasOK
    BY <1>3, <2>2, <2>4, <2>7 DEF CanvasOK
  <2> QED
    BY <1>2, <2>6, <2>8 DEF CompositorInv
<1> QED
  BY <1>4, <1>5

\* For every screen, any number of windows and every rectangle to update, draw_windows_helper()
\* draws each pixel once at the most and with the topmost visible window, and the calls that
\* are still to come cover what is left.
THEOREM RepaintCorrect == CompositorSpec => []PaintsRight
<1>1. CompositorInit => CompositorInv
  BY CompositorStart
<1>2. CompositorInv /\ [CompositorNext]_compositorVars => CompositorInv'
  <2>1. CASE UNCHANGED compositorVars
    BY <2>1 DEF CompositorInv, SceneOK, JobsOK, CanvasOK, TopWindow, compositorVars
  <2> QED
    BY <2>1, NullUpdateKeeps, SkipWindowKeeps, DrawWindowKeeps DEF CompositorNext
<1>3. CompositorInv => PaintsRight
  <2> SUFFICES ASSUME CompositorInv PROVE PaintsRight
    OBVIOUS
  <2>1. CompositorTypeOK
    BY DEF CompositorInv, SceneOK, JobsOK, CanvasOK, CompositorTypeOK
  <2>2. PaintsTopmost
    BY DEF CompositorInv, CanvasOK, PaintsTopmost
  <2>3. NothingForgotten
    BY <2>1 DEF CompositorInv, CanvasOK, NothingForgotten
  <2> QED
    BY <2>2, <2>3 DEF PaintsRight
<1> QED
  BY <1>1, <1>2, <1>3, PTL DEF CompositorSpec
-----------------------------------------------------------------------------
(***************************************************************************)
(* The painter.                                                            *)
(***************************************************************************)

\* The smaller and the larger of two numbers.
LEMMA OfTwo ==
  ASSUME NEW a \in Int, NEW b \in Int
  PROVE  /\ Min({a, b}) = IF a <= b THEN a ELSE b
         /\ Max({a, b}) = IF a <= b THEN b ELSE a
<1>1. Min({a, b}) \in {a, b} /\ Min({a, b}) <= a /\ Min({a, b}) <= b
  <2>1. \E m \in {a, b} : \A y \in {a, b} : m <= y
    OBVIOUS
  <2> QED
    BY <2>1 DEF Min
<1>2. Max({a, b}) \in {a, b} /\ Max({a, b}) >= a /\ Max({a, b}) >= b
  <2>1. \E m \in {a, b} : \A y \in {a, b} : m >= y
    OBVIOUS
  <2> QED
    BY <2>1 DEF Max
<1> QED
  BY <1>1, <1>2

\* The clipping lies inside the buffer, unless it is empty.
ClipInv ==
  /\ m_clipping = Box(m_clipping.x_min, m_clipping.y_min, m_clipping.x_max, m_clipping.y_max)
  /\ m_clipping.x_min \in Nat /\ m_clipping.y_min \in Nat
  /\ m_clipping.x_max \in Int /\ m_clipping.x_max < m_width
  /\ m_clipping.y_max \in Int /\ m_clipping.y_max < m_height

\* What draw_pixel() leaves of pixels is their part in the clipping.
LEMMA PixelsDrawn ==
  ASSUME ClipInv, NEW S, S \subseteq Int \X Int
  PROVE  draw_pixel(S) = ClipArea \cap S
<1>1. ASSUME NEW p \in Int \X Int
      PROVE  p \in ClipArea <=> /\ m_clipping.x_min <= p[1] /\ p[1] <= m_clipping.x_max
                               /\ m_clipping.y_min <= p[2] /\ p[2] <= m_clipping.y_max
  BY DEF ClipInv, ClipArea
<1> QED
  BY <1>1 DEF draw_pixel

\* The clipping is a part of the buffer.
LEMMA ClipInBuffer ==
  ASSUME ClipInv
  PROVE  ClipArea \subseteq Rectangle(0, 0, m_width, m_height)
BY BufferAssumption DEF ClipInv, ClipArea, Rectangle

\* fill_rect(): the counters never wrap where the clipping leaves something.
LEMMA FillPaints ==
  ASSUME ClipInv, NEW x \in Coord, NEW y \in Coord, NEW w \in Extent, NEW h \in Extent
  PROVE  /\ fill_rect(x, y, w, h) \subseteq ClipArea
         /\ x >= m_clipping.x_min /\ y >= m_clipping.y_min /\ w >= 0 /\ h >= 0 =>
              fill_rect(x, y, w, h) = ClipArea \cap Rectangle(x, y, w, h)
<1> DEFINE c == m_clipping
           left == Max({c.x_min, x})
           top == Max({c.y_min, y})
           clipped_w == Min({c.x_max - c.x_min + 1, w})
           clipped_h == Min({c.y_max - c.y_min + 1, h})
           half == WORD \div 2
<1>1. /\ x \in Int /\ y \in Int /\ w \in Int /\ h \in Int /\ half \in Nat /\ WORD \in Nat /\ 2 * half <= WORD
      /\ x < half /\ y < half /\ m_width < half /\ m_height < half /\ 0 < WORD
  BY BufferAssumption, ArgumentAssumption DEF Number
<1>2. /\ c.x_min \in Nat /\ c.y_min \in Nat /\ c.x_max \in Int /\ c.x_max < m_width
      /\ c.y_max \in Int /\ c.y_max < m_height /\ m_width \in Nat /\ m_height \in Nat
  BY BufferAssumption DEF ClipInv
<1>3. /\ left \in Int /\ top \in Int /\ clipped_w \in Int /\ clipped_h \in Int
      /\ x >= c.x_min => left = x
      /\ y >= c.y_min => top = y
      /\ w <= c.x_max - c.x_min + 1 => clipped_w = w
      /\ ~(w <= c.x_max - c.x_min + 1) => clipped_w = c.x_max - c.x_min + 1
      /\ h <= c.y_max - c.y_min + 1 => clipped_h = h
      /\ ~(h <= c.y_max - c.y_min + 1) => clipped_h = c.y_max - c.y_min + 1
  <2> DEFINE across == c.x_max - c.x_min + 1
             down == c.y_max - c.y_min + 1
  <2>1. across \in Int /\ down \in Int
    BY <1>2
  <2>2. left = IF c.x_min <= x THEN x ELSE c.x_min
    <3> DEFINE a == c.x_min
    <3>1. a \in Int /\ left = Max({a, x})
      BY <1>2
    <3> HIDE DEF a, left
    <3> QED
      BY <1>1, <3>1, OfTwo DEF a
  <2>3. top = IF c.y_min <= y THEN y ELSE c.y_min
    <3> DEFINE a == c.y_min
    <3>1. a \in Int /\ top = Max({a, y})
      BY <1>2
    <3> HIDE DEF a, top
    <3> QED
      BY <1>1, <3>1, OfTwo DEF a
  <2> HIDE DEF across, down
  <2>4. Min({across, w}) = IF across <= w THEN across ELSE w
    BY <1>1, <2>1, OfTwo
  <2>5. Min({down, h}) = IF down <= h THEN down ELSE h
    BY <1>1, <2>1, OfTwo
  <2>6. clipped_w = Min({across, w}) /\ clipped_h = Min({down, h})
    BY DEF across, down
  <2> HIDE DEF left, top, clipped_w, clipped_h
  <2>7. clipped_w \in Int /\ clipped_h \in Int /\ left \in Int /\ top \in Int
    BY <1>1, <1>2, <2>1, <2>2, <2>3, <2>4, <2>5, <2>6
  <2>8. (w <= across => clipped_w = w) /\ (~(w <= across) => clipped_w = across)
    BY <1>1, <2>1, <2>4, <2>6
  <2>9. (h <= down => clipped_h = h) /\ (~(h <= down) => clipped_h = down)
    BY <1>1, <2>1, <2>5, <2>6
  <2>10. (x >= c.x_min => left = x) /\ (y >= c.y_min => top = y)
    BY <1>1, <1>2, <2>2, <2>3
  <2> QED
    BY <2>7, <2>8, <2>9, <2>10 DEF across, down
<1>4. fill_rect(x, y, w, h) = draw_pixel(counter(left, left + clipped_w) \X counter(top, top + clipped_h))
  BY DEF fill_rect
<1> HIDE DEF left, top, clipped_w, clipped_h, half
<1>5. ASSUME NEW a \in Int, NEW b \in Int PROVE counter(a, b) \subseteq Int
  BY <1>1 DEF counter
<1>6. fill_rect(x, y, w, h) = ClipArea \cap (counter(left, left + clipped_w) \X counter(top, top + clipped_h))
  BY <1>3, <1>4, <1>5, PixelsDrawn
<1>7. ASSUME NEW a \in Nat, NEW m \in Nat, a + m < WORD, NEW i \in Int, i < half
      PROVE  i \in counter(a, a + m) <=> i \in a .. a + m - 1
  <2>1. (a + m) % WORD = a + m
    BY <1>1, <1>7
  <2> QED
    BY <1>1, <1>7, <2>1 DEF counter, half
<1>8. ASSUME x >= c.x_min, y >= c.y_min, w >= 0, h >= 0, NEW i \in c.x_min .. c.x_max, NEW j \in c.y_min .. c.y_max
      PROVE  /\ i \in counter(left, left + clipped_w) <=> i \in x .. x + w - 1
             /\ j \in counter(top, top + clipped_h) <=> j \in y .. y + h - 1
  <2>1. /\ i \in Int /\ i < half /\ j \in Int /\ j < half /\ left = x /\ top = y /\ left \in Nat /\ top \in Nat
        /\ clipped_w \in Nat /\ clipped_h \in Nat /\ left + clipped_w < WORD /\ top + clipped_h < WORD
    BY <1>1, <1>2, <1>3, <1>8
  <2>2. /\ i \in counter(left, left + clipped_w) <=> i \in left .. left + clipped_w - 1
        /\ j \in counter(top, top + clipped_h) <=> j \in top .. top + clipped_h - 1
    BY <1>7, <2>1
  <2>3. i \in left .. left + clipped_w - 1 <=> i \in x .. x + w - 1
    BY <1>1, <1>2, <1>3, <1>8, <2>1
  <2>4. j \in top .. top + clipped_h - 1 <=> j \in y .. y + h - 1
    BY <1>1, <1>2, <1>3, <1>8, <2>1
  <2> QED
    BY <2>2, <2>3, <2>4
<1>9. ASSUME x >= c.x_min, y >= c.y_min, w >= 0, h >= 0
      PROVE  fill_rect(x, y, w, h) = ClipArea \cap Rectangle(x, y, w, h)
  BY <1>6, <1>8, <1>9 DEF ClipArea, Rectangle
<1> QED
  BY <1>6, <1>9

\* blit(): no index of a row of the rectangle is in another row of the buffer.
LEMMA BlitPaints ==
  ASSUME NEW x \in Coord \cap Nat, NEW y \in Coord \cap Nat, NEW w \in Extent \cap Nat, NEW h \in Extent \cap Nat,
         x + w <= m_width, y + h <= m_height
  PROVE  blit(x, y, w, h) = Rectangle(x, y, w, h)
<1>1. ASSUME NEW u \in Nat, NEW v \in Nat, u < m_width
      PROVE  (u + m_width * v) % m_width = u /\ (u + m_width * v) \div m_width = v
  <2> DEFINE n == m_width
             k == u + n * v
             q == k \div n
  <2>1. n \in Nat \ {0} /\ n * v \in Nat /\ k \in Nat
    BY BufferAssumption
  <2>2. q \in Nat /\ q * n \in Nat /\ k % n = k - q * n /\ q * n <= k /\ k < q * n + n
    <3> HIDE DEF k, n
    <3>1. q \in Nat /\ k % n \in 0 .. n - 1 /\ k = q * n + (k % n) /\ q * n \in Nat
      BY <2>1
    <3> HIDE DEF q
    <3> QED
      BY <2>1, <3>1
  <2> HIDE DEF q
  <2>3. q = v
    <3>1. v < q => v * n + n <= q * n
      BY <2>1, <2>2, PagesInOrder
    <3>2. q < v => q * n + n <= v * n
      BY <2>1, <2>2, PagesInOrder
    <3>3. v * n = n * v /\ u < n
      BY <2>1, <1>1
    <3> QED
      BY <2>1, <2>2, <3>1, <3>2, <3>3
  <2> QED
    BY <2>1, <2>2, <2>3 DEF q
<1>2. ASSUME NEW a \in 0 .. w - 1, NEW b \in 0 .. h - 1
      PROVE  LET i == (x + a) + m_width * (y + b) IN <<i % m_width, i \div m_width>> = <<x + a, y + b>>
  <2>1. x + a \in Nat /\ y + b \in Nat /\ x + a < m_width
    BY BufferAssumption
  <2> QED
    BY <1>1, <2>1
<1>3. blit(x, y, w, h) = {<<x + a, y + b>> : a \in 0 .. w - 1, b \in 0 .. h - 1}
  BY <1>2 DEF blit
<1>4. ASSUME NEW p \in Rectangle(x, y, w, h)
      PROVE  \E a \in 0 .. w - 1, b \in 0 .. h - 1 : p = <<x + a, y + b>>
  <2>1. p[1] - x \in 0 .. w - 1 /\ p[2] - y \in 0 .. h - 1 /\ p = <<x + (p[1] - x), y + (p[2] - y)>>
    BY DEF Rectangle
  <2> QED
    BY <2>1
<1> QED
  BY <1>3, <1>4 DEF Rectangle

\* Where a quotient of draw_line() lies: the exact one, cut towards zero.
LEMMA Slope ==
  ASSUME NEW a \in Int, NEW b \in Int, b # 0, magnitude_of(a) <= magnitude_of(b), NEW t \in 0 .. magnitude_of(b)
  PROVE  LET q == quotient(a * t, b)
             end == IF b > 0 THEN a ELSE -a
         IN /\ q \in Int /\ ((0 <= q /\ q <= end) \/ (end <= q /\ q <= 0))
            /\ magnitude_of(b * q - a * t) < magnitude_of(b)
            /\ t = 0 => q = 0
            /\ t = magnitude_of(b) => q = end
<1> DEFINE m == magnitude_of(a)
           n == magnitude_of(b)
           d == (m * t) \div n
           q == quotient(a * t, b)
           end == IF b > 0 THEN a ELSE -a
<1>1. m \in Nat /\ n \in Nat \ {0} /\ t \in Nat /\ t <= n /\ m <= n
  BY DEF magnitude_of
<1>2. m * t \in Nat /\ m * t <= m * n /\ m * n \in Nat
  <2> HIDE DEF m, n
  <2>1. n - t \in Nat
    BY <1>1
  <2>2. m * (n - t) \in Nat /\ m * (n - t) = m * n - m * t /\ m * t \in Nat /\ m * n \in Nat
    BY <1>1, <2>1
  <2> QED
    BY <2>2
<1>3. d \in Nat /\ d * n \in Nat /\ d * n <= m * t /\ m * t < d * n + n
  <2> DEFINE k == m * t
  <2>1. k \in Nat /\ n \in Nat \ {0}
    BY <1>1, <1>2
  <2> HIDE DEF k, n
  <2>2. k \div n \in Nat /\ (k \div n) * n <= k /\ k < (k \div n) * n + n
    BY <2>1, PageOfAddress
  <2>3. (k \div n) * n \in Nat
    BY <2>1, <2>2
  <2> QED
    BY <2>2, <2>3 DEF k
<1>4. d <= m /\ (t = 0 => d = 0) /\ (t = n => d = m)
  <2> HIDE DEF d, m, n
  <2>1. m < d => m * n + n <= d * n
    BY <1>1, <1>3, PagesInOrder
  <2>2. d < m => d * n + n <= m * n
    BY <1>1, <1>3, PagesInOrder
  <2>3. d <= m
    BY <1>1, <1>2, <1>3, <2>1
  <2>4. t = n => d = m
    BY <1>1, <1>2, <1>3, <2>2, <2>3
  <2>5. t = 0 => d = 0
    <3>1. 0 < d => 0 * n + n <= d * n
      BY <1>1, <1>3, PagesInOrder
    <3> QED
      BY <1>1, <1>2, <1>3, <3>1
  <2> QED
    BY <2>3, <2>4, <2>5
<1>5. magnitude_of(a * t) = m * t /\ ((a * t < 0) <=> (a < 0 /\ t # 0)) /\ a * t \in Int
  <2>1. CASE a < 0
    <3>1. m = -a /\ a * t = -(m * t) /\ (t # 0 => m * t > 0)
      BY <1>1, <2>1 DEF magnitude_of
    <3> QED
      BY <1>2, <2>1, <3>1 DEF magnitude_of
  <2>2. CASE ~(a < 0)
    <3>1. m = a /\ a * t \in Nat
      BY <1>1, <1>2, <2>2 DEF magnitude_of
    <3> QED
      BY <2>2, <3>1 DEF magnitude_of
  <2> QED
    BY <2>1, <2>2
<1>6. /\ (a * t < 0 <=> b < 0) => q = d
      /\ ~(a * t < 0 <=> b < 0) => q = -d
      /\ b < 0 => end = -a
      /\ ~(b < 0) => end = a
  <2>1. q = IF (a * t < 0) = (b < 0) THEN d ELSE -d
    BY <1>5 DEF quotient
  <2> HIDE DEF d, q
  <2> QED
    BY <2>1
<1>7. b = IF b < 0 THEN -n ELSE n
  BY DEF magnitude_of
<1>8. a = IF a < 0 THEN -m ELSE m
  BY DEF magnitude_of
<1>9. \/ a * t < 0 /\ a = -m /\ a * t = -(m * t) /\ b < 0 /\ b = -n /\ q = d /\ end = m /\ b * q = -(d * n)
      \/ a * t < 0 /\ a = -m /\ a * t = -(m * t) /\ ~(b < 0) /\ b = n /\ q = -d /\ end = -m /\ b * q = -(d * n)
      \/ ~(a * t < 0) /\ a * t = m * t /\ a = m /\ b < 0 /\ b = -n /\ q = -d /\ end = -m /\ b * q = d * n
      \/ ~(a * t < 0) /\ a * t = m * t /\ a = m /\ ~(b < 0) /\ b = n /\ q = d /\ end = m /\ b * q = d * n
      \/ t = 0 /\ a * t = 0 /\ q = 0 /\ b * q = 0 /\ d = 0 /\ (end = m \/ end = -m)
  <2>1. CASE a * t < 0
    <3>1. a < 0 /\ a = -m /\ a * t = -(m * t)
      BY <1>1, <1>5, <1>8, <2>1 DEF magnitude_of
    <3>2. CASE b < 0
      <4>1. b = -n /\ q = d
        BY <1>6, <1>7, <2>1, <3>1, <3>2
      <4>2. end = -a
        BY <1>6, <3>2
      <4>3. end = m
        <5> HIDE DEF m, end
        <5> QED
          BY <1>1, <3>1, <4>2
      <4>4. b * q = -(d * n)
        <5> HIDE DEF d, n, q
        <5> QED
          BY <1>1, <1>3, <4>1
      <4> QED
        BY <2>1, <3>1, <3>2, <4>1, <4>3, <4>4
    <3>3. CASE ~(b < 0)
      <4>1. b = n /\ q = -d /\ end = -m
        BY <1>6, <1>7, <2>1, <3>1, <3>3
      <4>2. b * q = -(d * n)
        <5> HIDE DEF d, n, q
        <5> QED
          BY <1>1, <1>3, <4>1
      <4> QED
        BY <2>1, <3>1, <3>3, <4>1, <4>2
    <3> QED
      BY <3>2, <3>3
  <2>2. CASE ~(a * t < 0) /\ t # 0
    <3>1. ~(a < 0) /\ a = m /\ a * t = m * t
      BY <1>1, <1>5, <1>8, <2>2
    <3>2. CASE b < 0
      <4>1. b = -n /\ q = -d /\ end = -m
        BY <1>6, <1>7, <2>2, <3>1, <3>2
      <4>2. b * q = d * n
        <5> HIDE DEF d, n, q
        <5> QED
          BY <1>1, <1>3, <4>1
      <4> QED
        BY <2>2, <3>1, <3>2, <4>1, <4>2
    <3>3. CASE ~(b < 0)
      <4>1. b = n /\ q = d /\ end = m
        BY <1>6, <1>7, <2>2, <3>1, <3>3
      <4>2. b * q = d * n
        <5> HIDE DEF d, n, q
        <5> QED
          BY <1>1, <1>3, <4>1
      <4> QED
        BY <2>2, <3>1, <3>3, <4>1, <4>2
    <3> QED
      BY <3>2, <3>3
  <2>3. CASE t = 0
    <3>1. a * t = 0 /\ d = 0
      BY <1>4, <2>3
    <3>2. q = 0
      BY <1>3, <1>6, <3>1
    <3>3. b * q = 0
      BY <3>2
    <3>4. end = m \/ end = -m
      <4> HIDE DEF m, n, d, q, end
      <4> QED
        BY <1>1, <1>6, <1>8
    <3> QED
      BY <2>3, <3>1, <3>2, <3>3, <3>4
  <2> QED
    BY <2>1, <2>2, <2>3
<1> HIDE DEF d, q, m, n, end
<1>10. /\ q \in Int /\ ((0 <= q /\ q <= end) \/ (end <= q /\ q <= 0))
       /\ t = 0 => q = 0
       /\ t = n => q = end
  <2>1. \/ q = d /\ end = m
        \/ q = -d /\ end = -m
        \/ q = 0 /\ d = 0 /\ t = 0 /\ (end = m \/ end = -m)
    BY <1>9
  <2> QED
    BY <1>1, <1>3, <1>4, <2>1
<1>11. b * q - a * t = d * n - m * t \/ b * q - a * t = m * t - d * n \/ b * q - a * t = 0
  BY <1>2, <1>3, <1>9
<1>12. magnitude_of(b * q - a * t) < n
  BY <1>1, <1>2, <1>3, <1>11 DEF magnitude_of
<1> QED
  BY <1>10, <1>12 DEF q, n, end

\* The line from <<u1, v1>> to <<u2, v2>>, where u is along its longer side: what draw_line() computes at u,
\* from the end where u is smaller, and what is wanted of it.
Computed(u1, v1, u2, v2, u) ==
  quotient((v2 - v1) * (u - IF u1 > u2 THEN u2 ELSE u1), u2 - u1) + IF u1 > u2 THEN v2 ELSE v1
IsNear(u1, v1, u2, v2, u, v) ==
  /\ v \in Int /\ v \in Min({v1, v2}) .. Max({v1, v2})
  /\ magnitude_of((u2 - u1) * (v - v1) - (v2 - v1) * (u - u1)) < magnitude_of(u2 - u1)
  /\ u = u1 => v = v1
  /\ u = u2 => v = v2

\* One step of a line.
LEMMA LineStep ==
  ASSUME NEW u1 \in Int, NEW v1 \in Int, NEW u2 \in Int, NEW v2 \in Int, u1 # u2,
         magnitude_of(v2 - v1) <= magnitude_of(u2 - u1), NEW u \in Min({u1, u2}) .. Max({u1, u2})
  PROVE  IsNear(u1, v1, u2, v2, u, Computed(u1, v1, u2, v2, u))
<1> DEFINE s == IF u1 > u2 THEN u2 ELSE u1
           r == IF u1 > u2 THEN v2 ELSE v1
           v == Computed(u1, v1, u2, v2, u)
           a == v2 - v1
           b == u2 - u1
           t == u - s
           q == quotient(a * t, b)
           end == IF b > 0 THEN a ELSE -a
<1>1. a \in Int /\ b \in Int /\ b # 0 /\ magnitude_of(a) <= magnitude_of(b) /\ u \in Int /\ s \in Int /\ r \in Int
  <2>1. Min({u1, u2}) \in Int /\ Max({u1, u2}) \in Int
    BY OfTwo
  <2> QED
    BY <2>1
<1>2. t \in 0 .. magnitude_of(b) /\ (u = s => t = 0) /\ (u = u1 /\ u1 # s => t = magnitude_of(b))
      /\ (u = u2 /\ u2 # s => t = magnitude_of(b))
  <2>1. IF u1 <= u2 THEN u \in u1 .. u2 ELSE u \in u2 .. u1
    BY OfTwo
  <2>2. b > 0 <=> ~(u1 > u2)
    OBVIOUS
  <2>3. magnitude_of(b) = IF u1 > u2 THEN u1 - u2 ELSE u2 - u1
    BY DEF magnitude_of
  <2> QED
    BY <1>1, <2>1, <2>2, <2>3
<1>3. /\ q \in Int /\ ((0 <= q /\ q <= end) \/ (end <= q /\ q <= 0))
      /\ magnitude_of(b * q - a * t) < magnitude_of(b)
      /\ t = 0 => q = 0
      /\ t = magnitude_of(b) => q = end
  <2> HIDE DEF a, b, t
  <2> QED
    BY <1>1, <1>2, Slope
<1>0. v = q + r
  BY DEF Computed
<1>4. end = IF u1 > u2 THEN -a ELSE a
  BY <1>1
<1> HIDE DEF q, end, v
<1>5. v \in Min({v1, v2}) .. Max({v1, v2})
  <2>1. IF v1 <= v2 THEN v1 <= v /\ v <= v2 ELSE v2 <= v /\ v <= v1
    BY <1>0, <1>1, <1>3, <1>4
  <2>2. Min({v1, v2}) = (IF v1 <= v2 THEN v1 ELSE v2) /\ Max({v1, v2}) = (IF v1 <= v2 THEN v2 ELSE v1)
    BY OfTwo
  <2>3. v \in Int
    BY <1>0, <1>1, <1>3
  <2> QED
    BY <2>1, <2>2, <2>3
<1>6. (u = u1 => v = v1) /\ (u = u2 => v = v2)
  BY <1>0, <1>1, <1>2, <1>3, <1>4
<1>7. b * (v - v1) - a * (u - u1) = b * q - a * t
  <2>1. CASE ~(u1 > u2)
    <3>1. v - v1 = q /\ u - u1 = t
      BY <1>0, <1>1, <1>3, <2>1
    <3> QED
      BY <3>1
  <2>2. CASE u1 > u2
    <3>1. v - v1 = q + a /\ u - u1 = t + b
      BY <1>0, <1>1, <1>3, <2>2
    <3>2. t \in Int
      BY <1>1
    <3> HIDE DEF a, b, t
    <3>3. b * (q + a) = b * q + b * a /\ a * (t + b) = a * t + a * b /\ a * b = b * a /\ b * q \in Int /\ a * t \in Int
          /\ a * b \in Int
      BY <1>1, <1>3, <3>2
    <3> QED
      BY <3>1, <3>3
  <2> QED
    BY <2>1, <2>2
<1>8. v \in Int
  BY <1>0, <1>1, <1>3
<1> QED
  BY <1>3, <1>5, <1>6, <1>7, <1>8 DEF v, IsNear

\* The ends of a line.
Ends(c) == c.x1 \in Int /\ c.y1 \in Int /\ c.x2 \in Int /\ c.y2 \in Int

\* A line that is longer than it is high.
LEMMA WideLine ==
  ASSUME NEW c, Ends(c), magnitude_of(c.x2 - c.x1) > magnitude_of(c.y2 - c.y1)
  PROVE  \E r \in [Min({c.x1, c.x2}) .. Max({c.x1, c.x2}) -> Int] :
           /\ draw_line(c.x1, c.y1, c.x2, c.y2) = draw_pixel({<<x, r[x]>> : x \in Min({c.x1, c.x2}) .. Max({c.x1, c.x2})})
           /\ r[c.x1] = c.y1 /\ r[c.x2] = c.y2
           /\ \A x \in Min({c.x1, c.x2}) .. Max({c.x1, c.x2}) : <<x, r[x]>> \in NearLine(c)
<1> DEFINE x1 == c.x1
           y1 == c.y1
           x2 == c.x2
           y2 == c.y2
           D == Min({x1, x2}) .. Max({x1, x2})
           left == IF x1 > x2 THEN <<x2, y2>> ELSE <<x1, y1>>
           r == [x \in D |-> quotient((y2 - y1) * (x - left[1]), x2 - x1) + left[2]]
<1>1. x1 \in Int /\ y1 \in Int /\ x2 \in Int /\ y2 \in Int
  BY DEF Ends
<1>2. magnitude_of(x2 - x1) > magnitude_of(y2 - y1) /\ magnitude_of(x2 - x1) \in Nat /\ magnitude_of(y2 - y1) \in Nat
  BY <1>1 DEF magnitude_of
<1>3. x1 # x2 /\ x2 - x1 # 0
  BY <1>1, <1>2 DEF magnitude_of
<1>4. draw_line(x1, y1, x2, y2) = draw_pixel({<<x, r[x]>> : x \in D})
  BY <1>2, <1>3 DEF draw_line
<1>5. left[1] = (IF x1 > x2 THEN x2 ELSE x1) /\ left[2] = (IF x1 > x2 THEN y2 ELSE y1)
  OBVIOUS
<1>6. ASSUME NEW x \in D
      PROVE  /\ r[x] \in Min({y1, y2}) .. Max({y1, y2})
             /\ magnitude_of((x2 - x1) * (r[x] - y1) - (y2 - y1) * (x - x1)) < magnitude_of(x2 - x1)
             /\ x = x1 => r[x] = y1
             /\ x = x2 => r[x] = y2
  <2>1. r[x] = Computed(x1, y1, x2, y2, x)
    BY <1>5 DEF Computed
  <2>2. magnitude_of(y2 - y1) <= magnitude_of(x2 - x1)
    BY <1>2
  <2> HIDE DEF x1, x2, y1, y2, r
  <2>3. IsNear(x1, y1, x2, y2, x, Computed(x1, y1, x2, y2, x))
    BY <1>1, <1>3, <2>2, LineStep
  <2> QED
    BY <2>1, <2>3 DEF IsNear
<1>7. x1 \in D /\ x2 \in D /\ Min({y1, y2}) \in Int /\ Max({y1, y2}) \in Int
  <2> HIDE DEF x1, x2, y1, y2
  <2> QED
    BY <1>1, OfTwo
<1>8. r \in [D -> Int]
  <2>1. \A x \in D : r[x] \in Int
    BY <1>6, <1>7
  <2> QED
    BY <2>1
<1>9. Max({1, magnitude_of(x2 - x1), magnitude_of(y2 - y1)}) = magnitude_of(x2 - x1)
  <2> DEFINE m == magnitude_of(x2 - x1)
             n == magnitude_of(y2 - y1)
  <2>1. m \in Nat /\ n \in Nat /\ n < m
    BY <1>2
  <2> HIDE DEF m, n
  <2>2. m \in {1, m, n} /\ \A y \in {1, m, n} : m >= y
    BY <2>1
  <2>3. \A k \in {1, m, n} : (\A y \in {1, m, n} : k >= y) => k = m
    BY <2>1
  <2> QED
    BY <2>2, <2>3 DEF Max, m, n
<1> HIDE DEF r
<1>10. ASSUME NEW x \in D PROVE <<x, r[x]>> \in NearLine(c)
  BY <1>6, <1>9 DEF NearLine
<1> QED
  BY <1>4, <1>6, <1>7, <1>8, <1>10

\* A line that is at least as high as it is long, a point included.
LEMMA SteepLine ==
  ASSUME NEW c, Ends(c), ~(magnitude_of(c.x2 - c.x1) > magnitude_of(c.y2 - c.y1))
  PROVE  \E r \in [Min({c.y1, c.y2}) .. Max({c.y1, c.y2}) -> Int] :
           /\ draw_line(c.x1, c.y1, c.x2, c.y2) = draw_pixel({<<r[y], y>> : y \in Min({c.y1, c.y2}) .. Max({c.y1, c.y2})})
           /\ r[c.y1] = c.x1 /\ r[c.y2] = c.x2
           /\ \A y \in Min({c.y1, c.y2}) .. Max({c.y1, c.y2}) : <<r[y], y>> \in NearLine(c)
<1> DEFINE x1 == c.x1
           y1 == c.y1
           x2 == c.x2
           y2 == c.y2
           D == Min({y1, y2}) .. Max({y1, y2})
           top == IF y1 > y2 THEN <<x2, y2>> ELSE <<x1, y1>>
           r == IF y1 = y2 THEN [y \in D |-> x1]
                ELSE [y \in D |-> quotient((x2 - x1) * (y - top[2]), y2 - y1) + top[1]]
<1>1. x1 \in Int /\ y1 \in Int /\ x2 \in Int /\ y2 \in Int
  BY DEF Ends
<1>2. ~(magnitude_of(x2 - x1) > magnitude_of(y2 - y1)) /\ magnitude_of(x2 - x1) \in Nat /\ magnitude_of(y2 - y1) \in Nat
  BY <1>1 DEF magnitude_of
<1>3. y1 = y2 => x1 = x2 /\ D = {y1}
  <2>1. y1 = y2 => x1 = x2
    BY <1>1, <1>2 DEF magnitude_of
  <2>2. y1 = y2 => D = {y1}
    <3> HIDE DEF y1, y2
    <3>1. y1 = y2 => Min({y1, y2}) = y1 /\ Max({y1, y2}) = y1
      BY <1>1, OfTwo
    <3> QED
      BY <1>1, <3>1
  <2> QED
    BY <2>1, <2>2
<1>4. draw_line(x1, y1, x2, y2) = draw_pixel({<<r[y], y>> : y \in D})
  <2>1. CASE y1 = y2
    <3>1. draw_line(x1, y1, x2, y2) = draw_pixel({<<x1, y1>>})
      BY <1>1, <1>3, <2>1 DEF draw_line
    <3>2. {<<r[y], y>> : y \in D} = {<<x1, y1>>}
      <4>1. r[y1] = x1
        BY <1>3, <2>1
      <4> HIDE DEF r
      <4> QED
        BY <1>3, <2>1, <4>1
    <3> QED
      BY <3>1, <3>2
  <2>2. CASE y1 # y2
    <3>1. y2 - y1 # 0
      BY <1>1, <2>2
    <3> QED
      BY <1>2, <2>2, <3>1 DEF draw_line
  <2> QED
    BY <2>1, <2>2
<1>5. top[2] = (IF y1 > y2 THEN y2 ELSE y1) /\ top[1] = (IF y1 > y2 THEN x2 ELSE x1)
  OBVIOUS
<1>6. ASSUME NEW y \in D
      PROVE  /\ r[y] \in Min({x1, x2}) .. Max({x1, x2})
             /\ magnitude_of((x2 - x1) * (y - y1) - (y2 - y1) * (r[y] - x1)) < Max({1, magnitude_of(x2 - x1), magnitude_of(y2 - y1)})
             /\ y = y1 => r[y] = x1
             /\ y = y2 => r[y] = x2
  <2> DEFINE m == magnitude_of(x2 - x1)
             n == magnitude_of(y2 - y1)
  <2>1. Max({1, m, n}) >= 1 /\ Max({1, m, n}) >= n /\ Max({1, m, n}) \in Nat
    <3>1. m \in Nat /\ n \in Nat /\ m <= n
      BY <1>2
    <3> HIDE DEF m, n
    <3>2. \E k \in {1, m, n} : \A z \in {1, m, n} : k >= z
      BY <3>1
    <3>3. Max({1, m, n}) \in {1, m, n} /\ \A z \in {1, m, n} : Max({1, m, n}) >= z
      BY <3>2 DEF Max
    <3> QED
      BY <3>1, <3>3
  <2>2. CASE y1 = y2
    <3>1. r[y] = x1 /\ y = y1 /\ x1 = x2
      BY <1>3, <2>2
    <3>2. x1 \in Min({x1, x2}) .. Max({x1, x2})
      <4> HIDE DEF x1, x2
      <4> QED
        BY <1>1, OfTwo
    <3>3. (x2 - x1) * (y - y1) - (y2 - y1) * (r[y] - x1) = 0
      BY <1>1, <3>1
    <3>4. magnitude_of(0) = 0
      BY DEF magnitude_of
    <3> HIDE DEF x1, x2, y1, y2, r
    <3> QED
      BY <2>1, <2>2, <3>1, <3>2, <3>3, <3>4
  <2>3. CASE y1 # y2
    <3>1. r[y] = Computed(y1, x1, y2, x2, y)
      BY <1>5, <2>3 DEF Computed
    <3>2. m <= n
      BY <1>2
    <3> HIDE DEF x1, x2, y1, y2, top, r
    <3>3. /\ r[y] \in Min({x1, x2}) .. Max({x1, x2})
          /\ magnitude_of((y2 - y1) * (r[y] - x1) - (x2 - x1) * (y - y1)) < n
          /\ y = y1 => r[y] = x1
          /\ y = y2 => r[y] = x2
      <4>1. IsNear(y1, x1, y2, x2, y, Computed(y1, x1, y2, x2, y))
        BY <1>1, <2>3, <3>2, LineStep
      <4> QED
        BY <3>1, <4>1 DEF IsNear
    <3>4. /\ (y2 - y1) * (r[y] - x1) \in Int /\ (x2 - x1) * (y - y1) \in Int
          /\ n \in Nat
      <4>1. r[y] \in Int /\ y \in Int
        <5>1. Min({x1, x2}) \in Int /\ Max({x1, x2}) \in Int /\ Min({y1, y2}) \in Int /\ Max({y1, y2}) \in Int
          BY <1>1, OfTwo
        <5> QED
          BY <3>3, <5>1
      <4>2. \A i, j \in Int : i * j \in Int
        OBVIOUS
      <4>3. y2 - y1 \in Int /\ r[y] - x1 \in Int /\ x2 - x1 \in Int /\ y - y1 \in Int
        BY <1>1, <4>1
      <4> QED
        BY <1>2, <4>2, <4>3
    <3>5. \A i, j \in Int : magnitude_of(i - j) = magnitude_of(j - i) /\ magnitude_of(i - j) \in Nat
      BY DEF magnitude_of
    <3>6. /\ magnitude_of((x2 - x1) * (y - y1) - (y2 - y1) * (r[y] - x1)) < n
          /\ magnitude_of((x2 - x1) * (y - y1) - (y2 - y1) * (r[y] - x1)) \in Nat
      BY <3>3, <3>4, <3>5
    <3> HIDE DEF m, n
    <3>7. magnitude_of((x2 - x1) * (y - y1) - (y2 - y1) * (r[y] - x1)) < Max({1, m, n})
      BY <2>1, <3>4, <3>6
    <3> QED
      BY <3>3, <3>7 DEF m, n
  <2> QED
    BY <2>2, <2>3
<1>7. y1 \in D /\ y2 \in D /\ Min({x1, x2}) \in Int /\ Max({x1, x2}) \in Int
  <2> HIDE DEF x1, x2, y1, y2, r
  <2>1. y1 \in D /\ y2 \in D
    <3>1. Min({y1, y2}) = (IF y1 <= y2 THEN y1 ELSE y2) /\ Max({y1, y2}) = (IF y1 <= y2 THEN y2 ELSE y1)
      BY <1>1, OfTwo
    <3> QED
      BY <1>1, <3>1
  <2>2. Min({x1, x2}) \in Int /\ Max({x1, x2}) \in Int
    BY <1>1, OfTwo
  <2> QED
    BY <2>1, <2>2
<1>8. r \in [D -> Int]
  <2>1. \A y \in D : r[y] \in Int
    BY <1>6, <1>7
  <2>2. r = [y \in D |-> r[y]]
    OBVIOUS
  <2> HIDE DEF r
  <2> QED
    BY <2>1, <2>2
<1> HIDE DEF r
<1>9. ASSUME NEW y \in D PROVE <<r[y], y>> \in NearLine(c)
  BY <1>6 DEF NearLine
<1> QED
  BY <1>4, <1>6, <1>7, <1>8, <1>9

\* What LineIsDrawn says of pixels.
IsDrawn(pixels, c) ==
  LET long == IF magnitude_of(c.x2 - c.x1) > magnitude_of(c.y2 - c.y1) THEN 1 ELSE 2
  IN /\ pixels \subseteq NearLine(c)
     /\ {<<c.x1, c.y1>>, <<c.x2, c.y2>>} \cap ClipArea \subseteq pixels
     /\ \A q \in NearLine(c) :
          LET step == {p \in NearLine(c) : p[long] = q[long]}
          IN step \subseteq ClipArea => Cardinality(step \cap pixels) = 1

\* A line is drawn from end to end, and within the clipping.
LEMMA LinePaints ==
  ASSUME ClipInv, NEW c, Ends(c)
  PROVE  /\ draw_line(c.x1, c.y1, c.x2, c.y2) \subseteq ClipArea
         /\ IsDrawn(draw_line(c.x1, c.y1, c.x2, c.y2), c)
<1> DEFINE drawn == draw_line(c.x1, c.y1, c.x2, c.y2)
           DX == Min({c.x1, c.x2}) .. Max({c.x1, c.x2})
           DY == Min({c.y1, c.y2}) .. Max({c.y1, c.y2})
<1>1. c.x1 \in DX /\ c.x2 \in DX /\ c.y1 \in DY /\ c.y2 \in DY /\ DX \subseteq Int /\ DY \subseteq Int
  <2> DEFINE x1 == c.x1
             y1 == c.y1
             x2 == c.x2
             y2 == c.y2
  <2>1. x1 \in Int /\ y1 \in Int /\ x2 \in Int /\ y2 \in Int
    BY DEF Ends
  <2> HIDE DEF x1, x2, y1, y2
  <2>2. Min({x1, x2}) = (IF x1 <= x2 THEN x1 ELSE x2) /\ Max({x1, x2}) = (IF x1 <= x2 THEN x2 ELSE x1)
    BY <2>1, OfTwo
  <2>3. Min({y1, y2}) = (IF y1 <= y2 THEN y1 ELSE y2) /\ Max({y1, y2}) = (IF y1 <= y2 THEN y2 ELSE y1)
    BY <2>1, OfTwo
  <2>4. x1 \in Min({x1, x2}) .. Max({x1, x2}) /\ x2 \in Min({x1, x2}) .. Max({x1, x2})
    BY <2>1, <2>2
  <2>5. y1 \in Min({y1, y2}) .. Max({y1, y2}) /\ y2 \in Min({y1, y2}) .. Max({y1, y2})
    BY <2>1, <2>3
  <2>6. Min({x1, x2}) .. Max({x1, x2}) \subseteq Int /\ Min({y1, y2}) .. Max({y1, y2}) \subseteq Int
    BY <2>1, <2>2, <2>3
  <2> QED
    BY <2>4, <2>5, <2>6 DEF x1, x2, y1, y2
<1>2. NearLine(c) \subseteq DX \X DY
  BY DEF NearLine
<1>3. CASE magnitude_of(c.x2 - c.x1) > magnitude_of(c.y2 - c.y1)
  <2>1. PICK r \in [DX -> Int] : /\ drawn = draw_pixel({<<x, r[x]>> : x \in DX})
                                 /\ r[c.x1] = c.y1 /\ r[c.x2] = c.y2
                                 /\ \A x \in DX : <<x, r[x]>> \in NearLine(c)
    BY <1>3, WideLine
  <2> HIDE DEF DX, DY, drawn
  <2> DEFINE line == {<<x, r[x]>> : x \in DX}
  <2>2. line \subseteq NearLine(c) /\ line \subseteq Int \X Int
    BY <1>1, <2>1
  <2>3. drawn = ClipArea \cap line
    BY <2>1, <2>2, PixelsDrawn
  <2>4. <<c.x1, c.y1>> \in line /\ <<c.x2, c.y2>> \in line
    BY <1>1, <2>1
  <2>5. ASSUME NEW q \in NearLine(c),
               NEW step, step = {p \in NearLine(c) : p[1] = q[1]}, step \subseteq ClipArea
        PROVE  Cardinality(step \cap drawn) = 1
    <3>1. q[1] \in DX
      BY <1>2
    <3>2. <<q[1], r[q[1]]>> \in step /\ <<q[1], r[q[1]]>> \in drawn
      BY <2>1, <2>3, <2>5, <3>1
    <3>3. \A p \in step \cap drawn : p = <<q[1], r[q[1]]>>
      BY <2>3, <2>5
    <3>4. step \cap drawn = {<<q[1], r[q[1]]>>}
      BY <3>2, <3>3
    <3> QED
      BY <3>4, FS_Singleton
  <2> QED
    BY <1>3, <2>2, <2>3, <2>4, <2>5 DEF IsDrawn, drawn
<1>4. CASE ~(magnitude_of(c.x2 - c.x1) > magnitude_of(c.y2 - c.y1))
  <2>1. PICK r \in [DY -> Int] : /\ drawn = draw_pixel({<<r[y], y>> : y \in DY})
                                 /\ r[c.y1] = c.x1 /\ r[c.y2] = c.x2
                                 /\ \A y \in DY : <<r[y], y>> \in NearLine(c)
    BY <1>4, SteepLine
  <2> HIDE DEF DX, DY, drawn
  <2> DEFINE line == {<<r[y], y>> : y \in DY}
  <2>2. line \subseteq NearLine(c) /\ line \subseteq Int \X Int
    BY <1>1, <2>1
  <2>3. drawn = ClipArea \cap line
    BY <2>1, <2>2, PixelsDrawn
  <2>4. <<c.x1, c.y1>> \in line /\ <<c.x2, c.y2>> \in line
    BY <1>1, <2>1
  <2>5. ASSUME NEW q \in NearLine(c),
               NEW step, step = {p \in NearLine(c) : p[2] = q[2]}, step \subseteq ClipArea
        PROVE  Cardinality(step \cap drawn) = 1
    <3>1. q[2] \in DY
      BY <1>2
    <3>2. <<r[q[2]], q[2]>> \in step /\ <<r[q[2]], q[2]>> \in drawn
      BY <2>1, <2>3, <2>5, <3>1
    <3>3. \A p \in step \cap drawn : p = <<r[q[2]], q[2]>>
      BY <2>3, <2>5
    <3>4. step \cap drawn = {<<r[q[2]], q[2]>>}
      BY <3>2, <3>3
    <3> QED
      BY <3>4, FS_Singleton
  <2> QED
    BY <1>4, <2>2, <2>3, <2>4, <2>5 DEF IsDrawn, drawn
<1> QED
  BY <1>3, <1>4

\* A line along a row, and along a column.
RowIsDrawn(x, y, n) == draw_line(x, y, x + n, y) = ClipArea \cap ((x .. x + n) \X {y})
ColumnIsDrawn(x, y, n) == draw_line(x, y, x, y + n) = ClipArea \cap ({x} \X (y .. y + n))

\* They are drawn as far as the clipping leaves them.
LEMMA StraightLines ==
  ASSUME ClipInv, NEW x \in Int, NEW y \in Int, NEW n \in Nat
  PROVE  RowIsDrawn(x, y, n) /\ ColumnIsDrawn(x, y, n)
<1>1. ASSUME NEW i \in Int PROVE Min({i, i}) .. Max({i, i}) = {i}
  <2>1. Min({i, i}) = i /\ Max({i, i}) = i
    BY OfTwo
  <2> QED
    BY <2>1
<1>2. ASSUME NEW i \in Int PROVE Min({i, i + n}) .. Max({i, i + n}) = i .. i + n
  <2> DEFINE j == i + n
  <2>1. j \in Int /\ i <= j
    OBVIOUS
  <2> HIDE DEF j
  <2>2. Min({i, j}) = i /\ Max({i, j}) = j
    BY <2>1, OfTwo
  <2> QED
    BY <2>2 DEF j
<1>3. draw_line(x, y, x + n, y) = ClipArea \cap ((x .. x + n) \X {y})
  <2> DEFINE c == [x1 |-> x, y1 |-> y, x2 |-> x + n, y2 |-> y]
  <2>1. c.x1 = x /\ c.y1 = y /\ c.x2 = x + n /\ c.y2 = y /\ Ends(c)
    BY DEF Ends
  <2>2. magnitude_of((x + n) - x) = n /\ magnitude_of(y - y) = 0
    BY DEF magnitude_of
  <2> HIDE DEF c
  <2>3. NearLine(c) \subseteq (x .. x + n) \X {y}
    BY <1>1, <1>2, <2>1 DEF NearLine
  <2>4. CASE n > 0
    <3>1. PICK r \in [x .. x + n -> Int] : /\ draw_line(x, y, x + n, y) = draw_pixel({<<u, r[u]>> : u \in x .. x + n})
                                           /\ \A u \in x .. x + n : <<u, r[u]>> \in NearLine(c)
      <4>1. magnitude_of(c.x2 - c.x1) > magnitude_of(c.y2 - c.y1)
        BY <2>1, <2>2, <2>4
      <4>2. Min({c.x1, c.x2}) .. Max({c.x1, c.x2}) = x .. x + n
        BY <1>2, <2>1
      <4> QED
        BY <2>1, <4>1, <4>2, WideLine
    <3>2. \A u \in x .. x + n : r[u] = y
      BY <2>3, <3>1
    <3>3. {<<u, r[u]>> : u \in x .. x + n} = (x .. x + n) \X {y}
      BY <3>2
    <3> QED
      BY <3>1, <3>3, PixelsDrawn
  <2>5. CASE n = 0
    <3>1. PICK r \in [{y} -> Int] : /\ draw_line(x, y, x + n, y) = draw_pixel({<<r[v], v>> : v \in {y}})
                                    /\ \A v \in {y} : <<r[v], v>> \in NearLine(c)
      <4>1. ~(magnitude_of(c.x2 - c.x1) > magnitude_of(c.y2 - c.y1))
        BY <2>1, <2>2, <2>5
      <4>2. Min({c.y1, c.y2}) .. Max({c.y1, c.y2}) = {y}
        BY <1>1, <2>1
      <4> QED
        BY <2>1, <4>1, <4>2, SteepLine
    <3>2. r[y] = x /\ x .. x + n = {x}
      BY <2>3, <2>5, <3>1
    <3>3. {<<r[v], v>> : v \in {y}} = (x .. x + n) \X {y}
      BY <3>2
    <3> QED
      BY <3>1, <3>3, PixelsDrawn
  <2> QED
    BY <2>4, <2>5
<1>4. draw_line(x, y, x, y + n) = ClipArea \cap ({x} \X (y .. y + n))
  <2> DEFINE c == [x1 |-> x, y1 |-> y, x2 |-> x, y2 |-> y + n]
  <2>1. c.x1 = x /\ c.y1 = y /\ c.x2 = x /\ c.y2 = y + n /\ Ends(c)
    BY DEF Ends
  <2>2. magnitude_of((y + n) - y) = n /\ magnitude_of(x - x) = 0
    BY DEF magnitude_of
  <2> HIDE DEF c
  <2>3. NearLine(c) \subseteq {x} \X (y .. y + n)
    BY <1>1, <1>2, <2>1 DEF NearLine
  <2>4. PICK r \in [y .. y + n -> Int] : /\ draw_line(x, y, x, y + n) = draw_pixel({<<r[v], v>> : v \in y .. y + n})
                                         /\ \A v \in y .. y + n : <<r[v], v>> \in NearLine(c)
    <3>1. ~(magnitude_of(c.x2 - c.x1) > magnitude_of(c.y2 - c.y1))
      BY <2>1, <2>2
    <3>2. Min({c.y1, c.y2}) .. Max({c.y1, c.y2}) = y .. y + n
      BY <1>2, <2>1
    <3> QED
      BY <2>1, <3>1, <3>2, SteepLine
  <2>5. \A v \in y .. y + n : r[v] = x
    BY <2>3, <2>4
  <2>6. {<<r[v], v>> : v \in y .. y + n} = {x} \X (y .. y + n)
    BY <2>5
  <2> QED
    BY <2>4, <2>6, PixelsDrawn
<1> QED
  BY <1>3, <1>4 DEF RowIsDrawn, ColumnIsDrawn

\* draw_rect(): the border of the rectangle, if it has an inside or at least a pixel.
LEMMA RectPaints ==
  ASSUME ClipInv, NEW x \in Int, NEW y \in Int, NEW w \in Int, NEW h \in Int
  PROVE  /\ draw_rect(x, y, w, h) \subseteq ClipArea
         /\ w > 0 /\ h > 0 => draw_rect(x, y, w, h) = ClipArea \cap Border(x, y, w, h)
<1>1. ASSUME NEW a \in Int, NEW b \in Int, NEW c \in Int, NEW d \in Int
      PROVE  draw_line(a, b, c, d) \subseteq ClipArea
  <2> DEFINE e == [x1 |-> a, y1 |-> b, x2 |-> c, y2 |-> d]
  <2>1. e.x1 = a /\ e.y1 = b /\ e.x2 = c /\ e.y2 = d /\ Ends(e)
    BY DEF Ends
  <2> HIDE DEF e
  <2> QED
    BY <2>1, LinePaints
<1>2. x + w - 1 \in Int /\ y + h - 1 \in Int
  OBVIOUS
<1>3. draw_rect(x, y, w, h) \subseteq ClipArea
  BY <1>1, <1>2 DEF draw_rect
<1>4. ASSUME w > 0, h > 0 PROVE draw_rect(x, y, w, h) = ClipArea \cap Border(x, y, w, h)
  <2> DEFINE m == w - 1
             n == h - 1
  <2>1. m \in Nat /\ n \in Nat /\ x + w - 1 = x + m /\ y + h - 1 = y + n
    BY <1>4
  <2>2. x + m \in Int /\ y + n \in Int
    BY <2>1
  <2> HIDE DEF m, n
  <2>3. RowIsDrawn(x, y, m) /\ ColumnIsDrawn(x, y, n) /\ RowIsDrawn(x, y + n, m) /\ ColumnIsDrawn(x + m, y, n)
    BY <2>1, <2>2, StraightLines
  <2>4. draw_rect(x, y, w, h) =
          ClipArea \cap (((x .. x + m) \X {y}) \cup ((x .. x + m) \X {y + n})
                           \cup ({x} \X (y .. y + n)) \cup ({x + m} \X (y .. y + n)))
    BY <2>1, <2>3 DEF draw_rect, RowIsDrawn, ColumnIsDrawn
  <2>5. ASSUME NEW u \in Int, NEW v \in Int
        PROVE  <<u, v>> \in Border(x, y, w, h) <=>
                 \/ u \in x .. x + m /\ (v = y \/ v = y + n)
                 \/ v \in y .. y + n /\ (u = x \/ u = x + m)
    BY <1>4 DEF Border, Rectangle, m, n
  <2>6. \A p \in ClipArea : p = <<p[1], p[2]>> /\ p[1] \in Int /\ p[2] \in Int
    BY DEF ClipArea, ClipInv
  <2>7. ASSUME NEW p \in ClipArea
        PROVE  p \in draw_rect(x, y, w, h) <=> p \in Border(x, y, w, h)
    <3>1. PICK u \in Int, v \in Int : p = <<u, v>>
      BY <2>6
    <3> QED
      BY <2>4, <2>5, <3>1
  <2> QED
    BY <1>3, <2>7
<1> QED
  BY <1>3, <1>4

\* A frame of two lines.
LEMMA FramePaints ==
  ASSUME ClipInv, NEW x \in Int, NEW y \in Int, NEW w \in Int, NEW h \in Int
  PROVE  /\ draw_frame_rect(x, y, w, h, 2) \subseteq ClipArea
         /\ w > 2 /\ h > 2 => draw_frame_rect(x, y, w, h, 2)
              = ClipArea \cap (Border(x, y, w, h) \cup Border(x + 1, y + 1, w - 2, h - 2))
<1>1. draw_frame_rect(x, y, w, h, 2) = draw_rect(x, y, w, h) \cup draw_rect(x + 1, y + 1, w - 2, h - 2)
  <2>1. 0 .. 2 - 1 = {0, 1}
    OBVIOUS
  <2>2. draw_frame_rect(x, y, w, h, 2) = UNION {draw_rect(x + k, y + k, w - 2 * k, h - 2 * k) : k \in {0, 1}}
    BY <2>1 DEF draw_frame_rect
  <2>3. /\ x + 0 = x /\ y + 0 = y /\ w - 2 * 0 = w /\ h - 2 * 0 = h
        /\ w - 2 * 1 = w - 2 /\ h - 2 * 1 = h - 2
    OBVIOUS
  <2> QED
    BY <2>2, <2>3
<1>2. x + 1 \in Int /\ y + 1 \in Int /\ w - 2 \in Int /\ h - 2 \in Int /\ (w > 2 => w - 2 > 0 /\ w > 0) /\ (h > 2 => h - 2 > 0 /\ h > 0)
  OBVIOUS
<1>3. /\ draw_rect(x, y, w, h) \subseteq ClipArea
      /\ w > 0 /\ h > 0 => draw_rect(x, y, w, h) = ClipArea \cap Border(x, y, w, h)
  BY RectPaints
<1>4. /\ draw_rect(x + 1, y + 1, w - 2, h - 2) \subseteq ClipArea
      /\ w - 2 > 0 /\ h - 2 > 0 =>
           draw_rect(x + 1, y + 1, w - 2, h - 2) = ClipArea \cap Border(x + 1, y + 1, w - 2, h - 2)
  BY <1>2, RectPaints
<1> QED
  BY <1>1, <1>2, <1>3, <1>4

\* A text: the ends of lines up to a character, where its line begins, and where the next character is.
NewLines(text, i) == {j \in 1 .. i : text[j] = "newline"}
LineBegin(text, i) == IF NewLines(text, i) = {} THEN 0 ELSE Max(NewLines(text, i))
NextX(x, text, i) == x + ADVANCE * (i - LineBegin(text, i))
NextY(y, text, i) == y + LINE_HEIGHT * Cardinality(NewLines(text, i))
CellX(x, text, i) == x + ADVANCE * (i - 1 - LineBegin(text, i))
CellsTo(x, y, text, k) ==
  UNION {Rectangle(CellX(x, text, i), NextY(y, text, i), CHAR_WIDTH, CHAR_HEIGHT)
           : i \in {j \in 1 .. k : text[j] = "glyph"}}

\* What a character does to the lines.
LEMMA LinesFollow ==
  ASSUME NEW text, NEW k \in Nat \ {0}
  PROVE  /\ LineBegin(text, k) \in 0 .. k /\ Cardinality(NewLines(text, k)) \in Nat
         /\ LineBegin(text, 0) = 0 /\ Cardinality(NewLines(text, 0)) = 0
         /\ text[k] = "newline" => /\ LineBegin(text, k) = k
                                   /\ Cardinality(NewLines(text, k)) = Cardinality(NewLines(text, k - 1)) + 1
         /\ text[k] # "newline" => NewLines(text, k) = NewLines(text, k - 1)
<1>1. NewLines(text, k) \subseteq 1 .. k /\ NewLines(text, k - 1) \subseteq 1 .. k - 1 /\ NewLines(text, 0) = {}
  BY DEF NewLines
<1>2. IsFiniteSet(NewLines(text, k)) /\ IsFiniteSet(NewLines(text, k - 1))
  <2>1. IsFiniteSet(1 .. k) /\ IsFiniteSet(1 .. k - 1)
    BY FS_Interval
  <2> QED
    BY <1>1, <2>1, FS_Subset
<1>3. Cardinality(NewLines(text, k)) \in Nat /\ Cardinality(NewLines(text, 0)) = 0
  BY <1>1, <1>2, FS_CardinalityType, FS_EmptySet
<1>4. LineBegin(text, k) \in 0 .. k
  <2>1. CASE NewLines(text, k) # {}
    <3> DEFINE T == NewLines(text, k)
    <3>1. T \subseteq 0 .. k /\ T # {}
      BY <1>1, <2>1
    <3> HIDE DEF T
    <3>2. \E m \in T : \A t \in T : m >= t
      <4>1. \E m \in T : \A t \in T : t <= m
        BY <3>1, GreatestNatural
      <4> QED
        BY <3>1, <4>1
    <3>3. Max(T) \in T
      BY <3>2 DEF Max
    <3> QED
      BY <1>1, <2>1, <3>3 DEF LineBegin, T
  <2> QED
    BY <2>1 DEF LineBegin
<1>5. ASSUME text[k] = "newline"
      PROVE  /\ LineBegin(text, k) = k
             /\ Cardinality(NewLines(text, k)) = Cardinality(NewLines(text, k - 1)) + 1
  <2>1. NewLines(text, k) = NewLines(text, k - 1) \cup {k} /\ k \notin NewLines(text, k - 1)
    BY <1>5 DEF NewLines
  <2>2. Cardinality(NewLines(text, k)) = Cardinality(NewLines(text, k - 1)) + 1
    BY <1>2, <2>1, FS_AddElement
  <2>3. k \in NewLines(text, k) /\ \A t \in NewLines(text, k) : k >= t /\ (t >= k => t = k)
    BY <1>1, <2>1
  <2>4. Max(NewLines(text, k)) = k
    BY <2>3 DEF Max
  <2> QED
    BY <2>2, <2>3, <2>4 DEF LineBegin
<1>6. ASSUME text[k] # "newline" PROVE NewLines(text, k) = NewLines(text, k - 1)
  BY <1>6 DEF NewLines
<1>7. LineBegin(text, 0) = 0
  BY <1>1 DEF LineBegin
<1> QED
  BY <1>3, <1>4, <1>5, <1>6, <1>7

\* Where the character behind k is.
Follows(x, y, text, k) ==
  /\ NextX(x, text, k) \in Int /\ NextY(y, text, k) \in Int
  /\ NextX(x, text, k - 1) \in Int /\ NextY(y, text, k - 1) \in Int
  /\ NextX(x, text, 0) = x /\ NextY(y, text, 0) = y
  /\ text[k] = "newline" => NextX(x, text, k) = x /\ NextY(y, text, k) = NextY(y, text, k - 1) + LINE_HEIGHT
  /\ text[k] # "newline" =>
       /\ NextX(x, text, k) = NextX(x, text, k - 1) + ADVANCE /\ NextY(y, text, k) = NextY(y, text, k - 1)
       /\ CellX(x, text, k) = NextX(x, text, k - 1)

\* So the character behind k is where its cell is.
LEMMA NextFollows ==
  ASSUME NEW x \in Int, NEW y \in Int, NEW text, NEW k \in Nat \ {0}
  PROVE  Follows(x, y, text, k)
<1>1. ADVANCE \in Nat /\ LINE_HEIGHT \in Nat
  BY BufferAssumption
<1>2. ASSUME NEW i \in Nat
      PROVE  LineBegin(text, i) \in 0 .. i /\ Cardinality(NewLines(text, i)) \in Nat
  <2>1. CASE i = 0
    BY <2>1, LinesFollow
  <2>2. CASE i # 0
    BY <2>2, LinesFollow
  <2> QED
    BY <2>1, <2>2
<1>3. \A a, b \in Nat : a * b \in Nat /\ a * (b + 1) = a * b + a /\ a * 0 = 0
  OBVIOUS
<1>4. ASSUME NEW i \in Nat PROVE NextX(x, text, i) \in Int /\ NextY(y, text, i) \in Int
  <2>1. i - LineBegin(text, i) \in Nat /\ Cardinality(NewLines(text, i)) \in Nat
    BY <1>2
  <2>2. ADVANCE * (i - LineBegin(text, i)) \in Nat /\ LINE_HEIGHT * Cardinality(NewLines(text, i)) \in Nat
    BY <1>1, <1>3, <2>1
  <2> QED
    BY <2>2 DEF NextX, NextY
<1>5. NextX(x, text, 0) = x /\ NextY(y, text, 0) = y
  <2>1. LineBegin(text, 0) = 0 /\ Cardinality(NewLines(text, 0)) = 0
    BY LinesFollow
  <2>2. ADVANCE * 0 = 0 /\ LINE_HEIGHT * 0 = 0 /\ 0 - 0 = 0
    BY <1>1
  <2> QED
    BY <2>1, <2>2 DEF NextX, NextY
<1>6. ASSUME text[k] = "newline"
      PROVE  NextX(x, text, k) = x /\ NextY(y, text, k) = NextY(y, text, k - 1) + LINE_HEIGHT
  <2> DEFINE m == Cardinality(NewLines(text, k - 1))
  <2>1. LineBegin(text, k) = k /\ Cardinality(NewLines(text, k)) = m + 1
    BY <1>6, LinesFollow
  <2>2. m \in Nat
    BY <1>2
  <2> HIDE DEF m
  <2>3. LINE_HEIGHT * (m + 1) = LINE_HEIGHT * m + LINE_HEIGHT /\ LINE_HEIGHT * m \in Nat
    BY <1>1, <1>3, <2>2
  <2>4. k - k = 0 /\ ADVANCE * 0 = 0
    BY <1>1
  <2> QED
    BY <1>1, <2>1, <2>3, <2>4 DEF NextX, NextY, m
<1>7. ASSUME text[k] # "newline"
      PROVE  /\ NextX(x, text, k) = NextX(x, text, k - 1) + ADVANCE /\ NextY(y, text, k) = NextY(y, text, k - 1)
             /\ CellX(x, text, k) = NextX(x, text, k - 1)
  <2> DEFINE n == k - 1 - LineBegin(text, k - 1)
  <2>1. NewLines(text, k) = NewLines(text, k - 1)
    BY <1>7, LinesFollow
  <2>2. LineBegin(text, k) = LineBegin(text, k - 1)
    BY <2>1 DEF LineBegin
  <2>3. n \in Nat /\ k - LineBegin(text, k) = n + 1
    <3>1. k - 1 \in Nat
      OBVIOUS
    <3>2. LineBegin(text, k - 1) \in 0 .. k - 1
      BY <1>2, <3>1
    <3> QED
      BY <2>2, <3>2
  <2> HIDE DEF n
  <2>4. ADVANCE * (n + 1) = ADVANCE * n + ADVANCE /\ ADVANCE * n \in Nat
    BY <1>1, <1>3, <2>3
  <2>5. NextX(x, text, k) = x + ADVANCE * (n + 1) /\ NextX(x, text, k - 1) = x + ADVANCE * n
    BY <2>3 DEF NextX, n
  <2>6. x + ADVANCE * (k - 1 - LineBegin(text, k)) = x + ADVANCE * n
    BY <2>2 DEF n
  <2> QED
    BY <1>1, <2>1, <2>4, <2>5, <2>6 DEF NextY, CellX
<1>8. k - 1 \in Nat
  OBVIOUS
<1> QED
  BY <1>4, <1>5, <1>6, <1>7, <1>8 DEF Follows

\* draw_text() before each character.
TextStates == [x : Int, y : Int, done : BOOLEAN, pixels : SUBSET (Int \X Int)]
TextStart(x, y) == [x |-> x, y |-> y, done |-> FALSE, pixels |-> {}]
TextRun(x, y, text) ==
  LET state[i \in 0 .. Len(text)] ==
        IF i = 0 THEN [x |-> x, y |-> y, done |-> FALSE, pixels |-> {}] ELSE text_step(state[i - 1], text[i], x)
  IN state

\* A character leaves a position and pixels.
LEMMA TextStepType ==
  ASSUME ClipInv, NEW s \in TextStates, NEW ch, NEW x \in Int
  PROVE  text_step(s, ch, x) \in TextStates
<1>1. s.x \in Int /\ s.y \in Int /\ s.done \in BOOLEAN /\ s.pixels \subseteq Int \X Int
  BY DEF TextStates
<1>2. CHAR_WIDTH \in Nat /\ CHAR_HEIGHT \in Nat /\ ADVANCE \in Nat /\ LINE_HEIGHT \in Nat
  BY BufferAssumption
<1>3. draw_alpha_map(s.x, s.y) \subseteq Int \X Int
  BY <1>1, <1>2 DEF draw_alpha_map, draw_pixel
<1>4. s.x + ADVANCE \in Int /\ s.y + LINE_HEIGHT \in Int
  BY <1>1, <1>2
<1> QED
  BY <1>1, <1>3, <1>4 DEF text_step, TextStates

\* The states follow one another.
LEMMA TextFollows ==
  ASSUME ClipInv, NEW x \in Int, NEW y \in Int, NEW text, Len(text) \in Nat
  PROVE  /\ TextRun(x, y, text)[0] = TextStart(x, y)
         /\ \A k \in 0 .. Len(text) : TextRun(x, y, text)[k] \in TextStates
         /\ \A k \in 1 .. Len(text) : TextRun(x, y, text)[k] = text_step(TextRun(x, y, text)[k - 1], text[k], x)
<1> DEFINE n == Len(text)
           first == TextStart(x, y)
           next(s, k) == text_step(s, text[k], x)
           step == [k \in 1 .. n |-> [s \in TextStates |-> next(s, k)]]
           Run(f) == f = [k \in 0 .. n |-> IF k = 0 THEN first ELSE next(f[k - 1], k)]
           run == TextRun(x, y, text)
<1>1. n \in Nat /\ first \in TextStates
  BY DEF TextStart, TextStates
<1>2. \A k \in 1 .. n, s \in TextStates : next(s, k) \in TextStates
  BY TextStepType
<1>3. run = CHOOSE f : Run(f)
  BY DEF TextRun, TextStart
<1> HIDE DEF next, first, run
<1>4. StepFunctions(step, n, TextStates)
  BY <1>2 DEF StepFunctions
<1>5. PICK f : Iterates(f, step, first, n, TextStates)
  <2> HIDE DEF step, n
  <2> QED
    BY <1>1, <1>4, Iteration
<1>6. \A k \in 0 .. n : k # 0 => k \in 1 .. n /\ k - 1 \in 0 .. n
  BY <1>1
<1>7. ASSUME NEW k \in 1 .. n PROVE step[k][f[k - 1]] = next(f[k - 1], k)
  <2>1. k - 1 \in 0 .. n
    BY <1>1
  <2>2. f[k - 1] \in TextStates
    BY <1>5, <2>1 DEF Iterates
  <2> QED
    BY <2>2
<1>8. \A k \in 0 .. n : f[k] = IF k = 0 THEN first ELSE next(f[k - 1], k)
  <2> HIDE DEF step, n
  <2> QED
    BY <1>5, <1>6, <1>7 DEF Iterates
<1>9. Run(f)
  <2>1. f = [k \in 0 .. n |-> f[k]]
    BY <1>5 DEF Iterates
  <2> QED
    BY <1>8, <2>1
<1>10. Run(run)
  <2> HIDE DEF Run
  <2> QED
    BY <1>3, <1>9
<1>11. /\ run[0] = first
       /\ \A k \in 1 .. n : run[k] = next(run[k - 1], k)
  <2>1. \A k \in 1 .. n : k \in 0 .. n /\ k # 0
    BY <1>1
  <2>2. 0 \in 0 .. n
    BY <1>1
  <2> QED
    BY <1>10, <2>1, <2>2
<1>12. \A k \in 0 .. n : run[k] \in TextStates
  <2> DEFINE Bad == {k \in 0 .. n : run[k] \notin TextStates}
  <2> SUFFICES ASSUME Bad # {} PROVE FALSE
    OBVIOUS
  <2>1. Bad \in SUBSET Nat
    OBVIOUS
  <2>2. PICK m \in Bad : \A j \in Bad : m <= j
    <3> HIDE DEF Bad
    <3> QED
      BY <2>1, LeastNatural
  <2>3. m # 0
    BY <1>1, <1>11, <2>2
  <2>4. m \in 1 .. n /\ m - 1 \in 0 .. n /\ ~(m <= m - 1)
    BY <1>1, <2>2, <2>3
  <2>5. run[m - 1] \in TextStates
    BY <2>2, <2>4
  <2>6. run[m] \in TextStates
    BY <1>2, <1>11, <2>4, <2>5
  <2> QED
    BY <2>2, <2>6
<1> QED
  BY <1>11, <1>12 DEF run, next, first

\* What draw_text() has done before the character behind k. Right of the clipping it stops counting.
TextInv(s, x, y, text, k) ==
  /\ s.pixels = ClipArea \cap CellsTo(x, y, text, k)
  /\ s.done => NextY(y, text, k) > m_clipping.y_max
  /\ ~s.done => /\ s.y = NextY(y, text, k)
                /\ \/ s.x = NextX(x, text, k)
                   \/ s.x > m_clipping.x_max /\ NextX(x, text, k) >= s.x

\* Every character keeps that.
LEMMA CharacterKeeps ==
  ASSUME ClipInv, NEW x \in Int, NEW y \in Int, NEW text, NEW k \in Nat \ {0},
         text[k] \in {"glyph", "space", "newline"}, NEW s \in TextStates, TextInv(s, x, y, text, k - 1)
  PROVE  TextInv(text_step(s, text[k], x), x, y, text, k)
<1> DEFINE ch == text[k]
           z == text_step(s, ch, x)
           px == NextX(x, text, k - 1)
           py == NextY(y, text, k - 1)
           itsCell == Rectangle(px, py, CHAR_WIDTH, CHAR_HEIGHT)
<1>1. /\ s.x \in Int /\ s.y \in Int /\ s.done \in BOOLEAN
      /\ px \in Int /\ py \in Int /\ NextX(x, text, k) \in Int /\ NextY(y, text, k) \in Int
      /\ CHAR_WIDTH \in Nat /\ CHAR_HEIGHT \in Nat /\ ADVANCE \in Nat /\ LINE_HEIGHT \in Nat
      /\ m_clipping.x_max \in Int /\ m_clipping.y_max \in Int /\ m_clipping.x_min \in Int /\ m_clipping.y_min \in Int
  <2>1. /\ NextX(x, text, k) \in Int /\ NextY(y, text, k) \in Int
        /\ NextX(x, text, k - 1) \in Int /\ NextY(y, text, k - 1) \in Int
    BY NextFollows DEF Follows
  <2>2. s.x \in Int /\ s.y \in Int /\ s.done \in BOOLEAN
    BY DEF TextStates
  <2> QED
    BY <2>1, <2>2, BufferAssumption DEF ClipInv
<1>2. /\ ch = "newline" => NextX(x, text, k) = x /\ NextY(y, text, k) = py + LINE_HEIGHT
      /\ ch # "newline" => NextX(x, text, k) = px + ADVANCE /\ NextY(y, text, k) = py /\ CellX(x, text, k) = px
  <2>1. Follows(x, y, text, k)
    BY NextFollows
  <2> QED
    BY <2>1 DEF Follows
<1>3. CellsTo(x, y, text, k) = IF ch = "glyph" THEN CellsTo(x, y, text, k - 1) \cup itsCell
                               ELSE CellsTo(x, y, text, k - 1)
  <2> DEFINE Cell(i) == Rectangle(CellX(x, text, i), NextY(y, text, i), CHAR_WIDTH, CHAR_HEIGHT)
             glyphs(m) == {j \in 1 .. m : text[j] = "glyph"}
  <2>1. CellsTo(x, y, text, k) = UNION {Cell(i) : i \in glyphs(k)}
        /\ CellsTo(x, y, text, k - 1) = UNION {Cell(i) : i \in glyphs(k - 1)}
    BY DEF CellsTo
  <2>2. ch = "glyph" => Cell(k) = itsCell
    BY <1>2
  <2>3. glyphs(k) = IF ch = "glyph" THEN glyphs(k - 1) \cup {k} ELSE glyphs(k - 1)
    OBVIOUS
  <2> HIDE DEF Cell, glyphs
  <2> QED
    BY <2>1, <2>2, <2>3
<1>4. draw_alpha_map(px, py) = ClipArea \cap itsCell
  <2>1. itsCell \subseteq Int \X Int
    BY <1>1 DEF Rectangle
  <2> QED
    BY <2>1, PixelsDrawn DEF draw_alpha_map, Rectangle
<1>5. /\ py > m_clipping.y_max => ClipArea \cap itsCell = {}
      /\ px > m_clipping.x_max => ClipArea \cap itsCell = {}
  BY <1>1 DEF ClipArea, Rectangle
<1>6. z.pixels = IF ~s.done /\ ch = "glyph" /\ ~(s.x > m_clipping.x_max) THEN s.pixels \cup draw_alpha_map(s.x, s.y)
                 ELSE s.pixels
  BY <1>1 DEF text_step
<1>7. s.done => z = s
  BY DEF text_step
<1>8. ASSUME ~s.done
      PROVE  /\ z.x = IF ch = "newline" THEN x ELSE IF ch = "glyph" /\ s.x > m_clipping.x_max THEN s.x ELSE s.x + ADVANCE
             /\ z.y = IF ch = "newline" THEN s.y + LINE_HEIGHT ELSE s.y
             /\ z.done <=> ~(ch = "glyph" /\ s.x > m_clipping.x_max) /\ z.y > m_clipping.y_max
  BY <1>8 DEF text_step
<1>9. /\ s.pixels = ClipArea \cap CellsTo(x, y, text, k - 1)
      /\ s.done => py > m_clipping.y_max
      /\ ~s.done => s.y = py /\ (s.x = px \/ (s.x > m_clipping.x_max /\ px >= s.x))
  BY DEF TextInv
<1> HIDE DEF z, px, py, itsCell, ch
<1>10. z.pixels = ClipArea \cap CellsTo(x, y, text, k)
  <2>1. CASE ch # "glyph"
    BY <1>3, <1>6, <1>9, <2>1
  <2>2. CASE ch = "glyph" /\ ~s.done /\ ~(s.x > m_clipping.x_max)
    <3>1. s.x = px /\ s.y = py
      BY <1>9, <2>2
    <3> QED
      BY <1>3, <1>4, <1>6, <1>9, <2>2, <3>1
  <2>3. CASE ch = "glyph" /\ (s.done \/ s.x > m_clipping.x_max)
    <3>1. ClipArea \cap itsCell = {}
      BY <1>1, <1>5, <1>9, <2>3
    <3> QED
      BY <1>3, <1>6, <1>9, <2>3, <3>1
  <2> QED
    BY <2>1, <2>2, <2>3
<1>11. z.done => NextY(y, text, k) > m_clipping.y_max
  BY <1>1, <1>2, <1>7, <1>8, <1>9
<1>12. ASSUME ~z.done
       PROVE  /\ z.y = NextY(y, text, k)
              /\ z.x = NextX(x, text, k) \/ (z.x > m_clipping.x_max /\ NextX(x, text, k) >= z.x)
  <2>1. ~s.done
    BY <1>7, <1>12
  <2>2. z.y = NextY(y, text, k)
    BY <1>2, <1>8, <1>9, <2>1
  <2>3. z.x = NextX(x, text, k) \/ (z.x > m_clipping.x_max /\ NextX(x, text, k) >= z.x)
    BY <1>1, <1>2, <1>8, <1>9, <2>1
  <2> QED
    BY <2>2, <2>3
<1> QED
  BY <1>10, <1>11, <1>12 DEF TextInv, z, ch

\* draw_text(): the cells of all glyphs, although it stops at the edges of the clipping.
LEMMA TextPaints ==
  ASSUME ClipInv, NEW x \in Int, NEW y \in Int, NEW text \in Seq({"glyph", "space", "newline"})
  PROVE  draw_text(x, y, text) = ClipArea \cap CellsTo(x, y, text, Len(text))
<1> DEFINE n == Len(text)
           run == TextRun(x, y, text)
           Bad == {k \in Nat : k <= n /\ ~TextInv(run[k], x, y, text, k)}
<1>1. n \in Nat /\ \A k \in 1 .. n : text[k] \in {"glyph", "space", "newline"}
  OBVIOUS
<1>2. /\ run[0] = TextStart(x, y)
      /\ \A k \in 0 .. n : run[k] \in TextStates
      /\ \A k \in 1 .. n : run[k] = text_step(run[k - 1], text[k], x)
  BY <1>1, TextFollows
<1>3. draw_text(x, y, text) = run[n].pixels
  BY DEF draw_text, TextRun
<1> HIDE DEF run, n
<1>4. Bad = {}
  <2> SUFFICES ASSUME Bad # {} PROVE FALSE
    OBVIOUS
  <2>1. PICK m \in Bad : \A j \in Bad : m <= j
    BY LeastNatural
  <2>2. m \in Nat /\ m <= n /\ ~TextInv(run[m], x, y, text, m)
    BY <2>1
  <2>3. CASE m = 0
    <3>1. CellsTo(x, y, text, 0) = {}
      BY DEF CellsTo
    <3>2. NextX(x, text, 0) = x /\ NextY(y, text, 0) = y
      <4>1. 1 \in Nat \ {0}
        OBVIOUS
      <4> QED
        BY <4>1, NextFollows DEF Follows
    <3>3. TextInv(run[0], x, y, text, 0)
      BY <1>2, <3>1, <3>2 DEF TextInv, TextStart
    <3> QED
      BY <2>2, <2>3, <3>3
  <2>4. CASE m # 0
    <3>1. m - 1 \in Nat /\ m - 1 <= n /\ ~(m <= m - 1) /\ m \in 1 .. n /\ m - 1 \in 0 .. n /\ m \in Nat \ {0}
      BY <1>1, <2>2, <2>4
    <3>2. TextInv(run[m - 1], x, y, text, m - 1)
      BY <2>1, <3>1
    <3>3. TextInv(text_step(run[m - 1], text[m], x), x, y, text, m)
      BY <1>1, <1>2, <3>1, <3>2, CharacterKeeps
    <3> QED
      BY <1>2, <2>2, <3>1, <3>3
  <2> QED
    BY <2>3, <2>4
<1>5. n <= n
  BY <1>1
<1>6. TextInv(run[n], x, y, text, n)
  BY <1>1, <1>4, <1>5
<1> QED
  BY <1>3, <1>6 DEF TextInv, n

\* What a call must have painted, by what it is.
Painted(pixels, c) ==
  /\ c.op \notin {"blit", "clear"} => pixels \subseteq ClipArea
  /\ c.op = "line" => IsDrawn(pixels, c)
  /\ c.op = "rect" /\ c.w > 0 /\ c.h > 0 => pixels = ClipArea \cap Border(c.x, c.y, c.w, c.h)
  /\ c.op = "frame" /\ c.w > 2 /\ c.h > 2 =>
       pixels = ClipArea \cap (Border(c.x, c.y, c.w, c.h) \cup Border(c.x + 1, c.y + 1, c.w - 2, c.h - 2))
  /\ c.op = "fill" /\ c.x >= m_clipping.x_min /\ c.y >= m_clipping.y_min /\ c.w >= 0 /\ c.h >= 0 =>
       pixels = ClipArea \cap Rectangle(c.x, c.y, c.w, c.h)
  /\ c.op = "text" => pixels = ClipArea \cap Cells(c)
  /\ c.op = "blit" /\ c.x + c.w <= m_width /\ c.y + c.h <= m_height => pixels = Rectangle(c.x, c.y, c.w, c.h)
  /\ c.op = "clear" => pixels = Rectangle(0, 0, m_width, m_height)

\* The clipping, what the call under way has painted, and nothing without a call.
PaintInv == ClipInv /\ Painted(painted, paint_call) /\ (paint_call = idle => painted = {})

\* A call paints.
LEMMA CallPaints ==
  ASSUME PaintInv, NEW call, NEW pixels, Paint(call, pixels), Painted(pixels, call), call.op # "none"
  PROVE  PaintInv'
<1>1. m_clipping' = m_clipping /\ paint_call' = call /\ painted' = pixels
  BY DEF Paint
<1>2. ClipInv'
  BY <1>1 DEF PaintInv, ClipInv
<1>3. Painted(painted', paint_call')
  BY <1>1
<1>4. (Painted(painted, paint_call))'
  BY <1>1, <1>3 DEF Painted, IsDrawn, ClipArea
<1>5. (paint_call = idle)' => FALSE
  BY <1>1 DEF idle
<1> QED
  BY <1>2, <1>4, <1>5 DEF PaintInv

\* The painter's steps.
LEMMA PaintStep ==
  ASSUME PaintInv, [PaintNext]_paintVars
  PROVE  PaintInv'
<1>0. ClipInv
  BY DEF PaintInv
<1>1. \A i \in Coord \cup Extent : i \in Int
  BY ArgumentAssumption, BufferAssumption DEF Number
<1>2. CASE \E c \in Clips : SetClipping(c)
  <2>1. PICK c \in Clips : SetClipping(c)
    BY <1>2
  <2>2. c.x_min \in Int /\ c.y_min \in Int /\ c.x_max \in Int /\ c.y_max \in Int
    BY ArgumentAssumption, BufferAssumption DEF Clipping, Number
  <2>3. m_width \in Nat /\ m_height \in Nat /\ m_width - 1 \in Int /\ m_height - 1 \in Int
    BY BufferAssumption
  <2>4. m_clipping' = set_clipping(c) /\ painted' = {} /\ paint_call' = idle
    BY <2>1 DEF SetClipping, PaintInv
  <2>5. ASSUME NEW i \in Int PROVE Max({0, i}) \in Nat
    <3>1. 0 \in Int /\ i \in Int
      BY <2>5
    <3>2. Max({0, i}) = IF 0 <= i THEN i ELSE 0
      BY <3>1, OfTwo
    <3> QED
      BY <3>1, <3>2
  <2>6. ASSUME NEW i \in Int, NEW m \in Nat PROVE Min({m - 1, i}) \in Int /\ Min({m - 1, i}) < m
    <3> DEFINE j == m - 1
    <3>1. j \in Int
      BY <2>6
    <3> HIDE DEF j
    <3>2. Min({j, i}) = IF j <= i THEN j ELSE i
      BY <3>1, OfTwo
    <3>3. j = m - 1
      BY DEF j
    <3>4. Min({j, i}) \in Int /\ Min({j, i}) < m
      BY <2>6, <3>1, <3>2, <3>3
    <3> QED
      BY <3>3, <3>4
  <2>7. ClipInv'
    BY <2>2, <2>3, <2>4, <2>5, <2>6 DEF ClipInv, set_clipping, Box
  <2>8. (Painted(painted, paint_call))'
    BY <2>4 DEF Painted, idle
  <2> QED
    BY <2>4, <2>7, <2>8 DEF PaintInv
<1>3. CASE RevertClipping
  <2>1. m_clipping' = WholeBuffer /\ painted' = {} /\ paint_call' = idle
    BY <1>3 DEF RevertClipping, PaintInv
  <2>2. ClipInv'
    BY <2>1, BufferAssumption DEF ClipInv, WholeBuffer, Box
  <2>3. (Painted(painted, paint_call))'
    BY <2>1 DEF Painted, idle
  <2> QED
    BY <2>1, <2>2, <2>3 DEF PaintInv
<1>4. CASE \E x, y, x2, y2 \in Coord : DrawLine(x, y, x2, y2)
  <2>1. PICK x \in Coord, y \in Coord, x2 \in Coord, y2 \in Coord : DrawLine(x, y, x2, y2)
    BY <1>4
  <2> DEFINE c == [op |-> "line", x1 |-> x, y1 |-> y, x2 |-> x2, y2 |-> y2]
  <2>2. c.op = "line" /\ c.x1 = x /\ c.y1 = y /\ c.x2 = x2 /\ c.y2 = y2 /\ Ends(c)
    BY <1>1 DEF Ends
  <2>3. Paint(c, draw_line(c.x1, c.y1, c.x2, c.y2))
    BY <2>1 DEF DrawLine
  <2> HIDE DEF c
  <2>4. Painted(draw_line(c.x1, c.y1, c.x2, c.y2), c)
    BY <1>0, <2>2, LinePaints DEF Painted
  <2> QED
    BY <2>2, <2>3, <2>4, CallPaints
<1>5. CASE \E x, y \in Coord, w, h \in Extent : DrawRect(x, y, w, h) \/ FillRect(x, y, w, h) \/ DrawFrame(x, y, w, h)
  <2>1. PICK x \in Coord, y \in Coord, w \in Extent, h \in Extent :
               DrawRect(x, y, w, h) \/ FillRect(x, y, w, h) \/ DrawFrame(x, y, w, h)
    BY <1>5
  <2>2. x \in Int /\ y \in Int /\ w \in Int /\ h \in Int
    BY <1>1
  <2>3. ASSUME NEW op
        PROVE  LET c == Args(op, x, y, w, h) IN c.op = op /\ c.x = x /\ c.y = y /\ c.w = w /\ c.h = h
    BY DEF Args
  <2>4. CASE DrawRect(x, y, w, h)
    <3>1. Painted(draw_rect(x, y, w, h), Args("rect", x, y, w, h))
      BY <1>0, <2>2, <2>3, RectPaints DEF Painted
    <3> QED
      BY <2>3, <2>4, <3>1, CallPaints DEF DrawRect
  <2>5. CASE FillRect(x, y, w, h)
    <3>1. Painted(fill_rect(x, y, w, h), Args("fill", x, y, w, h))
      BY <1>0, <2>2, <2>3, FillPaints DEF Painted
    <3> QED
      BY <2>3, <2>5, <3>1, CallPaints DEF FillRect
  <2>6. CASE DrawFrame(x, y, w, h)
    <3> DEFINE c == Args("frame", x, y, w, h)
               all == draw_frame_rect(x, y, w, h, 2)
    <3>1. c.op = "frame" /\ c.x = x /\ c.y = y /\ c.w = w /\ c.h = h
      BY <2>3
    <3>2. /\ all \subseteq ClipArea
          /\ w > 2 /\ h > 2 => all = ClipArea \cap (Border(x, y, w, h) \cup Border(x + 1, y + 1, w - 2, h - 2))
      BY <1>0, <2>2, FramePaints
    <3>3. Paint(c, all)
      BY <2>6 DEF DrawFrame
    <3> HIDE DEF c, all
    <3>4. Painted(all, c)
      BY <3>1, <3>2 DEF Painted
    <3> QED
      BY <3>1, <3>3, <3>4, CallPaints
  <2> QED
    BY <2>1, <2>4, <2>5, <2>6
<1>6. CASE \E x, y \in Coord \cap Nat, w, h \in Extent \cap Nat : Blit(x, y, w, h)
  <2>1. PICK x \in Coord \cap Nat, y \in Coord \cap Nat, w \in Extent \cap Nat, h \in Extent \cap Nat : Blit(x, y, w, h)
    BY <1>6
  <2> DEFINE c == Args("blit", x, y, w, h)
  <2>2. c.op = "blit" /\ c.x = x /\ c.y = y /\ c.w = w /\ c.h = h
    BY DEF Args
  <2>3. Paint(c, blit(x, y, w, h))
    BY <2>1 DEF Blit
  <2> HIDE DEF c
  <2>4. Painted(blit(x, y, w, h), c)
    BY <2>2, BlitPaints DEF Painted
  <2> QED
    BY <2>2, <2>3, <2>4, CallPaints
<1>7. CASE \E x, y \in Coord, text \in Texts : DrawText(x, y, text)
  <2>1. PICK x \in Coord, y \in Coord, text \in Texts : DrawText(x, y, text)
    BY <1>7
  <2> DEFINE c == [op |-> "text", x |-> x, y |-> y, text |-> text]
  <2>2. c.op = "text" /\ c.x = x /\ c.y = y /\ c.text = text
    OBVIOUS
  <2>3. Paint(c, draw_text(x, y, text))
    BY <2>1 DEF DrawText
  <2> HIDE DEF c
  <2>4. x \in Int /\ y \in Int /\ text \in Seq({"glyph", "space", "newline"})
    BY <1>1, ArgumentAssumption
  <2>5. draw_text(x, y, text) = ClipArea \cap CellsTo(x, y, text, Len(text))
    BY <1>0, <2>4, TextPaints
  <2>6. Cells(c) = CellsTo(x, y, text, Len(text))
    <3>1. DOMAIN text = 1 .. Len(text)
      BY <2>4
    <3> QED
      BY <2>2, <3>1 DEF Cells, CellsTo, CellX, NextY, LineBegin, NewLines
  <2>7. Painted(draw_text(x, y, text), c)
    BY <2>2, <2>5, <2>6 DEF Painted
  <2> QED
    BY <2>2, <2>3, <2>7, CallPaints
<1>8. CASE ClearBuffer
  <2> DEFINE c == [op |-> "clear"]
  <2>1. c.op = "clear" /\ Paint(c, clear_pixels)
    BY <1>8 DEF ClearBuffer
  <2> HIDE DEF c
  <2>2. clear_pixels = Rectangle(0, 0, m_width, m_height)
    BY BufferAssumption DEF clear_pixels, Rectangle
  <2>3. Painted(clear_pixels, c)
    BY <2>1, <2>2 DEF Painted
  <2> QED
    BY <2>1, <2>3, CallPaints
<1>9. CASE PaintReturn
  <2>1. m_clipping' = m_clipping /\ painted' = {} /\ paint_call' = idle
    BY <1>9 DEF PaintReturn
  <2>2. ClipInv'
    BY <1>0, <2>1 DEF ClipInv
  <2>3. (Painted(painted, paint_call))'
    BY <2>1 DEF Painted, idle
  <2> QED
    BY <2>1, <2>2, <2>3 DEF PaintInv
<1>10. CASE UNCHANGED paintVars
  <2>1. m_clipping' = m_clipping /\ painted' = painted /\ paint_call' = paint_call
    BY <1>10 DEF paintVars
  <2> QED
    BY <2>1 DEF PaintInv, ClipInv, Painted, IsDrawn, ClipArea
<1> QED
  BY <1>2, <1>3, <1>4, <1>5, <1>6, <1>7, <1>8, <1>9, <1>10 DEF PaintNext

\* Every call paints exactly what it is asked for and the clipping leaves of it, for any buffer, any font and
\* any clippings, lines of any slope and texts of any length (graphics.cpp).
THEOREM PaintCorrect == PaintSpec => []PaintsWhatIsAsked
<1>1. PaintInit => PaintInv
  <2> SUFFICES ASSUME PaintInit PROVE PaintInv
    OBVIOUS
  <2>1. m_clipping = WholeBuffer /\ painted = {} /\ paint_call = idle
    BY DEF PaintInit
  <2>2. ClipInv
    BY <2>1, BufferAssumption DEF ClipInv, WholeBuffer, Box
  <2>3. Painted(painted, paint_call)
    BY <2>1 DEF Painted, idle
  <2> QED
    BY <2>1, <2>2, <2>3 DEF PaintInv
<1>2. PaintInv /\ [PaintNext]_paintVars => PaintInv'
  BY PaintStep
<1>3. PaintInv => PaintsWhatIsAsked
  <2> SUFFICES ASSUME PaintInv PROVE PaintsWhatIsAsked
    OBVIOUS
  <2>1. Painted(painted, paint_call) /\ ClipArea \subseteq Rectangle(0, 0, m_width, m_height)
    BY ClipInBuffer DEF PaintInv
  <2>2. IsDrawn(painted, paint_call) => LineIsDrawn(paint_call)
    BY DEF IsDrawn, LineIsDrawn
  <2> QED
    BY <2>1, <2>2 DEF Painted, PaintsWhatIsAsked
<1> QED
  BY <1>1, <1>2, <1>3, PTL DEF PaintSpec
=============================================================================
