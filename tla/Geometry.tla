------------------------------ MODULE Geometry ------------------------------
(***************************************************************************)
(* Rectangles of the screen: struct Rect of kernel/wm/geometry.hpp. x2 and *)
(* y2 are excluded. The 32-bit integers of the code are INT_MIN ..         *)
(* INT_MAX; a sum that leaves them is undefined behaviour, so the          *)
(* operators that add return the set of the values the build may compute.  *)
(***************************************************************************)
EXTENDS Integers

CONSTANTS INT_MAX    \* the largest int32_t

ASSUME IntAssumption == INT_MAX \in Nat \ {0}

Int32 == -INT_MAX - 1 .. INT_MAX

Lesser(a, b) == IF a < b THEN a ELSE b
Greater(a, b) == IF a > b THEN a ELSE b

\* libk::clamp: the lower bound, then the upper one.
clamp(val, min_val, max_val) == Lesser(max_val, Greater(min_val, val))

\* The constructor, which normalizes.
Rect(x1, y1, x2, y2) == [x1 |-> Lesser(x1, x2), y1 |-> Lesser(y1, y2),
                         x2 |-> Greater(x1, x2), y2 |-> Greater(y1, y2)]

NullRect == Rect(0, 0, 0, 0)

width(r) == r.x2 - r.x1
height(r) == r.y2 - r.y1
is_null(r) == width(r) = 0 \/ height(r) = 0

contains(r, x, y) == x >= r.x1 /\ x < r.x2 /\ y >= r.y1 /\ y < r.y2

\* Pixel p is in the rectangle.
In(p, r) == contains(r, p[1], p[2])

\* Touching rectangles intersect: the comparisons are those of closed intervals.
intersects(r, s) ==
  /\ ~is_null(r) /\ ~is_null(s)
  /\ r.x1 <= s.x2 /\ s.x1 <= r.x2
  /\ r.y1 <= s.y2 /\ s.y1 <= r.y2

union_with(r, s) ==
  IF is_null(r) THEN s
  ELSE IF is_null(s) THEN r
  ELSE Rect(Lesser(r.x1, s.x1), Lesser(r.y1, s.y1), Greater(r.x2, s.x2), Greater(r.y2, s.y2))

\* Touching rectangles have a null intersection.
intersection_with(r, s) ==
  IF ~intersects(r, s) THEN NullRect
  ELSE Rect(Greater(r.x1, s.x1), Greater(r.y1, s.y1), Lesser(r.x2, s.x2), Lesser(r.y2, s.y2))
-----------------------------------------------------------------------------
\* a + b and a - b, or anything when the result is no int32_t.
add(a, b) == IF a + b \in Int32 THEN {a + b} ELSE Int32
sub(a, b) == IF a - b \in Int32 THEN {a - b} ELSE Int32
=============================================================================
