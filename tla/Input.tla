------------------------------- MODULE Input -------------------------------
(***************************************************************************)
(* Keyboard and mouse, from the key to the message: the program            *)
(* tools/uart-input-server.py encodes events as packets on a serial line,  *)
(* the handler of uart_keyboard.cpp decodes one packet per interrupt, byte *)
(* by byte, and KeyboardSystem and MouseSystem (kernel/input) keep the     *)
(* modifiers and dispatch the event to the window manager.                 *)
(*                                                                         *)
(* Bytes are numbers, key codes those of sys/keyboard.h. The server writes *)
(* from two threads, one for the keyboard and one for the mouse; a key's   *)
(* packet is two writes. The receiver of the line (a PL011, external) has  *)
(* a FIFO that loses a byte when it is full, and requests the interrupt    *)
(* while it holds at least RX_LEVEL bytes.                                 *)
(***************************************************************************)
EXTENDS Integers, Sequences, SequencesExt, FiniteSets

CONSTANTS InputKey,      \* the keys of the keyboard, a subset of DOMAIN kernel_code
          Moves,         \* the movements of the mouse, pairs <<dx, dy>>
          MAX_DELTA,     \* 255: the server's bound on a movement
          RX_DEPTH,      \* capacity of the FIFO, in bytes
          RX_LEVEL,      \* the interrupt is requested at this level
          MaxPending     \* bound: events sent and not dispatched

ASSUME LineAssumption == RX_LEVEL \in Nat /\ RX_DEPTH \in Nat /\ 1 <= RX_LEVEL /\ RX_LEVEL <= RX_DEPTH

VARIABLES held_keys,          \* the keys for which is_key_pressed holds
          lock_on,       \* the locks the user has switched on (observes)
          acc,           \* acc_mouse_move_dx, acc_mouse_move_dy
          half_written,  \* the bytes of a key's packet that are still to be written
          wire,          \* bytes written, not received yet
          fifo,          \* bytes received
          header_read,   \* the bytes the handler has read of a packet; <<>>: no handler runs
          is_pressed,    \* is_ctrl_pressed, is_shift_pressed, ...: how many keys of a group are down
          is_lock,       \* is_caps_lock, is_nums_lock: the locks that are on
          pending,       \* the events sent and not dispatched yet (observes)
          wrong,         \* an event was dispatched that is not the next one sent (observes)
          disturbed      \* a byte was lost, or a packet written into another (observes)

serverVars == <<held_keys, lock_on, acc, half_written>>
systemVars == <<is_pressed, is_lock>>
inputVars == <<serverVars, wire, fifo, header_read, systemVars, pending, wrong, disturbed>>
-----------------------------------------------------------------------------
\* python_key_to_kernel_code, for the modifiers, the locks and one more key.
kernel_code ==
  [a |-> \h1C, ctrl |-> \h14, ctrl_l |-> \h14, ctrl_r |-> \hE014, shift_l |-> \h12, shift_r |-> \h59,
   alt_l |-> \h11, alt_r |-> \hE011, cmd_l |-> \hE01F, caps_lock |-> \h58, num_lock |-> \h77]

ASSUME ServerAssumption ==
  MAX_DELTA \in Nat /\ Moves \subseteq Int \X Int /\ InputKey \subseteq DOMAIN kernel_code

\* The counter of KeyboardSystem that a key code belongs to.
group(code) ==
  CASE code \in {\h14, \hE014} -> "CTRL"
    [] code \in {\h12, \h59} -> "SHIFT"
    [] code = \h11 -> "ALT"
    [] code = \hE011 -> "ALT_GR"
    [] code \in {\hE01F, \hE027} -> "GUI"
    [] OTHER -> "none"

\* The flag of KeyboardSystem that pressing a key toggles.
lock(code) == IF code = \h58 THEN {"CAPS"} ELSE IF code = \h77 THEN {"NUM"} ELSE {}

\* Each element that is in one of the sets only.
toggle(S, T) == (S \ T) \cup (T \ S)

KeyEvent(code, pressed, mods) == [kind |-> "key", code |-> code, pressed |-> pressed, mods |-> mods]
MoveEvent(dx, dy) == [kind |-> "move", dx |-> dx, dy |-> dy]
ClickEvent(button, pressed) == [kind |-> "click", button |-> button, pressed |-> pressed]

InputInit ==
  /\ held_keys = {} /\ lock_on = {} /\ acc = <<0, 0>> /\ half_written = <<>>
  /\ wire = <<>> /\ fifo = <<>> /\ header_read = <<>>
  /\ is_pressed = [g \in {"CTRL", "SHIFT", "ALT", "ALT_GR", "GUI"} |-> 0]
  /\ is_lock = {}
  /\ pending = <<>> /\ wrong = FALSE /\ disturbed = FALSE
-----------------------------------------------------------------------------
(***************************************************************************)
(* The server.                                                             *)
(***************************************************************************)
\* bound: the events under way.
may_send == Len(pending) < MaxPending

\* The modifiers the user holds, by the keys that are down.
user_modifiers == {g \in {"CTRL", "SHIFT", "ALT"} : \E k \in held_keys' : group(kernel_code[k]) = g} \cup lock_on'

\* on_key_press(), on_key_release(): repetitions are filtered; the header is written, the two bytes
\* of the code follow in a second write.
OnKey(k, pressed) ==
  /\ half_written = <<>> /\ may_send
  /\ pressed = (k \notin held_keys)
  /\ held_keys' = IF pressed THEN held_keys \cup {k} ELSE held_keys \ {k}
  /\ lock_on' = IF pressed THEN toggle(lock_on, lock(kernel_code[k])) ELSE lock_on
  /\ wire' = Append(wire, IF pressed THEN \h14 ELSE \h4)
  /\ half_written' = <<kernel_code[k] % 256, kernel_code[k] \div 256>>
  /\ pending' = Append(pending, KeyEvent(kernel_code[k], pressed, user_modifiers))
  /\ UNCHANGED <<acc, fifo, header_read, systemVars, wrong, disturbed>>

OnKeyRest ==
  /\ half_written # <<>>
  /\ wire' = wire \o half_written
  /\ half_written' = <<>>
  /\ UNCHANGED <<held_keys, lock_on, acc, fifo, header_read, systemVars, pending, wrong, disturbed>>

\* A packet of the mouse's thread is one write, possibly between the two of a key.
mouse_write(bytes) ==
  /\ wire' = wire \o bytes
  /\ disturbed' = (disturbed \/ half_written # <<>>)
  /\ UNCHANGED <<held_keys, lock_on, half_written, fifo, header_read, systemVars, wrong>>

clamp(x) == IF x < -MAX_DELTA THEN -MAX_DELTA ELSE IF x > MAX_DELTA THEN MAX_DELTA ELSE x
magnitude(x) == IF x < 0 THEN -x ELSE x
signs(dx, dy) == (IF dx < 0 THEN 16 ELSE 0) + (IF dy < 0 THEN 32 ELSE 0)

\* on_mouse_move(): within 10 ms of the last packet movements are accumulated.
OnMouseMoveSoon(dx, dy) ==
  /\ magnitude(acc[1] + dx) <= MAX_DELTA /\ magnitude(acc[2] + dy) <= MAX_DELTA
  /\ acc' = <<acc[1] + dx, acc[2] + dy>>
  /\ UNCHANGED <<held_keys, lock_on, half_written, wire, fifo, header_read, systemVars, pending, wrong, disturbed>>

OnMouseMove(dx, dy) ==
  /\ may_send
  /\ LET x == clamp(acc[1] + dx)
         y == clamp(acc[2] + dy)
     IN /\ mouse_write(<<1 + signs(x, y), magnitude(x), magnitude(y)>>)
        /\ pending' = Append(pending, MoveEvent(x, y))
  /\ acc' = <<0, 0>>

\* on_mouse_click().
OnMouseClick(button, pressed) ==
  /\ may_send
  /\ mouse_write(<<IF pressed THEN \h12 ELSE \h2, button>>)
  /\ pending' = Append(pending, ClickEvent(button, pressed))
  /\ UNCHANGED acc

\* on_mouse_scroll(): the kernel reads the packet and makes no event of it.
OnMouseScroll(dx, dy) ==
  /\ may_send /\ Len(wire) < 3
  /\ mouse_write(<<3 + signs(dx, dy), magnitude(dx), magnitude(dy)>>)
  /\ UNCHANGED <<acc, pending>>
-----------------------------------------------------------------------------
\* The line: the next byte arrives, and is lost when the FIFO is full.
Receive ==
  /\ wire # <<>>
  /\ wire' = Tail(wire)
  /\ IF Len(fifo) < RX_DEPTH THEN fifo' = Append(fifo, Head(wire)) /\ UNCHANGED disturbed
     ELSE disturbed' = TRUE /\ UNCHANGED fifo
  /\ UNCHANGED <<serverVars, header_read, systemVars, pending, wrong>>
-----------------------------------------------------------------------------
\* get_current_key_modifiers(): not of the keys AltGr and GUI.
get_current_key_modifiers(down, locks) == {g \in {"CTRL", "SHIFT", "ALT"} : down[g] > 0} \cup locks

\* The event is posted to the window manager.
post_event(event) ==
  IF pending # <<>> /\ Head(pending) = event
  THEN pending' = Tail(pending) /\ UNCHANGED wrong
  ELSE wrong' = TRUE /\ UNCHANGED pending

\* Mutant of press: whether a key of the group is down, not how many.
press_flag(code) ==
  /\ is_pressed' = IF group(code) = "none" THEN is_pressed ELSE [is_pressed EXCEPT ![group(code)] = 1]
  /\ is_lock' = toggle(is_lock, lock(code))
  /\ post_event(KeyEvent(code, TRUE, get_current_key_modifiers(is_pressed', is_lock')))

press(code) ==
  /\ is_pressed' = IF group(code) = "none" THEN is_pressed ELSE [is_pressed EXCEPT ![group(code)] = @ + 1]
  /\ is_lock' = toggle(is_lock, lock(code))
  /\ post_event(KeyEvent(code, TRUE, get_current_key_modifiers(is_pressed', is_lock')))

release(code) ==
  /\ is_pressed' = IF group(code) = "none" THEN is_pressed
                   ELSE [is_pressed EXCEPT ![group(code)] = IF @ = 0 THEN 0 ELSE @ - 1]
  /\ UNCHANGED is_lock
  /\ post_event(KeyEvent(code, FALSE, get_current_key_modifiers(is_pressed', is_lock')))

\* MouseSystem.
mouse_event(event) == post_event(event) /\ UNCHANGED systemVars

\* Mutant of packet_length: a fourth byte of a key's packet is awaited.
packet_length_key(header) == CASE header % 16 \in {1, 3} -> 3 [] header % 16 = 2 -> 2 [] header % 16 = 4 -> 4 [] OTHER -> 1

\* How many bytes the handler reads for a header.
packet_length(header) == CASE header % 16 \in {1, 3, 4} -> 3 [] header % 16 = 2 -> 2 [] OTHER -> 1

\* A bit of a header.
bit(header, n) == (header \div 2^n) % 2 = 1

signed(mag, negative) == IF negative THEN -mag ELSE mag

\* What the handler does with a packet.
decode(p) ==
  LET kind == p[1] % 16
  IN CASE kind = 1 -> mouse_event(MoveEvent(signed(p[2], bit(p[1], 4)), signed(p[3], bit(p[1], 5))))
       [] kind = 2 -> mouse_event(ClickEvent(p[2], bit(p[1], 4)))
       [] kind = 4 -> IF bit(p[1], 4) THEN press(p[2] + 256 * p[3]) ELSE release(p[2] + 256 * p[3])
       [] OTHER -> UNCHANGED <<systemVars, pending, wrong>>

(***************************************************************************)
(* The interrupt handler reads a byte: the first one when the interrupt is *)
(* requested, the others in read_one(), which waits for them in a loop,    *)
(* with interrupts masked.                                                 *)
(***************************************************************************)
ReadOne ==
  /\ Len(fifo) >= IF header_read = <<>> THEN RX_LEVEL ELSE 1
  /\ fifo' = Tail(fifo)
  /\ LET p == Append(header_read, Head(fifo))
     IN IF Len(p) < packet_length(p[1])
        THEN header_read' = p /\ UNCHANGED <<systemVars, pending, wrong>>
        ELSE header_read' = <<>> /\ decode(p)
  /\ UNCHANGED <<serverVars, wire, disturbed>>

\* bound: nothing is said of what follows a disturbance, so that the model ends with it.
InputNext ==
  /\ ~disturbed
  /\ \/ \E k \in InputKey, pressed \in BOOLEAN : OnKey(k, pressed)
     \/ OnKeyRest
     \/ \E m \in Moves : OnMouseMoveSoon(m[1], m[2]) \/ OnMouseMove(m[1], m[2]) \/ OnMouseScroll(m[1], m[2])
     \/ \E button \in 0 .. 1, pressed \in BOOLEAN : OnMouseClick(button, pressed)
     \/ Receive \/ ReadOne

\* The server finishes its packets, the line transmits, interrupts are taken and the handler runs.
InputSpec ==
  /\ InputInit /\ [][InputNext]_inputVars
  /\ WF_inputVars(~disturbed /\ OnKeyRest) /\ WF_inputVars(~disturbed /\ Receive) /\ WF_inputVars(~disturbed /\ ReadOne)
-----------------------------------------------------------------------------
\* As long as the line is not disturbed, the window manager gets the events of the keyboard and the
\* mouse once each, in their order and with the movements' signs, and every key event with the
\* modifiers the user held, however bytes and interrupts interleave and whichever of two keys of a
\* group is released first ("is_ctrl_pressed = 1 > 0 so CTRL is still pressed").
EventsInOrder == wrong => disturbed

\* Every event is dispatched: read_one() does not wait for ever, with interrupts masked, on a line
\* that is not disturbed, and no byte stays behind in the FIFO.
EventsArrive ==
  []<>(pending = <<>> \/ disturbed) \/ []<><<Len(pending') < Len(pending)>>_inputVars
=============================================================================
