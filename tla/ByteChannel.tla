---------------------------- MODULE ByteChannel ----------------------------
(***************************************************************************)
(* What a pipe promises: a channel of bytes of bounded capacity. Bytes     *)
(* come out once each and in the order they went in, a write or a read may *)
(* be cut short, and closing the channel drops what is left in it.         *)
(***************************************************************************)
EXTENDS Naturals, Sequences

CONSTANT Capacity

VARIABLES channel,   \* the bytes in the channel, in order
          moved      \* the bytes the last send or receive moved

Init == channel = <<>> /\ moved = <<>>

\* A first part of some data goes in, behind the bytes that are there.
Send == channel' = channel \o moved' /\ Len(channel') <= Capacity

\* The oldest bytes come out.
Receive == channel = moved' \o channel'

Drop == channel' = <<>> /\ UNCHANGED moved

Next == Send \/ Receive \/ Drop

Spec == Init /\ [][Next]_<<channel, moved>>
=============================================================================
