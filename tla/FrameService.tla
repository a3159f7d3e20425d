---------------------------- MODULE FrameService ----------------------------
(***************************************************************************)
(* What infinity/bus.go's reader promises of the frames on the wire: they  *)
(* are delivered in the order in which they were sent, each at most once,  *)
(* and as long as the port stays open none is passed over.  Reopening the  *)
(* port loses what was sent before.  Bytes, noise, chunks and handles are  *)
(* not spoken of.                                                          *)
(***************************************************************************)
EXTENDS Naturals, Sequences

VARIABLES
  sent,       \* where in the stream of bytes the frames begin
  opened,     \* where in it this port's bytes begin
  delivered   \* the frames delivered, oldest first

vars == <<sent, opened, delivered>>

Delivered(f) == \E i \in DOMAIN delivered : delivered[i] = f

Init == /\ sent \subseteq Nat
        /\ opened = 0
        /\ delivered = <<>>

\* The first frame of this port not yet delivered.
Deliver(f) ==
  /\ f \in sent
  /\ opened < f
  /\ \A i \in DOMAIN delivered : delivered[i] < f
  /\ \A g \in sent : opened < g /\ g < f => Delivered(g)
  /\ delivered' = Append(delivered, f)
  /\ UNCHANGED <<sent, opened>>

\* The port is opened again, further down the stream.
Reopen ==
  /\ opened' \in Nat
  /\ opened' > opened
  /\ UNCHANGED <<sent, delivered>>

Next == (\E f \in sent : Deliver(f)) \/ Reopen

Spec == Init /\ [][Next]_vars
=============================================================================
