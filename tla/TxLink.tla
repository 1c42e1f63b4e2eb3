------------------------------- MODULE TxLink -------------------------------
(***************************************************************************)
(* What uart_meshtastic_tx promises its callers: frames it accepted go to  *)
(* the node in the order of acceptance, each whole and at most once; the   *)
(* oldest accepted frame may be lost (uart_tx error, aborted transfer),    *)
(* never a younger one ahead of it and never one that was refused.         *)
(***************************************************************************)
EXTENDS Sequences, Naturals

CONSTANTS Frame, Capacity

VARIABLES chan,              \* accepted, not yet on the wire
          wire               \* what the node has received

Init == chan = <<>> /\ wire = <<>>

Accept(f) == /\ Len(chan) < Capacity
             /\ chan' = Append(chan, f)
             /\ UNCHANGED wire

Deliver == /\ chan # <<>>
           /\ wire' = Append(wire, Head(chan))
           /\ chan' = Tail(chan)

Lose == /\ chan # <<>>
        /\ chan' = Tail(chan)
        /\ UNCHANGED wire

Next == Deliver \/ Lose \/ \E f \in Frame : Accept(f)

Spec == Init /\ [][Next]_<<chan, wire>>
=============================================================================
