----------------------------- MODULE PacketPipe -----------------------------
(***************************************************************************)
(* What src/usb_dev.h promises of an endpoint: packets reach the other     *)
(* side once, unchanged, in the order they were submitted, and at most     *)
(* Slots of them are in flight.  A bus reset loses those.                  *)
(***************************************************************************)
EXTENDS Naturals, Sequences

CONSTANTS Slots, Packets

VARIABLES queue,   \* submitted and not yet read by the host
          read     \* read by the host, in order

pipeVars == <<queue, read>>

Init == queue = << >> /\ read = << >>

Submit(p) == Len(queue) < Slots /\ queue' = Append(queue, p) /\ UNCHANGED read

HostRead == /\ queue # << >>
            /\ queue' = Tail(queue) /\ read' = Append(read, Head(queue))

Reset == queue' = << >> /\ read' = << >>

Next == HostRead \/ Reset \/ \E p \in Packets : Submit(p)

Spec == Init /\ [][Next]_pipeVars
=============================================================================
