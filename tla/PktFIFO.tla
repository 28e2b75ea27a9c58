------------------------------ MODULE PktFIFO ------------------------------
(* What a packet queue promises its users: packets are taken in the order  *)
(* they were put in, each of them once.                                    *)
EXTENDS Sequences

CONSTANTS Packets, NoPkt

VARIABLES
  queue,   \* the packets put in and not taken
  got      \* the packet taken last

Init ==
  /\ queue = <<>>
  /\ got = NoPkt

Put(p) == queue' = Append(queue, p) /\ UNCHANGED got

Take ==
  /\ queue # <<>>
  /\ queue' = Tail(queue)
  /\ got' = Head(queue)

Next ==
  \/ \E p \in Packets : Put(p)
  \/ Take

Spec == Init /\ [][Next]_<<queue, got>>
=============================================================================
