---------------------------- MODULE MCOnlineSim ----------------------------
(* Two terminals, and no limit on the simulated time unless a run says so. *)
EXTENDS OnlineSim

NoLimit == -1

Req(src, delay, size, kind) ==
  [src |-> src, delay |-> delay, size |-> size, kind |-> kind]

(* Packets due at once and later, of one and of two flits, absorbed and    *)
(* copied ones.                                                            *)
MCRequests ==
  {Req("n1", 0, 2, "plain"), Req("n1", 2, 1, "plain"), Req("n2", 1, 1, "broadcast"),
   Req("n2", 0, 1, "reduce")}
=============================================================================
