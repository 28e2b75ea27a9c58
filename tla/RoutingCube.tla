----------------------------- MODULE RoutingCube -----------------------------
(* The k-ary n-cubes of networks/kncube.cpp (mesh and torus) and their        *)
(* routing functions, from routefunc.cpp.  Output port 2d leads right in      *)
(* dimension d, 2d + 1 leads left, and 2n is the node's own; an input port    *)
(* has the number of the neighbour it comes from.                             *)
EXTENDS RouteSets

Local(c) == 2 * c.n
CubeNodes(c) == 0 .. c.k^c.n - 1
CubeRouters(c) == CubeNodes(c)

RightNode(c, node, d) ==
    IF Digit(node, d, c.k) = c.k - 1 THEN node - (c.k - 1) * c.k^d ELSE node + c.k^d
LeftNode(c, node, d) ==
    IF Digit(node, d, c.k) = 0 THEN node + (c.k - 1) * c.k^d ELSE node - c.k^d

(* Where the channel of an output port ends: a router and its input port.     *)
CubeLink(c, at, port) ==
    LET d == port \div 2
    IN  IF port % 2 = 0 THEN <<RightNode(c, at, d), 2 * d + 1>>
                        ELSE <<LeftNode(c, at, d), 2 * d>>

CubeEntry(c, node) == <<node, Local(c)>>
CubeEjects(c, at, port) == IF port = Local(c) THEN {at} ELSE {}

(* KNCube::InsertRandomFaults with link_failures = 1: the failed outputs it   *)
(* may choose.  The node is off the edge of the mesh, and its right neighbour *)
(* in the dimension of the channel is on it.  "( n + c ) % 2*_n" makes the    *)
(* channel 0 or n, and "chan % 1" never looks left.                           *)
OnEdge(c, node) == \E d \in 0 .. c.n - 1 : Digit(node, d, c.k) \in {0, c.k - 1}
RandomFaults(c) ==
    {<<node, port>> \in {x \in CubeNodes(c) : ~OnEdge(c, x)} \X {0, c.n} :
        OnEdge(c, RightNode(c, node, port \div 2))}
------------------------------------------------------------------------------
(* Deterministic steps.                                                       *)

Unmatched(c, cur, dest) ==
    {d \in 0 .. c.n - 1 : Digit(cur, d, c.k) # Digit(dest, d, c.k)}
First(D) == CHOOSE d \in D : \A e \in D : d <= e
Last(D) == CHOOSE d \in D : \A e \in D : d >= e

Toward(c, cur, dest, d) ==
    IF Digit(cur, d, c.k) < Digit(dest, d, c.k) THEN 2 * d ELSE 2 * d + 1

dor_next_mesh(c, cur, dest, descending) ==
    LET D == Unmatched(c, cur, dest)
    IN  IF D = {} THEN Local(c)
        ELSE Toward(c, cur, dest, IF descending THEN Last(D) ELSE First(D))

(* A packet keeps its direction until its digit matches: the parity of the    *)
(* port it came in by, turned.                                                *)
Opposite(port) == IF port % 2 = 0 THEN port + 1 ELSE port - 1

(* k minus twice the way right: right is the shorter way when positive, and   *)
(* either is as short when zero.                                              *)
(* FAULT: forgets to double the way right. *)
Dist2Single(c, cur, dest, d) ==
    c.k - ((Digit(dest, d, c.k) - Digit(cur, d, c.k) + c.k) % c.k)
Dist2(c, cur, dest, d) ==
    c.k - 2 * ((Digit(dest, d, c.k) - Digit(cur, d, c.k) + c.k) % c.k)

(* The ring partition of a packet that turns into a ring in direction dir     *)
(* (0 right, 1 left) at x for y: one dateline, and Cray's two.                *)
(* FAULT: no dateline for packets that go left. *)
FixedPartitionRight(dir, x, y) == {IF dir = 0 /\ x > y THEN 1 ELSE 0}
FixedPartition(dir, x, y) ==
    {IF (dir = 0 /\ x > y) \/ (dir = 1 /\ y < x) THEN 1 ELSE 0}
BalancedPartition(c, dir, x, y) ==
    LET mid == (c.k - 1) \div 2
    IN  IF (dir = 0 /\ x > y) \/ (dir = 1 /\ x < y) THEN {1}
        ELSE IF (dir = 0 /\ x <= mid /\ y > mid) \/ (dir = 1 /\ x > mid /\ y <= mid) THEN {0}
        ELSE RandomInt(1)

(* dor_next_torus: the port and the partition; the partition is written only  *)
(* on a turn into a new dimension, and is "part" otherwise.                   *)
dor_next_torus(c, cur, dest, in, part, balance) ==
    LET D == Unmatched(c, cur, dest)
        d == First(D)
        x == Digit(cur, d, c.k)
        y == Digit(dest, d, c.k)
        dist2 == Dist2(c, cur, dest, d)
        dirs == IF dist2 > 0 THEN {0} ELSE IF dist2 = 0 THEN RandomInt(1) ELSE {1}
        parts(dir) == IF balance THEN BalancedPartition(c, dir, x, y)
                                 ELSE FixedPartition(dir, x, y)
    IN  IF D = {} THEN {[port |-> Local(c), part |-> part]}
        ELSE IF in \div 2 = d THEN {[port |-> Opposite(in), part |-> part]}
        ELSE UNION {{[port |-> 2 * d + dir, part |-> p] : p \in parts(dir)} : dir \in dirs}
------------------------------------------------------------------------------
(* Mesh: one path, or a choice of two made at the source.                     *)

dim_order_mesh(c, f) ==
    {Route(f, dor_next_mesh(c, f.at, f.dest, FALSE), ClassVCs(c, f))}

(* A virtual channel per destination, everywhere but at the destination.      *)
PerDest(c, f) ==
    IF f.at = f.dest THEN ClassVCs(c, f)
                     ELSE PartOf(ClassVCs(c, f), f.dest, c.k^c.n)

dim_order_ni_mesh(c, f) ==
    {Route(f, dor_next_mesh(c, f.at, f.dest, FALSE), PerDest(c, f))}

(* A virtual channel per coordinate of the destination in the dimension the   *)
(* packet moves in.                                                           *)
dim_order_pni_mesh(c, f) ==
    LET port == dor_next_mesh(c, f.at, f.dest, FALSE)
        next == Digit(f.dest, port \div 2, c.k)
    IN  {Route(f, port, IF f.at = f.dest THEN ClassVCs(c, f)
                                         ELSE PartOf(ClassVCs(c, f), next, c.k))}

(* xy_yx_mesh, and adaptive_xy_yx_mesh, where credits make the choice: the    *)
(* order is chosen on entering the network and told from the channel after.   *)
xy_yx_mesh(c, f) ==
    LET v == ClassVCs(c, f)
        orders == IF f.in < Local(c) THEN {f.vc < v.lo + Half(v)} ELSE BOOLEAN
    IN  IF f.at = f.dest THEN {Route(f, Local(c), v)}
        ELSE {Route(f, dor_next_mesh(c, f.at, f.dest, ~x_then_y),
                    IF x_then_y THEN LowerHalf(v) ELSE UpperHalf(v)) : x_then_y \in orders}
------------------------------------------------------------------------------
(* Mesh: two phases, by way of an intermediate node.                          *)

(* The nodes of the minimal quadrant of source and destination.               *)
rand_min_intr_mesh(c, src, dest) ==
    {x \in CubeNodes(c) : \A d \in 0 .. c.n - 1 :
        LET s == Digit(src, d, c.k)
            t == Digit(dest, d, c.k)
        IN  Digit(x, d, c.k) \in IF s < t THEN s .. t ELSE t .. s}

(* The flit with its phase and intermediate node as the function leaves them. *)
InPhase(c, f, intms) ==
    LET entered == IF f.in = Local(c) THEN {[f EXCEPT !.ph = 0, !.intm = i] : i \in intms}
                                      ELSE {f}
    IN  {IF g.ph = 0 /\ g.at = g.intm THEN [g EXCEPT !.ph = 1] ELSE g : g \in entered}

Heading(g) == IF g.ph = 0 THEN g.intm ELSE g.dest

(* The half of the channels of the flit's phase, all of them at its           *)
(* destination, whatever the phase.                                           *)
PerPhase(c, g) ==
    LET v == ClassVCs(c, g)
    IN  IF g.at = g.dest THEN v ELSE IF g.ph = 0 THEN LowerHalf(v) ELSE UpperHalf(v)

TwoPhase(c, f, intms) ==
    {Route(g, dor_next_mesh(c, g.at, Heading(g), FALSE), PerPhase(c, g)) :
        g \in InPhase(c, f, intms)}

romm_mesh(c, f) == TwoPhase(c, f, rand_min_intr_mesh(c, f.src, f.dest))
valiant_mesh(c, f) == TwoPhase(c, f, CubeNodes(c))

romm_ni_mesh(c, f) ==
    {Route(g, dor_next_mesh(c, g.at, Heading(g), FALSE), PerDest(c, g)) :
        g \in InPhase(c, f, rand_min_intr_mesh(c, f.src, f.dest))}
------------------------------------------------------------------------------
(* Mesh: adaptive.                                                            *)

(* The first channel is the escape channel; a packet that took it stays.      *)
min_adapt_mesh(c, f) ==
    LET v == ClassVCs(c, f)
        escaped == f.in # Local(c) /\ f.vc = v.lo
        escape == AtPort(dor_next_mesh(c, f.at, f.dest, FALSE), One(v.lo))
        adaptive == {AtPort(Toward(c, f.at, f.dest, d), [lo |-> v.lo + 1, hi |-> v.hi]) :
                        d \in Unmatched(c, f.at, f.dest)}
    IN  IF f.at = f.dest THEN {Route(f, Local(c), v)}
        ELSE {RouteTo(f, {escape} \cup (IF escaped THEN {} ELSE adaptive))}

(* planar_adapt_mesh: the first dimension of the plane takes the last third   *)
(* of the channels, the second one of the other two, by the direction in the  *)
(* first.  A failed output in the first makes the packet misroute in the      *)
(* second, without turning back.                                              *)
Plane(c, f) ==
    LET v == ClassVCs(c, f)
    IN  {d \in Unmatched(c, f.at, f.dest) :
            ~(f.in \div 2 = 0 /\ d = 0 /\ f.vc < v.lo + 2 * (Width(v) \div 3))}

Works(c, at, port) == <<at, port>> \notin c.faulty

(* The ports taken in the second dimension m; ok is FALSE when there is no     *)
(* way round the fault.  The digits beyond the last dimension are zero.       *)
SecondPorts(c, f, d, m, fault) ==
    LET x == Digit(f.at, d + 1, c.k)
        y == Digit(f.dest, d + 1, c.k)
        edge == x \in {0, c.k - 1}
        wanted == IF x < y THEN {2 * m} ELSE IF x # y THEN {2 * m + 1} ELSE {}
        ahead == IF f.in \notin wanted THEN wanted
                 ELSE IF fault THEN {Opposite(f.in)} ELSE {}
        usable(P) == {p \in P : Works(c, f.at, p)}
        misroute == IF edge THEN {IF x = 0 THEN 2 * m ELSE 2 * m + 1}
                            ELSE {2 * m, 2 * m + 1} \ {f.in}
        around(p) == usable(IF Works(c, f.at, p) \/ edge THEN {p} ELSE {Opposite(p)})
        taken(P) == [ports |-> P, ok |-> P # {}]
    IN  IF fault /\ ahead = {} THEN {taken(around(p)) : p \in misroute}
        ELSE IF fault THEN {taken(usable(ahead))}
        ELSE {[ports |-> usable(ahead), ok |-> TRUE]}

planar_adapt_mesh(c, f) ==
    LET v == ClassVCs(c, f)
        third == Width(v) \div 3
        P == Plane(c, f)
        d == First(P)
        ahead == Toward(c, f.at, f.dest, d)
        fault == ~Works(c, f.at, ahead)
        lo == IF ahead % 2 = 0 THEN v.lo ELSE v.lo + third
        straight == IF fault THEN {} ELSE {AtPort(ahead, [lo |-> v.lo + 2 * third, hi |-> v.hi])}
        beside(ports) == {AtPort(p, [lo |-> lo, hi |-> lo + third - 1]) : p \in ports}
    IN  IF f.at = f.dest THEN {Route(f, Local(c), v)}
        ELSE IF P = {} THEN {Abort(f)}
        ELSE {IF s.ok THEN RouteTo(f, straight \cup beside(s.ports)) ELSE Abort(f) :
                s \in SecondPorts(c, f, d, (d + 1) % c.n, fault)}

chaos_mesh(c, f) ==
    {RouteTo(f, IF f.at = f.dest THEN {AtPort(Local(c), One(0))}
                ELSE {AtPort(Toward(c, f.at, f.dest, d), One(0)) :
                        d \in Unmatched(c, f.at, f.dest)})}
------------------------------------------------------------------------------
(* Torus.                                                                     *)

HalfOf(v, part) == IF part = 0 THEN LowerHalf(v) ELSE UpperHalf(v)

(* dim_order_torus and dim_order_bal_torus keep the partition in ph.          *)
DimOrderTorus(c, f, balance) ==
    LET v == ClassVCs(c, f)
    IN  {Route([f EXCEPT !.ph = s.part], s.port,
               IF f.at = f.dest THEN v ELSE HalfOf(v, s.part)) :
            s \in dor_next_torus(c, f.at, f.dest, f.in, f.ph, balance)}
dim_order_torus(c, f) == DimOrderTorus(c, f, FALSE)
dim_order_bal_torus(c, f) == DimOrderTorus(c, f, TRUE)

dim_order_ni_torus(c, f) ==
    {Route(f, s.port, PerDest(c, f)) :
        s \in dor_next_torus(c, f.at, f.dest, f.in, f.ph, FALSE)}

(* The channels of a ring partition, and the half of them of a phase.         *)
RingAndPhase(v, ring, phase) == HalfOf(HalfOf(v, ring), phase)

(* A local variable read before it is written holds any value: the two legal  *)
(* ones, and one that fails the assertion on it.                              *)
Unwritten == {0, 1, 2}

(* valiant_torus: the partition is a local variable here, and a packet that   *)
(* goes straight on does not write it.                                        *)
valiant_torus(c, f) ==
    LET v == ClassVCs(c, f)
        starts == IF f.in = Local(c)
                  THEN {[phase |-> 0, intm |-> i] : i \in CubeNodes(c)}
                  ELSE {[phase |-> f.ph \div 2, intm |-> f.intm]}
        turns(s) == s.phase = 0 /\ f.at = s.intm
        phase(s) == IF turns(s) THEN 1 ELSE s.phase
        steps(s) == UNION {dor_next_torus(c, f.at, IF phase(s) = 0 THEN s.intm ELSE f.dest,
                               IF turns(s) THEN Local(c) ELSE f.in, u, FALSE) : u \in Unwritten}
        outcome(s, t) ==
            LET g == [f EXCEPT !.ph = 2 * phase(s) + t.part, !.intm = s.intm]
            IN  IF f.at = f.dest THEN Route(g, t.port, v)
                ELSE IF t.part \notin {0, 1} THEN Abort(g)
                ELSE Route(g, t.port, RingAndPhase(v, t.part, phase(s)))
    IN  UNION {{outcome(s, t) : t \in steps(s)} : s \in starts}

(* valiant_ni_torus tests f->ph where valiant_torus tests the phase, and      *)
(* overwrites it with the old phase: the turn to phase 1 is forgotten.        *)
valiant_ni_torus(c, f) ==
    LET v == PerDest(c, f)
        starts == IF f.in = Local(c)
                  THEN {[phase |-> 0, intm |-> i] : i \in CubeNodes(c)}
                  ELSE {[phase |-> f.ph \div 2, intm |-> f.intm]}
        turns(s) == f.ph = 0 /\ f.at = s.intm
        steps(s) == UNION {dor_next_torus(c, f.at, IF f.ph = 0 /\ ~turns(s) THEN s.intm ELSE f.dest,
                               IF turns(s) THEN Local(c) ELSE f.in, u, FALSE) : u \in Unwritten}
        outcome(s, t) ==
            LET g == [f EXCEPT !.ph = 2 * s.phase + t.part, !.intm = s.intm]
            IN  IF f.at = f.dest THEN Route(g, t.port, v)
                ELSE IF t.part \notin {0, 1} THEN Abort(g)
                ELSE Route(g, t.port, RingAndPhase(v, t.part, s.phase))
    IN  UNION {{outcome(s, t) : t \in steps(s)} : s \in starts}

(* Four channels: two escape channels, one unused, and the adaptive one.  A   *)
(* packet that is not on an escape channel may enter one as if it started     *)
(* here; the function goes on after adding the ejection port.                 *)
min_adapt_torus(c, f) ==
    LET v == ClassVCs(c, f)
        free == f.in = Local(c) \/ f.vc > v.lo + 1
        way(d) == IF Dist2(c, f.at, f.dest, d) > 0 THEN 2 * d ELSE 2 * d + 1
        adaptive == IF free THEN {AtPort(way(d), One(v.lo + 3)) : d \in Unmatched(c, f.at, f.dest)}
                            ELSE {}
        ejects == IF f.at = f.dest THEN {AtPort(Local(c), v)} ELSE {}
        escape(s) == AtPort(s.port, One(IF s.part = 0 THEN v.lo ELSE v.lo + 1))
    IN  {RouteTo([f EXCEPT !.ph = s.part], {escape(s)} \cup adaptive \cup ejects) :
            s \in dor_next_torus(c, f.at, f.dest, IF free THEN Local(c) ELSE f.in, f.ph, FALSE)}

chaos_torus(c, f) ==
    LET right == {d \in Unmatched(c, f.at, f.dest) : Dist2(c, f.at, f.dest, d) >= 0}
        left == {d \in Unmatched(c, f.at, f.dest) : Dist2(c, f.at, f.dest, d) <= 0}
    IN  {RouteTo(f, IF f.at = f.dest THEN {AtPort(Local(c), One(0))}
                    ELSE {AtPort(2 * d, One(0)) : d \in right}
                         \cup {AtPort(2 * d + 1, One(0)) : d \in left})}
------------------------------------------------------------------------------
(* A packet is injected on any channel of its class.  (The functions that     *)
(* keep a channel per destination choose it here already.)                    *)
CubeInject(c, f) ==
    LET v == ClassVCs(c, f)
    IN  CASE c.func \in {"dim_order_ni_mesh", "romm_ni_mesh", "valiant_ni_torus"} ->
                 PartOf(v, f.dest, c.k^c.n)
          [] c.func = "dim_order_pni_mesh" -> PartOf(v, f.dest % c.k, c.k)
          [] c.func \in {"chaos_mesh", "chaos_torus"} -> One(0)
          [] OTHER -> v

CubeRoute(c, f) ==
    CASE c.func = "dim_order_mesh" -> dim_order_mesh(c, f)
      [] c.func = "dim_order_ni_mesh" -> dim_order_ni_mesh(c, f)
      [] c.func = "dim_order_pni_mesh" -> dim_order_pni_mesh(c, f)
      [] c.func = "xy_yx_mesh" -> xy_yx_mesh(c, f)
      [] c.func = "romm_mesh" -> romm_mesh(c, f)
      [] c.func = "romm_ni_mesh" -> romm_ni_mesh(c, f)
      [] c.func = "valiant_mesh" -> valiant_mesh(c, f)
      [] c.func = "min_adapt_mesh" -> min_adapt_mesh(c, f)
      [] c.func = "planar_adapt_mesh" -> planar_adapt_mesh(c, f)
      [] c.func = "chaos_mesh" -> chaos_mesh(c, f)
      [] c.func = "dim_order_torus" -> dim_order_torus(c, f)
      [] c.func = "dim_order_bal_torus" -> dim_order_bal_torus(c, f)
      [] c.func = "dim_order_ni_torus" -> dim_order_ni_torus(c, f)
      [] c.func = "min_adapt_torus" -> min_adapt_torus(c, f)
      [] c.func = "valiant_torus" -> valiant_torus(c, f)
      [] c.func = "valiant_ni_torus" -> valiant_ni_torus(c, f)
      [] c.func = "chaos_torus" -> chaos_torus(c, f)
==============================================================================
