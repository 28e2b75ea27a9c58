------------------------------ MODULE RouteSets ------------------------------
(* What the routing functions of BookSim2 share: the virtual channels of a    *)
(* traffic class, the ways the functions cut them into parts, and the route   *)
(* set (OutputSet) a function writes.                                         *)
(*                                                                            *)
(* A network configuration c is a record: func names the routing function,    *)
(* k, n and c are gK, gN and gC, vcs is gNumVCs, classes the traffic classes, *)
(* and faulty the set of failed outputs <<router, port>>.                     *)
(* A head flit f is a record: the router it is at, the input port it came in  *)
(* by, its vc, cl, src and dest, and the two fields a routing function writes *)
(* back into the flit, ph and intm.                                           *)
(*                                                                            *)
(* A routing function returns the set of its possible outcomes: one per       *)
(* random draw, and one per order of the credit counts it compares, which     *)
(* stand for any congestion.  An outcome gives the flit's new ph and intm,    *)
(* the route set as ranges of virtual channels at output ports, and whether   *)
(* every assertion on the way held.                                           *)
EXTENDS Integers, FiniteSets

GVcBegin(c, cl) == (cl * c.vcs) \div c.classes
GVcEnd(c, cl) == ((cl + 1) * c.vcs) \div c.classes - 1

(* The range [lo, hi] of the virtual channels of the flit's class.            *)
ClassVCs(c, f) == [lo |-> GVcBegin(c, f.cl), hi |-> GVcEnd(c, f.cl)]

Width(v) == v.hi - v.lo + 1
Half(v) == Width(v) \div 2

(* "available_vcs" off one end of the range: of an odd number of channels     *)
(* both parts keep the middle one.                                            *)
LowerHalf(v) == [lo |-> v.lo, hi |-> v.hi - Half(v)]
UpperHalf(v) == [lo |-> v.lo + Half(v), hi |-> v.hi]

(* The i-th of the parts a range is cut into ("vcs_per_dest").                *)
PartOf(v, i, parts) ==
    LET per == Width(v) \div parts
    IN  [lo |-> v.lo + i * per, hi |-> v.lo + (i + 1) * per - 1]

One(vc) == [lo |-> vc, hi |-> vc]

(* OutputSet::AddRange: the channels v of output port "port".                 *)
AtPort(port, v) == [port |-> port, lo |-> v.lo, hi |-> v.hi]

Outcome(f, set, ok) == [ph |-> f.ph, intm |-> f.intm, set |-> set, ok |-> ok]
Route(f, port, v) == Outcome(f, {AtPort(port, v)}, TRUE)
RouteTo(f, set) == Outcome(f, set, TRUE)
Abort(f) == Outcome(f, {}, FALSE)

(* Digit d of the mixed-radix address x.                                      *)
Digit(x, d, k) == (x \div k^d) % k

(* RandomInt(n) draws from 0 to n.                                            *)
RandomInt(n) == 0 .. n
==============================================================================
