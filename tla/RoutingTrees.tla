----------------------------- MODULE RoutingTrees -----------------------------
(* The indirect networks: the quad tree (networks/qtree.cpp), the tree with   *)
(* several parents (tree4.cpp), the fat tree (fattree.cpp) and the butterfly  *)
(* (fly.cpp), and their routing functions, from routefunc.cpp.  Except in the *)
(* butterfly, output ports below k lead down, or to a node, and the others up.*)
EXTENDS RouteSets

(* A node hangs on port node % k of the leaf router node \div k.              *)
Leaf(c, node) == node \div c.k
------------------------------------------------------------------------------
(* QTree: k = 4 and n = 3; router pos at height h (0 is the root) is          *)
(* 256 h + pos.                                                               *)
HeightFromID(id) == id \div 256
PosFromID(id) == id % 256

QTreeRouters(c) == UNION {{256 * h + pos : pos \in 0 .. c.k^h - 1} : h \in 0 .. c.n - 1}
QTreeEntry(c, node) == <<256 * (c.n - 1) + Leaf(c, node), node % c.k>>
QTreeEjects(c, at, port) ==
    IF HeightFromID(at) = c.n - 1 /\ port < c.k THEN {c.k * PosFromID(at) + port} ELSE {}
QTreeLink(c, at, port) ==
    LET h == HeightFromID(at)
        pos == PosFromID(at)
    IN  IF port < c.k THEN <<256 * (h + 1) + c.k * pos + port, c.k>>
                      ELSE <<256 * (h - 1) + pos \div c.k, pos % c.k>>

qtree_nca(c, f) ==
    LET dest == f.dest \div c.k^(c.n - 1 - HeightFromID(f.at))
        port == IF PosFromID(f.at) = dest \div c.k THEN dest % c.k ELSE c.k
    IN  {Route(f, port, ClassVCs(c, f))}
------------------------------------------------------------------------------
(* Tree4: k = 4 and n = 3; 4, 8 and 16 routers at heights 0, 1 and 2, router  *)
(* pos at height h is 16 h + pos.  Every router of height 0 is a parent of    *)
(* every one of height 1; a pair of those are the parents of four leaves.     *)
NPOS == 16
Tree4Routers(c) == UNION {{NPOS * h + pos : pos \in 0 .. (<<4, 8, 16>>)[h + 1] - 1} : h \in 0 .. 2}
Tree4Entry(c, node) == <<2 * NPOS + Leaf(c, node), node % c.k>>
Tree4Ejects(c, at, port) ==
    IF at >= 2 * NPOS /\ port < c.k THEN {c.k * (at % NPOS) + port} ELSE {}
Tree4Link(c, at, port) ==
    LET rH == at \div NPOS
        rP == at % NPOS
    IN  IF rH = 0 THEN <<NPOS + port, c.k + rP>>
        ELSE IF rH = 1 /\ port < c.k
             THEN <<2 * NPOS + c.k * (rP \div 2) + port, c.k + (rP % 2)>>
        ELSE IF rH = 1 THEN <<port - c.k, rP>>
        ELSE <<NPOS + 2 * (rP \div 4) + port - c.k, rP % 4>>

(* The port down when the router is above the destination, else the ports up. *)
Tree4Ports(c, f) ==
    LET rH == f.at \div NPOS
        rP == f.at % NPOS
    IN  IF rH = 0 THEN {2 * (f.dest \div 16) + i : i \in RandomInt(1)}
        ELSE IF rH = 1 /\ f.dest \div 16 = rP \div 2 THEN {(f.dest \div 4) % 4}
        ELSE IF rH = 1 THEN {c.k + i : i \in RandomInt(c.k - 1)}
        ELSE IF f.dest \div 4 = rP THEN {f.dest % 4}
        ELSE {c.k + i : i \in RandomInt(1)}

(* tree4_nca draws one port; tree4_anca offers all the ports up at once, and  *)
(* draws only on the way down from the root.                                  *)
tree4_nca(c, f) == {Route(f, port, ClassVCs(c, f)) : port \in Tree4Ports(c, f)}
tree4_anca(c, f) ==
    IF f.at < NPOS THEN tree4_nca(c, f)
    ELSE {RouteTo(f, {AtPort(port, ClassVCs(c, f)) : port \in Tree4Ports(c, f)})}
------------------------------------------------------------------------------
(* FatTree: n levels (0 is the top) of k^(n-1) routers.                       *)
PerLevel(c) == c.k^(c.n - 1)
FatTreeRouters(c) == 0 .. c.n * PerLevel(c) - 1
FatTreeEntry(c, node) == <<(c.n - 1) * PerLevel(c) + Leaf(c, node), node % c.k>>
FatTreeEjects(c, at, port) ==
    IF at >= (c.n - 1) * PerLevel(c) /\ port < c.k
    THEN {c.k * (at % PerLevel(c)) + port} ELSE {}

(* The levels upper and upper + 1 are wired in neighbourhoods of "hood"       *)
(* routers: output port p of the router at pos, on either side, leads to the  *)
(* router of the neighbourhood that has digit p where pos has its branch, and *)
(* comes in there by the port of that branch.                                 *)
Crossed(c, upper, pos, p) ==
    LET hood == c.k^(c.n - 1 - upper)
        branch == hood \div c.k
    IN  [pos |-> (pos \div hood) * hood + p * branch + (pos % branch),
         port |-> (pos % hood) \div branch]
FatTreeLink(c, at, port) ==
    LET level == at \div PerLevel(c)
        pos == at % PerLevel(c)
        down == Crossed(c, level, pos, port)
        up == Crossed(c, level - 1, pos, port - c.k)
    IN  IF port < c.k THEN <<(level + 1) * PerLevel(c) + down.pos, c.k + down.port>>
                      ELSE <<(level - 1) * PerLevel(c) + up.pos, up.port>>

(* fattree_nca, and fattree_anca, which draws two ports up and takes the one  *)
(* with more credit: up until the subtree of the router holds the             *)
(* destination, then down.  Only a packet from below may go up.               *)
fattree_nca(c, f) ==
    LET pos == f.at % PerLevel(c)
        depth == f.at \div PerLevel(c)
        hood == pos \div c.k^(c.n - depth - 1)
        coverage == c.k^(c.n - depth)
        below == f.dest - hood * coverage
        v == ClassVCs(c, f)
    IN  IF below \in 0 .. coverage - 1
        THEN {Route(f, IF depth = c.n - 1 THEN f.dest % c.k ELSE below \div (coverage \div c.k), v)}
        ELSE IF f.in >= c.k THEN {Abort(f)}
        ELSE {Route(f, c.k + i, v) : i \in RandomInt(c.k - 1)}
------------------------------------------------------------------------------
(* KNFly: n stages of k^(n-1) routers; between two stages the port and one    *)
(* digit of the address change places.                                        *)
FlyRouters(c) == 0 .. c.n * PerLevel(c) - 1
FlyEntry(c, node) == <<Leaf(c, node), node % c.k>>
FlyEjects(c, at, port) ==
    IF at >= (c.n - 1) * PerLevel(c) THEN {c.k * (at % PerLevel(c)) + port} ELSE {}
FlyLink(c, at, port) ==
    LET stage == at \div PerLevel(c)
        digit == Digit(at % PerLevel(c), c.n - stage - 2, c.k)
    IN  <<at + PerLevel(c) + (port - digit) * c.k^(c.n - stage - 2), digit>>

(* The digits of the destination, the most significant first.                 *)
dest_tag_fly(c, f) ==
    {Route(f, Digit(f.dest, c.n - 1 - f.at \div PerLevel(c), c.k), ClassVCs(c, f))}
==============================================================================
