----------------------------- MODULE RoutingFlat -----------------------------
(* The networks that come with routing functions of their own: concentrated   *)
(* mesh (networks/cmesh.cpp), flattened butterfly (flatfly_onchip.cpp),       *)
(* dragonfly (dragonfly.cpp) and the network read from a file (anynet.cpp).   *)
(* The first c.c (dragonfly: k) ports of a router are its nodes' own.         *)
EXTENDS RouteSets

Abs(x) == IF x < 0 THEN -x ELSE x
SquareRouters(c) == 0 .. c.k^c.n - 1
------------------------------------------------------------------------------
(* CMesh: n = 2, and c = 4 nodes, two by two, on a router.  The channel out   *)
(* of the mesh at an edge router is an express channel along that edge, to    *)
(* the router half the edge away.                                             *)
Concentration == 2
NodeToRouter(c, node) ==
    LET across == Concentration * c.k
    IN  ((node \div across) \div Concentration) * c.k + (node % across) \div Concentration
NodeToPort(c, node) ==
    Concentration * ((node \div (2 * c.k)) % 2) + (node % 2)
CMeshNodes(c) == 0 .. c.c * c.k^c.n - 1
CMeshEntry(c, node) == <<NodeToRouter(c, node), NodeToPort(c, node)>>

(* The nodes are laid out in rows over the whole mesh.                        *)
CMeshEjects(c, at, port) ==
    IF port >= c.c THEN {}
    ELSE {(c.k * Concentration) * (Concentration * (at \div c.k) + port \div Concentration)
          + Concentration * (at % c.k) + (port % Concentration)}

AcrossEdge(c, x) == IF x < c.k \div 2 THEN x + c.k \div 2 ELSE x - c.k \div 2
CMeshLink(c, at, port) ==
    LET x == at % c.k
        y == at \div c.k
        p == port - c.c
        router(i, j) == c.k * j + i
    IN  CASE p = 0 -> IF x < c.k - 1 THEN <<router(x + 1, y), c.c + 1>>
                                      ELSE <<router(x, AcrossEdge(c, y)), c.c>>
          [] p = 1 -> IF x > 0 THEN <<router(x - 1, y), c.c>>
                               ELSE <<router(x, AcrossEdge(c, y)), c.c + 1>>
          [] p = 2 -> IF y < c.k - 1 THEN <<router(x, y + 1), c.c + 3>>
                                      ELSE <<router(AcrossEdge(c, x), y), c.c + 2>>
          [] p = 3 -> IF y > 0 THEN <<router(x, y - 1), c.c + 2>>
                               ELSE <<router(AcrossEdge(c, x), y), c.c + 3>>

(* One step in x, or in y.  A packet that is on an edge along its way and has *)
(* more than "far" routers to go takes the express channel.                   *)
(* FAULT: takes the express channel one router too early. *)
StepXSooner(c, cur, dest, far) ==
    LET d == (dest % c.k) - (cur % c.k)
    IN  IF Abs(d) >= far /\ cur \div c.k = 0 THEN c.c + 3
        ELSE IF Abs(d) >= far /\ cur \div c.k = c.k - 1 THEN c.c + 2
        ELSE IF d > 0 THEN c.c ELSE c.c + 1
StepX(c, cur, dest, far) ==
    LET d == (dest % c.k) - (cur % c.k)
    IN  IF Abs(d) > far /\ cur \div c.k = 0 THEN c.c + 3
        ELSE IF Abs(d) > far /\ cur \div c.k = c.k - 1 THEN c.c + 2
        ELSE IF d > 0 THEN c.c ELSE c.c + 1
StepY(c, cur, dest, far) ==
    LET d == (dest \div c.k) - (cur \div c.k)
    IN  IF Abs(d) > far /\ cur % c.k = 0 THEN c.c + 1
        ELSE IF Abs(d) > far /\ cur % c.k = c.k - 1 THEN c.c
        ELSE IF d > 0 THEN c.c + 2 ELSE c.c + 3
CMeshStep(c, cur, dest, x_then_y, far) ==
    LET inX == cur % c.k # dest % c.k
        inY == cur \div c.k # dest \div c.k
    IN  IF inX /\ (x_then_y \/ ~inY) THEN StepX(c, cur, dest, far) ELSE StepY(c, cur, dest, far)

NoExpress(c) == c.k
dor_cmesh(c, f) ==
    LET dest == NodeToRouter(c, f.dest)
        far == IF c.func = "dor_cmesh" THEN c.k \div 2 - 1 ELSE NoExpress(c)
    IN  {Route(f, IF dest = f.at THEN NodeToPort(c, f.dest)
                                 ELSE CMeshStep(c, f.at, dest, TRUE, far), ClassVCs(c, f))}

(* x-y or y-x, drawn on entry and told from the channel after.                *)
xy_yx_cmesh(c, f) ==
    LET v == ClassVCs(c, f)
        dest == NodeToRouter(c, f.dest)
        far == IF c.func = "xy_yx_cmesh" THEN 1 ELSE NoExpress(c)
        orders == IF f.in < c.c THEN BOOLEAN ELSE {f.vc < v.lo + Half(v)}
    IN  IF dest = f.at THEN {Route(f, NodeToPort(c, f.dest), v)}
        ELSE {Route(f, CMeshStep(c, f.at, dest, xy, far), IF xy THEN LowerHalf(v) ELSE UpperHalf(v)) :
                xy \in orders}
------------------------------------------------------------------------------
(* FlatFlyOnChip: in every dimension a router has a channel to every other    *)
(* router that differs from it in that digit only.  Nodes are numbered in     *)
(* rows over the whole chip; flatfly_transformation numbers them by router.   *)
Side(c) == CHOOSE s \in 1 .. c.c : s * s = c.c
flatfly_transformation(c, node) ==
    LET row == c.k * Side(c)
        x == node % row
        y == node \div row
    IN  ((y \div Side(c)) * c.k + x \div Side(c)) * c.c
        + Side(c) * (y % Side(c)) + (x % Side(c))
FlatFlyNodes(c) == 0 .. c.c * c.k^c.n - 1
FlatFlyEntry(c, node) ==
    <<flatfly_transformation(c, node) \div c.c, flatfly_transformation(c, node) % c.c>>
FlatFlyEjects(c, at, port) ==
    {node \in FlatFlyNodes(c) : port < c.c /\ FlatFlyEntry(c, node) = <<at, port>>}

DifferIn(c, a, b) == {d \in 0 .. c.n - 1 : Digit(a, d, c.k) # Digit(b, d, c.k)}
FlatFlyLink(c, at, port) ==
    LET d == (port - c.c) \div (c.k - 1)
        i == (port - c.c) % (c.k - 1)
        digit == IF i < Digit(at, d, c.k) THEN i ELSE i + 1
        other == at + (digit - Digit(at, d, c.k)) * c.k^d
        before == {r \in 0 .. at - 1 : Cardinality(DifferIn(c, r, other)) = 1}
    IN  <<other, c.c + Cardinality(before)>>

(* The port toward a node, lowest dimension first, or highest first.          *)
PortInDim(c, dest, rID, d) ==
    LET dID == Digit(dest, d, c.k)
        sID == Digit(rID, d, c.k)
    IN  c.c + (c.k - 1) * d + (IF dID > sID THEN dID - 1 ELSE dID)
FlatFlyOutport(c, dest, rID, yx) ==
    LET D == DifferIn(c, dest \div c.c, rID)
        d == CHOOSE x \in D : \A y \in D : IF yx THEN y <= x ELSE x <= y
    IN  IF D = {} THEN dest % c.c ELSE PortInDim(c, dest \div c.c, rID, d)
flatfly_outport(c, dest, rID) == FlatFlyOutport(c, dest, rID, FALSE)
flatfly_outport_yx(c, dest, rID) == FlatFlyOutport(c, dest, rID, TRUE)

find_distance(c, src, dest) == Cardinality(DifferIn(c, src \div c.c, dest \div c.c))

(* find_ran_intm: a node (of any router, by its first port) that shares with  *)
(* source and destination the digits they share.                              *)
find_ran_intm(c, src, dest) ==
    {r * c.c : r \in {x \in SquareRouters(c) :
        DifferIn(c, x, src \div c.c) \subseteq DifferIn(c, src \div c.c, dest \div c.c)}}

min_flatfly(c, f) ==
    {Route(f, flatfly_outport(c, flatfly_transformation(c, f.dest), f.at), ClassVCs(c, f))}

(* xyyx_flatfly, and adaptive_xyyx_flatfly, where credits make the choice.    *)
xyyx_flatfly(c, f) ==
    LET v == ClassVCs(c, f)
        dest == flatfly_transformation(c, f.dest)
        orders == IF f.in < c.c THEN BOOLEAN ELSE {f.vc < v.lo + Half(v)}
    IN  IF dest \div c.c = f.at THEN {Route(f, dest % c.c, v)}
        ELSE {Route(f, FlatFlyOutport(c, dest, f.at, ~xy), IF xy THEN LowerHalf(v) ELSE UpperHalf(v)) :
                xy \in orders}

valiant_flatfly(c, f) ==
    LET v == ClassVCs(c, f)
        dest == flatfly_transformation(c, f.dest)
        entered == IF f.in < c.c THEN {[f EXCEPT !.ph = 0, !.intm = i] : i \in FlatFlyNodes(c)} ELSE {f}
        intm(g) == flatfly_transformation(c, g.intm)
        arrived(g) == f.at \in {intm(g) \div c.c, dest \div c.c}
        flits == {IF arrived(g) THEN [g EXCEPT !.ph = 1] ELSE g : g \in entered}
    IN  {Route(g, flatfly_outport(c, IF g.ph = 0 THEN intm(g) ELSE dest, f.at),
               IF dest \div c.c = f.at THEN v
               ELSE IF g.ph = 0 THEN LowerHalf(v) ELSE UpperHalf(v)) : g \in flits}

(* UGAL: a packet that enters compares the queue on the minimal way with the  *)
(* queue on the way by a random node, and goes the one (ph 2) or the other    *)
(* (ph 1).  The queue toward a node of this very router counts as INT_MAX;    *)
(* times the hops, plus the threshold, it overflows, so either way may win:   *)
(* a packet sent by way of its own router goes on in ph 2.                    *)
UGALFlits(c, f) ==
    LET dest == flatfly_transformation(c, f.dest)
        src == flatfly_transformation(c, f.src)
        entered == IF f.in < c.c THEN [f EXCEPT !.ph = 0] ELSE f
        here(node) == node \div c.c = f.at
        byWay(i) == [entered EXCEPT !.ph = IF here(i) THEN 2 ELSE 1, !.intm = i]
    IN  IF entered.ph = 1 /\ here(entered.intm) THEN {[entered EXCEPT !.ph = 2]}
        ELSE IF entered.ph = 0 /\ ~here(dest)
        THEN {[entered EXCEPT !.ph = 2]} \cup {byWay(i) : i \in find_ran_intm(c, src, dest)}
        ELSE {entered}

UGALHeading(c, g) == IF g.ph = 1 THEN g.intm ELSE flatfly_transformation(c, g.dest)
UGALPhase(v, g) == IF g.ph = 1 THEN LowerHalf(v) ELSE UpperHalf(v)
RouteOrFail(c, g, port, v) ==
    IF port >= c.n * (c.k - 1) + c.c THEN Abort(g) ELSE Route(g, port, v)

ugal_flatfly_onchip(c, f) ==
    LET v == ClassVCs(c, f)
        port(g) == flatfly_outport(c, UGALHeading(c, g), f.at)
    IN  {RouteOrFail(c, g, port(g), IF port(g) < c.c THEN v ELSE UGALPhase(v, g)) :
            g \in UGALFlits(c, f)}

(* Over x-y or y-x, with a quarter of the channels each.                      *)
ugal_xyyx_flatfly_onchip(c, f) ==
    LET v == ClassVCs(c, f)
        orders == IF f.in < c.c THEN BOOLEAN ELSE {f.vc < v.lo + Half(v)}
        port(g, xy) == FlatFlyOutport(c, UGALHeading(c, g), f.at, ~xy)
        range(g, xy) == IF port(g, xy) < c.c THEN v
                        ELSE UGALPhase(IF xy THEN LowerHalf(v) ELSE UpperHalf(v), g)
    IN  {RouteOrFail(c, x[1], port(x[1], x[2]), range(x[1], x[2])) : x \in UGALFlits(c, f) \X orders}

(* With the channels of a phase split again by the coordinate of the          *)
(* destination in the dimension after the one of the port, the node's port    *)
(* after the last.                                                            *)
NextCoord(c, f, port) ==
    LET dest == flatfly_transformation(c, f.dest)
        next == (port - c.c) \div (c.k - 1) + 1
    IN  IF next = c.n THEN dest % c.c ELSE Digit(dest \div c.c, next, c.k)
FlatFlyPniInject(c, f) ==
    PartOf(ClassVCs(c, f), Digit(flatfly_transformation(c, f.dest) \div c.c, 0, c.k), c.k)
ugal_pni_flatfly_onchip(c, f) ==
    LET v == ClassVCs(c, f)
        port(g) == flatfly_outport(c, UGALHeading(c, g), f.at)
    IN  {IF port(g) < c.c THEN Route(g, port(g), v)
         ELSE IF c.k # c.c \/ g.ph \notin {1, 2} \/ NextCoord(c, g, port(g)) >= c.k THEN Abort(g)
         ELSE RouteOrFail(c, g, port(g),
                  PartOf(UGALPhase(v, g), NextCoord(c, g, port(g)), c.k)) : g \in UGALFlits(c, f)}
------------------------------------------------------------------------------
(* DragonFlyNew: k nodes on a router, 2k routers in a group, and 2k k + 1     *)
(* groups, each with one channel to every other.                              *)
GP(c) == c.k
GA(c) == 2 * c.k
GG(c) == GA(c) * GP(c) + 1
DragonFlyNodes(c) == 0 .. GG(c) * GA(c) * GP(c) - 1
DragonFlyRouters(c) == 0 .. GG(c) * GA(c) - 1
FirstGlobal(c) == GP(c) + GA(c) - 1
Group(c, rID) == rID \div GA(c)
GroupOfNode(c, node) == node \div (GA(c) * GP(c))

DragonFlyEntry(c, node) == <<node \div GP(c), node % GP(c)>>
DragonFlyEjects(c, at, port) == IF port < GP(c) THEN {at * GP(c) + port} ELSE {}

(* The index of something among the others: its own number left out.          *)
AmongOthers(x, own) == IF x > own THEN x - 1 ELSE x
FromOthers(i, own) == IF i >= own THEN i + 1 ELSE i

DragonFlyLink(c, at, port) ==
    LET group == Group(c, at)
        i == at % GA(c)
        j == FromOthers(port - GP(c), i)
        grp_output == i * GP(c) + port - FirstGlobal(c)
        far == FromOthers(grp_output, group)
        back == AmongOthers(group, far)
    IN  IF port < FirstGlobal(c)
        THEN <<group * GA(c) + j, GP(c) + AmongOthers(i, j)>>
        ELSE <<far * GA(c) + back \div GP(c), FirstGlobal(c) + (back % GP(c))>>

(* The router of the group that has the channel to the group of a node, or    *)
(* the node.                                                                  *)
Gateway(c, group, dest) ==
    LET far == GroupOfNode(c, dest)
    IN  IF far = group THEN dest \div GP(c)
        ELSE AmongOthers(far, group) \div GP(c) + group * GA(c)

dragonfly_port(c, rID, dest) ==
    LET group == Group(c, rID)
        grp_RID == Gateway(c, group, dest)
    IN  IF dest \div GP(c) = rID THEN dest % GP(c)
        ELSE IF grp_RID = rID
             THEN FirstGlobal(c) + (AmongOthers(GroupOfNode(c, dest), group) % GP(c))
        ELSE GP(c) + (grp_RID % GA(c)) - (IF rID < grp_RID THEN 1 ELSE 0)

dragonflynew_hopcnt(c, src, dest) ==
    LET s == GroupOfNode(c, src)
        d == GroupOfNode(c, dest)
        hop(r, node) == IF r = node \div GP(c) THEN 0 ELSE 1
    IN  IF s = d THEN hop(src \div GP(c), dest)
        ELSE hop(Gateway(c, s, dest), src) + 1 + hop(Gateway(c, d, src), dest)

(* The channel is the phase, which turns on the optical channel.              *)
min_dragonflynew(c, f) ==
    LET port == dragonfly_port(c, f.at, f.dest)
        entered == IF f.in < GP(c) THEN [f EXCEPT !.ph = 0] ELSE f
        g == IF port >= FirstGlobal(c) THEN [entered EXCEPT !.ph = 1] ELSE entered
    IN  {Route(g, port, One(g.ph))}

(* UGAL: on entry to another group's node, the minimal way (ph 1), or by way  *)
(* of a node of a third group (ph 0), as queues and threshold decide.         *)
ugal_dragonflynew(c, f) ==
    LET group == Group(c, f.at)
        intms == DragonFlyNodes(c)
        entered == IF f.in >= GP(c) THEN {f}
                   ELSE IF GroupOfNode(c, f.dest) = group THEN {[f EXCEPT !.ph = 2]}
                   ELSE {[f EXCEPT !.ph = 1, !.intm = i] : i \in intms}
                        \cup {[f EXCEPT !.ph = 0, !.intm = i] :
                                i \in {x \in intms : GroupOfNode(c, x) # group}}
        arrived(g) == g.ph = 0 /\ f.at = g.intm \div GP(c)
        flits == {IF arrived(g) THEN [g EXCEPT !.ph = 1] ELSE g : g \in entered}
        port(g) == dragonfly_port(c, f.at, IF g.ph = 0 THEN g.intm ELSE g.dest)
        crossed(g) == IF g.ph = 1 /\ port(g) >= FirstGlobal(c) THEN [g EXCEPT !.ph = 2] ELSE g
    IN  {Route(crossed(g), port(g), One(crossed(g).ph)) : g \in flits}
------------------------------------------------------------------------------
(* AnyNet: c.home gives the router of each node, c.latency the latency of     *)
(* each channel <<from, to>>.  Ports are numbered nodes first, then routers,  *)
(* both in the order of their numbers.                                        *)
AnyNetNodes(c) == DOMAIN c.home
AnyNetRouters(c) == {c.home[x] : x \in DOMAIN c.home} \cup {x[1] : x \in DOMAIN c.latency}
NodesAt(c, r) == {x \in DOMAIN c.home : c.home[x] = r}
Neighbors(c, r) == {s \in AnyNetRouters(c) : <<r, s>> \in DOMAIN c.latency}
Rank(x, S) == Cardinality({y \in S : y < x})
NodePort(c, node) == Rank(node, NodesAt(c, c.home[node]))
LinkPort(c, r, s) == Cardinality(NodesAt(c, r)) + Rank(s, Neighbors(c, r))

AnyNetEntry(c, node) == <<c.home[node], NodePort(c, node)>>
AnyNetEjects(c, at, port) == {x \in NodesAt(c, at) : NodePort(c, x) = port}
AnyNetLink(c, at, port) ==
    LET s == CHOOSE x \in Neighbors(c, at) : LinkPort(c, at, x) = port
    IN  <<s, LinkPort(c, s, at)>>

(* AnyNet::route: Dijkstra's algorithm from r_start; of the routers at the    *)
(* least distance the lowest is settled first, and only a strictly shorter    *)
(* way replaces one found before.                                             *)
MaxInt == 2147483647
Settle(c, s) ==
    LET cand == CHOOSE x \in s.rlist : \A y \in s.rlist :
                    s.dist[x] < s.dist[y] \/ (s.dist[x] = s.dist[y] /\ x <= y)
        new(i) == s.dist[cand] + c.latency[<<cand, i>>]
        closer == {i \in Neighbors(c, cand) : new(i) < s.dist[i]}
    IN  [dist |-> [i \in DOMAIN s.dist |-> IF i \in closer THEN new(i) ELSE s.dist[i]],
         prev |-> [i \in DOMAIN s.prev |-> IF i \in closer THEN cand ELSE s.prev[i]],
         rlist |-> s.rlist \ {cand}]

RouteFrom(c, r_start) ==
    LET R == AnyNetRouters(c)
        settled[i \in 0 .. Cardinality(R)] ==
            IF i = 0 THEN [dist |-> [r \in R |-> IF r = r_start THEN 0 ELSE MaxInt],
                           prev |-> [r \in R |-> -1], rlist |-> R]
            ELSE LET before == settled[i - 1] IN Settle(c, before)
    IN  settled[Cardinality(R)].prev

(* The first router after r_start on the way to every other, back along prev. *)
FirstHops(prev, r_start) ==
    LET first[r \in {x \in DOMAIN prev : prev[x] # -1}] ==
            IF prev[r] = r_start THEN r ELSE first[prev[r]]
    IN  first

BuildRoutingTable(c) ==
    [r \in AnyNetRouters(c) |->
        LET hop == FirstHops(RouteFrom(c, r), r)
        IN  [node \in AnyNetNodes(c) |->
                IF c.home[node] \in DOMAIN hop THEN LinkPort(c, r, hop[c.home[node]])
                                               ELSE NodePort(c, node)]]

min_anynet(c, f, table) == {Route(f, table[f.at][f.dest], ClassVCs(c, f))}
==============================================================================
