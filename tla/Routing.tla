------------------------------- MODULE Routing -------------------------------
(* A packet on its way through a BookSim2 network: it waits at its source,    *)
(* enters the network on a channel of its class, and at every router is given *)
(* a route set by the routing function and goes on by one of the channels in  *)
(* it.  Which of them is for allocators and credits to say, so any is taken.  *)
(*                                                                            *)
(* One packet at a time moves here.  What packets do to each other is in      *)
(* Stuck: the positions from which packets can block one another for good.    *)
EXTENDS RoutingCube, RoutingTrees, RoutingFlat, Functions, FiniteSetsExt

CONSTANT Configs    \* the network configurations, with the fields topo, sources and dests too

VARIABLES
    net,    \* the configuration
    flit,   \* the head flit of the packet
    state,  \* "queued", "network" or "delivered"
    sink    \* the node that took the packet, or -1

vars == <<net, flit, state, sink>>
------------------------------------------------------------------------------
(* The topology and the routing function of a configuration.                  *)

Routers(c) ==
    CASE c.topo \in {"mesh", "torus"} -> CubeRouters(c)
      [] c.topo = "qtree" -> QTreeRouters(c)
      [] c.topo = "tree4" -> Tree4Routers(c)
      [] c.topo = "fattree" -> FatTreeRouters(c)
      [] c.topo = "fly" -> FlyRouters(c)
      [] c.topo \in {"cmesh", "flatfly"} -> SquareRouters(c)
      [] c.topo = "dragonfly" -> DragonFlyRouters(c)
      [] c.topo = "anynet" -> AnyNetRouters(c)

(* The router and input port a node injects at.                               *)
Entry(c, n) ==
    CASE c.topo \in {"mesh", "torus"} -> CubeEntry(c, n)
      [] c.topo = "qtree" -> QTreeEntry(c, n)
      [] c.topo = "tree4" -> Tree4Entry(c, n)
      [] c.topo = "fattree" -> FatTreeEntry(c, n)
      [] c.topo = "fly" -> FlyEntry(c, n)
      [] c.topo = "cmesh" -> CMeshEntry(c, n)
      [] c.topo = "flatfly" -> FlatFlyEntry(c, n)
      [] c.topo = "dragonfly" -> DragonFlyEntry(c, n)
      [] c.topo = "anynet" -> AnyNetEntry(c, n)

(* The node behind an output port, if there is one, and the router and input  *)
(* port behind any other.                                                     *)
Ejects(c, at, port) ==
    CASE c.topo \in {"mesh", "torus"} -> CubeEjects(c, at, port)
      [] c.topo = "qtree" -> QTreeEjects(c, at, port)
      [] c.topo = "tree4" -> Tree4Ejects(c, at, port)
      [] c.topo = "fattree" -> FatTreeEjects(c, at, port)
      [] c.topo = "fly" -> FlyEjects(c, at, port)
      [] c.topo = "cmesh" -> CMeshEjects(c, at, port)
      [] c.topo = "flatfly" -> FlatFlyEjects(c, at, port)
      [] c.topo = "dragonfly" -> DragonFlyEjects(c, at, port)
      [] c.topo = "anynet" -> AnyNetEjects(c, at, port)

Link(c, at, port) ==
    CASE c.topo \in {"mesh", "torus"} -> CubeLink(c, at, port)
      [] c.topo = "qtree" -> QTreeLink(c, at, port)
      [] c.topo = "tree4" -> Tree4Link(c, at, port)
      [] c.topo = "fattree" -> FatTreeLink(c, at, port)
      [] c.topo = "fly" -> FlyLink(c, at, port)
      [] c.topo = "cmesh" -> CMeshLink(c, at, port)
      [] c.topo = "flatfly" -> FlatFlyLink(c, at, port)
      [] c.topo = "dragonfly" -> DragonFlyLink(c, at, port)
      [] c.topo = "anynet" -> AnyNetLink(c, at, port)

(* AnyNet computes its table once, when the network is built.                 *)
RoutingTables ==
    {<<c, BuildRoutingTable(c)>> : c \in {x \in Configs : x.topo = "anynet"}}
RoutingTable(c) == (CHOOSE t \in RoutingTables : t[1] = c)[2]

RoutingFunction(c, f) ==
    CASE c.topo \in {"mesh", "torus"} -> CubeRoute(c, f)
      [] c.func = "qtree_nca" -> qtree_nca(c, f)
      [] c.func = "tree4_nca" -> tree4_nca(c, f)
      [] c.func = "tree4_anca" -> tree4_anca(c, f)
      [] c.func = "fattree_nca" -> fattree_nca(c, f)
      [] c.func = "dest_tag_fly" -> dest_tag_fly(c, f)
      [] c.func \in {"dor_cmesh", "dor_no_express_cmesh"} -> dor_cmesh(c, f)
      [] c.func \in {"xy_yx_cmesh", "xy_yx_no_express_cmesh"} -> xy_yx_cmesh(c, f)
      [] c.func = "min_flatfly" -> min_flatfly(c, f)
      [] c.func = "xyyx_flatfly" -> xyyx_flatfly(c, f)
      [] c.func = "valiant_flatfly" -> valiant_flatfly(c, f)
      [] c.func = "ugal_flatfly_onchip" -> ugal_flatfly_onchip(c, f)
      [] c.func = "ugal_xyyx_flatfly_onchip" -> ugal_xyyx_flatfly_onchip(c, f)
      [] c.func = "ugal_pni_flatfly_onchip" -> ugal_pni_flatfly_onchip(c, f)
      [] c.func = "min_dragonflynew" -> min_dragonflynew(c, f)
      [] c.func = "ugal_dragonflynew" -> ugal_dragonflynew(c, f)
      [] c.func = "min_anynet" -> min_anynet(c, f, RoutingTable(c))

(* Every other function first asserts that the flit is on one of its channels.*)
InClass(c, f) == f.vc \in ClassVCs(c, f).lo .. ClassVCs(c, f).hi
Outcomes(c, f) ==
    IF c.topo \in {"dragonfly", "anynet"} \/ InClass(c, f) THEN RoutingFunction(c, f) ELSE {Abort(f)}

(* The channels a node may inject on.                                         *)
InjectVCs(c, f) ==
    CASE c.topo \in {"mesh", "torus"} -> CubeInject(c, f)
      [] c.func = "ugal_pni_flatfly_onchip" -> FlatFlyPniInject(c, f)
      [] c.topo = "dragonfly" -> [lo |-> 0, hi |-> c.vcs - 1]
      [] OTHER -> ClassVCs(c, f)

(* The channels of an outcome: <<output port, vc>>.                           *)
Channels(o) == UNION {{<<e.port, vc>> : vc \in e.lo .. e.hi} : e \in o.set}
Ejection(c, f, ch) == Ejects(c, f.at, ch[1]) # {}

(* The flit when it has gone on by a channel.                                 *)
Moved(c, f, o, ch) ==
    LET to == Link(c, f.at, ch[1])
    IN  [f EXCEPT !.at = to[1], !.in = to[2], !.vc = ch[2], !.ph = o.ph, !.intm = o.intm]

Queued(c, src, dest, cl) ==
    [at |-> Entry(c, src)[1], in |-> Entry(c, src)[2], vc |-> -1, cl |-> cl,
     src |-> src, dest |-> dest, ph |-> -1, intm |-> 0]
Injected(c, f) == {[f EXCEPT !.vc = vc] : vc \in InjectVCs(c, f).lo .. InjectVCs(c, f).hi}
------------------------------------------------------------------------------
(* The life of a packet.  A failed assertion ends the program, and so it ends *)
(* here: the packet goes on by the outcomes that are ok.                      *)

Init ==
    /\ net \in Configs
    /\ \E src \in net.sources, dest \in net.dests, cl \in 0 .. net.classes - 1 :
        flit = Queued(net, src, dest, cl)
    /\ state = "queued"
    /\ sink = -1

Inject ==
    /\ state = "queued"
    /\ flit' \in Injected(net, flit)
    /\ state' = "network"
    /\ UNCHANGED <<net, sink>>

Forward ==
    /\ state = "network"
    /\ \E o \in {x \in Outcomes(net, flit) : x.ok} : \E ch \in Channels(o) :
        /\ ~Ejection(net, flit, ch)
        /\ flit' = Moved(net, flit, o, ch)
    /\ UNCHANGED <<net, state, sink>>

Eject ==
    /\ state = "network"
    /\ \E o \in {x \in Outcomes(net, flit) : x.ok} : \E ch \in Channels(o) :
        sink' \in Ejects(net, flit.at, ch[1])
    /\ state' = "delivered"
    /\ UNCHANGED <<net, flit>>

Done ==
    /\ state = "delivered"
    /\ UNCHANGED vars

Next == Inject \/ Forward \/ Eject \/ Done

(* A router gives every packet at the head of a buffer its turn.              *)
Fairness == WF_vars(Inject) /\ WF_vars(Forward \/ Eject)
Spec == Init /\ [][Next]_vars /\ Fairness
------------------------------------------------------------------------------
(* The length of the shortest way between routers: in hops, or in latency in  *)
(* the network read from a file.  In trees and graphs, by relaxation.         *)

Abs2(c, a, b, d) == Abs(Digit(a, d, c.k) - Digit(b, d, c.k))
Total(f) == FoldFunctionOnSet(+, 0, f, DOMAIN f)

OutPorts(c, r) ==
    CASE c.topo = "qtree" -> 0 .. c.k
      [] c.topo = "tree4" -> IF r >= 2 * NPOS THEN 0 .. c.k + 1 ELSE 0 .. 2 * c.k - 1
      [] c.topo = "fattree" -> 0 .. 2 * c.k - 1
      [] c.topo = "fly" -> 0 .. c.k - 1

Hops(c) ==
    IF c.topo = "anynet" THEN c.latency
    ELSE [e \in UNION {{<<r, Link(c, r, p)[1]>> : p \in {q \in OutPorts(c, r) : Ejects(c, r, q) = {}}} :
                            r \in Routers(c)} |-> 1]

(* The router a node takes its packets from.                                  *)
Home(c, n) == IF c.topo = "fly" THEN (c.n - 1) * PerLevel(c) + Leaf(c, n) ELSE Entry(c, n)[1]

(* <<r, home>> for the routers r that are i or less from a destination.       *)
Diameter == 8
Within(c, i) ==
    LET hops == Hops(c)
        Along(e, pairs) == {<<e[1], x[2]>> : x \in {y \in pairs : y[1] = e[2]}}
        within[j \in 0 .. Diameter] ==
            {<<r, r>> : r \in {Home(c, d) : d \in c.dests}} \cup
            UNION {LET rest == within[j - w]
                   IN  UNION {Along(e, rest) : e \in {y \in DOMAIN hops : hops[y] = w}} :
                    w \in {hops[e] : e \in DOMAIN hops} \cap 1 .. j}
    IN  within[i]
Distances ==
    UNION {UNION {{<<c, i, x>> : x \in Within(c, i)} : i \in 0 .. Diameter} :
        c \in {x \in Configs : x.topo \in {"qtree", "tree4", "fattree", "fly", "anynet"}}}

Way(c, a, b) ==
    CASE c.topo \in {"mesh", "cmesh"} -> Total([d \in 0 .. c.n - 1 |-> Abs2(c, a, b, d)])
      [] c.topo = "torus" ->
            Total([d \in 0 .. c.n - 1 |-> Min({Abs2(c, a, b, d), c.k - Abs2(c, a, b, d)})])
      [] c.topo = "flatfly" -> Cardinality(DifferIn(c, a, b))
      [] c.topo = "dragonfly" -> dragonflynew_hopcnt(c, a * GP(c), b * GP(c))
      [] OTHER -> Min({i \in 0 .. Diameter : <<c, i, <<a, b>>>> \in Distances})

(* The way a packet has before it: by its intermediate node in the phase that *)
(* leads there.                                                               *)
TwoPhased == {"romm_mesh", "romm_ni_mesh", "valiant_mesh", "valiant_flatfly",
              "ugal_flatfly_onchip", "ugal_xyyx_flatfly_onchip", "ugal_pni_flatfly_onchip",
              "ugal_dragonflynew"}
Detours(c, f) ==
    c.func \in TwoPhased /\ f.ph = (IF c.func \in
        {"ugal_flatfly_onchip", "ugal_xyyx_flatfly_onchip", "ugal_pni_flatfly_onchip"} THEN 1 ELSE 0)
IntmRouter(c, f) ==
    CASE c.topo = "mesh" -> f.intm
      [] c.func = "valiant_flatfly" -> flatfly_transformation(c, f.intm) \div c.c
      [] c.topo = "flatfly" -> f.intm \div c.c
      [] c.topo = "dragonfly" -> f.intm \div GP(c)
Plan(c, f, at) ==
    LET home == Home(c, f.dest)
    IN  IF Detours(c, f) THEN Way(c, at, IntmRouter(c, f)) + Way(c, IntmRouter(c, f), home)
                         ELSE Way(c, at, home)
Weight(c, a, b) == IF c.topo = "anynet" THEN c.latency[<<a, b>>] ELSE 1
------------------------------------------------------------------------------
(* Blocking.  A packet at the head of a channel is stuck with the packets S   *)
(* when, for some draw of its routing function, every channel it may take is  *)
(* held by one of S; or when its own head is stuck further on and the rest of *)
(* it fills the channels behind.  Stuck is the largest such set of positions  *)
(* a packet can reach: where it is empty, there is no deadlock.  The source   *)
(* has no part in a position once the packet has left it.                     *)

Position(f) == [f EXCEPT !.src = 0]
Positions(c) ==
    [at : Routers(c), in : Nat, vc : 0 .. c.vcs - 1, cl : 0 .. c.classes - 1,
     src : {0}, dest : c.dests, ph : Int, intm : Int]
Held(f) == <<f.at, f.in, f.vc>>
Chances(c, f) ==
    {[held |-> {Held(Moved(c, f, o, ch)) : ch \in Channels(o)},
      next |-> {Position(Moved(c, f, o, ch)) : ch \in Channels(o)}] :
        o \in {x \in Outcomes(c, f) : x.ok /\ \A ch \in Channels(x) : ~Ejection(c, f, ch)}}
Nexts(c, F) == UNION {UNION {x.next : x \in Chances(c, f)} : f \in F}

Starts(c) ==
    UNION {UNION {Injected(c, Queued(c, s, d, cl)) : s \in c.sources, d \in c.dests} :
        cl \in 0 .. c.classes - 1}

Stuck(c) ==
    LET reach[seen \in SUBSET Positions(c), new \in SUBSET Positions(c)] ==
            IF new = {} THEN seen
            ELSE LET next == Nexts(c, new) \ seen IN reach[seen \cup next, next]
        hops == Nexts(c, Starts(c))
        waiting == {[pos |-> f, chances |-> Chances(c, f)] : f \in reach[hops, hops]}
        thin[S \in SUBSET waiting] ==
            LET held == {Held(w.pos) : w \in S}
                stuck == {w.pos : w \in S}
                kept == {w \in S : \E x \in w.chances :
                            x.held \subseteq held \/ x.next \cap stuck # {}}
            IN  IF kept = S THEN S ELSE thin[kept]
    IN  {w.pos : w \in thin[waiting]}
Deadlocks ==
    UNION {{<<c, p>> : p \in Stuck(c)} :
        c \in {x \in Configs : x.func \notin {"chaos_mesh", "chaos_torus"}}}
------------------------------------------------------------------------------
(* Types: the packet is always at a router of the network, on a channel that  *)
(* exists, and it is delivered to a node.                                     *)
TypeOK ==
    /\ net \in Configs
    /\ flit.at \in Routers(net) /\ flit.in >= 0
    /\ flit.vc \in -1 .. net.vcs - 1
    /\ (flit.vc = -1) <=> (state = "queued")
    /\ flit.src \in net.sources /\ flit.dest \in net.dests
    /\ state \in {"queued", "network", "delivered"}
    /\ (sink # -1) <=> (state = "delivered")

(* No assertion of a routing function fails on any way a packet can go: the   *)
(* class of its channel, the way round a failed output, the packet from above *)
(* that would go up a fat tree, the phase and the port of UGAL.               *)
NeverAborts == state = "network" => \A o \in Outcomes(net, flit) : o.ok

(* A packet is delivered to its destination and to no other node.             *)
DeliveredHome == state = "delivered" => sink = flit.dest

(* Every hop takes its whole length off the shortest way before the packet:   *)
(* to the destination, or first to the intermediate node and from there to    *)
(* the destination.  (Not round a failed output; an express channel may take  *)
(* off more.)                                                                 *)
EveryHopNearer ==
    [][Forward /\ net.faulty = {} =>
        Plan(net, flit', flit.at) >= Weight(net, flit.at, flit'.at) + Plan(net, flit', flit'.at)]_vars

(* What the functions may assume of one another: a packet stays on existing   *)
(* channels, in its class, and no assertion fails.                            *)
StaysInBounds == TypeOK /\ NeverAborts

(* A packet is never where packets can block each other for good.             *)
NoDeadlock == state = "network" => <<net, Position(flit)>> \notin Deadlocks

(* Wherever a packet comes, its way is legal and cannot end in a deadlock.    *)
RoutesSafe == StaysInBounds /\ NoDeadlock

(* A packet that has the network for itself arrives, at its destination: no   *)
(* way of the routing function goes round for ever, misrouted or not.         *)
Arrives == [](DeliveredHome) /\ <>(state = "delivered")
==============================================================================
