------------------------------ MODULE MCRouting ------------------------------
(* One or more small networks for every routing function, with the virtual    *)
(* channels its comments and assertions ask for (an odd number of them, too,  *)
(* where the function halves them); and the networks in which a  *)
(* function goes wrong, each a set of its own.                                *)
EXTENDS Routing, TLC

Net(t, fn, k, n, conc, vcs, nodes) ==
    [topo |-> t, func |-> fn, k |-> k, n |-> n, c |-> conc, vcs |-> vcs, classes |-> 1,
     faulty |-> {}, sources |-> nodes, dests |-> nodes, home |-> <<>>, latency |-> <<>>]

Mesh(fn, k, vcs) == Net("mesh", fn, k, 2, 1, vcs, 0 .. k * k - 1)
Ring(fn, k, vcs) == Net("torus", fn, k, 1, 1, vcs, 0 .. k - 1)
Torus(fn, k, vcs) == Net("torus", fn, k, 2, 1, vcs, 0 .. k * k - 1)
Between(c, S, D) == [c EXCEPT !.sources = S, !.dests = D]
Shared(c) == [c EXCEPT !.classes = 2]

Meshes ==
    {Shared(Mesh("dim_order_mesh", 4, 3)), Mesh("dim_order_ni_mesh", 3, 9),
     Mesh("dim_order_pni_mesh", 4, 8), Mesh("xy_yx_mesh", 4, 2), Mesh("xy_yx_mesh", 3, 3), Mesh("romm_mesh", 3, 2),
     Shared(Mesh("romm_mesh", 3, 4)), Mesh("romm_ni_mesh", 2, 4), Mesh("min_adapt_mesh", 4, 3),
     Shared(Mesh("min_adapt_mesh", 3, 4)), Mesh("chaos_mesh", 4, 1)}

(* The failed outputs InsertRandomFaults can choose in a 3 x 3 and 4 x 4 mesh. *)
Planar ==
    LET mesh(k) == Mesh("planar_adapt_mesh", k, 3)
    IN  {[mesh(3) EXCEPT !.faulty = F] : F \in {{}} \cup {{x} : x \in RandomFaults(mesh(3))}}
        \cup {[mesh(4) EXCEPT !.faulty = {x}] : x \in RandomFaults(mesh(4))}

Tori ==
    {Ring("dim_order_torus", 5, 2), Torus("dim_order_torus", 4, 2), Torus("dim_order_torus", 3, 3),
     Shared(Ring("dim_order_torus", 4, 4)),
     Ring("dim_order_bal_torus", 5, 2), Torus("dim_order_bal_torus", 4, 2),
     Ring("dim_order_ni_torus", 4, 4), Torus("dim_order_ni_torus", 3, 9),
     Ring("min_adapt_torus", 6, 4), Torus("min_adapt_torus", 4, 4), Torus("chaos_torus", 4, 1)}

Trees ==
    {Between(Net("qtree", "qtree_nca", 4, 3, 1, 1, {}), {0, 1, 22, 63}, 0 .. 63),
     Between(Net("tree4", "tree4_nca", 4, 3, 1, 1, {}), {0, 21, 63}, {0, 1, 5, 20, 42, 63}),
     Between(Net("tree4", "tree4_anca", 4, 3, 1, 1, {}), {0, 21, 63}, {0, 1, 5, 20, 42, 63}),
     Net("fattree", "fattree_nca", 2, 3, 1, 2, 0 .. 7),
     Between(Net("fattree", "fattree_nca", 3, 3, 1, 1, {}), {0, 14}, 0 .. 26),
     Net("fly", "dest_tag_fly", 2, 3, 1, 1, 0 .. 7),
     Between(Net("fly", "dest_tag_fly", 3, 3, 1, 1, {}), {0, 14, 26}, 0 .. 26)}

CMeshes ==
    {Between(Net("cmesh", fn, 4, 2, 4, 2, {}), {0, 9, 27, 63}, 0 .. 63) :
        fn \in {"dor_cmesh", "dor_no_express_cmesh", "xy_yx_cmesh", "xy_yx_no_express_cmesh"}}

FlatFlies ==
    {Net("flatfly", fn, 3, 2, 1, 4, 0 .. 8) :
        fn \in {"min_flatfly", "xyyx_flatfly", "valiant_flatfly", "ugal_flatfly_onchip",
                "ugal_xyyx_flatfly_onchip"}}
    \cup {Between(Net("flatfly", "ugal_pni_flatfly_onchip", 4, 2, 4, 8, {}), {0, 21}, {0, 1, 9, 38, 63}),
          Between(Net("flatfly", "ugal_flatfly_onchip", 2, 2, 4, 2, {}), {0, 5, 10}, 0 .. 15)}

DragonFlies == {Net("dragonfly", "min_dragonflynew", 1, 1, 1, 2, 0 .. 5),
                Between(Net("dragonfly", "min_dragonflynew", 2, 1, 2, 2, {}), {0, 13, 71}, 0 .. 71)}

(* A square with a diagonal, which is the long way round; two nodes on router *)
(* 0; and a tree of unequal channels.                                         *)
Wired(nodes, edges) ==
    [Net("anynet", "min_anynet", 0, 0, 0, 1, DOMAIN nodes) EXCEPT
        !.home = nodes,
        !.latency = [e \in DOMAIN edges \cup {<<x[2], x[1]>> : x \in DOMAIN edges} |->
                        IF e \in DOMAIN edges THEN edges[e] ELSE edges[<<e[2], e[1]>>]]]
AnyNets ==
    {Wired((0 :> 0) @@ (1 :> 0) @@ (2 :> 1) @@ (3 :> 2) @@ (4 :> 3),
           (<<0, 1>> :> 1) @@ (<<1, 2>> :> 1) @@ (<<2, 3>> :> 2) @@ (<<0, 2>> :> 3)),
     Wired((0 :> 4) @@ (1 :> 2) @@ (2 :> 1) @@ (3 :> 0),
           (<<0, 1>> :> 2) @@ (<<1, 2>> :> 1) @@ (<<1, 3>> :> 4) @@ (<<3, 4>> :> 1))}

MCConfigs == Meshes \cup Planar \cup Tori \cup Trees \cup CMeshes \cup FlatFlies
             \cup DragonFlies \cup AnyNets

(* Where the properties fail.                                                 *)
Valiant == {Mesh("valiant_mesh", 3, 2)}
ValiantTorus == {Ring("valiant_torus", 4, 4), Ring("valiant_ni_torus", 4, 16)}
UgalDragonFly == {Net("dragonfly", "ugal_dragonflynew", 1, 1, 1, 3, 0 .. 5)}
WideCMesh == {Between(Net("cmesh", "xy_yx_cmesh", 8, 2, 4, 2, {}), {0}, {4})}
RingOfRouters == {Wired([x \in 0 .. 4 |-> x], [e \in {<<i, (i + 1) % 5>> : i \in 0 .. 4} |-> 1])}
==============================================================================
