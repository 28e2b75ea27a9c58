--------------------------- MODULE FlitItinerary ---------------------------
(***************************************************************************)
(* The itinerary of a CompAir packet: up to four legs, each ending at a    *)
(* router that computes on it, gone through iter_tag + 1 times.  Flits     *)
(* have one destination at a time; routers move it on (Flit::UpdateDest),  *)
(* decide from it alone whether they compute, and route in dimension       *)
(* order.  Flow control is FlitNetwork's subject: here a flit goes on      *)
(* whenever it likes, so that every order of arrival is covered.           *)
(*                                                                         *)
(* Data is the number of operands a value was reduced from. What a sum     *)
(* should contain, and not its value, is what itineraries can get wrong.   *)
(***************************************************************************)
EXTENDS Integers, Sequences, FiniteSets, Bags

CONSTANT Workloads  \* what scripts inject: sequences of packets

(* legs are offsets x + y * edge_len; a cover packet with count > 0 sets a *)
(* counter, else data. A packet of stage n is injected after the packets   *)
(* of the stages before have settled: scripts run the simulator in between.*)
PacketRecords ==
  [src : Nat, k : Nat \ {0}, type : {"scalar", "reduce", "broadcast", "cover"},
   legs : Seq(Int), rounds : Nat, count : Nat, stage : Nat]

MaxLegs == 4

ASSUME WorkloadAssumption ==
  \A w \in Workloads :
    /\ w \in Seq(PacketRecords)
    /\ \A p \in DOMAIN w :
         /\ Len(w[p].legs) \in 1 .. MaxLegs
         /\ w[p].src < w[p].k * w[p].k
         /\ w[p].k = w[1].k

VARIABLES
  load,      \* the workload being run
  injected,  \* how many of its packets inject_comp_air has been called with
  flits,     \* the bag of flits under way or ejected; absorbed ones are gone
  regs       \* per router, _acc_data_reg and _acc_iter_tag_reg

vars == <<load, injected, flits, regs>>

-----------------------------------------------------------------------------
(* A flit: n legs with their ends, the current destination and the last,   *)
(* iter_tag (rounds), where it is. trail, the legs it was computed at the  *)
(* end of, and loops, its first iter_tag, are history.                     *)

(* Where the legs from src end. Legs a packet leaves out keep the -1 the   *)
(* Python API gives x and y.                                               *)
Ends(src, k, legs) ==
  LET leg(i, j) == IF i > j THEN 0 ELSE IF i <= Len(legs) THEN legs[i] ELSE -1 - k
  IN  [j \in 1 .. MaxLegs |-> src + leg(1, j) + leg(2, j) + leg(3, j) + leg(4, j)]

(* The first leg that ends at router r, or 0. *)
MatchedDestID(f, r) ==
  LET matches == {j \in 1 .. MaxLegs : f.ends[j] = r}
  IN  IF matches = {} THEN 0
      ELSE CHOOSE j \in matches : \A i \in matches : j <= i

LastPos(f) == IF f.rounds = 0 THEN f.ends[f.n] ELSE -1

(* The destination after f.dest: a negative value keeps the one it has. *)
GetUpdatedDest(f) ==
  LET m == MatchedDestID(f, f.dest)
  IN  IF f.at # f.dest \/ m = 0 THEN -1
      ELSE IF m < f.n THEN f.ends[m + 1]
      ELSE IF f.rounds > 0 THEN f.ends[1] ELSE -1

UpdateDest(f) ==
  IF GetUpdatedDest(f) < 0 THEN f
  ELSE [f EXCEPT !.last = f.dest, !.dest = GetUpdatedDest(f),
                 !.rounds = IF MatchedDestID(f, f.dest) >= f.n THEN @ - 1 ELSE @]

(* FAULT: the last stop is forgotten, where the destination does not move. *)
ComputesAtLastDest(f) == MatchedDestID(f, f.at) > 0 /\ f.at = f.last

ComputesHere(f) ==
  /\ MatchedDestID(f, f.at) > 0
  /\ \/ f.at = f.last
     \/ f.last # f.dest /\ LastPos(f) = f.at

-----------------------------------------------------------------------------
(* The router after r on the way to d: columns first, then rows. Every row *)
(* and column of a mesh has the channel around its edge that a torus uses. *)
DimOrderNext(k, r, d) ==
  LET row == r \div k
      col == r % k
      to(c, e) == IF c < e THEN (c + 1) % k ELSE (c - 1) % k
  IN  IF col # d % k THEN row * k + to(col, d % k) ELSE to(row, d \div k) * k + col

Leaves(f) == f.at = f.dest

Stops(f) == ComputesHere(f) \/ Leaves(f)

(* The flit at the next router whose switch does more than pass it on;     *)
(* hop[i] is the flit after i routers.                                     *)
Onward(k, f) ==
  LET move(g) == UpdateDest([g EXCEPT !.at = DimOrderNext(k, g.at, g.dest)])
      hop[i \in 1 .. 2 * k] ==
        IF i = 1 THEN move(f)
        ELSE LET g == hop[i - 1] IN IF Stops(g) THEN g ELSE move(g)
  IN  hop[2 * k]

(* A flit enters the network at the router of its source. *)
NewFlit(src, k, type, legs, rounds, data, count) ==
  LET f == UpdateDest(
             [type |-> type, n |-> Len(legs), ends |-> Ends(src, k, legs), rounds |-> rounds,
              data |-> data, count |-> count, at |-> src, dest |-> src + legs[1],
              last |-> src + legs[1], trail |-> <<>>, loops |-> rounds, ejected |-> FALSE])
  IN  IF Stops(f) THEN f ELSE Onward(k, f)

-----------------------------------------------------------------------------
(* The computation of a router with registers reg, per type of packet.     *)

(* FAULT: the last operand goes on in place of the sum. *)
ReduceSendsOperand(reg, f) ==
  [reg  |-> IF reg.iter > 0 THEN [acc |-> reg.acc + f.data, iter |-> reg.iter - 1] ELSE reg,
   data |-> f.data, send |-> reg.iter = 1, copies |-> {}]

Reduce(reg, f) ==
  IF reg.iter = 0 THEN [reg |-> reg, data |-> f.data, send |-> FALSE, copies |-> {}]
  ELSE [reg  |-> [acc |-> reg.acc + f.data, iter |-> reg.iter - 1],
        data |-> IF reg.iter = 1 THEN reg.acc + f.data ELSE f.data,
        send |-> reg.iter = 1, copies |-> {}]

Cover(reg, f) ==
  IF f.count > 0 THEN [reg EXCEPT !.iter = f.count] ELSE [reg EXCEPT !.acc = f.data]

Leg(f, i) == f.ends[i] - f.ends[i - 1]

(* FAULT: the copies begin with the leg the packet itself takes. *)
BroadcastCopiesAll(k, f, m) ==
  {NewFlit(f.at, k, f.type, [j \in 1 .. f.n - i + 1 |-> Leg(f, i + j - 1)], f.rounds, f.data, 0) :
     i \in m + 1 .. f.n}

(* A broadcast goes on to its next leg; a copy is generated for each leg   *)
(* after that, and takes the legs behind along (leg 3 takes leg 4).        *)
BroadcastCopies(k, f, m) ==
  {NewFlit(f.at, k, f.type, [j \in 1 .. f.n - i + 1 |-> Leg(f, i + j - 1)], f.rounds, f.data, 0) :
     i \in m + 2 .. f.n}

PassOn(reg, f) == [reg |-> reg, data |-> f.data, send |-> TRUE, copies |-> {}]

Compute(k, reg, f) ==
  CASE f.type = "scalar"    -> PassOn(reg, f)
    [] f.type = "cover"     -> PassOn(Cover(reg, f), f)
    [] f.type = "reduce"    -> Reduce(reg, f)
    [] f.type = "broadcast" ->
         [PassOn(reg, f) EXCEPT !.copies = BroadcastCopies(k, f, MatchedDestID(f, f.at))]

-----------------------------------------------------------------------------
K         == load[1].k
Routers   == 0 .. K * K - 1
InFlight  == {f \in BagToSet(flits) : ~f.ejected}

Init ==
  /\ load \in Workloads
  /\ injected = 0
  /\ flits = EmptyBag
  /\ regs = [r \in Routers |-> [acc |-> 0, iter |-> 0]]

(* inject_comp_air checks where the first leg ends, or drops the packet.   *)
(* Packets are injected in the order of the calls; a flit may then dally.  *)
Inject ==
  LET p   == load[injected + 1]
      dst == p.src + p.legs[1]
      f   == NewFlit(p.src, K, p.type, p.legs, p.rounds,
                     IF p.type = "reduce" THEN 1 ELSE 0, p.count)
  IN
  /\ injected < Len(load)
  /\ injected > 0 /\ load[injected].stage < p.stage => InFlight = {}
  /\ injected' = injected + 1
  /\ flits' = IF dst \in Routers THEN flits (+) SetToBag({f}) ELSE flits
  /\ UNCHANGED <<load, regs>>

(* Switch traversal, and the hops to the next router that matters. *)
Traverse(f) ==
  LET c == IF ComputesHere(f) THEN Compute(K, regs[f.at], f) ELSE PassOn(regs[f.at], f)
      g == [f EXCEPT !.data = c.data, !.ejected = Leaves(f),
                     !.trail = IF ComputesHere(f) THEN Append(@, MatchedDestID(f, f.at)) ELSE @]
      next == IF ~c.send THEN {} ELSE IF Leaves(f) THEN {g} ELSE {Onward(K, g)}
  IN
  /\ regs' = [regs EXCEPT ![f.at] = c.reg]
  /\ flits' = (flits (-) SetToBag({f})) (+) SetToBag(next) (+) SetToBag(c.copies)
  /\ UNCHANGED <<load, injected>>

Done == injected = Len(load) /\ InFlight = {}

Next == Inject \/ (\E f \in InFlight : Traverse(f)) \/ (Done /\ UNCHANGED vars)

Spec == Init /\ [][Next]_vars

-----------------------------------------------------------------------------
(* Itineraries that the destination alone can tell the way: no router      *)
(* twice, not even for a second round of a single leg, and none of the     *)
(* legs after the first leads over the last stop.                          *)
Route(k, r, d) ==
  LET way[i \in 0 .. 2 * k] ==
        IF i = 0 THEN {r}
        ELSE LET w == way[i - 1] IN w \cup {DimOrderNext(k, q, d) : q \in w \ {d}}
  IN  way[2 * k]

IsPlain(p) ==
  LET n   == Len(p.legs)
      end == Ends(p.src, p.k, p.legs)
  IN  /\ p.rounds > 0 => n > 1
      /\ \A j \in 1 .. n : end[j] \in 0 .. p.k * p.k - 1
      /\ \A i, j \in 1 .. n : end[i] = end[j] => i = j
      /\ \A j \in 1 .. n - 2 : end[n] \notin Route(p.k, end[j], end[j + 1])

(* The variables keep their types: no counter or round is counted below    *)
(* zero and no flit of a plain itinerary leaves the mesh.                  *)
TypeOK ==
  /\ injected \in 0 .. Len(load)
  /\ \A f \in BagToSet(flits) :
       /\ f.rounds \in Nat /\ f.data \in Nat
       /\ f.at \in Routers /\ f.dest \in Routers /\ f.last \in Routers
  /\ regs \in [Routers -> [acc : Nat, iter : Nat]]

(* A packet is computed on at the ends of its legs and nowhere else, leg   *)
(* after leg and round after round, and leaves after the last; whatever is *)
(* under way is on its way to one of these, and so always arrives.         *)
TourInOrder ==
  \A f \in BagToSet(flits) :
    /\ \A i \in DOMAIN f.trail : f.trail[i] = ((i - 1) % f.n) + 1
    /\ Len(f.trail) <= f.n * (f.loops + 1)
    /\ f.ejected => Len(f.trail) = f.n * (f.loops + 1) /\ f.at = f.ends[f.n]
    /\ f.ejected \/ Stops(f)

(* And while it is on tour its counters stay counters.                     *)
ToursSound == TypeOK /\ TourInOrder

(* A reduction ends in one result, which every operand has gone into: what *)
(* reduce_comp_air returns.                                                *)
Operands == {p \in DOMAIN load : load[p].type = "reduce"}
Results  == {f \in BagToSet(flits) : f.type = "reduce" /\ f.ejected}

ReductionExact ==
  /\ \A f \in Results : f.data = Cardinality(Operands) /\ flits[f] = 1
  /\ Done /\ Operands # {} => Cardinality(Results) = 1

-----------------------------------------------------------------------------
(* The packets the driver scripts of booksim2/example inject, as workloads *)
(* of this module. Data and opcodes are left out, but for the counters     *)
(* that cover packets set.                                                 *)

EdgeLen == 8  \* the configuration's k, and a literal of the scripts

At(x, y) == x + EdgeLen * y

Pkt(src, type, legs, rounds, count, stage) ==
  [src |-> src, k |-> EdgeLen, type |-> type, legs |-> legs, rounds |-> rounds,
   count |-> count, stage |-> stage]

(* reduce_comp_air: the i-th operand starts at the i-th node of a grid of  *)
(* four columns and is added up in pairs, in every other column, ...       *)
ReduceNode(i, step) == At((i % 4) * step, (i \div 4) * step)

ReduceLegs(i, sources, step) ==
  LET level0 == <<IF i % 2 = 0 THEN At(step, 0) ELSE At(0, 0)>>
      level1 == IF sources = 4 THEN <<>>
                ELSE <<IF i % 4 < 2 THEN At(step, 0) ELSE At(-step, 0)>>
      level2 == IF sources < 16 THEN <<>>
                ELSE <<IF i % 8 < 4 THEN At(-2 * step, step) ELSE At(-2 * step, 0)>>
      first  == i < sources \div 2
      final  == CASE sources = 4  -> IF first THEN At(-step, 0) ELSE At(-3 * step, 0)
                  [] sources = 8  -> IF first THEN At(-2 * step, 0) ELSE At(-2 * step, -step)
                  [] sources = 16 -> IF first THEN At(0, -step) ELSE At(0, -3 * step)
  IN  level0 \o level1 \o level2 \o <<final>>

(* ... after a counter of 2 has been set at every node but one. *)
ReduceKernel(sources, step) ==
  LET nodes  == [i \in 1 .. sources |-> i - 1]
      covers == SelectSeq(nodes, LAMBDA i : 2 * i # sources)
  IN  [i \in 1 .. sources - 1 |->
         Pkt(0, "cover", <<ReduceNode(covers[i], step)>>, 0, 2, 1)]
      \o [i \in 1 .. sources |->
            Pkt(ReduceNode(i - 1, step), "reduce", ReduceLegs(i - 1, sources, step), 0, 0, 2)]

(* broadcast_comp_air, and the nodes its docstring promises. *)
BroadcastKernel(src, targs, step) ==
  LET legs == <<0, step, 2 * step, 3 * step>>
      n    == CASE targs = 2 -> 2 [] targs = 4 -> 3 [] targs = 8 -> 4
  IN  <<Pkt(src, "broadcast", SubSeq(legs, 1, n), 0, 0, 1)>>

BroadcastTargets(src, targs, step) == {src + i * step : i \in 0 .. targs - 1}

(* exp_comp_air: two packets go round x/i -> sum. *)
ExpKernel(iterNum) ==
  <<Pkt(0, "cover", <<At(0, 0)>>, 0, 0, 1), Pkt(1, "cover", <<At(0, 0)>>, 0, 0, 1),
    Pkt(0, "cover", <<At(0, 1)>>, 0, 0, 1), Pkt(0, "cover", <<At(0, 1)>>, 0, 1, 1),
    Pkt(0, "cover", <<At(1, 1)>>, 0, 0, 1),
    Pkt(0, "scalar", <<At(0, 0), At(0, 1), At(1, 0)>>, iterNum - 1, 0, 2),
    Pkt(1, "scalar", <<At(0, 0), At(-1, 1), At(1, 0)>>, iterNum - 1, 0, 2)>>

(* sqrt_comp_air: c, then x/c + c, halved, as the comments of its legs say.*)
SqrtKernel(iterNum) ==
  <<Pkt(0, "cover", <<At(0, 1)>>, 0, 0, 1), Pkt(8, "cover", <<At(0, -1)>>, 0, 0, 2),
    Pkt(0, "scalar", <<At(0, 0), At(0, 0), At(0, 1)>>, iterNum - 1, 0, 3)>>
=============================================================================
