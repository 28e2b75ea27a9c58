-------------------------- MODULE MCFlitItinerary --------------------------
(* Instances of FlitItinerary: the kernels whose itineraries are plain,    *)
(* every broadcast of the driver script whose targets lie in the mesh, and *)
(* every plain itinerary of a packet on its own in a small mesh: up to     *)
(* three legs in one of SmallK by SmallK, four in one of 2 by 2.           *)
EXTENDS FlitItinerary, FiniteSetsExt

CONSTANTS SmallK, SmallRounds, MaxStep

(* All packets of a k by k mesh with n legs. *)
Singles(k, n) ==
  {[src |-> s, k |-> k, type |-> "scalar", rounds |-> r, count |-> 0, stage |-> 1,
    legs |-> [j \in 1 .. n |-> IF j = 1 THEN e[1] - s ELSE e[j] - e[j - 1]]] :
      s \in 0 .. k * k - 1, e \in [1 .. n -> 0 .. k * k - 1], r \in 0 .. SmallRounds}

Small == UNION {Singles(SmallK, n) : n \in 1 .. MaxLegs - 1} \cup Singles(2, MaxLegs)

PlainSingles == {<<p>> : p \in {q \in Small : IsPlain(q)}}

(* The arguments of broadcast_comp_air: source, number of targets, step.   *)
Broadcasts ==
  {b \in (0 .. EdgeLen * EdgeLen - 1) \X {2, 4, 8} \X (1 .. MaxStep) :
     BroadcastTargets(b[1], b[2], b[3]) \subseteq 0 .. EdgeLen * EdgeLen - 1}

Broadcast(b) == BroadcastKernel(b[1], b[2], b[3])

SoundKernels ==
  {ReduceKernel(4, 2), ReduceKernel(8, 1), ReduceKernel(8, 2), ExpKernel(3)}
    \cup {Broadcast(b) : b \in Broadcasts}

SoundWorkloads == PlainSingles \cup SoundKernels

(* How often a broadcast and its copies were computed at router r. *)
Visits(r) ==
  LET stops == {<<f, i>> \in BagToSet(flits) \X (1 .. MaxLegs) :
                  i \in DOMAIN f.trail /\ f.ends[f.trail[i]] = r}
  IN  BagCardinality([s \in stops |-> flits[s[1]]])

(* How many selections of the legs after the first lead to router r.       *)
Ways(p, r) ==
  Cardinality({legs \in SUBSET (2 .. Len(p.legs)) :
                 p.src + p.legs[1] + MapThenSumSet(LAMBDA j : p.legs[j], legs) = r})

(* A broadcast and the copies routers make of it take every selection of   *)
(* its legs once, so a router computes as often as there are ways to it.   *)
(* With 2 or 4 targets these are the nodes broadcast_comp_air's docstring  *)
(* promises, once each; with 8 they are not (BroadcastPromised).           *)
BroadcastExact ==
  Done => \A b \in Broadcasts : load = Broadcast(b) =>
    \A r \in DOMAIN regs :
      /\ Visits(r) = Ways(load[1], r)
      /\ b[2] < 8 => Visits(r) = IF r \in BroadcastTargets(b[1], b[2], b[3]) THEN 1 ELSE 0

(* "targs (int): The number of target nodes, must be 2, 4, or 8": TLC      *)
(* refutes it for 8. The script's legs are 1, 2 and 3 steps, so the node 3 *)
(* steps on is reached by the third leg and by the first two together, and *)
(* the node 7 steps on, the eighth, by none.                               *)
BroadcastPromised ==
  Done => \A b \in Broadcasts : load = Broadcast(b) =>
    \A r \in DOMAIN regs :
      Visits(r) = IF r \in BroadcastTargets(b[1], b[2], b[3]) THEN 1 ELSE 0

(* The reduction of sixteen operands, "performed" by reduce_comp_air. *)
Reduce16 == {ReduceKernel(16, 2)}
=============================================================================
