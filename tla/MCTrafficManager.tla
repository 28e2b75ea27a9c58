--------------------------- MODULE MCTrafficManager ---------------------------
(***************************************************************************)
(* Small simulations for TLC: every simulation type, buffer policy,        *)
(* priority, workload and the ways classes share a subnet occur in one of  *)
(* them. fires, stalls and hits bound what is random.                      *)
(***************************************************************************)
EXTENDS TrafficManager, TLC

For(classes, value) == [c \in 0 .. classes - 1 |-> value]

Buffer == [policy |-> "private", vcs |-> 2, size |-> -1, vcSize |-> 1, parts |-> -1,
           partSize |-> -1, held |-> -1, waitForTail |-> FALSE,
           aging |-> 1, offset |-> 0, minLatency |-> 1]

Uniform   == [name |-> "uniform", nodes |-> 2]
Maybe     == [name |-> "bernoulli", rate |-> "maybe"]
Always    == [name |-> "bernoulli", rate |-> "always"]
Bursts    == [name |-> "on_off", alpha |-> "maybe", beta |-> "maybe", r1 |-> "always",
              initial |-> (0 :> TRUE @@ 1 :> FALSE)]
Null      == [kind |-> "null", pattern |-> Uniform]

(* One class on one subnet of two nodes.                                   *)
Plain(sim, classes) ==
  [sim |-> sim, sims |-> 1, nodes |-> 2, subnets |-> 1,
   subnet |-> For(classes, 0), vcs |-> For(classes, <<0, 1>>),
   priority |-> "none", pri |-> For(classes, 0), measure |-> For(classes, TRUE),
   reply |-> For(classes, -1), pattern |-> For(classes, Uniform),
   process |-> For(classes, Maybe), sizes |-> For(classes, <<2>>),
   rates |-> For(classes, <<1>>), batch |-> For(classes, 1), maxOut |-> For(classes, 0),
   work |-> For(classes, Null), hold |-> FALSE, queuing |-> TRUE, period |-> 1,
   warm |-> 1, max |-> 3, batches |-> 1, fires |-> 1, stalls |-> 1, buffer |-> Buffer]

-----------------------------------------------------------------------------
(* Steady state. *)

(* Packets of one or two flits measured for their latency.                 *)
Measured == [Plain("latency", 1) EXCEPT !.sizes[0] = <<1, 2>>, !.rates[0] = <<1, 1>>]

(* The same, twice.                                                        *)
Twice == [Plain("latency", 1) EXCEPT !.sims = 2, !.max = 2]

(* Sources that always have a packet, of three flits through one slot.     *)
Saturated == [Plain("latency", 1) EXCEPT !.process[0] = Always, !.pattern[0].name = "neighbor",
                !.pattern[0] = @ @@ [k |-> 2, n |-> 1, xr |-> 1], !.sizes[0] = <<3>>,
                !.fires = 9, !.stalls = 1, !.buffer.vcs = 1, !.vcs[0] = <<0, 0>>]

(* Requests and replies on subnets of their own.                           *)
Answered == [Plain("latency", 2) EXCEPT !.reply[0] = 1, !.subnet[1] = 1, !.subnets = 2,
               !.sizes[1] = <<1>>, !.buffer.policy = "shared", !.buffer.vcSize = 2,
               !.buffer.partSize = 1, !.buffer.waitForTail = TRUE]

(* Older packets first; the classes share the VCs.                         *)
Aged == [Plain("throughput", 2) EXCEPT !.priority = "age", !.process = For(2, Bursts),
           !.pattern = For(2, [name |-> "hotspot", nodes |-> 2, hotspots |-> <<1>>, rates |-> <<1>>]),
           !.warm = 0, !.max = 1, !.queuing = FALSE, !.measure[1] = FALSE, !.process[0] = Maybe,
           !.buffer.policy = "feedback", !.buffer.vcSize = 2]

-----------------------------------------------------------------------------
(* Batches. *)

Batches(policy, pattern) ==
  [Plain("batch", 1) EXCEPT !.nodes = pattern.nodes, !.pattern[0] = pattern,
     !.batch[0] = 2, !.maxOut[0] = 1, !.buffer.policy = policy, !.buffer.vcSize = 2]

(* Four nodes whose packets go where one of the permutations says.         *)
OfFour(name) == [name |-> name, nodes |-> 4, k |-> 4, n |-> 1, xr |-> 1]
Bijections   == {OfFour(name) : name \in {"shuffle", "transpose", "bitrev", "tornado", "neighbor"}}
                  \cup {[OfFour("tornado") EXCEPT !.k = 2, !.n = 2]}
Exchanged(p) == [Batches("limited", p)
                   EXCEPT !.sizes[0] = <<1>>, !.stalls = 2, !.buffer.held = 1]

Repeated == [Batches("dynamic", [name |-> "bitcomp", nodes |-> 2])
               EXCEPT !.batches = 2, !.maxOut[0] = 2, !.stalls = 4]
Permute  == [Batches("shifting", [name |-> "randperm", nodes |-> 2, draws |-> <<1, 0>>])
               EXCEPT !.sizes[0] = <<3>>, !.hold = TRUE, !.stalls = 4, !.buffer.partSize = 1]

(* Batches of requests; the replies have none of their own.                *)
Replied == [Plain("batch", 2) EXCEPT !.reply[0] = 1, !.batch[1] = 0, !.batch[0] = 2,
              !.maxOut[0] = 1, !.priority = "class", !.pri[1] = 1, !.vcs[0] = <<0, 0>>,
              !.vcs[1] = <<1, 1>>, !.stalls = 3, !.hold = TRUE, !.sizes[0] = <<1>>,
              !.pattern = For(2, [name |-> "bitcomp", nodes |-> 2]),
              !.buffer.policy = "simplefeedback", !.buffer.vcSize = 2]

-----------------------------------------------------------------------------
(* Workloads. *)

Offered1 == [kind |-> "synthetic", pattern |-> Uniform, process |-> Maybe, hits |-> 3,
             sizes |-> <<1, 2>>, rates |-> <<1, 1>>]

Line(delay, src, dest, type) == [delay |-> delay, src |-> src, dest |-> dest, type |-> type]
Traced == [kind |-> "trace", pattern |-> Uniform, skip |-> 1, limit |-> -1, scale |-> 2,
           sizes |-> <<1, 3>>,
           lines |-> <<Line(9, 0, 0, 0), Line(0, 0, 1, 1), Line(0, 0, 0, 0), Line(0, 1, 1, 0),
                       Line(1, 1, 1, -1), Line(1, 0, 1, 0), Line(3, 0, 1, 0), Line(0, 1, 0, 1)>>]

(* A miss in a data cache: the request, its way to the memory and back.    *)
Packet(cycle, src, srcType, dst, dstType, type, bytes, deps) ==
  [cycle |-> cycle, src |-> src, srcType |-> srcType, dst |-> dst, dstType |-> dstType,
   type |-> type, bytes |-> bytes, deps |-> deps]
Missed(deps, lats) ==
  [kind |-> "netrace", pattern |-> Uniform, deps |-> deps, lats |-> lats, scale |-> 1,
   skipped |-> 1, tag |-> 1, data |-> 2, mem |-> 3, netDelay |-> 1, width |-> 512, offset |-> 0,
   lines |-> <<Packet(1, 0, 1, 1, 2, 1, 8, {2, 3}), Packet(2, 1, 2, 0, 1, 2, 72, {4}),
               Packet(2, 1, 2, 0, 3, 1, 8, {5}),    Packet(4, 0, 1, 1, 2, 1, 8, {}),
               Packet(6, 0, 3, 1, 2, 2, 72, {})>>]

Working(work) == [Plain("workload", 1) EXCEPT !.work[0] = work, !.warm = 0, !.max = -1,
                    !.stalls = 2]

(* Two simulations of one trace, and a class beside it that makes nothing. *)
Retraced == [Plain("workload", 2) EXCEPT !.work[0] = Traced, !.warm = 1, !.period = 2,
               !.max = -1, !.sims = 2, !.stalls = 2, !.measure[1] = FALSE]

Configurations ==
  {Measured, Twice, Saturated, Answered, Aged, Repeated, Permute, Replied, Retraced,
   [Working(Offered1) EXCEPT !.max = 4],
   [Working(Missed(TRUE, TRUE)) EXCEPT !.stalls = 3],
   Working(Missed(TRUE, FALSE)), Working(Missed(FALSE, FALSE))}
  \cup {Exchanged(p) : p \in Bijections}

=============================================================================
