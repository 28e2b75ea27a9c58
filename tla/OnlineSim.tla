----------------------------- MODULE OnlineSim -----------------------------
(***************************************************************************)
(* The simulator as the driver scripts use it through BookSim2Sync: they   *)
(* inject packets into i_fifo, run the simulator one stage per run_step    *)
(* and end it. OnlineWorkload reads i_fifo and spaces the packets by their *)
(* t_inject; SimulateTrafficManager cuts them into flits, sends these into *)
(* the network, and ends a stage with the first packet that is ejected.    *)
(*                                                                         *)
(* The network appears only as the flits in it: it may take a flit from a  *)
(* terminal, eject one, absorb one or have a router generate a packet in   *)
(* any cycle. FlitNetwork describes what goes on inside.                   *)
(***************************************************************************)
EXTENDS Integers, Sequences, FiniteSets, SequencesExt

CONSTANTS
  Nodes,       \* the terminals
  Requests,    \* what a driver may inject: [src, delay, size, kind]
  MaxPackets,  \* how many packets the driver injects at most
  TimeLimit    \* _max_samples * _sample_period, or -1 without a limit

(* A "reduce" packet may be absorbed by a router, a "broadcast" packet may *)
(* make one generate a copy, a "plain" packet does neither.                *)
Kinds == {"plain", "reduce", "broadcast"}

ASSUME RequestAssumption ==
  /\ Requests \subseteq [src : Nodes, delay : Nat, size : Nat \ {0}, kind : Kinds]
  /\ \A r \in Requests : r.kind # "plain" => r.size = 1
  /\ IsFiniteSet(Nodes)
  /\ MaxPackets \in Nat
  /\ TimeLimit \in Nat \cup {-1}

Packet(id, r) == [id |-> id, src |-> r.src, delay |-> r.delay,
                  size |-> r.size, kind |-> r.kind]
NoPacket == [id |-> 0]

VARIABLES
  pc,         \* who runs: "driver", "stage", "draining", "ended"
  ending,     \* run_step was called with end = True
  started,    \* the greenlet has called init()
  count,      \* packets injected so far; the last one's id
  wl,         \* OnlineWorkload and the i_fifo it reads
  partial,    \* _partial_packets: per node, the flits still to send
  net,        \* the flits in the network
  inflight,   \* _measured_in_flight_flits, here also the total
  absorbed,   \* reduced_flits, not yet collected
  generated,  \* generated_flits, not yet collected
  clock,      \* _time, while it is compared with a limit
  info,       \* the packets eject_all_print reported last
  settled,    \* history: packets ejected, or absorbed and collected
  spawned,    \* history: broadcast packets that had a copy generated
  owed,       \* history: packets unsettled when run_step was called
  returned    \* history: what the last run_step ran: "none", "init", "stage"

driverVars == <<pc, ending, started, count>>
netVars    == <<net, absorbed, generated, spawned>>
simVars    == <<wl, partial, inflight, clock, settled>>
callVars   == <<info, owed, returned>>
vars       == <<driverVars, netVars, simVars, callVars>>

-----------------------------------------------------------------------------
(* The elements of s that are in S, in their order. *)
Keep(s, S) ==
  LET kept[i \in 0 .. Len(s)] ==
        IF i = 0 THEN <<>>
        ELSE IF s[i] \in S THEN Append(kept[i - 1], s[i]) ELSE kept[i - 1]
  IN  kept[Len(s)]

(* OnlineWorkload. next is the packet read but not due, in wait cycles.    *)
EmptyWorkload ==
  [fifo |-> <<>>, pending |-> <<>>, deferred |-> <<>>,
   ready |-> [n \in Nodes |-> <<>>], next |-> NoPacket, wait |-> 0]

MakeReady(w, p) ==
  [w EXCEPT !.ready[p.src] = Append(@, p),
            !.pending = IF w.ready[p.src] = <<>> THEN Append(@, p.src) ELSE @]

(* A turn of the loop of _refill: the packet read is ready, or it is the   *)
(* next one and the loop ends.                                             *)
Read(w) ==
  LET p == Head(w.fifo)
      v == [w EXCEPT !.fifo = Tail(@)]
  IN  IF w.fifo = <<>> \/ w.next # NoPacket THEN w
      ELSE IF p.delay > 0 THEN [v EXCEPT !.next = p, !.wait = p.delay]
      ELSE MakeReady(v, p)

(* _refill reads i_fifo up to the first packet that is not due at once. It *)
(* forgets the next packet if there is one.                                *)
Refill(w) ==
  LET after[k \in 0 .. Len(w.fifo)] ==
        IF k > 0 THEN Read(after[k - 1])
        ELSE IF w.fifo = <<>> THEN w ELSE [w EXCEPT !.next = NoPacket]
  IN  after[Len(w.fifo)]

WorkloadCompleted(w) ==
  w.pending = <<>> /\ w.deferred = <<>> /\ w.next = NoPacket

AdvanceTime(w) ==
  LET v == [w EXCEPT !.pending = @ \o w.deferred, !.deferred = <<>>] IN
  IF w.next = NoPacket THEN v
  ELSE IF w.wait > 1 THEN [v EXCEPT !.wait = @ - 1]
  ELSE Refill([MakeReady(v, w.next) EXCEPT !.next = NoPacket, !.wait = 0])

(* _Inject: a pending source with nothing left to send starts its first    *)
(* ready packet, the others are deferred to the next cycle.                *)
Starting(w, parts) == {n \in Range(w.pending) : parts[n] = <<>>}

Started(w, parts) ==
  LET go == Starting(w, parts) IN
  [w EXCEPT !.pending = <<>>,
            !.ready = [n \in Nodes |-> IF n \in go THEN Tail(@[n]) ELSE @[n]],
            !.deferred = @ \o Keep(w.pending, {n \in Nodes : n \notin go \/ Len(w.ready[n]) > 1})]

-----------------------------------------------------------------------------
(* Flits. *)
FlitsOf(p) == [i \in 1 .. p.size |-> [pkt |-> p, i |-> i]]
IsTail(f)  == f.i = f.pkt.size
Ids(flits) == {f.pkt.id : f \in flits}

Queued(parts) == UNION {Range(parts[n]) : n \in Nodes}

(* The flits the network can eject: of each packet the first. *)
Ejectable == {f \in net : \A g \in net : g.pkt = f.pkt => f.i <= g.i}

Absorbable(flits) == {f \in flits : f.pkt.kind = "reduce"}

(* Packets a router generates: copies of a broadcast, sent from anywhere. *)
Copying(flits) == {f \in flits : f.pkt.kind = "broadcast" /\ f.pkt.id \notin spawned}

CopyOf(f, n) == [id |-> f.pkt.id + MaxPackets, src |-> n, delay |-> 0, size |-> 1,
                 kind |-> "plain"]

(* The packets generated at a node, as they join its _partial_packets. *)
CopiesFrom(n) ==
  LET ps == Keep(generated, {p \in Range(generated) : p.src = n})
  IN  [k \in DOMAIN ps |-> [pkt |-> ps[k], i |-> 1]]

-----------------------------------------------------------------------------
Init ==
  /\ pc = "driver" /\ ending = FALSE /\ started = FALSE /\ count = 0
  /\ wl = EmptyWorkload
  /\ partial = [n \in Nodes |-> <<>>]
  /\ net = {} /\ inflight = {} /\ absorbed = {} /\ generated = <<>>
  /\ clock = 0
  /\ info = {} /\ settled = {} /\ spawned = {} /\ owed = {} /\ returned = "none"

(* The packets that are injected and neither ejected nor absorbed. *)
ReadyPackets(w) == UNION {Range(w.ready[n]) : n \in Nodes}
Loaded(w)  == {p.id : p \in ReadyPackets(w) \cup {w.next}} \ {0}
Unread(w)  == {p.id : p \in Range(w.fifo)}
Unsettled  == Unread(wl) \cup Loaded(wl) \cup Ids(inflight)

(* The driver, between two calls of run_step. *)
Inject ==
  /\ pc = "driver" /\ ~ending /\ count < MaxPackets
  /\ \E r \in Requests : wl' = [wl EXCEPT !.fifo = Append(@, Packet(count + 1, r))]
  /\ count' = count + 1
  /\ UNCHANGED <<pc, ending, started, netVars, partial, inflight, clock, settled, callVars>>

Completed == WorkloadCompleted(wl) /\ inflight = {}

(* FAULT: the workload is refilled whether or not it is completed. *)
StartStageRefilling(w) == Refill(w)

(* FAULT: the workload is not refilled. *)
StartStageStale(w) == w

StartStage(w) == IF Completed THEN Refill(w) ELSE w

(* run_step. The first call only runs task() up to its first switch back:  *)
(* init() resets the workload, which reads i_fifo, and no stage is run.    *)
RunStep(end) ==
  /\ pc = "driver" /\ ~ending
  /\ owed' = Unsettled
  /\ IF ~started
     THEN /\ started' = TRUE
          /\ wl' = Refill([EmptyWorkload EXCEPT !.fifo = wl.fifo])
          /\ returned' = "init"
          /\ UNCHANGED <<pc, ending>>
     ELSE /\ pc' = "stage"
          /\ ending' = end
          /\ wl' = StartStage(wl)
          /\ returned' = "stage"
          /\ UNCHANGED started
  /\ info' = {}
  /\ UNCHANGED <<count, netVars, partial, inflight, clock, settled>>

(* task() after run_sync: report, then end() if the driver asked for it. *)
Return(ejects) ==
  /\ info' = ejects
  /\ pc' = IF ending THEN "draining" ELSE "driver"

(* A cycle of the network: some flits are ejected, sent, absorbed, copied. *)
Network(parts, ejected, senders, taken, copying) ==
  /\ net' = (net \ (ejected \cup taken)) \cup {Head(parts[n]) : n \in senders}
  /\ partial' = [n \in Nodes |-> IF n \in senders THEN Tail(parts[n]) ELSE parts[n]]
  /\ spawned' = spawned \cup Ids(copying)

Expired == TimeLimit >= 0 /\ clock >= TimeLimit

(* FAULT: what routers absorbed stays in flight. *)
UncollectedInFlight == inflight

InFlightAfterMerge == inflight \ absorbed

(* One call of _StepSim. *)
StepSim ==
  LET live    == InFlightAfterMerge
      arrived == [n \in Nodes |-> partial[n] \o CopiesFrom(n)]
      parts   == [n \in Nodes |-> IF n \in Starting(wl, arrived)
                                  THEN FlitsOf(Head(wl.ready[n])) ELSE arrived[n]]
  IN
  /\ pc = "stage" /\ ~Completed /\ ~Expired
  /\ \E ejected \in SUBSET Ejectable,
        senders \in SUBSET {n \in Nodes : parts[n] # <<>>} :
     \E taken \in SUBSET Absorbable(net \ ejected),
        copying \in SUBSET Copying(net \ ejected) :
       LET tails == {f \in ejected : IsTail(f)} IN
       /\ Network(parts, ejected, senders, taken, copying)
       /\ inflight' = (live \cup Queued(parts)) \ ejected
       /\ absorbed' = taken
       /\ \E at \in [copying -> Nodes] :
            generated' = SetToSeq({CopyOf(f, at[f]) : f \in copying})
       /\ settled' = settled \cup Ids(tails) \cup Ids(inflight \ live)
       /\ IF tails # {} THEN Return(Ids(tails)) ELSE UNCHANGED <<pc, info>>
  /\ wl' = AdvanceTime(Started(wl, arrived))
  /\ clock' = IF TimeLimit >= 0 THEN clock + 1 ELSE clock
  /\ UNCHANGED <<ending, started, count, owed, returned>>

(* The loop of _SingleSim_Stage ends without an ejection. *)
StageEnds ==
  /\ pc = "stage" /\ (Completed \/ Expired)
  /\ Return({})
  /\ UNCHANGED <<ending, started, count, netVars, simVars, owed, returned>>

(* RunDrain steps with TrafficManager::_Step, which injects nothing new    *)
(* and collects neither absorbed flits nor generated packets.              *)
DrainStep ==
  /\ pc = "draining" /\ inflight # {}
  /\ \E ejected \in SUBSET Ejectable,
        senders \in SUBSET {n \in Nodes : partial[n] # <<>>} :
     \E taken \in SUBSET Absorbable(net \ ejected) :
       /\ Network(partial, ejected, senders, taken, {})
       /\ inflight' = inflight \ ejected
       /\ absorbed' = absorbed \cup taken
       /\ settled' = settled \cup Ids({f \in ejected : IsTail(f)})
  /\ UNCHANGED <<driverVars, generated, wl, clock, callVars>>

DrainEnds ==
  /\ pc = "draining" /\ inflight = {}
  /\ pc' = "ended"
  /\ UNCHANGED <<ending, started, count, netVars, simVars, callVars>>

(* The script has ended the simulation and is done with it. *)
Ended == pc = "ended" /\ UNCHANGED vars

Next ==
  \/ Inject
  \/ \E end \in BOOLEAN : RunStep(end)
  \/ StepSim
  \/ StageEnds
  \/ DrainStep
  \/ DrainEnds
  \/ Ended

Spec == Init /\ [][Next]_vars

(* The loops of a stage and of the drain keep stepping, and in the network *)
(* whatever can move does at some time (FlitNetwork's EverythingSettles).  *)
FairSpec ==
  /\ Spec
  /\ WF_<<wl, partial, net, inflight>>(StepSim)
  /\ WF_vars(StageEnds)
  /\ WF_<<partial, net>>(DrainStep)
  /\ WF_vars(DrainEnds)

-----------------------------------------------------------------------------
(* Properties *)

AllPackets == {Packet(id, r) : id \in 1 .. MaxPackets, r \in Requests}
Copies     == {CopyOf([pkt |-> p], n) : p \in AllPackets, n \in Nodes}
AllFlits   == UNION {Range(FlitsOf(p)) : p \in AllPackets \cup Copies}
PacketId   == 1 .. 2 * MaxPackets
Workload   == [fifo : Seq(AllPackets), pending : Seq(Nodes), deferred : Seq(Nodes),
               ready : [Nodes -> Seq(AllPackets)], next : AllPackets \cup {NoPacket},
               wait : Nat]

(* The variables keep their types; the workload never queues more sources  *)
(* than there are nodes (its assertions on _pending_nodes).                *)
TypeOK ==
  /\ pc \in {"driver", "stage", "draining", "ended"}
  /\ ending \in BOOLEAN /\ started \in BOOLEAN /\ count \in 0 .. MaxPackets
  /\ wl \in Workload
  /\ Len(wl.pending) + Len(wl.deferred) <= Cardinality(Nodes)
  /\ partial \in [Nodes -> Seq(AllFlits)]
  /\ net \subseteq AllFlits /\ inflight \subseteq AllFlits /\ absorbed \subseteq AllFlits
  /\ generated \in Seq(Copies) /\ clock \in Nat
  /\ info \subseteq PacketId /\ settled \subseteq PacketId
  /\ spawned \subseteq PacketId /\ owed \subseteq PacketId
  /\ returned \in {"none", "init", "stage"}

(* Every packet the driver injected is in one place: unread in i_fifo, read*)
(* by the workload, in flight, or settled. None is lost or sent twice,     *)
(* whatever the delays and however run_step and inject alternate.          *)
NoPacketLost ==
  LET places == <<Unread(wl), Loaded(wl), Ids(inflight), settled>> IN
  /\ 1 .. count \subseteq UNION Range(places)
  /\ \A i, j \in DOMAIN places : i # j => places[i] \cap places[j] = {}

(* A source waits for its turn, once, exactly while it has ready packets:  *)
(* else a packet stays behind or _ready_packets is popped while empty.     *)
PendingIffReady ==
  LET turns == wl.pending \o wl.deferred IN
  /\ IsInjective(turns)
  /\ \A n \in Nodes : n \in Range(turns) <=> wl.ready[n] # <<>>

(* What the manager counts as in flight is what is still to be sent, what  *)
(* is in the network, and what routers absorbed since it last looked: else *)
(* a stage ends too early or never.                                        *)
InFlightExact == inflight = Queued(partial) \cup net \cup absorbed

(* The packets of a source are sent in the order they were injected.       *)
LineOf(n) ==
  [k \in DOMAIN partial[n] |-> partial[n][k].pkt] \o wl.ready[n]
    \o (IF wl.next = NoPacket THEN <<>> ELSE <<wl.next>>) \o wl.fifo

SourceOrder ==
  \A n \in Nodes :
    LET line    == LineOf(n)
        ofthis  == {i \in DOMAIN line : line[i].src = n /\ line[i].id <= MaxPackets}
    IN  \A i, j \in ofthis : i < j => line[i].id <= line[j].id

(* But to follow a packet that had to wait for its time, i_fifo is read    *)
(* only when everything read before has settled: without delays, packets   *)
(* injected after a run_step never meet those of the stage before, which   *)
(* is how covers stay ahead of their operands.                             *)
ReadsWhenIdle ==
  [][Unread(wl) \ Unread(wl') # {} =>
       Loaded(wl) \cup Ids(inflight) = {} \/ wl.next # NoPacket]_vars

(* A stage settles at least one of the packets the driver waits for, or a  *)
(* copy of one, so that the scripts' run_step per packet is enough; unless *)
(* the simulated time is over, when stages return at once.                 *)
StageSettlesOne ==
  pc = "driver" /\ returned = "stage" /\ owed # {} /\ ~Expired =>
    (owed \cup {id + MaxPackets : id \in owed}) \cap settled # {}

(* No packet is lost, sent twice or overtaken at its source, and the       *)
(* workload's queues, the manager's count of flits in flight and the       *)
(* driver's count of settled packets agree after every operation.          *)
BooksBalance ==
  /\ TypeOK /\ NoPacketLost /\ PendingIffReady /\ SourceOrder
  /\ StageSettlesOne /\ InFlightExact

(* Every run_step returns. *)
StageReturns == pc = "stage" ~> pc # "stage"

(* "Draining remaining packets ...": end() returns. It does not when a flit*)
(* is absorbed meanwhile: only StepSim collects those.                     *)
DrainReturns == pc = "draining" ~> pc = "ended"
=============================================================================
