# Verification of CompAir

CompAir simulates an accelerator for large language models out of processing in
memory (PIM) and computing in the network. The repository joins three simulators
and the scripts around them: an AiM memory simulator (a Ramulator2 with PIM
commands), BookSim2 with routers that compute, and CENT, which maps transformer
blocks onto PIM devices. This directory holds TLA+ models of them, the TLC
configurations that check the models on small instances, and proofs, checked by
TLAPS, for instances of every size.

Everything is translated from the source; where a comment of a module names a
function or variable in the code's spelling, it is that one. `PROJECT.json` gives
the lines behind every definition, what each run checks, and the hazards the
properties are for.

## 1. The system

| part (source) | state | operations | what makes it correct |
|---|---|---|---|
| AiM trace frontend (`aim_trace.cpp`) | the line read and not yet accepted, EOC reached, EOC called back | `tick`: read a line, offer it again while refused | each line is delivered once, in order; the simulation ends with the EOC and not before |
| AiM DMA (`aim_DRAM_system.cpp`) | queue of host requests, copies of the head not yet accepted per channel, callbacks owed | `send`, `tick`, `receive` | copies are neither lost nor sent twice; a blocking instruction holds back what follows; the count is exact, or the DMA hangs or retires early |
| AiM DRAM controller, one per channel (`AiM_dram_controller.cpp`, `GDDR6.cpp`) | active, read, write, AiM buffers; pending reads and writes; write and register mode; rows | `send`, `tick` | AiM requests in order, no request lost on a full buffer, an activated request has its bank to itself, barriers drain, nothing starves |
| Generic DRAM controller, standards, row hammer plugins (`generic_dram_controller.cpp`, `node.h`, `dram/impl`, `plugin`) | buffers, command histories and ready clocks per node, trackers, the row indirection table | `tick`, refresh, a plugin's `update` | every timing constraint, no row closed under a request, no aggressor missed, every request served |
| NoC routers (`iq_router.cpp`, `buffer_state.cpp`, `vc.cpp`) | VC buffers and states, credits, crossbar, compute registers | the phases of a cycle, and scalar, reduce, cover and read in the network | no overflow, packets do not mix, order per packet, right sums, everything arrives |
| Allocators, arbiters (`allocators/`, `arbiters/`) | matches, pointers, arbiter states | `AddRequest`, `Allocate`, `Clear` | a matching of requests, nothing wasted, priorities, fairness |
| Networks and routing functions (`networks/`, `routefunc.cpp`) | what a flit carries: phase, intermediate | `Route` | no deadlock, channels of the right class, arrival |
| Traffic managers and workloads (`*trafficmanager.cpp`, `workload.cpp`, `traffic.cpp`, `injection.cpp`, `netrace`) | packets due, pending, in flight; outstanding requests; the phase of the simulation | `_Inject`, `_Step`, `_GeneratePacket`, `_RetirePacket`, `_SingleSim` | transactions and the measured window are exact, order and dependences of a workload, every simulation ends |
| Online workload, stages, Python API (`simulatetrafficmanager.cpp`, `top.cpp`, `booksim_sync.py`) | `i_fifo`, pending and deferred sources, partial packets, the greenlet's progress | `inject_comp_air`, `run_step`, `eject_all_print`, `end`, `RunDrain` | every packet once and in order; a stage ends, for the right reason; batches stay apart |
| Packet queues (`lockfree_queue.hpp`) | a linked list with head and tail | `enqueue_pkt`, `is_empty`, `dequeue`, `dequeue_pkt` | a FIFO under any interleaving that touches no freed node |
| Itineraries and kernels (`flit.cpp`, `example/*.py`) | up to four legs per packet | `UpdateDest`, `MatchedDestID`, `LastPos`; reduce, broadcast, exp, sqrt | a packet computes at its routers in order and stops at the last |
| CENT (`TransformerBlock.py`, `Llama.py`, `GPT.py`, `aim_sim.py`) | arrays, latches and buffers of the PIM devices; the trace | store, load, GEMV, element-wise operations, a block, a trace-only block | results are the host's, regions do not overlap, both generators agree |
| Offload translators (`compair_row_isa.py`, `row_to_packet.py`) | manifest, rows, packets | `emit_rows`, `compile_packets` | every recorded piece of work is carried and billed once |
| Pipeline (`compair_perf_pipeline.py`, `api.py`, `run_sim.py`) | traces, manifests, logs, the CSV, the table | generate, simulate, update the CSV, translate, add up | a summary's numbers come from the run it names |

**Interaction.** The trace frontend pushes lines into the DMA; the DMA calls
`send` of the controllers, which answer at once with accept or refuse, and for
four opcodes (RD_MAC, RD_AF, SYNC, EOC) call `receive` back later. A kernel script
calls `inject_comp_air`, which appends to `i_fifo`; `run_step` switches to a
greenlet that runs one stage of the simulator: the workload reads `i_fifo`, the
traffic manager makes flits, the network moves them, routers absorb or copy some,
and the first packet ejected, put into `o_fifo`, ends the stage. In asynchronous
mode the simulator is a thread, and the queues are shared. CENT, the memory
simulator and the network meet only in files: the pipeline runs one after the
other and adds up their results.

**What is hard.** Callbacks that arrive while copies are still unsent; refusals
by some channels; two kinds of requests that keep each other out; credits that
have to balance over routers that swallow flits; the state of a VC that depends on
the flit behind the one that leaves; registers set up by packets that others must
not overtake; dozens of VC ranges that together keep a network free of deadlock;
command histories across banks; stages that end in the middle of everything; a
queue with a lagging tail and freed nodes; a long sequence of instructions over
shared buffers, written twice; files left behind by runs that were interrupted.

## 2. The modules

| module | models | relation |
|---|---|---|
| `AiMDMA` | frontend and DMA; controllers are whatever accepts, refuses and finishes | abstract specification of the next |
| `AiMController` | the controllers and banks | EXTENDS `AiMDMA`; `ImplementsDMA` shows the composition implements it |
| `DRAMStandards`, `DRAMDevice`, `RowHammer`, `GenericDRAM` | timing tables; a device's nodes; plugins; the controller in front of them | each EXTENDS the one before |
| `FlitNetwork` | terminals, links, routers, compute registers | the inside of what `OnlineSim` leaves open |
| `Allocators` | allocators and arbiters | what `FlitNetwork` leaves open |
| `RouteSets`, `RoutingCube`, `RoutingTrees`, `RoutingFlat`, `Routing` | routing functions by topology; a packet on its way, and the deadlock analysis | composed by `Routing` |
| `BufferStates`, `TrafficPatterns`, `Workloads`, `TrafficManager` | buffer policies; patterns and injection; workloads; simulations | composed by `TrafficManager` |
| `OnlineSim` | driver, greenlet, workload, stage loop, drain | uses the network as a bag of flits |
| `FlitItinerary` | a packet's legs; the kernels' packets | |
| `PktFIFO`, `PktQueue` | a FIFO; `LockFreePktQueue`, each atomic access a step | `ImplementsFIFO` |
| `CentLayout`, `CentPIM`, `CentGEMV`, `CentBlock`, `CentTrace`, `CentSim` | rows of the banks; instructions; matrix products; the functional block; the trace-only blocks; both, and what must be true of them | each EXTENDS those before |
| `PacketISA`, `CompAirPipeline` | translators; the pipeline with its files | EXTENDS `CentTrace`: what is offloaded is what a trace records |
| `..._proofs` | theorems | EXTEND their modules |
| `MC...` | instances for TLC | |

Operators marked `FAULT` are not part of a specification: each is a definition
with a plausible bug, and its property is known to fail if the definition is
replaced by it.

Abstractions worth knowing, module by module:

* **AiMDMA.** A request is its number and its line, a line the opcode, channels and
  opsize; a copy is (request, column, channel), so a per-channel queue of copies is
  a set ordered by column. `ControllerFinish` is any controller that finishes.
* **AiMController.** `Admitted` is `send` for the copies of a tick, in order;
  `ControllerTick` the controller's whole `tick`. Time is abstract: a command is
  ready, and an issued request departs, when TLC likes. Three facts of the timing preset
  are kept in `Ready`: a bank whose row was closed under an activated request is ready for
  that request's ACT when all are for ACT16 (`ReopensFirst`); a column command is ready
  before the PREA of a request for all banks (nRCDRD and nRCDWR are below nRAS) but for a
  write that waits, behind a read in flight, for the bus to turn round; and before its
  WRA16 but for a read (`Overtakes`). The interrupt check does not stop what overtakes, as
  it compares row groups with bank -1. The priority buffer and refresh
  are left out: the refresh manager loops over `get_level_size("rank")`, which is
  -1, and never sends anything.
* **GenericDRAM.** One channel; cycles in which nothing can change are skipped; one
  speed bin per standard; requests come in any cycle the configuration allows. A
  log of issued commands is checked against the whole table (`CommandsLegal`), not
  against the ready clocks the code computes.
* **FlitNetwork.** A slot is a VC of a link. The phases of a router's cycle are
  actions, and allocators are nondeterministic choices, so delays, pipelines and
  arbitration are covered whatever their settings. `path` and `ops` of a packet
  stand for routing and itinerary; `stage` for the scripts' habit to run the
  simulator between injections.
* **FlitItinerary.** `ToursSound` is about plain itineraries: their stops are
  different routers of the mesh and no leg but the last leads over the last stop. Kernels
  are taken as the scripts send them, with whatever their legs lead over.
* **Allocators.** A request has two priorities, one for the input and one for the
  output, as `iq_router` passes them. A pass of `Allocate`'s loop is a step; requests come and go, but
  the watched one, or all that are refused, stay until granted. Random choices are
  nondeterministic.
* **Routing.** One packet moves at a time; a routing function returns the set of
  its outcomes over random draws and queue lengths. What packets do to each other is
  in `Stuck`: positions (channels with what the flit knows) from which a set of
  packets could block one another for good.
* **TrafficManager.** The network keeps the flits of one source and VC in order and
  takes and gives at most one flit per node and cycle. Latencies of netrace packets
  are scaled down.
* **OnlineSim.** The greenlet switch is atomic; the network may eject, absorb or copy
  any flit it holds, in order within a packet. Left out: `max_round`, `run_ahead`,
  several classes; a broadcast is copied at most once, at any router.
* **PktQueue.** Sequentially consistent atomics (the default in the code). `shared`
  chooses between the two ways the queue can be used safely: one producer, with
  `dequeue` deleting nodes, or several, with only `dequeue_pkt`, which deletes none.
  `sure` and `chain` are history variables.
* **CENT.** Values are numbers modulo a prime, so that an addition or product left
  out, done twice or taken from the wrong row shows; norm, exponential, rotation and
  sigmoid are fixed functions. Banks are 16 as in the scripts, the rest is scaled.
* **CompAirPipeline.** Files, their states (absent, cut, whole) and the pools of
  threads and processes are kept; cycles are lines of a trace (half if it was cut);
  latencies of links and accelerators and energies are left out. Logs are written
  atomically; a manifest is never cut.

## 3. The runs

| run | shows | bounds |
|---|---|---|
| `aim_system` | the DMA carries every trace out and every trace ends; two channels with their controllers keep, order and drain every mix and implement `AiMDMA` with its fairness | 2 channels of 2 banks and 2 rows, queue of 2, 4 lines, each from its own set of kinds (`MCLines`), buffers of 3 |
| `noc_flow` | flow control with `wait_for_tail_credit`, as configured | 2 routers, 2 VCs of 2 flits, packets of 3, 1, 1 flits, 2 inputs on 1 output |
| `noc_reduce` | one reduction computes the sum once; everything settles | VCs of 1 flit; cover, 2 operands, read, scalar |
| `online` | packets are sent once and in order, bookkeeping is exact, stages return and keep batches apart | 2 nodes, 3 packets of 4 kinds: delayed, of 2 flits, absorbed, copied |
| `packet_queue` | a FIFO, no use after free, calls return | 3 addresses, 2 packets, 3 threads, both ways of use |
| `itinerary` | every plain itinerary computes its legs in order; kernels in an 8x8 mesh, flits overtaking each other, give exact reductions, and broadcasts that compute where their legs lead, once for every way there | up to 3 legs in 3x3, 4 in 2x2; reductions of 4 and 8, every source, number of targets and step up to `MaxStep` of a broadcast that stays in the mesh, exp |
| `itinerary_reduce16` | a disagreement, below | the 16-operand reduction |
| `allocators` | grants are matchings, well chosen, and a request that stays is granted in time: by wavefronts whatever else is asked for, by iSLIP, select and separable allocators if all refused requests stay | 18 allocators of 2 to 4 inputs and outputs, 1 or 2 passes, 1 or 2 priorities on each side; two requests a cycle with tree arbiters |
| `routing` | no assertion fails, VCs stay in their class, no deadlock, every hop nearer, arrival | 44 networks of 5 to 72 nodes, one or more for every routing function, and the planar ones with each failure `InsertRandomFaults` can choose; all sources and destinations or those that differ |
| `dram` | all timing constraints on the log of commands, rows, bursts, trackers; every request served | 9 standards with 1 or 2 ranks, 3 to 6 requests; 16 configurations, 1 or 2 refreshes |
| `traffic` | buffer policies, transactions, measured window, workloads, ends | 19 configurations of 2 to 4 nodes, among them several subnets, classes, replies, batches, traces and 3 netraces |
| `cent` | blocks computed on the devices equal the host's, regions stay apart, traces can be followed and agree; every offload billed once; the summary's numbers are of its own case, or of one that shares its directory | 6 computed blocks, 17 traces; 3 cases of `run.sh`, 3 of other flags and lengths in the default directory, 2 starts, 1 interruption, 1 failure, old and new manifests |

Their properties, each stated in prose where it is defined:

* `aim_system`: `TraceCarriedOut`, `WorkAccountedFor`, `BlockingStopsLaterCopies`, `BuffersConsistent`, `AiMInOrder`, `EventuallyFinished`, `BarrierDrainsAiM`, `ImplementsDMA`.
* `noc_flow`: `ChannelsSound`, `CreditsConserved`, `SenderOwnsVC`.
* `noc_reduce`: `ReductionResult`, `EverythingSettles`.
* `online`: `BooksBalance`, `ReadsWhenIdle`, `StageReturns`.
* `packet_queue`: `PointersSound`, `ImplementsFIFO`, `CallsReturn`.
* `itinerary`: `ToursSound`, `ReductionExact`, `BroadcastExact`.
* `itinerary_reduce16`: `ReductionExact`.
* `allocators`: `GrantsSound`, `GrantsWellChosen`, `FairWait`.
* `routing`: `RoutesSafe`, `EveryHopNearer`, `Arrives`.
* `dram`: `CommandsLegal`, `RowsSafe`, `EveryRequestServed`.
* `traffic`: `FlowControlKept`, `TransactionsExact`, `WorkloadFaithful`, `SimulationEnds`.
* `cent`: `ResultsExact`, `DataKept`, `TraceFaithful`, `OffloadsAccounted`, `SummaryRight`.

Why the bounds are of interest: a queue of 2 is full with one request being
unrolled; buffers of 3 refuse the fourth copy of an opsize of 4; 2 rows give row
misses, 2 banks let a PREA or a write to all of them close rows under activated requests; a packet of 3 flits is longer than a buffer, 2 VCs can be shared and
exhausted; 3 packets are one in flight, one waiting and one unread; 3 nodes allow a
freed one to be reused while the tail lags; tori of 4, 5 and 6 have even and odd
rings; the blocks of `cent` differ in what decides the code's branches: heads
grouped or not, one device or several, rows partly filled, dimensions that do not
divide the banks. Proofs cover the other sizes (section 4), and of flow control the
mode without `wait_for_tail_credit`, which CompAir's configuration does not use and
no run checks. `noc_flow` uses the symmetry of VCs and checks no liveness property.
`noc_reduce` switches the deadlock check off: a network that holds absorbed flits'
credits for ever stops in a state that is not `Drained`'s; `EverythingSettles` says
that all packets are through by then.

### Fairness

`main()` ticks frontend, DMA and controllers for ever, and latencies are finite:
weak fairness of each. `AiMController` asks strong fairness of one thing, the ACT or
column command of an activated request (`ServesActive`): it is looked at first, but
between its ready moments mode switches, or another request's PREA, may intervene. `FlitNetwork`: every cycle steps every router and
channel; weak fairness of each phase of each slot; allocators, which may pass over a
VC, are not assumed strongly fair, since a workload is finite. `OnlineSim`: the
loops keep stepping, and what can move in the network does, which is
`EverythingSettles`; fairness is of steps that change something. `PktQueue`: a
thread inside a call is scheduled; nobody is obliged to make another call.
`Routing`: a packet that may enter, and one that may go on or leave, eventually does
(one packet alone waits for nobody). `GenericDRAM`: the front end sends and the loop
ticks for ever. `TrafficManager`: the program runs until it ends, stated as
infinitely many steps or `Halted`.

### Disagreements found

`itinerary_reduce16` (a finding): `is_latest_pos` is true at any router whose number
is `LastPos()`, so an itinerary that leads over its last stop computes there too
soon; `reduce.py` promises sums of 16 operands and loses four.

The following were seen while modelling; each can be reproduced by the definition
named, checked in place of the run's properties or on the constants named.

| where | code | statement |
|---|---|---|
| `BarrierIsComplete` (`AiMController`) | SYNC and EOC are answered while an earlier conventional access is in the active buffer (`AiM_dram_controller.cpp:347`) | README: "barrier between ISR instructions" |
| `ForwardsSameAddress` (`AiMController`) | a read is answered from any buffered write: `addr` is never set (`:127`) | "Forward existing write requests to incoming read requests" |
| `MaskBitIsChannel` (`AiMController`) | mask bit b means channel MAX-1-b (`aim_DRAM_system.cpp:64`) | `all_isr.trace`: masks 1, 2, 4, 8 are channels 0 to 3 |
| `ActiveRowOpen` (`AiMController`) | the check before a precharge compares row groups, where a request for all banks has bank -1: a PREA closes the row that an activated write waits for while the bus turns round after a read (50 cycles, `GDDR6.cpp:809`), and the write is activated again | "we need to check if it will close an opened row in the active buffer", "Invalidate this scheduling outcome if we are to interrupt a request in the active buffer" (`AiM_dram_controller.cpp:367`, `:376`) |
| `BroadcastPromised` (`MCFlitItinerary`) | the legs are 1, 2 and 3 steps (`broadcast.py:41`): the node 3 steps on computes twice, the eighth never, in `main`'s own broadcast and in those `compair_row_isa.py:171` emits | "must be 2, 4, or 8" (`broadcast.py:16`) |
| `SummaryOfOwnCase` (`CompAirPipeline`) | cases share `--result-dir` by default, `update_csv` keeps the latency first found for a length whatever its flags (`run_sim.py:383`), the table takes the least length's | a row is keyed by case, model and length (`compair_perf_pipeline.py:80`) |
| `ReductionsDeliver` (`MCFlitNetwork`, `TwicePackets`, `TwiceBacklog`, `FairSpec`) | an absorbed flit's credit never returns and its VC stays in use (`iq_router.cpp:2373`) | `reduce.py`: the result of the reduction is returned |
| `DrainReturns` (`OnlineSim`) | the drain never collects absorbed flits (`trafficmanager.cpp:1127`) | "Empty any remaining packets" |
| `Valiant` (`MCRouting`) | at the destination router phases share VCs (`routefunc.cpp:1132`): a deadlock | "or else valiant valiant will deadlock" (`:1134`) |
| `ValiantTorus`, `UgalDragonFly`, `WideCMesh`, `RingOfRouters` (`MCRouting`) | an abort (`assert(ring_part == 1)`), a deadlock, a livelock, a deadlock | |
| `SelectTwice`, `WideMaxSize` (`MCAllocators`) | a second pass of `select` matches an input twice (`selalloc.cpp:62`); `max_size` clears `_from` for as many outputs as inputs (`maxsize.cpp:115`) | |
| `RowsFound` without its exemption (`GenericDRAM`) | a re-swap records the crossed pair (`rrs.cpp:278`) | "issue new swaps" |

Observed, and covered by no run:

* AiM: `send` admits an AiM request while a conventional one waits in the active
  buffer; a reduce packet of two flits reaches the assertion at `iq_router.cpp:390`;
  the first `run_step` only initialises (`booksim_sync.py:85`); with the default
  `max_samples` and `sample_period` a stage does nothing after 10,000 cycles.
* BookSim2: with `hold_switch_for_packet` and several subnets a body flit enters the
  wrong subnet (`trafficmanager.cpp:732`); `on_off` injection reads `params[2]` for
  its initial states; a batch with a reply class never completes unless
  `batch_size` of replies is 0; class or age priorities with shared VCs and
  `wait_for_tail_credit` stop with "Buffer taken while in use"; a trace with a
  trailing newline reads uninitialised locals (`workload.cpp:373`); `iSLIP` and
  `select` can starve a request when an input asks for the same output now and then,
  and so can separable allocators: the input's arbiter prefers in turn two outputs
  that refuse it, and arbiters move only when they match
  (`separable_input_first.cpp:97`), so `FairWait` counts for them only where all
  refused requests stay; the CLI's
  `main.cpp` does not compile; `limited_adapt_mesh` is not registered.
* DRAM: on sibling ranks RD to WR overlaps bursts when nCL - nCWL > nCS; a write in
  the active buffer is not forwarded; HBM and GDDR6 are never refreshed by
  `AllBank`; LPDDR5's table is indexed by the wrong rate and a second request can
  issue ACT-2 for another's row; Graphene's takeover does not compare with the
  threshold; OracleRH does not compare the first activation.
* SimpleO3: the LLC's hit callback overwrites an MSHR allocated again, and its
  waiting misses are lost (`llc.cpp`).
* CENT: a functional FFN with an iteration limit always raises (`Llama.py:528`); scores
  longer than a row raise (`TransformerBlock.py:376`); the new V is stored at the
  wrong row when seqlen - 1 is a multiple of the columns; the "Very Large Model"
  trace overwrites a buffer before it is used (`Llama.py:1046`); GPT copies to SANorm
  twice; GPT's w2 region and its use round differently; multi-device attention code
  is dead (`intra_device_attention = True`). Excluded from the instances.
* Pipeline: a trace left by an interrupted run is simulated as it is, without
  offloads (`api.py:96`); a failed simulation's 0 stays in the CSV, as
  `drop_duplicates` keeps the first row, and its key leaves out the offload flags
  (`run_sim.py:383`); `update_csv` always raises in model-parallel mode, whose FC
  traces nobody generates; the table's rows are lost after a cut write
  (`compair_perf_pipeline.py:76`); manifests of all runs in a folder are added up.
  `SummaryRight` is stated about what a summary says in spite of these: cycles of a case
  with the same directory and no greater length, its own where the directory is its own.

## 4. The proofs

All theorems hold for every value of the constants that the named assumptions of the
modules allow. An invariant is proved by an inductive strengthening that was first
checked by TLC on the instances above; a lemma per action shows it kept.

**`AiMDMA_proofs`** (`ParameterAssumption`, `InstrAssumption`: at least one channel,
slot and line; lines name channels; SYNC, EOC and R/W MEM have one column). That the
counter matches the callbacks holds only because everything unsent or owed stems
from the head, which holds only because a head is retired with nothing of it left:
`IInv` joins types, `CopiesInPlace`, `WorkIsOfHead`, `OwedCounted`, `Numbered`,
`HeldNotAhead`, `EOCEnds`, `NeverThrows`. `TraceCarriedOut`, `WorkAccountedFor` and
`BlockingStopsLaterCopies` follow.

**`AiMController_proofs`** (`ControllerAssumption`: finitely many banks, at most
`BufMax`; `AddressAssumption`). `SysInv` is `IInv` and, for each channel: every
held copy is in exactly one list (`Placed`); each list holds its kind (`Sorted`); sent
copies precede unsent ones, issued AiM copies queued ones, and both AiM lists are in
program order (`Ordered`); what is offered may be admitted (`Sendable`); the bank of an
activated request holds that request's row or none and has no other activated request
(`RowsKept`). Rows may be closed under activated requests (above); that these open them
again before others take the bank is what leaves room in the active buffer, whose
`enqueue` nobody checks. Proved:
`BuffersConsistent`, `AiMInOrder`, the action property `BarrierDrainsAiM`, and the
safety part of the refinement (`SystemIsDMA`: every step of the detailed system is a
step of `AiMDMA` or leaves it alone), so that the DMA's theorems hold of the composed
system. The fairness part of `ImplementsDMA` is checked by TLC only.

**`FlitNetwork_proofs`** (the module's assumptions, and
`WorkloadAssumption`: links do not loop, a packet is queued once, reduce packets have
one flit). For any network, workload, VC count and buffer size, with and without
`wait_for_tail_credit`, `IInv` gives `CreditsConserved`, `SenderOwnsVC`, no overflow,
and that a VC is reused only when its packet has left. `WormInv` adds a witness:
there is a function `due` that names for every slot the flit that must leave it next,
such that the flits on a slot follow each other from there, and either the sender goes
on or the VC is closed (`Flowing`); a router's VC is active exactly when its due flit
is not a head, and its output's due flit is then the same (`StatesFit`); sources,
heads and terminals agree (`SourcesFit`, `HeadsFit`, `EjectsFit`). `ChannelsSound`,
the framing and order of packets on VCs and at terminals, follows.

**`OnlineSim_proofs`** (`RequestAssumption`: finitely many nodes, absorbed and copied
packets have one flit). `BooksBalance` relates four books kept in different places:
what the loader handed out, what sits between a source and the network, what the
network holds or absorbed, and what the driver collected. `IInv` says of the workload
that a node is pending exactly when its turn has come and it has a packet, and that
turns keep the loader's order (`WorkloadOK`, and `SourceOrder` from it); of the network
that a packet's flits follow each other and its tail is with them (`FlitsOK`,
`SourcesOK`, `AbsorbedOK`); of the ids that each is held, in flight or settled, and
never two of these (`Accounts`, `InFlightExact`); of copies that each has one origin
(`CopiesOK`, `CopiesFollow`); of the stage loop that, as long as nothing the stage
awaits has settled, there is something left to settle it with (`StageOK`,
`StageSettlesOne`), which is why a stage that returned has settled a packet. All of it
holds for every limit on the simulated time: once that is over (10,000 cycles by
default) stages return at once, and only then need they settle nothing. The action property
`ReadsWhenIdle` follows. The loops of `_refill` and of the ready queue are functions over
turns; what they preserve is proved from the least turn that would break it.

**`PktQueue_proofs`** (three kinds of threads, nodes and packets, without number). The
invariant (`ChainOK`, `FreshOK`, `SharedOK`, `AloneOK`, `ConsumerOK`) says which nodes
a thread's local pointers can name in each step of each call, relative to the list from
`head`. The two uses of the queue are safe for different reasons. When it is shared no
node is deleted, so a linked node whose next is null is the last one, and `tail` may
lag anywhere behind it. With one producer nobody else moves `tail`: it is the last node
whenever the producer reads it, and the last node is never the one deleted. `PointersSound`, the refinement `ImplementsFIFO` step by step, and that a
consumer that saw the queue not empty gets a packet, follow.

**`Allocators_proofs`** (`ConfigAssumption`: sizes and passes positive, finitely many
integer priorities, the kinds `NewAllocator` knows, and a tree arbiter's inputs divide
into its groups, as its constructor asserts). For every allocator but `max_size`, and
`select` with one pass, whatever is requested when:

* `GrantsSound`: the two tables agree, each output has one input, and only requests are
  granted. Each kind's pass accepts only free ends and no output twice (`Kept`): because
  outputs granted to one input each, because inputs chose one output each, or, of a
  wavefront, because two requests on a diagonal share neither row nor column, which is
  arithmetic modulo the square's side.
* `GrantsWellChosen`: what a pass comes to is `Progressed`. A round of grants and accepts
  matches one more input unless nothing is left to match (`Advanced`), so that as many
  as the smaller side has ends leave nothing. The one pass of the others grants
  something, and a request of higher priority than every other of its input and, with its
  other priority, of its output, since every arbiter chooses a foremost request (`ArbiterChooses`; a matrix arbiter because what it
  remembers is a strict order, `Prepared`). A wavefront goes through levels of priority
  and diagonals: after k passes only what was reached is granted, and what was reached
  is granted or lost an end to what was reached sooner (`Swept`), which at the last pass
  says that nothing is refused but for what is not below it (`Served`).
* `FairWait` of wavefronts (`WaveFair`): the allocations a request was refused in and its
  distance behind the diagonal the next starts at are together less than the square's
  side. Who refused it was reached sooner, hence with one priority lies on a nearer
  diagonal; `rr_wavefront` moves past the first diagonal with a request of the greatest
  priority, which is not further than that one.

`max_size` is excluded since its search and path are recursive functions, `select` with
two passes since it breaks the matching.

**`CompAirPipeline_proofs`**, for the translators (`AddressAssumption`: the network's
addresses are below the SRAM's; `ManifestAssumption`: the sizes of emitted rows are
integers). Whatever was recorded, every row `emit_rows` makes is carried by exactly one
packet (`RowsAreCarried`), because its groups of exp are complete; and packets come in
ascending addresses a row stride apart (`PacketsAreApart`), because regions never
descend. Both are kept by concatenation, which is how `emit_rows` builds its list.

For the pipeline (`CasesAssumption`: an invocation's row is keyed by its least length,
and `--run-ramulator` comes with `--run-cent`; `TraceAssumption`: a trace has some number
of lines), `SummaryIsRight` says that wherever the threads are interrupted and started
again, a summary has no cycles or those of a trace of an invocation with the same result
directory, no longer than its own; where the directory is of one case, as in `run.sh`,
that is its own trace (`FirstOfOneCase`). `SummaryRight` speaks of one moment, "done"; the
strengthening `FilesInv` says what each file is worth meanwhile. A log has the cycles of
its trace, which is not written again once it has any (`LogsTrue`), although what is cut
stays cut. A length in a csv file has no cycles or those of the log of some case that has
the directory, and a log with cycles is not simulated again (`CsvRows`), so what `drop_duplicates` keeps of an
earlier invocation is still true. That needs the folder of a trace to tell the flags:
with `KeyOfModel` it is false. Model parallel invocations never get
to the table with `--run-ramulator`: nobody generates their embeddings, so
`EmbeddingKnown` fails (`LatenciesAre`). Without an interruption every trace is whole,
its manifest saved (`SavedTrue`, `Undisturbed`), and without a failure no log is empty
whose trace is there (`Unfailed`). `FilesAlways` is the invariant as a theorem.

**`GenericDRAM_proofs`** (`SystemAssumption`: a tree of nodes with every prefix of a bank's
and a rank's path; a table whose lines bind a command at levels it passes; requests that
need only commands of the device; a trace that names its banks; plugins that refresh
victims come with a device that can). The controller never sees the log: it
asks, on the way from the channel down to a command's scope, whether each node's clock
for the command has come. `TimedAlways` says that these clocks remember enough:
`Ready` (for each line and node, the clock is no less than the line asks, counted from
the nth last command of the log that touched the node), which needs `Remembered` (the
histories hold the cycles of the last four) and `InOrder`. A command that passes its
checks then keeps every line (`Kept`), and `ConstraintsHold` follows for
every device, table, plugin and trace. Of the buses, `SpacedLast` is the strengthening:
the data of the last command starts after that of every column before it, not only of the
one before, hence `TimingHolds`, if the table spaces the data (`IsSpaced`). `RowsHold`
needs two facts at once. What the log shows of a bank is the bank's state (`RowState`).
And the active requests of a bank agree on its row, which is the open one if one is open
(`Agreed`): a request becomes active by opening its row, a PRE for a bank an active
request uses is interrupted, and a refresh's PREA, which may close it, only sends the
active requests back to their ACT. Nobody else opens the bank then, since whoever wants
an ACT of a closed bank is ready together with them (`ReadyTogether`) and active requests
are served first. `CommandsAreLegal` joins the two. Its hypotheses, `IsSpaced` and
`OneStep` (a row is opened with one command), hold of every device of the run but
LPDDR5, which has two steps (`ConditionsMet`, which TLC evaluates). They are needed:
with an ACT-1 for a read, then a write that finds the
bank "Pre-Opened" and sends ACT-2 for its own row, LPDDR5 has two rows open; and two of
its ranks share a bus with no line between them. `TypesOK` covers what every plugin
sends: Hydra's evicted counters and the accesses of RRS's swaps name banks of the device
because the cache is indexed by them and the indirection table stays one of pairs. The
prerequisites (`RequireRowOpen`, `RequireClockSynced`) are written with the state of the
bank in each guard, as the code's `switch` has it: with overlapping guards a CASE may
choose either, TLC takes the first, and nothing could be proved.

**Only model-checked.** Every liveness property and the fairness of refinements (no
prover here handles ENABLED): `EventuallyFinished`, `EverythingSettles`,
`StageReturns`, `CallsReturn`, `EveryRequestServed`,
`SimulationEnds`, `Arrives`. What recursive definitions compute for every
input, since the library's induction theorems cannot be instantiated (an invariant of a
loop over numbers can be had from its least counterexample, as in `OnlineSim_proofs`; a
sum or a path over data was not attempted): sums and tours of `FlitItinerary`
(`ToursSound`, `ReductionExact`, `BroadcastExact`, `ReductionResult`), routes
(`RoutesSafe`, `EveryHopNearer`), what the trackers count against the log (`RowsSafe`),
LPDDR5's part of `CommandsLegal`, the packets a workload asks for (`WorkloadFaithful`), CENT's results and
bills (`ResultsExact`, `DataKept`, `TraceFaithful`, `OffloadsAccounted`). And, not yet attempted:
`FlowControlKept`, `TransactionsExact`, `max_size`'s part of
`GrantsSound` and `GrantsWellChosen`, and `FairWait` of the allocators that grant in
rounds or choose twice.

## 5. Not modelled

Statistics, power, figures and cost formulas; the chaos and event routers,
prioritised arbiters, NOQ and look-ahead, the `Taper64` pattern; speculative
allocation, held switches and broadcasts inside `FlitNetwork` (broadcasts are in
`FlitItinerary`); further speed bins and Hydra's reserved rows; the SimpleO3 frontend;
`run_ahead`'s fork and `RunAlways`' single stage; pybind11 and generated parsers.
`PROJECT.json` names each with its reason.

## 6. Plan

1. Theorems: `FlowControlKept` of `BufferStates` (each policy's slots against the
   flits sent), `RowsSafe` of the trackers that refresh victims (their counts against
   the activations in the log), LPDDR5's rows.
2. A network promise (`PktTransport`: per packet in order, exactly once or absorbed)
   that `FlitNetwork` implements and `OnlineSim` uses.
3. Asynchronous mode: `RunAlways` with `PktFIFO` in place of `i_fifo`.
