--------------------------- MODULE CompAirPipeline ---------------------------
(***************************************************************************)
(* The performance pipeline as run.sh starts it, case after case:          *)
(* compair_perf_pipeline.py lets cent_pim/api.py write the traces of       *)
(* CentTrace, run_sim.py simulate them and collect the latencies, makes    *)
(* rows and packets of what the traces left to the network and to the SRAM *)
(* and adds up the latencies of all three in a table that the cases share. *)
(* What is kept between two invocations are files; an invocation may be    *)
(* interrupted at any point and started again.                             *)
(***************************************************************************)
EXTENDS CentTrace, PacketISA

Sets == INSTANCE FiniteSetsExt

CONSTANTS
  Jobs,           \* the invocations: see JobFields
  ShapeOf(_),     \* the shape of the block a trace is written for
  Factors,        \* factorize(num_devices)
  TotalLength,    \* prefill + decoding
  DimHint,        \* --embedding of the pipeline
  GenWorkers, SimWorkers,       \* max_workers of the pools
  KernelSteps(_), \* run_steps of a kernel of booksim2/example
  HandWritten,    \* rows given to row_to_packet.py by hand
  MaxStarts, MaxInterrupts, MaxFailures  \* bounds of the model

\* The arguments of compair_perf_pipeline.py: steps are its --run- options,
\* seqs is --seqlen or the list of lengths up to prefill + decoding, first the
\* length in the key of the table, dir the result directory.
JobFields == {"noc", "sram", "parallel", "steps", "seqs", "first", "dir"}

ASSUME PipelineAssumption ==
  /\ Jobs # {}
  /\ \A j \in Jobs : DOMAIN j = JobFields /\ j.steps \subseteq {"cent", "ramulator", "subsims"}
  /\ GenWorkers \in Nat \ {0} /\ SimWorkers \in Nat \ {0}

\* The length in the key of the table is the least of the invocation; what is
\* simulated has been generated.
ASSUME CasesAssumption ==
  /\ Factors \in Seq(Nat) /\ Factors # <<>>
  /\ \A j \in Jobs :
       /\ j.noc \in BOOLEAN /\ j.sram \in BOOLEAN /\ j.parallel \in BOOLEAN
       /\ j.seqs \in Seq(Int)
       /\ \E i \in DOMAIN j.seqs : j.seqs[i] = j.first
       /\ \A i \in DOMAIN j.seqs : j.first <= j.seqs[i]
       /\ "ramulator" \in j.steps => "cent" \in j.steps

VARIABLES
  phase,      \* of the invocation: "idle" before, "done" or "stopped" after it
  job,        \* its arguments
  tasks, running,       \* of the tasks submitted to the pool those that wait (by
                        \* their positions), and those of its threads
  written,    \* what function_sim.py writes for a trace: it never changes
  traces,     \* trace file -> its state: "none", "cut" (still being written) or
              \* "whole", and the number of its lines
  saved,      \* the manifests *.offload.json there are: trace -> the events in it
  logs,       \* log -> -1 (none), 0 (empty), the cycles in it
  csv,        \* result directory -> simulation_results.csv
  table,      \* delay_summary_by_case.json
  starts, interrupts, failures

files == <<traces, saved, logs, csv, table>>
pool == <<tasks, running>>
bounds == <<starts, interrupts, failures>>
pipeline_vars == <<written, phase, job, pool, files, bounds, packet_vars>>

\* f, and g where f has no entry.
Over(f, g) == [x \in DOMAIN f \cup DOMAIN g |-> IF x \in DOMAIN f THEN f[x] ELSE g[x]]
Put(f, x, y) == Over([z \in {x} |-> y], f)

\* A file of rows reaches the disk when it is closed: before that ("cut") it
\* cannot be read.
NoFile == [state |-> "none", rows |-> <<>>]
NoTrace == [state |-> "none", lines |-> 0]
Cut(rows) == [state |-> "cut", rows |-> rows]

\* FAULT: a folder for the traces of all cases.
KeyOfModel(j, mode, devices, seq) ==
  [noc |-> FALSE, sram |-> FALSE, mode |-> mode, devices |-> devices, seq |-> seq]

\* channels_device_folder, trace_prefix: what a path under trace/ tells of the
\* arguments a trace was made with.
Key(j, mode, devices, seq) ==
  [noc |-> j.noc, sram |-> j.sram, mode |-> mode, devices |-> devices, seq |-> seq]

Each(s, F(_)) == For(Len(s), LAMBDA i : F(s[i + 1]))

\* generate_trace: the traces of an invocation, for each length one or one for
\* each factor.
TraceKeys(j) ==
  LET n == Len(Factors)
  IN IF j.parallel
     THEN [i \in 1 .. n * Len(j.seqs) |->
             Key(j, "model_parallel", Factors[((i - 1) % n) + 1], j.seqs[((i - 1) \div n) + 1])]
     ELSE [i \in 1 .. Len(j.seqs) |-> Key(j, "pipeline_parallel", 0, j.seqs[i])]

\* simulate_trace: also the traces of the embedding and of the other devices,
\* whose generation is commented out.
SimKeys(j) ==
  LET own == TraceKeys(j)
      Other(k) == [k EXCEPT !.mode = "model_parallel_FC"]
  IN IF j.parallel
     THEN [i \in 1 .. Len(Factors) |->
             Key(j, "model_parallel_embedding", Factors[i], TotalLength)]
            \o [i \in 1 .. 2 * Len(own) |->
                  IF i % 2 = 1 THEN own[(i + 1) \div 2] ELSE Other(own[i \div 2])]
     ELSE <<Key(j, "pipeline_parallel_embedding", 0, TotalLength)>> \o own

AllKeys == UNION {{SimKeys(j)[i] : i \in DOMAIN SimKeys(j)} : j \in Jobs}

\* The lines for the devices, the products among them, and the events left out.
Macs(lines) == Cardinality({i \in DOMAIN lines : lines[i].op = "MAC_ABK"})
Content(lines) ==
  LET left == SelectSeq(lines, LAMBDA l : ~Recorded(l))
  IN [lines |-> Len(left), macs |-> Macs(left), events |-> SelectSeq(lines, Recorded)]

\* The same trace without a network and without an SRAM.
Plain(k) == [k EXCEPT !.noc = FALSE, !.sram = FALSE]

\* A trace has some number of lines.
ASSUME TraceAssumption ==
  \A k \in AllKeys : Content(TraceOnly(ShapeOf(k), "block")).lines \in Nat

FilesInit ==
  /\ written = [k \in AllKeys \cup {Plain(k) : k \in AllKeys} |->
                  Content(TraceOnly(ShapeOf(k), "block"))]
  /\ phase = "idle"
  /\ job = CHOOSE j \in Jobs : TRUE
  /\ tasks = {} /\ running = {}
  /\ traces = [k \in AllKeys |-> NoTrace]
  /\ saved = <<>>
  /\ logs = [k \in AllKeys |-> -1]
  /\ csv = [d \in {j.dir : j \in Jobs} |-> NoFile]
  /\ table = NoFile
  /\ starts = 0 /\ interrupts = 0 /\ failures = 0

\* row_to_packet.py may be called by hand, on rows it is given.
RowsInit ==
  \/ PacketInit(<<>>)
  \/ \E rows \in HandWritten : PacketInit(rows)
  \/ PacketSource

\* Rows were given by hand: the translator runs alone.
Alone == starts = 0 /\ row_isa # <<>>
AtRest == phase \in {"idle", "done", "stopped"}
-----------------------------------------------------------------------------
(***************************************************************************)
(* api.py generate_trace: a pool of threads, each waiting for one          *)
(* function_sim.py.                                                        *)
(***************************************************************************)

\* What an earlier invocation has begun to write is there, and left alone.
Start ==
  /\ AtRest /\ ~Alone /\ starts < MaxStarts
  /\ \E j \in Jobs :
       /\ job' = j
       /\ tasks' = IF "cent" \in j.steps
                   THEN {i \in DOMAIN TraceKeys(j) : traces[TraceKeys(j)[i]] = NoTrace}
                   ELSE {}
  /\ phase' = "generate"
  /\ starts' = starts + 1
  /\ UNCHANGED <<written, running, files, interrupts, failures, packet_vars>>

Submitted == IF phase = "generate" THEN TraceKeys(job) ELSE SimKeys(job)
Oldest == CHOOSE i \in tasks : \A m \in tasks : i <= m

TakeTask(workers) ==
  /\ tasks # {} /\ Cardinality(running) < workers
  /\ tasks' = tasks \ {Oldest}
  /\ running' = running \cup {Submitted[Oldest]}

\* The constructor of the device opens trace_file.
OpenTrace ==
  /\ phase = "generate"
  /\ TakeTask(GenWorkers)
  /\ LET k == Submitted[Oldest]
     IN traces' = [traces EXCEPT ![k] = [state |-> "cut", lines |-> written[k].lines]]
  /\ UNCHANGED <<written, phase, job, saved, logs, csv, table, bounds, packet_vars>>

CloseTrace ==
  /\ phase = "generate"
  /\ \E k \in running :
       /\ traces[k].state = "cut"
       /\ traces' = [traces EXCEPT ![k].state = "whole"]
       /\ running' = IF k.noc \/ k.sram THEN running ELSE running \ {k}
  /\ UNCHANGED <<written, phase, job, tasks, saved, logs, csv, table, bounds, packet_vars>>

SaveManifest ==
  /\ phase = "generate"
  /\ \E k \in running :
       /\ traces[k].state = "whole"
       /\ saved' = Put(saved, k, written[k].events)
       /\ running' = running \ {k}
  /\ UNCHANGED <<written, phase, job, tasks, traces, logs, csv, table, bounds, packet_vars>>

PoolDone == tasks = {} /\ running = {}

\* run_sim.py simulate_trace submits what has no log, or an empty one.
EndGenerate ==
  /\ phase = "generate" /\ PoolDone
  /\ IF "ramulator" \in job.steps
     THEN /\ phase' = "simulate"
          /\ tasks' = {i \in DOMAIN SimKeys(job) : logs[SimKeys(job)[i]] <= 0}
     ELSE phase' = "manifests" /\ UNCHANGED tasks
  /\ UNCHANGED <<written, job, running, files, bounds, packet_vars>>
-----------------------------------------------------------------------------
(***************************************************************************)
(* run_sim.py.                                                             *)
(***************************************************************************)
\* The cycles Ramulator counts, some function of the trace (here the number of
\* its lines).
Cycles(file) == IF file.state = "whole" THEN file.lines ELSE file.lines \div 2

RunSimulator ==
  /\ phase = "simulate"
  /\ TakeTask(SimWorkers)
  /\ UNCHANGED <<written, phase, job, files, bounds, packet_vars>>

\* run_command: the simulator has ended, its return code is ignored; when it
\* failed, or had no trace, nothing is left to write.
FailedLog ==
  /\ phase = "simulate"
  /\ \E k \in running :
       /\ logs' = [logs EXCEPT ![k] = 0]
       /\ running' = running \ {k}
       /\ IF traces[k] = NoTrace THEN UNCHANGED failures
          ELSE failures < MaxFailures /\ failures' = failures + 1
  /\ UNCHANGED <<written, phase, job, tasks, traces, saved, csv, table, starts, interrupts, packet_vars>>

WriteLog ==
  /\ phase = "simulate"
  /\ \E k \in running :
       /\ traces[k] # NoTrace
       /\ logs' = [logs EXCEPT ![k] = Cycles(traces[k])]
       /\ running' = running \ {k}
  /\ UNCHANGED <<written, phase, job, tasks, traces, saved, csv, table, bounds, packet_vars>>

EndSimulate ==
  /\ phase = "simulate" /\ PoolDone
  /\ phase' = "collect"
  /\ UNCHANGED <<written, job, pool, files, bounds, packet_vars>>

\* process_results, update_csv: the latency of the embedding is the one of its
\* log; without one it is a KeyError, or 0.0 in pipeline parallel mode.
EmbeddingKnown ==
  job.parallel => \A i \in DOMAIN Factors :
                    logs[Key(job, "model_parallel_embedding", Factors[i], TotalLength)] > 0

\* load_data_point: the cycles by length (the key of the other columns is the
\* same for all the traces of a directory).
Latencies == [seq \in {job.seqs[i] : i \in DOMAIN job.seqs} |->
                logs[Key(job, "pipeline_parallel", 0, seq)]]

\* drop_duplicates keeps what an earlier invocation found for a length.
OpenCsv ==
  /\ phase = "collect"
  /\ csv[job.dir].state # "cut" /\ EmbeddingKnown
  /\ phase' = "write csv"
  /\ csv' = [csv EXCEPT ![job.dir] = Cut(Over(@.rows, Latencies))]
  /\ UNCHANGED <<written, job, pool, traces, saved, logs, table, bounds, packet_vars>>

WriteCsv ==
  /\ phase = "write csv"
  /\ phase' = "manifests"
  /\ csv' = [csv EXCEPT ![job.dir].state = "whole"]
  /\ UNCHANGED <<written, job, pool, traces, saved, logs, table, bounds, packet_vars>>

\* An exception of run_sim.py ends the pipeline (check=True).
CollectRaises ==
  /\ phase = "collect"
  /\ csv[job.dir].state = "cut" \/ ~EmbeddingKnown
  /\ phase' = "stopped"
  /\ UNCHANGED <<written, job, pool, files, bounds, packet_vars>>
-----------------------------------------------------------------------------
(***************************************************************************)
(* compair_perf_pipeline.py: the manifests found in the folder of the      *)
(* traces, whatever their lengths and in the order of os.walk.             *)
(***************************************************************************)
Found(j) == {k \in DOMAIN saved : k.noc = j.noc /\ k.sram = j.sram}
RowsOf(j, keys) == EmitRows(Each(keys, LAMBDA k : saved[k]), j.first, DimHint)

NoManifest ==
  /\ phase = "manifests" /\ Found(job) = {}
  /\ row_isa' = <<>> /\ cursor' = 1 /\ packets' = <<>>
  /\ phase' = "table"
  /\ UNCHANGED <<written, job, pool, files, bounds>>

LoadManifests ==
  /\ phase = "manifests" /\ Found(job) # {}
  /\ \E keys \in [1 .. Cardinality(Found(job)) -> Found(job)] :
       /\ \A a, b \in DOMAIN keys : a # b => keys[a] # keys[b]
       /\ row_isa' = RowsOf(job, keys)
  /\ cursor' = 1 /\ packets' = <<>>
  /\ phase' = "compile"
  /\ UNCHANGED <<written, job, pool, files, bounds>>

Compile ==
  /\ phase = "compile" \/ Alone
  /\ CompileStep
  /\ UNCHANGED <<written, phase, job, pool, files, bounds>>

EndCompile ==
  /\ phase = "compile" /\ ~More
  /\ phase' = "table"
  /\ UNCHANGED <<written, job, pool, files, bounds, packet_vars>>
-----------------------------------------------------------------------------
(***************************************************************************)
(* noc_steps_from_row, sram_ms_from_row: compair_noc_driver.py counts the  *)
(* steps of the kernel of a row and one to end; the SRAM macros take tiles *)
(* of 512 by 8, 592.6 ns each (in tenths; 652.8 without a pipeline).       *)
(***************************************************************************)
Kernel(row) ==
  CASE row.op = "REDUCE" -> "reduce"
    [] row.op = "BROADCAST" -> "broadcast"
    [] row.op = "SQRT" -> "sqrt"
    [] row.op = "ROPE" -> "rope"
    [] IsScalar(row, "EXP_MUL") -> "exp"
    [] OTHER -> "scalar_r"

Loops(row) == IF Kernel(row) \in {"exp", "sqrt"} THEN AtLeast1(row.num \div 2) ELSE 1

NoCSteps(row) ==
  IF row.target # "NoC" \/ IsScalar(row, "EXP_DIV") \/ IsScalar(row, "EXP_ADD") THEN 0
  ELSE row.repeat * (Loops(row) * KernelSteps(Kernel(row)) + 1)

SramTime(row, tile) ==
  IF row.target = "NoC" THEN 0
  ELSE Ceil(row.vec, 512) * Ceil(row.cols, 8) * tile * row.chunks

\* The rows that have a packet (of all the bytes of the row), or all of them.
Billed == IF packets = <<>> THEN DOMAIN row_isa ELSE {packets[k].row : k \in DOMAIN packets}
Charged(Time(_)) == Sets!MapThenSumSet(LAMBDA i : Time(row_isa[i]), Billed)

Offload ==
  IF "subsims" \in job.steps
  THEN [noc |-> Charged(NoCSteps), sram |-> Charged(LAMBDA r : SramTime(r, 5926)),
        serial |-> Charged(LAMBDA r : SramTime(r, 6528))]
  ELSE [noc |-> 0, sram |-> 0, serial |-> 0]

\* The first row of the csv file, whatever its length (-1: null).
FirstRow ==
  LET file == csv[job.dir]
  IN IF file.state # "whole" THEN -1
     ELSE file.rows[CHOOSE n \in DOMAIN file.rows : \A m \in DOMAIN file.rows : n <= m]

Delay == [pim |-> FirstRow, offload |-> Offload]

\* _write_delay_summary_table; a table that cannot be read is begun again.
OpenTable ==
  /\ phase = "table"
  /\ table' = Cut(Put(IF table.state = "whole" THEN table.rows ELSE <<>>,
                      <<job.dir, job.first>>, Delay))
  /\ phase' = "write table"
  /\ UNCHANGED <<written, job, pool, traces, saved, logs, csv, bounds, packet_vars>>

WriteTable ==
  /\ phase = "write table"
  /\ table' = [table EXCEPT !.state = "whole"]
  /\ phase' = "done"
  /\ UNCHANGED <<written, job, pool, traces, saved, logs, csv, bounds, packet_vars>>

\* The user interrupts the pipeline and everything it has started.
Interrupt ==
  /\ ~AtRest /\ interrupts < MaxInterrupts
  /\ interrupts' = interrupts + 1
  /\ phase' = "stopped"
  /\ tasks' = {} /\ running' = {}
  /\ UNCHANGED <<written, job, files, starts, failures, packet_vars>>

AllRun ==
  /\ AtRest /\ (starts = MaxStarts \/ (Alone /\ ~More))
  /\ UNCHANGED pipeline_vars

PipelineNext ==
  \/ Start \/ OpenTrace \/ CloseTrace \/ SaveManifest \/ EndGenerate
  \/ RunSimulator \/ FailedLog \/ WriteLog \/ EndSimulate
  \/ OpenCsv \/ WriteCsv \/ CollectRaises
  \/ NoManifest \/ LoadManifests \/ Compile \/ EndCompile
  \/ OpenTable \/ WriteTable \/ Interrupt \/ AllRun

PipelineSpec == FilesInit /\ RowsInit /\ [][PipelineNext]_pipeline_vars
-----------------------------------------------------------------------------
(***************************************************************************)
(* What the table may say.                                                 *)
(***************************************************************************)
Compiling == phase \in {"compile", "table", "write table"}
SramRowsOf(rows) == {i \in DOMAIN rows : rows[i].target # "NoC"}
Counted(rows) == Sets!MapThenSumSet(LAMBDA i : rows[i].count, SramRowsOf(rows))
Own(j) == Key(j, "pipeline_parallel", 0, j.first)

\* The tiles of a row are all its products: those that are left out of the
\* traces of the folder, no more and no fewer than the traces of the same
\* blocks without an SRAM hold.
ProductsBilled ==
  /\ \A i \in SramRowsOf(row_isa) : row_isa[i].cols * row_isa[i].chunks = row_isa[i].count
  /\ Counted(row_isa) =
       Sets!MapThenSumSet(LAMBDA k : written[Plain(k)].macs - written[k].macs, Found(job))

\* Everything the network is left with has its kernel, except that the results
\* of the products of the SRAM (RD_MAC) have no row.
CarriedBy(op) ==
  CASE op \in {"rmsnorm_sa_input_ewmul_store", "rmsnorm_ffn_input_ewmul_store"} -> "sqrt"
    [] op \in {"rotary_prefill_store", "rotary_post_gather"} -> "rope"
    [] OTHER -> "exp"

TransfersBilled ==
  \A k \in Found(job) : \A e \in DOMAIN saved[k] :
    saved[k][e].unit = "noc" /\ saved[k][e].op # "RD_MAC" =>
      \E i \in DOMAIN row_isa :
        row_isa[i].target = "NoC" /\ Kernel(row_isa[i]) = CarriedBy(saved[k][e].op)

\* Time of the network and the SRAM is charged when the invocation uses them
\* and a manifest is there, only then.
TimeCharged ==
  LET offload == table.rows[<<job.dir, job.first>>].offload
      charged == Found(job) # {} /\ "subsims" \in job.steps
  IN /\ offload.sram > 0 <=> job.sram /\ charged
     /\ offload.noc > 0 <=> job.noc /\ charged
     /\ offload.sram <= offload.serial

\* The rows and packets stand for everything that the manifests of the folder
\* hold, once; packets do not overlap; the summary charges what they take.
OffloadsAccounted ==
  /\ PacketsApart
  /\ row_isa \notin HandWritten => RowsCarried
  /\ Compiling => ProductsBilled /\ TransfersBilled
  /\ phase = "done" => TimeCharged

\* The traces whose cycles the first row of the directory may hold: those of
\* the invocations that share it, no longer than the invocation's.  In a
\* directory of one case (run.sh) that is its own trace alone; --result-dir has
\* one default for all cases.
Sharing(j) == {m \in Jobs : m.dir = j.dir}
Lengths(m) == {m.seqs[i] : i \in DOMAIN m.seqs}
FirstTraces(j) ==
  {k \in AllKeys : \E m \in Sharing(j) : \E n \in Lengths(m) :
                    n <= j.first /\ k = Key(m, "pipeline_parallel", 0, n)}
OfOneCase(j) ==
  \A m \in Sharing(j) : m.noc = j.noc /\ m.sram = j.sram /\ m.first = j.first

\* The row of an invocation that has ended: the cycles of a trace of its
\* directory no longer than its own (half of them if the trace was cut, none if
\* the simulator failed), in a directory of one case of its own trace.  Without
\* an interruption it is a whole trace, its manifest is there, and the rows of
\* the other cases are still in the table.
SummaryRight ==
  phase = "done" =>
    LET row == table.rows[<<job.dir, job.first>>]
        simulated == "ramulator" \in job.steps
    IN /\ simulated => row.pim \in {0} \cup {Cycles(traces[k]) : k \in FirstTraces(job)}
       /\ simulated /\ OfOneCase(job) => row.pim \in {0, Cycles(traces[Own(job)])}
       /\ interrupts = 0 =>
            /\ "cent" \in job.steps => ((Found(job) # {}) <=> (job.noc \/ job.sram))
            /\ failures = 0 /\ simulated =>
                 /\ \E k \in FirstTraces(job) : row.pim = traces[k].lines
                 /\ OfOneCase(job) => row.pim = traces[Own(job)].lines
            /\ \A j \in Jobs : csv[j.dir].state = "whole" =>
                 \E n \in {m.first : m \in Jobs} : <<j.dir, n>> \in DOMAIN table.rows

\* What the key of a row of the table says of it: TLC refutes it where cases
\* share a directory, because update_csv keeps the latency that the first of
\* them found for a length, whatever its flags, and the table takes the least
\* length.
SummaryOfOwnCase ==
  phase = "done" /\ "ramulator" \in job.steps =>
    table.rows[<<job.dir, job.first>>].pim \in {0, Cycles(traces[Own(job)])}
=============================================================================
