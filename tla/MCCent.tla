------------------------------- MODULE MCCent -------------------------------
(***************************************************************************)
(* Small transformer blocks for CentSim: the banks of a channel are 16 as  *)
(* in the scripts, the rest (1024 columns, 32 channels, heads of 128) is   *)
(* scaled down.                                                            *)
(***************************************************************************)
EXTENDS CentSim, CompAirPipeline

\* memory_mapping.
Mapped(s) ==
  LET regions == IF s.model = "Llama" THEN LlamaRegions ELSE GPTRegions
      height == Height(s)
      base == Bases(regions, height)
      last == regions[Len(regions)]
  IN s @@ [base |-> base, rows |-> base[last] + height[last]]

\* One channel per block of two, eight latches' worth of outputs.
Small ==
  [model |-> "Llama", part |-> "computed", banks |-> 16, channels |-> 2, block |-> 1,
   devices |-> 1, parallel |-> FALSE, column |-> 16, burst |-> 4, dim |-> 32, heads |-> 2,
   kv |-> 2, gqa |-> FALSE, ffn |-> 40, seqlen |-> 3, maxseq |-> 32, reuse |-> 4,
   order |-> "reuse-GB", tp |-> 1, vocab |-> 64,
   noc |-> FALSE, sram |-> FALSE]

\* Two heads of the query share a head of the caches, over two channels.
Grouped ==
  [Small EXCEPT !.block = 2, !.column = 32, !.burst = 8, !.dim = 64, !.heads = 4, !.gqa = TRUE,
     !.ffn = 72, !.seqlen = 18, !.maxseq = 64, !.order = "no-reuse"]

\* The weights over the banks of two devices.
Parallel ==
  [Small EXCEPT !.parallel = TRUE, !.devices = 2, !.channels = 1, !.seqlen = 5]

\* Two dimensions of a head in a bank, three outputs of the hidden layer.
Wide ==
  [Small EXCEPT !.channels = 1, !.column = 32, !.dim = 64, !.ffn = 72, !.seqlen = 9,
     !.maxseq = 64, !.reuse = 2]

\* Three heads over two channels, vectors that fill no burst, full score rows.
Uneven ==
  [Small EXCEPT !.block = 2, !.dim = 48, !.heads = 3, !.kv = 3, !.ffn = 100, !.seqlen = 16,
     !.maxseq = 16]

\* Both: blocks of two channels over two devices.
Spread ==
  [Parallel EXCEPT !.channels = 2, !.block = 2, !.dim = 64, !.heads = 4, !.kv = 4, !.ffn = 88,
     !.seqlen = 12, !.order = "no-reuse"]

ComputedBlocks == {Small, Grouped, Parallel, Wide, Uneven, Spread}

\* Scores and hidden layers of more than a row.
Long  == [Small EXCEPT !.seqlen = 18]
Large == [Small EXCEPT !.seqlen = 18, !.ffn = 72]
GPT   == [Small EXCEPT !.model = "GPT", !.tp = 2, !.heads = 2, !.kv = 2, !.dim = 64, !.column = 32]

\* Without what the network does, without what the SRAM does as well.
Offloaded ==
  {[Long EXCEPT !.noc = TRUE], [GPT EXCEPT !.noc = TRUE],
   [Large EXCEPT !.noc = TRUE, !.sram = TRUE],
   [Small EXCEPT !.sram = TRUE, !.order = "no-reuse"]}

Traced ==
  {[s EXCEPT !.part = "block"] : s \in {Long, Large, GPT} \cup Offloaded}
  \cup {[s EXCEPT !.part = p] : s \in {Small, GPT}, p \in {"embedding", "FC"}}
  \cup {[Small EXCEPT !.part = p] : p \in {"gen", "ffn", "ffn2", "gqa", "sv"}}

Shapes == {Mapped(s) : s \in ComputedBlocks \cup Traced}
-----------------------------------------------------------------------------
(***************************************************************************)
(* The invocations of run.sh, one of several lengths, one of model         *)
(* parallelism, one that only collects what the others have left and three *)
(* in the default result directory.                                        *)
(***************************************************************************)
AllSteps == {"cent", "ramulator", "subsims"}

Case1 == [noc |-> FALSE, sram |-> FALSE, parallel |-> FALSE, steps |-> AllSteps,
          seqs |-> <<3>>, first |-> 3, dir |-> "case_1"]
Case2 == [Case1 EXCEPT !.sram = TRUE, !.dir = "case_2"]
Case3 == [Case1 EXCEPT !.noc = TRUE, !.sram = TRUE, !.dir = "case_3"]
Several == [Case3 EXCEPT !.seqs = <<3, 18>>]
Shared == [Case1 EXCEPT !.parallel = TRUE, !.dir = "parallel"]
Again == [Case3 EXCEPT !.steps = {"subsims"}, !.dir = "again"]

\* Without --result-dir: other flags, other lengths, the same directory.
Plainly == [Case1 EXCEPT !.dir = "compair_results"]
Offloading == [Case3 EXCEPT !.dir = "compair_results"]
Longer == [Offloading EXCEPT !.seqs = <<18>>, !.first = 18]

Invocations == {Case1, Case2, Case3, Several, Shared, Again, Plainly, Offloading, Longer}

BlockOf(k) == Mapped([Small EXCEPT !.part = "block", !.noc = k.noc, !.sram = k.sram,
                                   !.seqlen = k.seq])
OneFactor == <<1>>

\* Offloads of parts of a model, the same without the roles of the products
\* (older manifests), and some of both.
Products(role, n) == [i \in 1 .. n |-> SramEvent(role, 4, 32, 32, role = "W1")]
OfRoles(roles) == Each(roles, LAMBDA r : Products(r, 4))
Unnamed(events) == [i \in DOMAIN events |-> [events[i] EXCEPT !.role = ""]]
Network == <<NocEvent("rmsnorm_ffn_input_ewmul_store"), NocEvent("softmax_reduce_load"),
             NocEvent("ffn_silu_split_store")>>
Attention == <<"Wq", "Wk", "Wv", "Wo">>
OldAndNew ==
  {OfRoles(<<"Emb_in", "Emb_out">>), Network \o OfRoles(<<"W1", "W2">>),
   Unnamed(OfRoles(Attention)), Network \o Unnamed(OfRoles(<<"W1", "W3", "W2">>)),
   OfRoles(Attention) \o Unnamed(Products("W1", 3)), <<>>}

\* The second row is of another group: no packet for the first.
Unmatched == <<ExpRows("SOFTMAX_EXP", 8)[1], ExpRows("SILU_EXP", 8)[2], ExpRows("SOFTMAX_EXP", 8)[3],
               Collect("REDUCE", 1)>>
Mistakes == {Unmatched}

CallsOf(kernel) == 5

\* A run computes or traces a block, or starts the pipeline.
NoBlock == [Mapped(Small) EXCEPT !.part = "none"]

MCInit ==
  /\ FilesInit
  /\ \/ Init /\ PacketInit(<<>>)
     \/ /\ shape = NoBlock /\ HostInit
        /\ arrays = <<>> /\ gb = <<>> /\ latch = <<>> /\ register = <<>> /\ todo = <<>>
        /\ RowsInit

MCNext ==
  \/ shape # NoBlock /\ Next /\ UNCHANGED pipeline_vars
  \/ shape = NoBlock /\ PipelineNext /\ UNCHANGED vars

MCSpec == MCInit /\ [][MCNext]_<<vars, pipeline_vars>>
=============================================================================
