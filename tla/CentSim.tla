------------------------------- MODULE CentSim -------------------------------
(***************************************************************************)
(* cent_simulation/function_sim.py: a transformer block computed on the    *)
(* PIM devices (part = "computed") or only traced (part = the name of a    *)
(* trace_only* method), and what must be true of either.                   *)
(***************************************************************************)
EXTENDS CentTrace

CONSTANT Runs         \* a set of shapes, each with its part

Computing == shape.part = "computed"

Init ==
  /\ shape \in Runs
  /\ HostInit
  /\ IF Computing
     THEN /\ DeviceInit
          /\ todo = Reference \o Verification \o SelfAttentionAim(shape) \o FFNAim(shape)
     ELSE /\ arrays = <<>> /\ gb = <<>> /\ latch = <<>> /\ register = <<>>
          /\ todo = OnlyTraced(TraceOnly(shape, shape.part))

\* The program has ended, or Python has raised an exception.
Ended ==
  /\ todo = <<>> \/ raised
  /\ UNCHANGED vars

Next ==
  \/ WR_BIAS \/ MAC_BK_GB \/ MAC_BK_BK \/ RD_MAC \/ EWMUL \/ WR_GB \/ WR_GB_Row
  \/ COPY_BK_GB \/ COPY_GB_BK \/ AF \/ RD_AF \/ OnlyTrace
  \/ HostStep \/ CompareStep \/ StoreStep \/ LoadStep \/ StoreNewToken \/ LoadQuery
  \/ Result \/ Expand \/ Ended

Spec == Init /\ [][Next]_vars

Done == todo = <<>> /\ ~raised
-----------------------------------------------------------------------------
(***************************************************************************)
(* The results.                                                            *)
(***************************************************************************)

\* Every tensor read back from the banks is the one stored, and every
\* intermediate result the devices compute, from the sum of squares of the
\* first norm to the output of the block, is the one of the plain computation
\* (the compare calls of Llama.py, which only print); the activation registers
\* hold the sigmoid of the first hidden vector.
ResultsExact ==
  /\ differ = {}
  /\ ~raised
  /\ Computing /\ Done =>
       vec["x1_sigmoid_aim"] = [k \in DOMAIN vec["x1"] |-> Sigmoid(vec["x1"][k])]

\* The regions of memory_mapping do not overlap: the weights are in the banks
\* when all are stored and still there when the block is done; then the caches
\* hold the tokens before this one and, in its place, the new key and value.
Held(mode, name) ==
  Gathered(arrays, StorePieces(shape, mode, name, Size(shape, name), shape.base[name]),
           Size(shape, name))

WeightsHeld ==
  /\ \A w \in DOMAIN Matrix(shape) : Held("weights", w) = Stowed(shape, w)
  /\ \A w \in {"SANorm", "FFNNorm"} : Held("group_0", w) = Stowed(shape, w)

CachesHeld ==
  LET width == shape.kv * HeadDim(shape)
      last == shape.seqlen - 1
  IN /\ Held("cache_k", "cache_k") =
          [i \in 0 .. shape.seqlen * width - 1 |->
             IF i \div width = last THEN vec["xk"][i % width] ELSE Datum("cache_k", i)]
     /\ Held("cache_v", "cache_v") =
          [i \in 0 .. shape.seqlen * width - 1 |->
             IF i % shape.seqlen = last THEN vec["xv"][i \div shape.seqlen]
             ELSE Stowed(shape, "cache_v")[i]]

AimLength == [s \in {s \in Runs : s.part = "computed"} |->
                Len(SelfAttentionAim(s) \o FFNAim(s))]

AllStored == Len(todo) = AimLength[shape]

DataKept ==
  Computing => /\ AllStored \/ Done => WeightsHeld
               /\ Done => CachesHeld
-----------------------------------------------------------------------------
(***************************************************************************)
(* The traces.                                                             *)
(***************************************************************************)

\* The instructions of a trace; with "no-reuse" the trace-only product leaves
\* the reads of the activation registers out.
Instructions(s, lines) ==
  SelectSeq(lines, LAMBDA l : /\ l.op \notin {"W MEM", "R MEM", "SYNC", "EOC"}
                              /\ s.order = "no-reuse" => l.op # "RD_AF")

Expected == [s \in {s \in Runs : s.part = "computed"} |->
               Instructions(s, TraceOnly(s, "block"))]

\* lines begins like expected, and is all of it at the end.
Agree(lines, expected) ==
  /\ Len(lines) <= Len(expected)
  /\ \A k \in DOMAIN lines : lines[k] = expected[k]
  /\ Done => Len(lines) = Len(expected)

\* The performance model is fed with trace-only traces: the block that really
\* computes gives the devices the same instructions, in the same order, with
\* the same sizes, masks, banks and rows.
TraceAgrees == Computing => Agree(Instructions(shape, trace), Expected[shape])

\* How many of the first k lines are of kind op.
Count(lines, op, k) == Cardinality({j \in 1 .. k : lines[j].op = op})

\* The last line before k of kind op.
LastOf(lines, op, k) ==
  CHOOSE j \in 1 .. k - 1 : lines[j].op = op /\ \A i \in j + 1 .. k - 1 : lines[i].op # op

\* The latches: as many results are read as biases were written and products
\* accumulated, never before, and never more are open than there are latches.
LatchesBalanced(lines) ==
  \A k \in 0 .. Len(lines) :
    LET biases == Count(lines, "WR_BIAS", k)
        reads == Count(lines, "RD_MAC", k)
        products == Count(lines, "MAC_ABK", k)
    IN /\ reads <= products /\ products <= biases /\ biases - reads <= shape.reuse
       /\ k = Len(lines) => reads = biases

\* A product uses no more of the global buffer than was written to it, a copy
\* writes what was just read.
BufferHolds(lines) ==
  \A k \in DOMAIN lines :
    /\ lines[k].op = "MAC_ABK" /\ lines[k].row \notin {shape.base.x, shape.base.sa_copy} =>
         lines[k].size <= lines[LastOf(lines, "WR_GB", k)].size
    /\ lines[k].op = "COPY_GBBK" =>
         lines[k - 1] = [lines[k] EXCEPT !.op = "COPY_BKGB", !.bank = @ + 1, !.row = lines[k - 1].row]

\* Every row of a weight matrix is multiplied once: by the banks, or by the
\* SRAM under the role of the matrix.
WeightsOnce(lines) ==
  \A w \in DOMAIN Matrix(shape) \cap DOMAIN shape.base :
    LET rows == WeightRows(shape, Matrix(shape)[w][1], Matrix(shape)[w][2])
        Products(T(_)) == Cardinality({k \in DOMAIN lines : lines[k].op = "MAC_ABK" /\ T(lines[k])})
    IN IF shape.sram
       THEN Products(LAMBDA l : Recorded(l) /\ Region[l.role] = w) = rows
       ELSE \A r \in 0 .. rows - 1 : Products(LAMBDA l : l.row = shape.base[w] + r) = 1

\* Line j brings the operand of its row: bank 0 or 1 of the groups.
Brings(line, row, operand) ==
  /\ line.op \in {"W MEM", "COPY_GBBK"}
  /\ line.row = row /\ line.bank % 4 = operand

\* The operands of an element-wise product were both brought after the last
\* product that used them.  The parameters of the model lie in bank 0.
OperandsFresh(lines) ==
  \A k \in DOMAIN lines :
    lines[k].op = "EWMUL" =>
      \A operand \in {0, 1} :
        \/ operand = 0 /\ lines[k].row \in {shape.base[p] : p \in {"SANorm", "FFNNorm", "xq", "xk"}}
        \/ \E j \in 1 .. k - 1 :
             /\ Brings(lines[j], lines[k].row, operand)
             /\ \A i \in j + 1 .. k - 1 : ~(lines[i].op = "EWMUL" /\ lines[i].row = lines[k].row)

\* A complete trace is one the devices can follow.  The operands are followed
\* through the trace of a Llama block whose hidden layer fits in one row.
TraceLegal ==
  Done =>
    /\ LatchesBalanced(trace)
    /\ ~IterationRequired(shape) => BufferHolds(trace)
    /\ shape.part \in {"computed", "block", "FC"} => WeightsOnce(trace)
    /\ shape.part = "block" /\ shape.model = "Llama" /\ ~shape.noc
         /\ ~IterationRequired(shape) => OperandsFresh(trace)

\* What a run writes for the devices: the same whether or not it computes, and
\* something they can follow.
TraceFaithful == TraceAgrees /\ TraceLegal
=============================================================================
