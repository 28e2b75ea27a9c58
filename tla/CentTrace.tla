------------------------------ MODULE CentTrace ------------------------------
(***************************************************************************)
(* The traces the scripts write without computing (--only-trace): the      *)
(* trace_only* methods of Llama.py and GPT.py.  A line is the record of    *)
(* CentPIM!Line; the reads and writes of a burst of the host name their    *)
(* channel, bank and row.                                                  *)
(***************************************************************************)
EXTENDS CentBlock

Sync == <<Line("SYNC", 0, {}, -1, -1)>>
AddLines(size) == <<Line("EWADD", size, {}, -1, -1)>>

\* The dimension of a vector on one of tp devices.
Part(s) == s.dim \div s.tp

\* Every block of a device does the same: the transformer blocks on it.
BlocksOn(s, required) ==
  IF s.channels \div required > 1 THEN s.channels \div required ELSE 1

\* store_for_neighbor_bank_input_only_trace (mode neighbor_0, neighbor_1),
\* store_for_EWMUL_input_only_trace and load_from_EWMUL_input_only_trace
\* (group_0 to group_2): size elements in each of the banks used.
MemLines(s, op, required, used, mode, row, size) ==
  LET Chunk(i) ==
        LET Bank(b) ==
              LET index == b * Stride[mode] + Offset[mode]
                  Block(tb) == <<Line(op, 1, {index \div s.banks + required * tb},
                                     index % s.banks, row)>>
              IN For(BlocksOn(s, required), Block)
        IN For(used, Bank)
  IN For(Ceil(size, s.burst), Chunk)

\* A vector of n elements, spread over the banks of its mode.
VectorLines(s, op, required, n, mode, row) ==
  LET size == BankDim(s, mode, n)
  IN MemLines(s, op, required, Ceil(n, size), mode, row, size)

\* store_for_EWMUL_score_only_trace and load_from_EWMUL_score_only_trace.
ScoreMemLines(s, op, group) ==
  LET rows == Ceil(s.seqlen, s.column)
      Row(k) ==
        LET Score(j) ==
              LET Chunk(i) ==
                    LET Bank(g) ==
                          LET index == 4 * g + group
                              Block(tb) == <<Line(op, 1, {index \div s.banks + Required(s) * tb},
                                                 index % s.banks, s.base.scores + j * rows + k)>>
                          IN IF g * ScoresPerBank(s) + j > s.heads - 1 THEN <<>>
                             ELSE For(BlocksOn(s, Required(s)), Block)
                    IN For(TotalBanks(s) \div 4, Bank)
              IN For(OpSize(s, s.seqlen, k), Chunk)
        IN For(ScoresPerBank(s), Score)
  IN For(rows, Row)

\* store_for_score_only_trace and load_for_score_only_trace: the scores of all
\* heads spread over all banks.  A row is followed by the row a whole row of
\* elements further.
AllScoreLines(s, op) ==
  LET required == FCBanks(s) \div s.banks
      perRow == s.column * FCBanks(s)
      rows == ((s.seqlen * s.heads - 1) \div perRow) + 1
      columns == (((s.seqlen * s.heads - 1) \div rows) \div FCBanks(s)) + 1
      Row(r) ==
        LET Chunk(i) ==
              LET Bank(b) ==
                    LET Channel(c) ==
                          LET Block(tb) == <<Line(op, 1, {c + required * tb}, b,
                                                 s.base.scores + r * s.column)>>
                          IN For(BlocksOn(s, required), Block)
                    IN For(Least(required, s.channels), Channel)
              IN For(s.banks, Bank)
        IN For(Ceil(columns, s.burst), Chunk)
  IN For(rows, Row)

\* The key of the new token, in the banks of every block.
NewKeyLines(s) ==
  LET token == (s.seqlen - 1) % FCBanks(s)
      dimm == token \div (s.banks * s.channels)
      channel == (token - dimm * s.banks * s.channels) \div s.banks
      rows == (HeadDim(s) * s.kv) \div s.column
      Row(r) ==
        LET Block(tb) ==
              LET Chunk(i) == <<Line("W MEM", 1, {channel + tb * Required(s)}, token % s.banks,
                                     s.base.cache_k + ((s.seqlen - 1) \div FCBanks(s)) * rows + r)>>
              IN For(Ceil(s.column, s.burst), Chunk)
        IN For(BlocksOn(s, Required(s)), Block)
  IN For(rows, Row)
-----------------------------------------------------------------------------
(***************************************************************************)
(* The parts of the traces.  on is channel_lst.                            *)
(***************************************************************************)
On(s) == AllBlocks(s, Required(s))

PowLines(s, row) ==
  <<Line("WR_BIAS", 0, On(s), -1, -1),
    Line("MAC_ABK", Ceil(BankDim(s, "neighbor_0", Part(s)), s.burst), On(s), -1, row),
    Line("RD_MAC", 0, On(s), -1, -1)>>

MultiplyLines(s, row, n) ==
  <<Line("EWMUL", Ceil(BankDim(s, "group_0", n), s.burst), On(s), -1, row)>>

CopyLines(s, from, to, n) ==
  LET size == Ceil(BankDim(s, "group_0", n), s.burst)
      Group(g) == <<Line("COPY_BKGB", size, On(s), 4 * g + 2, from),
                    Line("COPY_GBBK", size, On(s), 4 * g + 1, to)>>
  IN For(4, Group)

\* use_comp_air_noc: the network carries what the host would store; a Llama
\* block records it, a GPT block does not.
Unless(noc, lines) == IF noc THEN <<>> ELSE lines
OrNoc(s, op, lines) == IF s.noc THEN <<NocEvent(op)>> ELSE lines

W(s, mode, row) == VectorLines(s, "W MEM", Required(s), Part(s), mode, row)
R(s, mode, row) == VectorLines(s, "R MEM", Required(s), Part(s), mode, row)

\* The matrix of a role (sram_role); the embeddings use the rows of two others.
Region == [Wq |-> "wq", Wk |-> "wk", Wv |-> "wv", Wo |-> "wo", W1 |-> "w1", W2 |-> "w2",
           W3 |-> "w3", Emb_in |-> "wq", Emb_out |-> "wo"]

\* The product of the matrix of a role with a vector of dim elements.
Product(s, role, dim, cols) == WeightLines(s, role, s.base[Region[role]], dim, cols, FALSE)
Projections(s) ==
  Product(s, "Wq", s.dim, HeadDim(s) * s.heads) \o Product(s, "Wk", s.dim, HeadDim(s) * s.kv)
    \o Product(s, "Wv", s.dim, HeadDim(s) * s.kv)
Hidden(s) == s.ffn \div s.tp
Gate(s) == WeightLines(s, "W1", s.base.w1, s.dim, Hidden(s), TRUE)

\* The new token's key and value, and the scores of the query.
AttentionLines(s) == NewKeyLines(s) \o NewValueLines(s) \o ScoreLines(s, s.base.cache_k)

\* The two products of the scores in the banks.
ScaleLines(s) ==
  LET rows == Ceil(s.seqlen, s.column)
      Score(k) ==
        LET Row(r) == <<Line("EWMUL", OpSize(s, s.seqlen, r), On(s), -1,
                             s.base.scores + k * rows + r)>>
        IN For(rows, Row)
  IN For(ScoresPerBank(s), Score)
-----------------------------------------------------------------------------
(***************************************************************************)
(* TransformerBlockLlama.trace_only.                                       *)
(***************************************************************************)
LlamaFirstNorm(s) ==
  VectorLines(s, "W MEM", s.block, s.dim, "neighbor_0", s.base.x)
    \o VectorLines(s, "W MEM", s.block, s.dim, "neighbor_1", s.base.x)
    \o PowLines(s, s.base.x)
    \o OrNoc(s, "rmsnorm_sa_input_ewmul_store",
             W(s, "group_0", s.base.x_copy) \o W(s, "group_1", s.base.x_copy))
    \o MultiplyLines(s, s.base.x_copy, s.dim)
    \o CopyLines(s, s.base.x_copy, s.base.SANorm, s.dim)
    \o MultiplyLines(s, s.base.SANorm, s.dim)
    \o R(s, "group_2", s.base.SANorm) \o Sync

\* The pairs of the query and the key are rotated in the banks.
LlamaRotary(s) ==
  LET length == BankDim(s, "group_0", s.dim)
      used == Ceil(s.dim, length)
      Twice(mode) ==
        MemLines(s, "W MEM", Required(s), used, mode, s.base.xq, length * 2)
          \o MemLines(s, "W MEM", Required(s), used, mode, s.base.xk,
                      (length \div Repeat(s)) * 2)
  IN OrNoc(s, "rotary_prefill_store", Twice("group_1")) \o RotaryLines(s)
       \o OrNoc(s, "rotary_post_gather", Twice("group_2"))

LlamaSoftmax(s) ==
  LET Scaled(store, load) ==
        ScoreMemLines(s, "W MEM", 0) \o OrNoc(s, store, ScoreMemLines(s, "W MEM", 1))
          \o ScaleLines(s) \o OrNoc(s, load, ScoreMemLines(s, "R MEM", 2)) \o Sync
  IN Scaled("softmax_score_store", "softmax_reduce_load")
       \o Scaled("softmax_exp_store", "softmax_norm_load")

LlamaSecondNorm(s) ==
  AddLines(s.dim \div s.burst)
    \o W(s, "neighbor_0", s.base.sa_copy) \o W(s, "neighbor_1", s.base.sa_copy)
    \o PowLines(s, s.base.sa_copy)
    \o OrNoc(s, "rmsnorm_ffn_input_ewmul_store",
             W(s, "group_1", s.base.sa_copy) \o W(s, "group_0", s.base.sa_copy))
    \o MultiplyLines(s, s.base.sa_copy, s.dim)
    \o CopyLines(s, s.base.sa_copy, s.base.FFNNorm, s.dim)
    \o MultiplyLines(s, s.base.FFNNorm, s.dim)
    \o R(s, "group_2", s.base.FFNNorm) \o Sync

\* The hidden layer does not fit in a row of the bank groups ("Very Large
\* Model"): it takes the row of x1 as well.
IterationRequired(s) == Hidden(s) > s.block * (s.banks \div 4) * s.column

ActivationTwice(s) ==
  LET n0 == (TotalBanks(s) \div 4) * s.column
      n1 == Hidden(s) - n0
      Both(op, mode) == VectorLines(s, op, Required(s), n0, mode, s.base.x1)
                          \o VectorLines(s, op, Required(s), n1, mode, s.base.x1_sigmoid)
      Products == MultiplyLines(s, s.base.x1, n0) \o MultiplyLines(s, s.base.x1_sigmoid, n1)
      size0 == Ceil(BankDim(s, "group_0", n0), s.burst)
      size1 == Ceil(BankDim(s, "group_0", n1), s.burst)
      Group(g) == <<Line("COPY_BKGB", size0, On(s), 4 * g + 2, s.base.x1),
                    Line("COPY_BKGB", size1, On(s), 4 * g + 2, s.base.x1_sigmoid),
                    Line("COPY_GBBK", size0, On(s), 4 * g + 1, s.base.x1),
                    Line("COPY_GBBK", size1, On(s), 4 * g + 1, s.base.x1_sigmoid)>>
  IN OrNoc(s, "ffn_silu_split_store", Both("W MEM", "group_1") \o Both("W MEM", "group_0"))
       \o Products \o For(4, Group) \o Both("W MEM", "group_1") \o Products
       \o Both("R MEM", "group_2")

ActivationOnce(s) ==
  LET row == s.base.x1_sigmoid
      Hold(op, mode) == VectorLines(s, op, Required(s), Hidden(s), mode, row)
  IN OrNoc(s, "ffn_silu_store", Hold("W MEM", "group_0") \o Hold("W MEM", "group_1"))
       \o MultiplyLines(s, row, Hidden(s)) \o CopyLines(s, row, row, Hidden(s))
       \o Hold("W MEM", "group_0") \o MultiplyLines(s, row, Hidden(s))
       \o Hold("R MEM", "group_2")

LlamaBlock(s) ==
  LlamaFirstNorm(s) \o Projections(s) \o LlamaRotary(s) \o AttentionLines(s)
    \o LlamaSoftmax(s) \o OutputLines(s, s.base.cache_v)
    \o Product(s, "Wo", s.dim, s.dim) \o LlamaSecondNorm(s)
    \o Gate(s) \o Product(s, "W3", s.dim, Hidden(s))
    \o (IF IterationRequired(s) THEN ActivationTwice(s) ELSE ActivationOnce(s)) \o Sync
    \o Product(s, "W2", Hidden(s), s.dim) \o AddLines(s.dim \div s.burst)

\* trace_only_gen, trace_only_ffn, trace_only_ffn2, trace_only_gqa, trace_only_sv.
LlamaGen(s)  == Product(s, "Wo", s.dim, s.dim)
LlamaFFN(s)  == Gate(s)
LlamaFFN2(s) == Product(s, "W2", Hidden(s), s.dim)
LlamaGQA(s)  == AttentionLines(s) \o Sync
LlamaSV(s)   == OutputLines(s, s.base.cache_v)

LlamaEmbedding(s) ==
  Product(s, "Emb_in", s.vocab, s.dim) \o PowLines(s, s.base.x)
    \o W(s, "group_1", s.base.x_copy) \o MultiplyLines(s, s.base.x_copy, s.dim)
    \o CopyLines(s, s.base.x_copy, s.base.SANorm, s.dim)
    \o MultiplyLines(s, s.base.SANorm, s.dim)
    \o R(s, "group_2", s.base.SANorm) \o Sync
    \o Product(s, "Emb_out", s.dim, s.vocab)

LlamaFC(s) ==
  Projections(s) \o Product(s, "Wo", s.dim, s.dim) \o Gate(s)
    \o Product(s, "W3", s.dim, Hidden(s)) \o Product(s, "W2", Hidden(s), s.dim)
-----------------------------------------------------------------------------
(***************************************************************************)
(* TransformerBlockGPT: the mean is subtracted before the norm (two EWADD, *)
(* two EWMUL of each vector), no rotation, no third weight matrix, and the *)
(* soft maximum is the host's.                                             *)
(***************************************************************************)
GPTProducts(s, first, middle, last) ==
  MultiplyLines(s, first, Part(s)) \o CopyLines(s, first, middle, Part(s))
    \o MultiplyLines(s, first, Part(s)) \o CopyLines(s, first, last, Part(s))
    \o MultiplyLines(s, last, Part(s)) \o R(s, "group_2", last) \o Sync

GPTFirstNorm(s) ==
  VectorLines(s, "W MEM", s.block, Part(s), "neighbor_0", s.base.x)
    \o VectorLines(s, "W MEM", s.block, Part(s), "neighbor_1", s.base.x)
    \o PowLines(s, s.base.x) \o AddLines(Part(s))
    \o Unless(s.noc, W(s, "group_0", s.base.x_copy) \o W(s, "group_1", s.base.x_copy))
    \o GPTProducts(s, s.base.x_copy, s.base.SANorm, s.base.SANorm)

GPTSoftmax(s) ==
  Unless(s.noc, AllScoreLines(s, "W MEM") \o Sync) \o AllScoreLines(s, "R MEM") \o Sync

GPTSecondNorm(s) ==
  AddLines(s.dim \div s.burst)
    \o W(s, "neighbor_1", s.base.sa_copy) \o W(s, "neighbor_1", s.base.sa_copy)
    \o PowLines(s, s.base.sa_copy) \o AddLines(Part(s) \div s.burst)
    \o Unless(s.noc, W(s, "group_1", s.base.sa_copy) \o W(s, "group_0", s.base.sa_copy))
    \o GPTProducts(s, s.base.sa_copy, s.base.sa_copy, s.base.FFNNorm)

GPTBlock(s) ==
  GPTFirstNorm(s) \o Projections(s) \o AttentionLines(s) \o GPTSoftmax(s)
    \o OutputLines(s, s.base.cache_v) \o Product(s, "Wo", s.dim, HeadDim(s) * s.heads)
    \o GPTSecondNorm(s) \o Gate(s) \o Product(s, "W2", Hidden(s) * s.tp, Part(s))
    \o AddLines(Part(s) \div s.burst)

GPTEmbedding(s) ==
  Product(s, "Emb_in", s.vocab, Part(s)) \o PowLines(s, s.base.x) \o AddLines(Part(s))
    \o W(s, "group_0", s.base.x_copy) \o W(s, "group_1", s.base.x_copy)
    \o GPTProducts(s, s.base.x_copy, s.base.SANorm, s.base.SANorm)
    \o Product(s, "Emb_out", s.dim, s.vocab \div s.tp)

GPTFC(s) ==
  Projections(s) \o Product(s, "Wo", s.dim, HeadDim(s) * s.heads) \o Gate(s)
    \o Product(s, "W2", Hidden(s) * s.tp, Part(s))

\* function_sim.py: the trace of a part of a model.
TraceOnly(s, part) ==
  (CASE part = "block" -> IF s.model = "Llama" THEN LlamaBlock(s) ELSE GPTBlock(s)
     [] part = "embedding" -> IF s.model = "Llama" THEN LlamaEmbedding(s) ELSE GPTEmbedding(s)
     [] part = "FC" -> IF s.model = "Llama" THEN LlamaFC(s) ELSE GPTFC(s)
     [] part = "gen" -> LlamaGen(s)
     [] part = "ffn" -> LlamaFFN(s)
     [] part = "ffn2" -> LlamaFFN2(s)
     [] part = "gqa" -> LlamaGQA(s)
     [] part = "sv" -> LlamaSV(s))
    \o <<Line("EOC", 0, {}, -1, -1)>>
=============================================================================
