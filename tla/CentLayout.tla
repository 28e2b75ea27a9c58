----------------------------- MODULE CentLayout -----------------------------
(***************************************************************************)
(* Where the CENT functional simulation keeps a transformer block in the   *)
(* banks of the PIM devices (cent_simulation/TransformerBlock.py, the      *)
(* memory_mapping of Llama.py and GPT.py).                                 *)
(*                                                                         *)
(* A shape s is the record of the arguments and of the model's dimensions; *)
(* a placement is a set of pieces, one per call of                         *)
(* store_to_DRAM_single_bank: the elements from .. from + len - 1 of the   *)
(* flattened tensor go to the columns col .. col + len - 1 of the row with *)
(* address at.                                                             *)
(***************************************************************************)
EXTENDS Integers, Sequences, FiniteSets

\* "(n - 1) // k + 1", the rounding up written everywhere in the scripts.
Ceil(n, k) == (n - 1) \div k + 1

Least(a, b) == IF a < b THEN a ELSE b

HeadDim(s) == (s.dim \div s.heads) \div s.tp
Repeat(s) == s.heads \div s.kv
TotalBanks(s) == s.block * s.banks
FCBanks(s) == IF s.parallel THEN TotalBanks(s) * s.devices ELSE TotalBanks(s)

\* channels_required of the methods of the block.
Required(s) == IF s.parallel THEN s.channels ELSE s.block

\* The heads of the key/value cache that share a channel, those whose scores
\* share a bank group.
HeadsPerChannel(s) == Ceil(s.kv, s.block)
ScoresPerBank(s) == Ceil(s.heads, s.block * 4)
-----------------------------------------------------------------------------
(***************************************************************************)
(* memory_mapping: the rows each tensor takes in a bank, and the first row *)
(* of each, in the order of the assignments at its end.                    *)
(***************************************************************************)
\* A plausible bug: the outputs per bank are rounded down.
FullBanksOnly(s, out, in) == (out \div FCBanks(s)) * Ceil(in, s.column)

WeightRows(s, out, in) == Ceil(out, FCBanks(s)) * Ceil(in, s.column)

\* The tensors of the weights: outputs and inputs.
Matrix(s) ==
  [wq |-> <<s.heads * HeadDim(s), s.dim>>, wk |-> <<s.kv * HeadDim(s), s.dim>>,
   wv |-> <<s.kv * HeadDim(s), s.dim>>, wo |-> <<s.dim \div s.tp, s.dim>>,
   w1 |-> <<s.ffn \div s.tp, s.dim>>, w3 |-> <<s.ffn \div s.tp, s.dim>>,
   w2 |-> <<s.dim \div s.tp, s.ffn>>]

KeyRows(s) == Ceil(s.maxseq, FCBanks(s)) * Ceil(s.kv * HeadDim(s), s.column)
ScoreRows(s) == Ceil(s.maxseq, s.column) * ScoresPerBank(s)
ValueRows(s) == Ceil(s.maxseq, s.column) * HeadsPerChannel(s)
                  * Ceil(HeadDim(s), s.banks)

\* dic_row, under the names of the *_row_index attributes.
Height(s) ==
  LET input == Ceil(s.dim \div s.banks, s.column)
      activation == Ceil(s.dim \div TotalBanks(s), s.column)
      hidden == Ceil((s.ffn \div s.tp) \div TotalBanks(s), s.column)
      Weight(w) == WeightRows(s, Matrix(s)[w][1], Matrix(s)[w][2])
  IN [x |-> input, x_copy |-> input, SANorm |-> input, wq |-> Weight("wq"),
      wk |-> Weight("wk"), wv |-> Weight("wv"), xq |-> 1, xk |-> 1,
      cache_k |-> KeyRows(s), scores |-> ScoreRows(s), cache_v |-> ValueRows(s),
      output |-> activation, wo |-> Weight("wo"), sa |-> activation,
      sa_copy |-> activation, FFNNorm |-> activation, w1 |-> Weight("w1"),
      w3 |-> Weight("w3"), x1 |-> hidden, x3 |-> hidden, x1_sigmoid |-> hidden,
      ffn_vector |-> Ceil(s.ffn \div s.tp, s.column * s.banks),
      w2 |-> WeightRows(s, s.dim, s.ffn \div s.tp), ffn |-> activation]

LlamaRegions == <<"x", "x_copy", "SANorm", "wq", "wk", "wv", "xq", "xk",
                  "cache_k", "scores", "cache_v", "output", "wo", "sa",
                  "sa_copy", "FFNNorm", "w1", "w3", "x1", "x3", "x1_sigmoid",
                  "ffn_vector", "w2", "ffn">>

\* GPT.py has neither a third weight matrix nor its product.
GPTRegions == SelectSeq(LlamaRegions, LAMBDA r : r \notin {"w3", "x3"})

\* memory_mapping: the first row of every region.
Bases(regions, height) ==
  LET base[i \in 1 .. Len(regions)] ==
        IF i = 1 THEN 0 ELSE base[i - 1] + height[regions[i - 1]]
  IN [r \in {regions[i] : i \in 1 .. Len(regions)} |->
        base[CHOOSE i \in 1 .. Len(regions) : regions[i] = r]]
-----------------------------------------------------------------------------
(***************************************************************************)
(* The address of a row (PIM.address without the column), and the bank     *)
(* with a global index (bank_index).  s.rows is the height of a bank.      *)
(***************************************************************************)
Address(s, dimm, channel, bank, row) ==
  ((dimm * s.channels + channel) * s.banks + bank) * s.rows + row

BankAddress(s, index, row) ==
  LET dimm == index \div (s.banks * s.channels)
  IN Address(s, dimm, (index - dimm * s.banks * s.channels) \div s.banks,
             index % s.banks, row)

Piece(at, col, from, len) == [at |-> at, col |-> col, from |-> from, len |-> len]

\* The modes that spread a vector over the banks: every bank, every second
\* bank (the neighbour g of each pair) or every fourth (the bank g of a group).
Stride == [vector |-> 1, neighbor_0 |-> 2, neighbor_1 |-> 2,
           group_0 |-> 4, group_1 |-> 4, group_2 |-> 4]
Offset == [vector |-> 0, neighbor_0 |-> 0, neighbor_1 |-> 1,
           group_0 |-> 0, group_1 |-> 1, group_2 |-> 2]

\* bank_dim of a vector of n elements.
BankDim(s, mode, n) == Ceil(n, TotalBanks(s) \div Stride[mode])

\* A vector in burst pieces; bankDim is computed by a store, and remembered in
\* dic_shape for the loads.
VectorPieces(s, mode, n, bankDim, row) ==
  LET used == Ceil(n, bankDim)
      Here(k, b) == Least(s.burst, Least(bankDim - b * s.burst,
                                         n - k * bankDim - b * s.burst))
      Places == {kb \in (0 .. used - 1) \X (0 .. Ceil(bankDim, s.burst) - 1) :
                   Here(kb[1], kb[2]) > 0}
      Short(k, b) == Piece(BankAddress(s, k * Stride[mode] + Offset[mode], row),
                           b * s.burst, k * bankDim + b * s.burst, Here(k, b))
  IN {Short(kb[1], kb[2]) : kb \in Places}

\* A weight matrix: bank j \div bankDim holds the row of output j, in
\* consecutive rows.
WeightPieces(s, w, row) ==
  LET out == Matrix(s)[w][1]
      in == Matrix(s)[w][2]
      bankDim == Ceil(out, FCBanks(s))
      perVector == Ceil(in, s.column)
  IN {Piece(BankAddress(s, j \div bankDim, row + perVector * (j % bankDim) + r), 0,
            j * in + r * s.column, Least(s.column, in - r * s.column)) :
        j \in 0 .. out - 1, r \in 0 .. perVector - 1}

\* The key of a token, all heads together, in the banks in turn.  first is the
\* place of the token in the data.
KeyPieces(s, token, first, row) ==
  LET width == HeadDim(s) * s.kv
      rows == width \div s.column
  IN {Piece(BankAddress(s, token % FCBanks(s),
                        row + (token \div FCBanks(s)) * rows + r), 0,
            first + r * s.column, s.column) : r \in 0 .. rows - 1}

\* The row of a head's dimension in the value cache.
ValueRow(s, head, dim, rowsPerDim, row) ==
  row + rowsPerDim * (HeadDim(s) \div s.banks) * (head % HeadsPerChannel(s))
      + (dim \div s.banks) * rowsPerDim

ValueBank(s, head, dim, row) ==
  LET channel == head \div HeadsPerChannel(s)
  IN Address(s, channel \div s.channels, channel % s.channels, dim % s.banks, row)

\* The value cache: a dimension of a head in a bank, the tokens along its rows.
ValuePieces(s, row) ==
  {Piece(ValueBank(s, h, d, ValueRow(s, h, d, s.maxseq \div s.column, row) + r), 0,
         (h * HeadDim(s) + d) * s.seqlen + r * s.column,
         Least(s.column, s.seqlen - r * s.column)) :
     h \in 0 .. s.kv - 1, d \in 0 .. HeadDim(s) - 1,
     r \in 0 .. Ceil(s.seqlen, s.column) - 1}

\* The value of the token being processed (self_attention_aim).
NewValueRows(s) == (s.seqlen - 2) \div s.column + 1
NewValuePieces(s, row) ==
  {Piece(ValueBank(s, h, d, ValueRow(s, h, d, s.maxseq \div s.column, row)
                              + NewValueRows(s) - 1),
         (s.seqlen - 1) % s.column, h * HeadDim(s) + d, 1) :
     h \in 0 .. s.kv - 1, d \in 0 .. HeadDim(s) - 1}

\* The scores of a head in a bank of a group.  The last burst of a row takes
\* everything that is left of the head's scores, whatever the row.
ScorePieces(s, group, row) ==
  LET perScore == Ceil(s.seqlen, s.column)
      Width(k) == IF k = perScore - 1 THEN s.seqlen - s.column * k ELSE s.column
      Bursts(k) == Ceil(Width(k), s.burst)
  IN UNION {{Piece(BankAddress(s, 4 * (h \div ScoresPerBank(s)) + group,
                         row + (h % ScoresPerBank(s)) * perScore + k),
             b * s.burst, h * s.seqlen + k * s.column + b * s.burst,
             IF b < Bursts(k) - 1 THEN s.burst
             ELSE s.seqlen - k * s.column - b * s.burst) :
               b \in 0 .. Bursts(k) - 1} :
             h \in 0 .. s.heads - 1, k \in 0 .. perScore - 1}

\* broadcast_store_query: the query in the banks of every channel of the block,
\* regrouped so that a row holds what one GEMV of the scores needs.
QueryPieces(s, row) ==
  LET banks == 0 .. s.dim \div s.column - 1
      At(channel, bank) == Address(s, 0, channel, bank, row)
  IN IF s.gqa
     THEN {Piece(At(c, b), i * HeadDim(s), i * s.column + b * HeadDim(s), HeadDim(s)) :
             c \in 0 .. Required(s) - 1, b \in banks, i \in 0 .. s.kv - 1}
     ELSE {Piece(At(c, b), 0, b * s.column, s.column) :
             c \in 0 .. Required(s) - 1, b \in banks}

\* load_from_DRAM_multi_channel reads the scores of a row up to its end only.
LoadScorePieces(s, group, row) ==
  LET perScore == Ceil(s.seqlen, s.column)
      Width(k) == IF k = perScore - 1 THEN s.seqlen - s.column * k ELSE s.column
  IN UNION {{Piece(BankAddress(s, 4 * (h \div ScoresPerBank(s)) + group,
                         row + (h % ScoresPerBank(s)) * perScore + k),
             b * s.burst, h * s.seqlen + k * s.column + b * s.burst,
             Least(s.burst, Width(k) - b * s.burst)) :
               b \in 0 .. Ceil(Width(k), s.burst) - 1} :
             h \in 0 .. s.heads - 1, k \in 0 .. perScore - 1}

ScoreModes == [scores_0 |-> 0, scores_1 |-> 1, scores_2 |-> 2]

\* store_to_DRAM_multi_channel: where a tensor of n elements goes, by its mode.
StorePieces(s, mode, name, n, row) ==
  CASE mode = "weights" -> WeightPieces(s, name, row)
    [] mode = "cache_k" ->
         UNION {KeyPieces(s, t, t * HeadDim(s) * s.kv, row) : t \in 0 .. s.seqlen - 1}
    [] mode = "cache_v" -> ValuePieces(s, row)
    [] mode \in DOMAIN ScoreModes -> ScorePieces(s, ScoreModes[mode], row)
    [] OTHER -> VectorPieces(s, mode, n, BankDim(s, mode, n), row)

\* What it returns, the first of the shape kept in dic_shape: the elements of
\* a vector in a bank.
Kept(s, mode, n) == IF mode \in DOMAIN Stride THEN BankDim(s, mode, n) ELSE n

\* load_from_DRAM_multi_channel: offset is what the store returned.
LoadPieces(s, mode, name, n, row, offset) ==
  CASE mode = "weights" -> WeightPieces(s, name, row)
    [] mode = "cache_k" ->
         UNION {KeyPieces(s, t, t * HeadDim(s) * s.kv, row) : t \in 0 .. s.seqlen - 1}
    [] mode = "cache_v" -> ValuePieces(s, row)
    [] mode \in DOMAIN ScoreModes -> LoadScorePieces(s, ScoreModes[mode], row)
    [] OTHER -> VectorPieces(s, mode, n, offset, row)

\* A piece that does not fit in its row makes the assignment of the slice raise.
Fits(s, pieces) == \A p \in pieces : p.col + p.len <= s.column
=============================================================================
