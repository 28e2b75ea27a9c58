------------------------------ MODULE CentGEMV ------------------------------
(***************************************************************************)
(* The matrix-vector products of cent_simulation/TransformerBlock.py: the  *)
(* instructions the functional ones give to the PIM devices, and the lines *)
(* the *_only_trace ones write.                                            *)
(***************************************************************************)
EXTENDS CentPIM

\* for i in range(n): the sequences Body(0), ..., Body(n - 1) in a row.
For(n, Body(_)) ==
  LET upto[i \in 0 .. n] == IF i = 0 THEN <<>> ELSE upto[i - 1] \o Body(i - 1)
  IN IF n <= 0 THEN <<>> ELSE upto[n]

\* The bursts of the part of a vector of dim elements in row r.
OpSize(s, dim, r) ==
  Ceil(Least(s.column, dim - r * s.column), s.burst)

PerBank(s, cols) == Ceil(cols, FCBanks(s))
Utilized(s, cols) == Ceil(cols, PerBank(s, cols))

\* The vectors of a bank multiplied from one contents of the latches: latches
\* bounds them.
Groups(n, latches) == Ceil(n, latches)
GroupSize(n, latches) == Ceil(n, Groups(n, latches))
\* A plausible bug: every group is taken to be full.
FullGroup(n, latches, g) == GroupSize(n, latches)

InGroup(n, latches, g) ==
  Least(GroupSize(n, latches), n - g * GroupSize(n, latches))
-----------------------------------------------------------------------------
(***************************************************************************)
(* Vector_Matrix_Mul_weight_pim and, with the activation function after    *)
(* the last row, Vector_Matrix_Mul_weight_af_pim: the outputs are spread   *)
(* over the banks, the vector over the rows.                               *)
(***************************************************************************)
WeightInstructions(s, name, row, dim, cols, af) ==
  LET n == PerBank(s, cols)
      channels == Ceil(Utilized(s, cols), s.banks)
      rows == Ceil(dim, s.column)
      latches == IF af THEN s.reuse \div 2 ELSE s.reuse
      Left(c) == Least(s.banks, Utilized(s, cols) - c * s.banks)
      Buffer(c, r) ==
        <<[op |-> "WR_GB", ch |-> c, blocks |-> s.block, size |-> OpSize(s, dim, r),
           vec |-> name, from |-> r * s.column,
           len |-> Least(s.column, dim - r * s.column), pad |-> FALSE]>>
      \* An instruction about output v of every bank of channel c.
      Of(op, c, v, l) ==
        <<[op |-> op, ch |-> c, blocks |-> s.block, latch |-> l, left |-> Left(c),
           at |-> c * s.banks * n + v, step |-> n]>>
      MAC(c, r, v, l) ==
        <<[op |-> "MAC_BK_GB", ch |-> c, blocks |-> s.block, latch |-> l, col |-> 0,
           row |-> row + v * rows + r, size |-> OpSize(s, dim, r)]>>
      Activation(c, r, v, l) ==
        IF af /\ r = rows - 1 THEN Of("AF", c, v, l) \o Of("RD_AF", c, v, l) ELSE <<>>
      NoReuse(c, r) ==
        LET One(v) == Of("WR_BIAS", c, v, 0) \o MAC(c, r, v, 0)
                        \o Activation(c, r, v, 0) \o Of("RD_MAC", c, v, 0)
        IN For(n, One)
      Reuse(c, r) ==
        LET Group(g) ==
              LET First == g * GroupSize(n, latches)
                  size == InGroup(n, latches, g)
                  Bias(l) == Of("WR_BIAS", c, First + l, l)
                  Product(l) == MAC(c, r, First + l, l)
                  Sigmoids(l) == Activation(c, r, First + l, l)
                  Result(l) == Of("RD_MAC", c, First + l, l)
              IN For(size, Bias) \o For(size, Product)
                   \o For(size, Sigmoids) \o For(size, Result)
        IN For(Groups(n, latches), Group)
      Channel(c) ==
        LET Row(r) == Buffer(c, r) \o (IF s.order = "reuse-GB" THEN Reuse(c, r)
                                        ELSE NoReuse(c, r))
        IN For(rows, Row)
  IN For(channels, Channel)

\* Vector_Matrix_Mul_score_pim: the keys of the tokens are spread over the
\* banks; a row of the query serves one repetition of the heads in it.
ScoreInstructions(s, query, row) ==
  LET rows == Ceil(HeadDim(s) * s.kv, s.column)
      perRow == s.column \div HeadDim(s)
      rounds == Ceil(s.seqlen, FCBanks(s))
      Left(t) == Least(FCBanks(s), s.seqlen - t * FCBanks(s))
      HeadAt(r, k, h) == r * perRow + h * Repeat(s) + k
      Of(op, c, r, t, k, h) ==
        <<[op |-> op, ch |-> c, blocks |-> s.block, latch |-> 0,
           left |-> Least(s.banks, Left(t) - c * s.banks),
           at |-> HeadAt(r, k, h) * s.seqlen + t * FCBanks(s) + c * s.banks, step |-> 1]>>
      Query(c, r, k) ==
        <<[op |-> "WR_GB_Row", ch |-> c, blocks |-> s.block,
           size |-> s.column \div s.burst, bank |-> r * Repeat(s) + k, row |-> query]>>
      MAC(c, r, t, h) ==
        <<[op |-> "MAC_BK_GB", ch |-> c, blocks |-> s.block, latch |-> 0,
           col |-> h * HeadDim(s), row |-> row + t * rows + r,
           size |-> HeadDim(s) \div s.burst]>>
      Row(r) ==
        LET Round(t) ==
              LET Channel(c) ==
                    LET Repetition(k) ==
                          LET OneHead(h) == Of("WR_BIAS", c, r, t, k, h) \o MAC(c, r, t, h)
                                              \o Of("RD_MAC", c, r, t, k, h)
                          IN Query(c, r, k) \o For(perRow, OneHead)
                    IN For(Repeat(s), Repetition)
              IN For(Ceil(Left(t), s.banks), Channel)
        IN For(rounds, Round)
  IN For(rows, Row)

\* The heads of the value cache in a channel.
HeadsIn(s, c) ==
  Least(HeadsPerChannel(s), s.kv - HeadsPerChannel(s) * c)

\* Vector_Matrix_Mul_output_pim: a head's dimensions are spread over the banks
\* of its channel, the tokens along the rows.  The rows of a dimension are
\* counted up here, down where the cache is stored.
OutputInstructions(s, name, row) ==
  LET rows == Ceil(s.seqlen, s.column)
      perDim == Ceil(s.maxseq, s.column)
      dims == HeadDim(s) \div s.banks
      Length(r) == Least(s.column, s.seqlen - r * s.column)
      Buffer(c, head, r) ==
        <<[op |-> "WR_GB", ch |-> c, blocks |-> s.block, size |-> Ceil(Length(r), s.burst),
           vec |-> name, from |-> head * s.seqlen + r * s.column, len |-> Length(r),
           pad |-> r = rows - 1]>>
      Of(op, c, head, d) ==
        <<[op |-> op, ch |-> c, blocks |-> s.block, latch |-> 0, left |-> s.banks,
           at |-> head * HeadDim(s) + d * s.banks, step |-> 1]>>
      MAC(c, h, r, d) ==
        <<[op |-> "MAC_BK_GB", ch |-> c, blocks |-> s.block, latch |-> 0, col |-> 0,
           row |-> row + perDim * dims * h + d * perDim + r, size |-> Ceil(Length(r), s.burst)]>>
      Channel(c) ==
        LET HeadOf(h) ==
              LET Repetition(k) ==
                    LET head == (c * HeadsPerChannel(s) + h) * Repeat(s) + k
                        Row(r) ==
                          LET Dim(d) == Of("WR_BIAS", c, head, d) \o MAC(c, h, r, d)
                                          \o Of("RD_MAC", c, head, d)
                          IN Buffer(c, head, r) \o For(dims, Dim)
                    IN For(rows, Row)
              IN For(Repeat(s), Repetition)
        IN For(HeadsIn(s, c), HeadOf)
  IN For(s.block, Channel)
-----------------------------------------------------------------------------
(***************************************************************************)
(* The *_only_trace products: the lines of one channel, for all.  The      *)
(* literal 32 of their masks is the number of channels of a device.        *)
(***************************************************************************)
TraceMask(s, required) ==
  IF required > s.channels THEN 0 .. s.channels - 1 ELSE AllBlocks(s, required)

\* What use_comp_air_sram_pim and use_comp_air_noc leave out is recorded.
WeightLines(s, role, row, dim, cols, af) ==
  LET n == PerBank(s, cols)
      on == TraceMask(s, Ceil(Utilized(s, cols), s.banks))
      rows == Ceil(dim, s.column)
      latches == IF af THEN s.reuse \div 2 ELSE s.reuse
      MAC(r, v) ==
        <<IF s.sram THEN SramEvent(role, OpSize(s, dim, r), dim, cols, af)
          ELSE Line("MAC_ABK", OpSize(s, dim, r), on, -1, row + v * rows + r)>>
      Bias(l) == <<Line("WR_BIAS", 0, on, -1, -1)>>
      Result(l) == <<IF s.noc THEN NocEvent("RD_MAC") ELSE Line("RD_MAC", 0, on, -1, -1)>>
      Last(r) == af /\ r = rows - 1
      NoReuse(r) ==
        LET One(v) == Bias(v) \o MAC(r, v)
                        \o (IF Last(r) THEN <<Line("AF", 0, on, -1, -1)>> ELSE <<>>)
                        \o Result(v)
        IN For(n, One)
      Reuse(r) ==
        LET Group(g) ==
              LET size == InGroup(n, latches, g)
                  Product(l) == MAC(r, g * GroupSize(n, latches) + l)
                  Sigmoids(l) == <<Line("AF", 0, on, -1, -1), Line("RD_AF", 0, on, -1, -1)>>
              IN For(size, Bias) \o For(size, Product)
                   \o For(IF Last(r) THEN size ELSE 0, Sigmoids) \o For(size, Result)
        IN For(Groups(n, latches), Group)
      Row(r) == <<Line("WR_GB", OpSize(s, dim, r), on, -1, -1)>>
                  \o (IF s.order = "reuse-GB" THEN Reuse(r) ELSE NoReuse(r))
  IN For(rows, Row)

ScoreLines(s, row) ==
  LET rows == Ceil(HeadDim(s) * s.kv, s.column)
      rounds == Ceil(s.seqlen, FCBanks(s))
      required == FCBanks(s) \div s.banks
      Left(t) == IF t = rounds - 1 THEN Ceil(s.seqlen - FCBanks(s) * t, s.banks) ELSE required
      On(t) == IF required > s.channels THEN 0 .. s.channels - 1 ELSE AllBlocks(s, Left(t))
      Row(r) ==
        LET Round(t) ==
              LET One(h) == <<Line("WR_BIAS", 0, On(t), -1, -1),
                              Line("MAC_ABK", HeadDim(s) \div s.burst, On(t), -1,
                                   row + t * rows + r),
                              Line("RD_MAC", 0, On(t), -1, -1)>>
                  Repetition(k) == <<Line("WR_GB", s.column \div s.burst, On(t), -1, -1)>>
                                     \o For(s.column \div HeadDim(s), One)
              IN For(Repeat(s), Repetition)
        IN For(rounds, Round)
  IN For(rows, Row)

OutputLines(s, row) ==
  LET rows == Ceil(s.seqlen, s.column)
      perDim == Ceil(s.maxseq, s.column)
      dims == HeadDim(s) \div s.banks
      on == AllBlocks(s, s.block)
      HeadOf(h) ==
        LET Repetition(k) ==
              LET Row(r) ==
                    LET size == OpSize(s, s.seqlen, r)
                        Dim(d) == <<Line("WR_BIAS", 0, on, -1, -1),
                                    Line("MAC_ABK", size, on, -1,
                                         row + perDim * dims * h + d * perDim + r),
                                    Line("RD_MAC", 0, on, -1, -1)>>
                    IN <<Line("WR_GB", size, on, -1, -1)>> \o For(dims, Dim)
              IN For(rows, Row)
        IN For(Repeat(s), Repetition)
  IN For(HeadsPerChannel(s), HeadOf)
=============================================================================
