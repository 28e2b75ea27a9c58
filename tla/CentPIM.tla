------------------------------- MODULE CentPIM -------------------------------
(***************************************************************************)
(* The processing-in-memory devices of cent_simulation/aim_sim.py and the  *)
(* host that drives them: rows of DRAM, a global buffer per channel,       *)
(* accumulation latches and an activation register per bank.  Each         *)
(* instruction is an action; the program is the sequence todo, whose head  *)
(* is executed.                                                            *)
(*                                                                         *)
(* A value is an integer modulo P in place of a floating-point number; the *)
(* functions of the host that are not polynomials are fixed functions on   *)
(* those integers.  Channels are counted over all devices: channel c of    *)
(* the model is the channel c % channels of the device c \div channels.    *)
(***************************************************************************)
EXTENDS CentLayout, TLC

CONSTANT P            \* the modulus of the values

VARIABLES
  shape,      \* the arguments and dimensions (see CentLayout)
  todo,       \* what is left of the program
  arrays,     \* the address of a row -> its columns
  gb,         \* channel -> the columns of its global buffer
  latch,      \* channel -> bank -> accumulation latches
  register,   \* channel -> bank -> activation_function_register
  vec,        \* the tensors of the host that are vectors, by name
  dic_shape,  \* tensor -> what its store returned
  accumulator, accumulator_af,   \* of the GEMV in progress
  total,      \* x_pow_sum, sa_pow_sum
  differ,     \* the comparisons that failed
  raised,     \* an assignment of a slice of another length raises
  trace       \* the lines written to trace_file and the events recorded

device == <<arrays, gb, latch, register>>
host == <<vec, dic_shape, accumulator, accumulator_af, total, differ>>
vars == <<shape, todo, device, host, raised, trace>>

Channels(s) == s.channels * (IF s.parallel THEN s.devices ELSE 1)
Banks(s) == 0 .. s.banks - 1
Zeros(n) == [i \in 0 .. n - 1 |-> 0]

\* Bank, Channel, DIMM: everything starts at zero.
DeviceInit ==
  /\ arrays = [a \in 0 .. Channels(shape) * shape.banks * shape.rows - 1 |->
                 Zeros(shape.column)]
  /\ gb = [c \in 0 .. Channels(shape) - 1 |-> Zeros(shape.column)]
  /\ latch = [c \in 0 .. Channels(shape) - 1 |->
                [b \in Banks(shape) |-> Zeros(shape.reuse)]]
  /\ register = [c \in 0 .. Channels(shape) - 1 |-> Zeros(shape.banks)]

HostInit ==
  /\ vec = <<>>
  /\ dic_shape = <<>>
  /\ accumulator = <<>>
  /\ accumulator_af = <<>>
  /\ total = 0
  /\ differ = {}
  /\ raised = FALSE
  /\ trace = <<>>
-----------------------------------------------------------------------------
\* The sum of f over 0 .. n - 1.
Total(n, f) ==
  LET sum[k \in 0 .. n] == IF k = 0 THEN 0 ELSE (sum[k - 1] + f[k - 1]) % P
  IN sum[n]

\* A line of the trace: the operation, its size, the channels of its mask, and
\* the bank and row it names (-1: none).
Line(op, size, on, bank, row) ==
  [op |-> op, size |-> size, on |-> on, bank |-> bank, row |-> row]

\* record_noc and record_sram: an operation that is left out of trace_file and
\* goes to the manifest, for the network or for the SRAM next to the banks.
NocEvent(op) == Line(op, 0, {}, -1, -1) @@ [unit |-> "noc"]

Timing(role) ==
  CASE role \in {"Wq", "Wk", "Wv", "Wo"} -> "breakdown_sa_weight"
    [] role \in {"W1", "W2", "W3"} -> "breakdown_ffn_weight"
    [] OTHER -> "breakdown_embedding_weight"

SramEvent(role, size, dim, cols, af) ==
  Line("MAC_ABK", size, {}, -1, -1)
    @@ [unit |-> "sram", role |-> role, timing |-> Timing(role), af |-> af,
        vector_dim |-> dim, matrix_col |-> cols]

Recorded(line) == "unit" \in DOMAIN line

\* The mask of an instruction: the channels of all the blocks of a device.
AllBlocks(s, utilized) == 0 .. (s.channels \div utilized) * utilized - 1

\* op_trace is channel == 0: a channel stands for all.
Write(i, line) == trace' = IF i.ch = 0 THEN Append(trace, line) ELSE trace

Do(op) == ~raised /\ todo # <<>> /\ Head(todo).op = op
Rest == todo' = Tail(todo) /\ UNCHANGED shape

RowOf(i, bank, row) == BankAddress(shape, i.ch * shape.banks + bank, row)
Cell(i, bank, col) == arrays[RowOf(i, bank, i.row)][col]

\* The rows with the pieces of data stored.
Stored(pieces, data) ==
  LET hit == {p.at : p \in pieces}
      Into(a) == LET here == {p \in pieces : p.at = a}
                 IN [c \in DOMAIN arrays[a] |->
                       IF \E p \in here : p.col <= c /\ c < p.col + p.len
                       THEN LET p == CHOOSE p \in here : p.col <= c /\ c < p.col + p.len
                            IN data[p.from + c - p.col]
                       ELSE arrays[a][c]]
  IN [a \in DOMAIN arrays |-> IF a \in hit THEN Into(a) ELSE arrays[a]]

\* The tensor of n elements read back from its pieces, in the rows of held.
Gathered(held, pieces, n) ==
  [i \in 0 .. n - 1 |->
     LET p == CHOOSE p \in pieces : p.from <= i /\ i < p.from + p.len
     IN held[p.at][p.col + i - p.from]]
-----------------------------------------------------------------------------
(***************************************************************************)
(* The instructions of the PIM devices.                                    *)
(***************************************************************************)

\* The accumulators a bias is written from and a result is read into: bank b
\* of the channel holds element at + b * step, the banks from left on nothing.
Biased(i) ==
  [b \in Banks(shape) |-> IF b < i.left THEN accumulator[i.at + b * i.step] ELSE 0]

Read(acc, i, value) ==
  [k \in DOMAIN acc |->
     IF \E b \in 0 .. i.left - 1 : k = i.at + b * i.step
     THEN value[(k - i.at) \div i.step] ELSE acc[k]]

WR_BIAS ==
  /\ Do("WR_BIAS")
  /\ LET i == Head(todo)
     IN /\ latch' = [latch EXCEPT ![i.ch] =
                       [b \in Banks(shape) |-> [latch[i.ch][b] EXCEPT ![i.latch] = Biased(i)[b]]]]
        /\ Write(i, Line("WR_BIAS", 0, AllBlocks(shape, i.blocks), -1, -1))
  /\ UNCHANGED <<arrays, gb, register, host, raised>>
  /\ Rest

\* The products of a row of every bank with the global buffer, from column
\* col on, are added to the latch.
MAC_BK_GB ==
  /\ Do("MAC_BK_GB")
  /\ LET i == Head(todo)
         MAC(b) == Total(i.size * shape.burst,
                         [k \in 0 .. i.size * shape.burst - 1 |->
                            Cell(i, b, i.col + k) * gb[i.ch][i.col + k]])
     IN /\ latch' = [latch EXCEPT ![i.ch] =
                       [b \in Banks(shape) |->
                          [latch[i.ch][b] EXCEPT ![i.latch] = (@ + MAC(b)) % P]]]
        /\ Write(i, Line("MAC_ABK", i.size, AllBlocks(shape, i.blocks), -1, i.row))
  /\ UNCHANGED <<arrays, gb, register, host, raised>>
  /\ Rest

\* Every second bank multiplies its row by its neighbour's.
MAC_BK_BK ==
  /\ Do("MAC_BK_BK")
  /\ LET i == Head(todo)
         MAC(b) == Total(i.size * shape.burst,
                         [k \in 0 .. i.size * shape.burst - 1 |->
                            Cell(i, b, k) * Cell(i, b + 1, k)])
     IN /\ latch' = [latch EXCEPT ![i.ch] =
                       [b \in Banks(shape) |->
                          IF b % 2 = 0 THEN [latch[i.ch][b] EXCEPT ![0] = (@ + MAC(b)) % P]
                          ELSE latch[i.ch][b]]]
        /\ Write(i, Line("MAC_ABK", i.size, AllBlocks(shape, i.blocks), -1, i.row))
  /\ UNCHANGED <<arrays, gb, register, host, raised>>
  /\ Rest

RD_MAC ==
  /\ Do("RD_MAC")
  /\ LET i == Head(todo)
         read == [b \in Banks(shape) |-> latch[i.ch][b][i.latch]]
     IN /\ accumulator' = Read(accumulator, i, read)
        /\ total' = IF i.left = 0 THEN (total + Total(shape.banks, read)) % P ELSE total
        /\ Write(i, Line("RD_MAC", 0, AllBlocks(shape, i.blocks), -1, -1))
  /\ UNCHANGED <<device, vec, dic_shape, accumulator_af, differ, raised>>
  /\ Rest

\* In each group of four banks, bank 0 times bank 1 goes to bank 2.
EWMUL ==
  /\ Do("EWMUL")
  /\ LET i == Head(todo)
         target == {RowOf(i, b, i.row) : b \in {b \in Banks(shape) : b % 4 = 2}}
     IN /\ arrays' = [a \in DOMAIN arrays |->
                        IF a \notin target THEN arrays[a]
                        ELSE [c \in DOMAIN arrays[a] |->
                                IF c >= i.size * shape.burst THEN arrays[a][c]
                                ELSE (arrays[a - 2 * shape.rows][c]
                                        * arrays[a - shape.rows][c]) % P]]
        /\ Write(i, Line("EWMUL", i.size, AllBlocks(shape, i.blocks), -1, i.row))
  /\ UNCHANGED <<gb, latch, register, host, raised>>
  /\ Rest

\* A part of a vector of the host goes to the global buffer.  pad zeros follow
\* it where the caller appends them; without them a part that is no multiple
\* of a burst does not fit the slice.
WR_GB ==
  /\ Do("WR_GB")
  /\ LET i == Head(todo)
         width == i.size * shape.burst
     IN /\ gb' = [gb EXCEPT ![i.ch] =
                    [c \in DOMAIN gb[i.ch] |->
                       IF c >= width THEN gb[i.ch][c]
                       ELSE IF c < i.len THEN vec[i.vec][i.from + c] ELSE 0]]
        /\ raised' = (i.len # width /\ ~i.pad)
        /\ Write(i, Line("WR_GB", i.size, AllBlocks(shape, i.blocks), -1, -1))
  /\ UNCHANGED <<arrays, latch, register, host>>
  /\ Rest

\* The same of a row that load_from_DRAM_single_bank has just read.
WR_GB_Row ==
  /\ Do("WR_GB_Row")
  /\ LET i == Head(todo)
     IN /\ gb' = [gb EXCEPT ![i.ch] =
                    [c \in DOMAIN gb[i.ch] |->
                       IF c < i.size * shape.burst THEN Cell(i, i.bank, c) ELSE gb[i.ch][c]]]
        /\ Write(i, Line("WR_GB", i.size, AllBlocks(shape, i.blocks), -1, -1))
  /\ UNCHANGED <<arrays, latch, register, host, raised>>
  /\ Rest

COPY_BK_GB ==
  /\ Do("COPY_BK_GB")
  /\ LET i == Head(todo)
     IN /\ gb' = [gb EXCEPT ![i.ch] =
                    [c \in DOMAIN gb[i.ch] |->
                       IF c < i.size * shape.burst THEN Cell(i, i.bank, c) ELSE gb[i.ch][c]]]
        /\ Write(i, Line("COPY_BKGB", i.size, AllBlocks(shape, i.blocks), i.bank, i.row))
  /\ UNCHANGED <<arrays, latch, register, host, raised>>
  /\ Rest

COPY_GB_BK ==
  /\ Do("COPY_GB_BK")
  /\ LET i == Head(todo)
         at == RowOf(i, i.bank, i.row)
     IN /\ arrays' = [arrays EXCEPT ![at] =
                        [c \in DOMAIN arrays[at] |->
                           IF c < i.size * shape.burst THEN gb[i.ch][c] ELSE arrays[at][c]]]
        /\ Write(i, Line("COPY_GBBK", i.size, AllBlocks(shape, i.blocks), i.bank, i.row))
  /\ UNCHANGED <<gb, latch, register, host, raised>>
  /\ Rest

\* The interpolated sigmoid of aim_sim.py, and torch.sigmoid of the host.
Sigmoid(v) == (v * v * 5 + 3 * v + 29) % P

AF ==
  /\ Do("AF")
  /\ LET i == Head(todo)
     IN /\ register' = [register EXCEPT ![i.ch] =
                          [b \in Banks(shape) |-> Sigmoid(latch[i.ch][b][i.latch])]]
        /\ Write(i, Line("AF", 0, AllBlocks(shape, i.blocks), -1, -1))
  /\ UNCHANGED <<arrays, gb, latch, host, raised>>
  /\ Rest

RD_AF ==
  /\ Do("RD_AF")
  /\ LET i == Head(todo)
     IN /\ accumulator_af' = Read(accumulator_af, i, register[i.ch])
        /\ Write(i, Line("RD_AF", 0, AllBlocks(shape, i.blocks), -1, -1))
  /\ UNCHANGED <<device, vec, dic_shape, accumulator, total, differ, raised>>
  /\ Rest

\* What only the trace knows: WR_ABK, EWMUL of the rotary embedding, EWADD.
OnlyTrace ==
  /\ Do("only_trace")
  /\ trace' = Append(trace, Head(todo).line)
  /\ UNCHANGED <<device, host, raised>>
  /\ Rest
=============================================================================
