------------------------------ MODULE CentBlock ------------------------------
(***************************************************************************)
(* A transformer block on the PIM devices, as function_sim.py runs it with *)
(* --pim-memory-mapping: the tensors are stored and read back              *)
(* (memory_mapping_verification), then self_attention_aim and FFN_aim      *)
(* compute the block, comparing each intermediate result with the one of   *)
(* self_attention and FFN.                                                 *)
(***************************************************************************)
EXTENDS CentGEMV

(***************************************************************************)
(* The data: a fixed value for each element of each tensor of dic_model.   *)
(***************************************************************************)
Seed == [x |-> 1, SANorm |-> 2, FFNNorm |-> 3, wq |-> 4, wk |-> 5, wv |-> 6, wo |-> 7,
         w1 |-> 8, w2 |-> 9, w3 |-> 10, cache_k |-> 11, cache_v |-> 12]

Datum(name, i) == ((i + 3) * (i + 11) * (13 + Seed[name]) + i \div 5) % P

Size(s, name) ==
  CASE name \in DOMAIN Matrix(s) -> Matrix(s)[name][1] * Matrix(s)[name][2]
    [] name \in {"cache_k", "cache_v"} -> s.seqlen * s.kv * HeadDim(s)
    [] OTHER -> s.dim

\* Token t of the cache is stored token by token for the keys, dimension by
\* dimension for the values (the two transpositions of cache_v).
Stowed(s, name) ==
  [i \in 0 .. Size(s, name) - 1 |->
     IF name # "cache_v" THEN Datum(name, i)
     ELSE Datum(name, (i % s.seqlen) * s.kv * HeadDim(s) + i \div s.seqlen)]

Tensor(name) == IF name \in DOMAIN vec THEN vec[name] ELSE Stowed(shape, name)
Elements(name) == Cardinality(DOMAIN Tensor(name))
-----------------------------------------------------------------------------
(***************************************************************************)
(* The functions of the host.  The square root, the exponential, the       *)
(* reciprocal and the rotation are fixed functions on the values.          *)
(***************************************************************************)
Norm(sum) == (sum * 7 + 19) % P
Exp(v) == (v * v + 37 * v + 5) % P
Reciprocal(v) == (v * 11 + 3) % P
Scale == 83

Pointwise(a, b, Op(_, _)) == [i \in DOMAIN a |-> Op(a[i], b[i]) % P]
Plus(a, b) == a + b
Times(a, b) == a * b

Linear(s, w, v) ==
  LET in == Matrix(s)[w][2]
  IN [j \in 0 .. Matrix(s)[w][1] - 1 |->
        Total(in, [i \in 0 .. in - 1 |-> Datum(w, j * in + i) * v[i]])]

PowSum(v) == Total(Cardinality(DOMAIN v), [i \in DOMAIN v |-> v[i] * v[i]])

RMSNorm(v, weight) ==
  LET norm == Norm(PowSum(v))
  IN [i \in DOMAIN v |-> (((v[i] * norm) % P) * Datum(weight, i)) % P]

\* apply_rotary_emb: the pairs of a head's dimensions are rotated by an angle
\* of the dimension, the same for every head.
Rotated(s, v) ==
  [i \in DOMAIN v |->
     LET angle == (i % HeadDim(s)) \div 2 + 2
         pair == IF i % 2 = 0 THEN i + 1 ELSE i - 1
     IN (v[i] * angle + (IF i % 2 = 0 THEN P - angle - 1 ELSE angle + 1) * v[pair]) % P]

\* The caches with the new token in the last position; repeat_kv: the heads of
\* the query share the heads of the caches.
KeyOf(s, k, t, head, d) ==
  LET at == (head \div Repeat(s)) * HeadDim(s) + d
  IN IF t = s.seqlen - 1 THEN k[at] ELSE Datum("cache_k", t * s.kv * HeadDim(s) + at)
ValueOf(s, v, t, head, d) ==
  LET at == (head \div Repeat(s)) * HeadDim(s) + d
  IN IF t = s.seqlen - 1 THEN v[at] ELSE Datum("cache_v", t * s.kv * HeadDim(s) + at)

Scores(s, q, k) ==
  [i \in 0 .. s.heads * s.seqlen - 1 |->
     LET head == i \div s.seqlen
     IN Total(HeadDim(s), [d \in 0 .. HeadDim(s) - 1 |->
                             q[head * HeadDim(s) + d] * KeyOf(s, k, i % s.seqlen, head, d)])]

\* The reciprocal of the sum of a head's exponentials, for each of its scores.
SumReciprocal(s, exps) ==
  [i \in DOMAIN exps |->
     Reciprocal(Total(s.seqlen, [t \in 0 .. s.seqlen - 1 |->
                                   exps[(i \div s.seqlen) * s.seqlen + t]]))]

Outputs(s, scores, v) ==
  [i \in 0 .. s.heads * HeadDim(s) - 1 |->
     LET head == i \div HeadDim(s)
     IN Total(s.seqlen, [t \in 0 .. s.seqlen - 1 |->
                           scores[head * s.seqlen + t]
                             * ValueOf(s, v, t, head, i % HeadDim(s))])]

\* What a step of the host computes, of the vectors args names.
Computed(i) ==
  LET a == Tensor(i.args[1])
      b == Tensor(i.args[2])
  IN CASE i.f = "norm" -> [k \in 0 .. shape.dim - 1 |-> Norm(total)]
       [] i.f = "rms" -> RMSNorm(a, i.args[2])
       [] i.f = "linear" -> Linear(shape, i.args[2], a)
       [] i.f = "rotary" -> Rotated(shape, a)
       [] i.f = "scores" -> Scores(shape, a, b)
       [] i.f = "head_dim_reciprocal" -> [k \in DOMAIN a |-> Scale]
       [] i.f = "exp" -> [k \in DOMAIN a |-> Exp(a[k])]
       [] i.f = "sum_reciprocal" -> SumReciprocal(shape, a)
       [] i.f = "outputs" -> Outputs(shape, a, b)
       [] i.f = "sigmoid" -> [k \in DOMAIN a |-> Sigmoid(a[k])]
       [] i.f = "add" -> Pointwise(a, b, Plus)
       [] i.f = "mul" -> Pointwise(a, b, Times)
       [] i.f = "pow_sum" -> [k \in {0} |-> PowSum(a)]
-----------------------------------------------------------------------------
(***************************************************************************)
(* The calls of the program.                                               *)
(***************************************************************************)
Host(to, f, args) == <<[op |-> "host", to |-> to, f |-> f, args |-> args]>>
Compare(name, with) == <<[op |-> "compare", vec |-> name, with |-> with]>>
Store(mode, name, region, keep) ==
  <<[op |-> "store", mode |-> mode, vec |-> name, region |-> region, keep |-> keep]>>
Load(to, mode, like, region, by) ==
  <<[op |-> "load", to |-> to, mode |-> mode, like |-> like, region |-> region, by |-> by]>>
Checked(mode, name, region, keep) ==
  Store(mode, name, region, keep)
    \o Load("loaded", mode, name, region, keep) \o Compare("loaded", name)
Expanded(what, fields) == <<fields @@ [op |-> "expand", what |-> what]>>
Pow(region, by) == Expanded("pow", [region |-> region, by |-> by])
Multiply(region, by) == Expanded("multiply", [region |-> region, by |-> by])
Copy(from, region, by) == Expanded("copy", [from |-> from, region |-> region, by |-> by])
GEMV(to, vector, w, af) == Expanded("gemv", [to |-> to, vec |-> vector, w |-> w, af |-> af])
EWADD(s, to, a, b) ==
  <<[op |-> "only_trace", line |-> Line("EWADD", s.dim \div s.burst, {}, -1, -1)]>>
    \o Host(to, "add", <<a, b>>)

\* self_attention and FFN, whose results dic_model holds.
Reference ==
  Host("ref_norm", "rms", <<"x", "SANorm">>)
  \o Host("ref_xq", "linear", <<"ref_norm", "wq">>)
  \o Host("ref_xk", "linear", <<"ref_norm", "wk">>)
  \o Host("ref_xv", "linear", <<"ref_norm", "wv">>)
  \o Host("rot_xq", "rotary", <<"ref_xq", "x">>)
  \o Host("rot_xk", "rotary", <<"ref_xk", "x">>)
  \o Host("ref_raw", "scores", <<"rot_xq", "rot_xk">>)
  \o Host("scale", "head_dim_reciprocal", <<"ref_raw", "x">>)
  \o Host("ref_scaled", "mul", <<"ref_raw", "scale">>)
  \o Host("ref_exp", "exp", <<"ref_scaled", "x">>)
  \o Host("ref_sum", "sum_reciprocal", <<"ref_exp", "x">>)
  \o Host("ref_scores", "mul", <<"ref_exp", "ref_sum">>)
  \o Host("ref_output", "outputs", <<"ref_scores", "ref_xv">>)
  \o Host("ref_sa", "linear", <<"ref_output", "wo">>)
  \o Host("ref_h", "add", <<"x", "ref_sa">>)
  \o Host("ref_ffn_norm", "rms", <<"ref_h", "FFNNorm">>)
  \o Host("ref_x1", "linear", <<"ref_ffn_norm", "w1">>)
  \o Host("ref_x3", "linear", <<"ref_ffn_norm", "w3">>)
  \o Host("ref_sigmoid", "sigmoid", <<"ref_x1", "x">>)
  \o Host("ref_silu", "mul", <<"ref_x1", "ref_sigmoid">>)
  \o Host("ref_gate", "mul", <<"ref_silu", "ref_x3">>)
  \o Host("ref_ffn", "linear", <<"ref_gate", "w2">>)
  \o Host("ref_out", "add", <<"ref_h", "ref_ffn">>)

\* memory_mapping_verification.
Verification ==
  Checked("neighbor_0", "x", "x", "x_neighbor_bank")
  \o Store("neighbor_1", "x", "x", "")
  \o Load("loaded", "neighbor_1", "x", "x", "x_neighbor_bank") \o Compare("loaded", "x")
  \o Checked("group_0", "x", "x_copy", "x_bank_group")
  \o Checked("group_0", "SANorm", "SANorm", "SANorm_bank_group")
  \o Checked("weights", "wq", "wq", "wq")
  \o Checked("weights", "wk", "wk", "wk")
  \o Checked("weights", "wv", "wv", "wv")
  \o Checked("cache_k", "cache_k", "cache_k", "cache_k")
  \o Checked("cache_v", "cache_v", "cache_v", "cache_v")
  \o Checked("weights", "wo", "wo", "wo")
  \o Checked("group_1", "x", "sa", "x_bank_group")
  \o Checked("group_0", "FFNNorm", "FFNNorm", "FFNNorm")
  \o Checked("weights", "w1", "w1", "w1")
  \o Checked("weights", "w3", "w3", "w3")
  \o Checked("weights", "w2", "w2", "w2")

\* WR_ABK for the value of the new token: a line for each channel's head.
NewValueLines(s) ==
  LET per == s.maxseq \div s.column
      dims == HeadDim(s) \div s.banks
      At(h, d, c) ==
        IF c * HeadsPerChannel(s) + h >= s.kv THEN <<>>
        ELSE <<Line("WR_ABK", 0, {c}, -1,
                    s.base.cache_v + per * dims * h + d * per + NewValueRows(s) - 1)>>
      Of(h) == LET Dim(d) == LET Channel(c) == At(h, d, c) IN For(Required(s), Channel)
               IN For(dims, Dim)
  IN For(HeadsPerChannel(s), Of)

\* The rotary embedding on the devices, of which only the trace knows.
RotaryLines(s) ==
  LET on == AllBlocks(s, Required(s))
  IN <<Line("EWMUL", s.dim \div s.burst, on, -1, s.base.xq),
       Line("EWMUL", (s.dim \div Repeat(s)) \div s.burst, on, -1, s.base.xk)>>

OnlyTraced(lines) == [k \in DOMAIN lines |-> [op |-> "only_trace", line |-> lines[k]]]

\* self_attention_aim.
SelfAttentionAim(s) ==
  Pow("x", "x_neighbor_bank")
  \o Host("pow_sum", "pow_sum", <<"x", "x">>) \o Compare("total", "pow_sum")
  \o Host("norm", "norm", <<"x", "x">>)
  \o Store("group_1", "norm", "x_copy", "")
  \o Multiply("x_copy", "x_bank_group")
  \o Copy("x_copy", "SANorm", "x_bank_group")
  \o Multiply("SANorm", "x_bank_group")
  \o Load("RMSNorm_x", "group_2", "x", "SANorm", "x_bank_group")
  \o Compare("RMSNorm_x", "ref_norm")
  \o GEMV("xq", "RMSNorm_x", "wq", FALSE)
  \o GEMV("xk", "RMSNorm_x", "wk", FALSE)
  \o GEMV("xv", "RMSNorm_x", "wv", FALSE)
  \o Compare("xq", "ref_xq") \o Compare("xk", "ref_xk") \o Compare("xv", "ref_xv")
  \o Host("xq", "rotary", <<"xq", "x">>) \o Host("xk", "rotary", <<"xk", "x">>)
  \o OnlyTraced(RotaryLines(s))
  \o Store("vector", "xq", "xq", "xq")
  \o <<[op |-> "store_query", vec |-> "xq"], [op |-> "load_query", vec |-> "xq"],
       [op |-> "store_key", vec |-> "xk"]>>
  \o OnlyTraced(NewValueLines(s))
  \o <<[op |-> "store_value", vec |-> "xv"]>>
  \o Expanded("score", [to |-> "scores"])
  \o Compare("scores", "ref_raw")
  \o Store("scores_0", "scores", "scores", "") \o Store("scores_1", "scale", "scores", "")
  \o Expanded("multiply_scores", <<>>)
  \o Load("scores", "scores_2", "scores", "scores", "") \o Compare("scores", "ref_scaled")
  \o Host("exp", "exp", <<"scores", "x">>)
  \o Host("sum_reciprocal", "sum_reciprocal", <<"exp", "x">>)
  \o Store("scores_0", "exp", "scores", "") \o Store("scores_1", "sum_reciprocal", "scores", "")
  \o Expanded("multiply_scores", <<>>)
  \o Load("scores", "scores_2", "scores", "scores", "") \o Compare("scores", "ref_scores")
  \o Expanded("output", [to |-> "output", vec |-> "scores"])
  \o Compare("output", "ref_output")
  \o Store("vector", "output", "output", "output")
  \o GEMV("sa", "output", "wo", FALSE)
  \o Store("group_0", "sa", "sa", "sa_bank_group")
  \o Compare("sa", "ref_sa")
  \o Load("sa_load", "group_0", "sa", "sa", "sa_bank_group")
  \o Load("x_load", "group_1", "sa", "sa", "sa_bank_group")
  \o EWADD(s, "sa", "x_load", "sa_load")
  \o Store("group_2", "sa", "sa", "")

\* FFN_aim, for a hidden layer that one row of a bank group holds.
FFNAim(s) ==
  Store("neighbor_0", "sa", "sa_copy", "sa_neighbor_bank")
  \o Store("neighbor_1", "sa", "sa_copy", "")
  \o Pow("sa_copy", "sa_neighbor_bank")
  \o Host("pow_sum", "pow_sum", <<"sa", "sa">>) \o Compare("total", "pow_sum")
  \o Host("norm", "norm", <<"sa", "sa">>)
  \o Store("group_1", "norm", "sa_copy", "")
  \o Store("group_0", "sa", "sa_copy", "sa_bank_group")
  \o Multiply("sa_copy", "sa_bank_group")
  \o Copy("sa_copy", "FFNNorm", "sa_bank_group")
  \o Multiply("FFNNorm", "sa_bank_group")
  \o Load("FFNNorm_sa", "group_2", "x", "FFNNorm", "FFNNorm")
  \o Compare("FFNNorm_sa", "ref_ffn_norm")
  \o GEMV("x1", "FFNNorm_sa", "w1", TRUE)
  \o GEMV("x3", "FFNNorm_sa", "w3", FALSE)
  \o Compare("x1", "ref_x1") \o Compare("x3", "ref_x3")
  \o Host("x1_sigmoid", "sigmoid", <<"x1", "x">>)
  \o Store("group_0", "x1", "x1_sigmoid", "x1_bank_group")
  \o Store("group_1", "x1_sigmoid", "x1_sigmoid", "")
  \o Multiply("x1_sigmoid", "x1_bank_group")
  \o Load("x1_silu", "group_2", "x1", "x1_sigmoid", "x1_bank_group")
  \o Compare("x1_silu", "ref_silu")
  \o Copy("x1_sigmoid", "x1_sigmoid", "x1_bank_group")
  \o Store("group_0", "x3", "x1_sigmoid", "")
  \o Multiply("x1_sigmoid", "x1_bank_group")
  \o Load("ffn_vector", "group_2", "x1", "x1_sigmoid", "x1_bank_group")
  \o Compare("ffn_vector", "ref_gate")
  \o GEMV("ffn", "ffn_vector", "w2", FALSE)
  \o Store("group_1", "ffn", "ffn", "ffn_bank_group")
  \o Compare("ffn", "ref_ffn")
  \o Store("group_0", "sa", "ffn", "")
  \o Load("sa_load", "group_0", "sa", "ffn", "ffn_bank_group")
  \o Load("ffn_load", "group_1", "ffn", "ffn", "ffn_bank_group")
  \o EWADD(s, "out", "sa_load", "ffn_load")
  \o Store("group_2", "out", "ffn", "out_bank_group")
  \o Compare("out", "ref_out")
-----------------------------------------------------------------------------
(***************************************************************************)
(* What a call of the program does with the tensors of the host.           *)
(***************************************************************************)
HostStep ==
  /\ Do("host")
  /\ LET i == Head(todo) IN vec' = (i.to :> Computed(i)) @@ vec
  /\ UNCHANGED <<device, dic_shape, accumulator, accumulator_af, total, differ, raised, trace>>
  /\ Rest

\* compare prints and goes on; differ remembers.
CompareStep ==
  /\ Do("compare")
  /\ LET i == Head(todo)
         same == IF i.vec = "total" THEN total = vec[i.with][0]
                 ELSE Tensor(i.vec) = Tensor(i.with)
     IN differ' = IF same THEN differ ELSE differ \cup {<<i.vec, i.with>>}
  /\ UNCHANGED <<device, vec, dic_shape, accumulator, accumulator_af, total, raised, trace>>
  /\ Rest

\* store_to_DRAM_multi_channel.
StoreStep ==
  /\ Do("store")
  /\ LET i == Head(todo)
         n == Elements(i.vec)
         pieces == StorePieces(shape, i.mode, i.vec, n, shape.base[i.region])
     IN /\ raised' = ~Fits(shape, pieces)
        /\ arrays' = IF raised' THEN arrays ELSE Stored(pieces, Tensor(i.vec))
        /\ dic_shape' = IF i.keep = "" THEN dic_shape
                        ELSE (i.keep :> Kept(shape, i.mode, n)) @@ dic_shape
  /\ UNCHANGED <<gb, latch, register, vec, accumulator, accumulator_af, total, differ, trace>>
  /\ Rest

\* load_from_DRAM_multi_channel.
LoadStep ==
  /\ Do("load")
  /\ LET i == Head(todo)
         n == Elements(i.like)
         offset == IF i.by = "" THEN n ELSE dic_shape[i.by]
     IN vec' = (i.to :> Gathered(arrays, LoadPieces(shape, i.mode, i.like, n,
                                                    shape.base[i.region], offset), n)) @@ vec
  /\ UNCHANGED <<device, dic_shape, accumulator, accumulator_af, total, differ, raised, trace>>
  /\ Rest

\* broadcast_store_query, the new row of the keys, the new column of the values.
StoreNewToken ==
  /\ ~raised /\ todo # <<>>
  /\ LET i == Head(todo)
         pieces == CASE i.op = "store_query" -> QueryPieces(shape, shape.base.xq)
                     [] i.op = "store_key" ->
                          KeyPieces(shape, shape.seqlen - 1, 0, shape.base.cache_k)
                     [] i.op = "store_value" -> NewValuePieces(shape, shape.base.cache_v)
     IN /\ i.op \in {"store_query", "store_key", "store_value"}
        /\ arrays' = Stored(pieces, vec[i.vec])
  /\ UNCHANGED <<gb, latch, register, host, raised, trace>>
  /\ Rest

\* broadcast_load_query and the comparison of every channel's copy.  (Its
\* literal 128 is the dimension of a head.)
QueryAt(s, c, k) ==
  LET width == s.kv * HeadDim(s)
      At(bank, col) == arrays[Address(s, c \div s.channels, c % s.channels, bank, s.base.xq)][col]
  IN IF s.gqa THEN At((k % width) \div HeadDim(s), (k \div width) * HeadDim(s) + (k % HeadDim(s)))
     ELSE At(k \div s.column, k % s.column)

LoadQuery ==
  /\ Do("load_query")
  /\ LET q == vec[Head(todo).vec]
     IN differ' = IF \A c \in 0 .. Required(shape) - 1 :
                       \A k \in DOMAIN q : QueryAt(shape, c, k) = q[k]
                  THEN differ ELSE differ \cup {<<"loaded", Head(todo).vec>>}
  /\ UNCHANGED <<device, vec, dic_shape, accumulator, accumulator_af, total, raised, trace>>
  /\ Rest

\* What a product leaves in the accumulators goes to the tensors of the host.
Result ==
  /\ Do("result")
  /\ LET i == Head(todo)
         First(acc) == [k \in 0 .. i.n - 1 |-> acc[k]]
     IN vec' = (i.to :> First(accumulator))
                 @@ (IF i.af THEN (i.to \o "_sigmoid_aim") :> First(accumulator_af) ELSE <<>>)
                 @@ vec
  /\ UNCHANGED <<device, dic_shape, accumulator, accumulator_af, total, differ, raised, trace>>
  /\ Rest
-----------------------------------------------------------------------------
(***************************************************************************)
(* The calls that are a loop over the channels, as their instructions.     *)
(***************************************************************************)
PowInstructions(s, i) ==
  LET of == [blocks |-> Required(s), latch |-> 0, left |-> 0, at |-> 0, step |-> 1]
      Channel(c) ==
        <<of @@ [op |-> "WR_BIAS", ch |-> c],
          [op |-> "MAC_BK_BK", ch |-> c, blocks |-> Required(s), row |-> s.base[i.region],
           size |-> Ceil(dic_shape[i.by], s.burst)],
          of @@ [op |-> "RD_MAC", ch |-> c]>>
  IN For(Required(s), Channel)

MultiplyInstructions(s, i) ==
  LET Channel(c) == <<[op |-> "EWMUL", ch |-> c, blocks |-> Required(s),
                       row |-> s.base[i.region], size |-> Ceil(dic_shape[i.by], s.burst)]>>
  IN For(Required(s), Channel)

\* A plausible bug: the copy goes to the bank it came from.
CopyToItself(s, i) ==
  LET size == Ceil(dic_shape[i.by], s.burst)
      Group(g) ==
        LET Channel(c) ==
              <<[op |-> "COPY_BK_GB", ch |-> c, blocks |-> Required(s), bank |-> 4 * g + 2,
                 row |-> s.base[i.from], size |-> size],
                [op |-> "COPY_GB_BK", ch |-> c, blocks |-> Required(s), bank |-> 4 * g + 2,
                 row |-> s.base[i.region], size |-> size]>>
        IN For(Required(s), Channel)
  IN For(4, Group)

\* Bank 2 of each group to bank 1 of the group, through the global buffer.
CopyInstructions(s, i) ==
  LET size == Ceil(dic_shape[i.by], s.burst)
      Group(g) ==
        LET Channel(c) ==
              <<[op |-> "COPY_BK_GB", ch |-> c, blocks |-> Required(s), bank |-> 4 * g + 2,
                 row |-> s.base[i.from], size |-> size],
                [op |-> "COPY_GB_BK", ch |-> c, blocks |-> Required(s), bank |-> 4 * g + 1,
                 row |-> s.base[i.region], size |-> size]>>
        IN For(Required(s), Channel)
  IN For(4, Group)

MultiplyScores(s) ==
  LET rows == Ceil(s.seqlen, s.column)
      Channel(c) ==
        LET Score(k) ==
              LET Row(r) == <<[op |-> "EWMUL", ch |-> c, blocks |-> Required(s),
                               row |-> s.base.scores + k * rows + r,
                               size |-> OpSize(s, s.seqlen, r)]>>
              IN For(rows, Row)
        IN For(ScoresPerBank(s), Score)
  IN For(Required(s), Channel)

Expansion(s, i) ==
  LET To(n, af) == <<[op |-> "result", to |-> i.to, n |-> n, af |-> af]>>
  IN CASE i.what = "pow" -> PowInstructions(s, i)
       [] i.what = "multiply" -> MultiplyInstructions(s, i)
       [] i.what = "copy" -> CopyInstructions(s, i)
       [] i.what = "multiply_scores" -> MultiplyScores(s)
       [] i.what = "gemv" -> WeightInstructions(s, i.vec, s.base[i.w], Matrix(s)[i.w][2],
                                                Matrix(s)[i.w][1], i.af)
                               \o To(Matrix(s)[i.w][1], i.af)
       [] i.what = "score" -> ScoreInstructions(s, s.base.xq, s.base.cache_k)
                                \o To(s.heads * s.seqlen, FALSE)
       [] i.what = "output" -> OutputInstructions(s, i.vec, s.base.cache_v)
                                 \o To(s.heads * HeadDim(s), FALSE)

\* The outputs of a product, all zero, of the banks it uses.
Outputs0(s, i) ==
  CASE i.what = "gemv" -> Zeros(PerBank(s, Matrix(s)[i.w][1]) * Utilized(s, Matrix(s)[i.w][1]))
    [] i.what = "score" -> Zeros(s.heads * s.seqlen)
    [] i.what = "output" -> Zeros(s.heads * HeadDim(s))
    [] OTHER -> <<>>

Expand ==
  /\ Do("expand")
  /\ LET i == Head(todo)
     IN /\ todo' = Expansion(shape, i) \o Tail(todo)
        /\ accumulator' = Outputs0(shape, i)
        /\ accumulator_af' = Outputs0(shape, i)
        /\ total' = IF i.what = "pow" THEN 0 ELSE total
  /\ UNCHANGED <<shape, device, vec, dic_shape, differ, raised, trace>>
=============================================================================
