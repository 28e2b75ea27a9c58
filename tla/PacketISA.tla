------------------------------ MODULE PacketISA ------------------------------
(***************************************************************************)
(* The two translators of the offload pipeline.  compair_row_isa.py makes  *)
(* rows of a logical instruction set from the operations recorded while    *)
(* traces were generated; translate/row_to_packet.py gives every row its   *)
(* addresses and turns it into packet instructions, one row (or one fused  *)
(* group of three rows) at a time.                                         *)
(*                                                                         *)
(* An event is a record of CentPIM!NocEvent or CentPIM!SramEvent: op is    *)
(* the operation of the network, or MAC_ABK with its role.  Manifests of   *)
(* older traces have no roles (role = "").                                 *)
(***************************************************************************)
EXTENDS Integers, Sequences, FiniteSets


CONSTANT Burst        \* burst_length of the trace

Between(low, n, high) == IF n < low THEN low ELSE IF n > high THEN high ELSE n
AtLeast1(n) == IF n < 1 THEN 1 ELSE n

\* Python's round(a / b): half goes to the even neighbour.
Rounded(a, b) ==
  LET q == a \div b
      r == 2 * (a % b)
  IN IF r > b \/ (r = b /\ q % 2 = 1) THEN q + 1 ELSE q

Sram(events) == SelectSeq(events, LAMBDA e : e.unit = "sram")
OfNoc(events, op) == Cardinality({k \in DOMAIN events : events[k].unit = "noc" /\ events[k].op = op})
Some(events, ops) == \E op \in ops : OfNoc(events, op) > 0
-----------------------------------------------------------------------------
(***************************************************************************)
(* aggregate.                                                              *)
(***************************************************************************)
HasRole(macs) == \E k \in DOMAIN macs : macs[k].role # ""

\* The slice s[m : n] of Python.
Slice(s, m, n) == SubSeq(s, m + 1, IF n < Len(s) THEN n ELSE Len(s))

\* Manifests without roles keep the order of the products: four equal parts
\* of the attention weights, W1 known by its activation function, two equal
\* parts of the other hidden weights; the embeddings are left out.
Legacy(macs, role) ==
  LET Timed(timing, af) == SelectSeq(macs, LAMBDA e : e.timing = timing /\ e.af = af)
      sa == Timed("breakdown_sa_weight", FALSE)
      ffn == Timed("breakdown_ffn_weight", FALSE)
      q == AtLeast1(Len(sa) \div 4)
      h == AtLeast1(Len(ffn) \div 2)
  IN CASE role = "Wq" -> Slice(sa, 0, q)
       [] role = "Wk" -> Slice(sa, q, 2 * q)
       [] role = "Wv" -> Slice(sa, 2 * q, 3 * q)
       [] role = "Wo" -> Slice(sa, 3 * q, Len(sa))
       [] role = "W1" -> Timed("breakdown_ffn_weight", TRUE)
       [] role = "W3" -> Slice(ffn, 0, h)
       [] role = "W2" -> Slice(ffn, h, Len(ffn))
       [] OTHER -> <<>>

EventsOf(events, role) ==
  LET macs == Sram(events)
  IN IF HasRole(macs) THEN SelectSeq(macs, LAMBDA e : e.role = role) ELSE Legacy(macs, role)

Largest(macs) ==
  macs[CHOOSE k \in DOMAIN macs : \A j \in DOMAIN macs : macs[j].size <= macs[k].size].size

\* The tile of a bank and how often it is computed, from the number of events.
Tile(macs) ==
  LET vec == AtLeast1(Largest(macs) * Burst)
      rows == AtLeast1(((macs[1].vector_dim - 1) \div vec) + 1)
      cols == AtLeast1(Rounded(Len(macs), rows))
  IN [count |-> Len(macs), vec |-> vec, cols |-> cols,
      chunks |-> AtLeast1(Rounded(Len(macs), cols))]
-----------------------------------------------------------------------------
(***************************************************************************)
(* emit_rows.  num is num_per_bank (0: not given), group is FUSE_GROUP.    *)
(***************************************************************************)
NoCRow(op, mode, group, repeat, num) ==
  [target |-> "NoC", op |-> op, mode |-> mode, group |-> group, repeat |-> repeat, num |-> num]

Collect(op, repeat) == NoCRow(op, "", "", repeat, 0)
ScalarR(repeat) == NoCRow("SCALAR", "R", "", repeat, 0)

\* A reduction over the banks, three broadcasts of its result.
Spreading(n) == <<Collect("BROADCAST", n), Collect("BROADCAST", n), Collect("BROADCAST", n)>>

\* The Taylor series of exp: Res *= X, Res /= i, Res += 1, six times.
ExpRows(group, num) ==
  <<NoCRow("SCALAR", "EXP_MUL", group, 6, num), NoCRow("SCALAR", "EXP_DIV", group, 6, num),
    NoCRow("SCALAR", "EXP_ADD", group, 6, num)>>

NormRows(events, dim) ==
  LET n == OfNoc(events, "rmsnorm_sa_input_ewmul_store")
             + OfNoc(events, "rmsnorm_ffn_input_ewmul_store")
  IN IF n = 0 THEN <<>>
     ELSE <<Collect("REDUCE", n), NoCRow("SQRT", "", "", n, Between(8, dim \div 64, 512))>>
            \o Spreading(n) \o <<ScalarR(n)>>

SoftmaxRows(events, seqlen) ==
  IF Some(events, {"softmax_score_store", "softmax_reduce_load"})
  THEN ExpRows("SOFTMAX_EXP", Between(8, seqlen \div 2, 4096))
         \o <<Collect("REDUCE", 1)>> \o Spreading(1) \o <<ScalarR(1)>>
  ELSE <<>>

RotaryRows(events) ==
  IF Some(events, {"rotary_prefill_store", "rotary_post_gather"})
  THEN <<Collect("ROPE", 1)>> ELSE <<>>

SiluRows(events, seqlen) ==
  IF Some(events, {"ffn_silu_store", "ffn_silu_split_store"})
  THEN ExpRows("SILU_EXP", Between(8, seqlen \div 2, 4096)) ELSE <<>>

\* One row for all the tiles of a role.
SramRow(role, tile) ==
  [target |-> "SRAM-PIM", role |-> role, count |-> tile.count, vec |-> tile.vec,
   cols |-> tile.cols, chunks |-> tile.chunks]

RoleRow(events, role) ==
  LET macs == EventsOf(events, role)
  IN IF macs = <<>> THEN <<>> ELSE <<SramRow(role, Tile(macs))>>

\* Events without a role among others that have one come last ("UNKNOWN").
SramRows(events) ==
  RoleRow(events, "Wq") \o RoleRow(events, "Wk") \o RoleRow(events, "Wv")
    \o RoleRow(events, "Wo") \o RoleRow(events, "W1") \o RoleRow(events, "W2")
    \o RoleRow(events, "W3") \o RoleRow(events, "Emb_in") \o RoleRow(events, "Emb_out")
    \o RoleRow(events, "")

EmitRows(events, seqlen, dim) ==
  NormRows(events, dim) \o SoftmaxRows(events, seqlen) \o RotaryRows(events)
    \o SiluRows(events, seqlen) \o SramRows(events)
-----------------------------------------------------------------------------
(***************************************************************************)
(* compile_packets.                                                        *)
(***************************************************************************)

CONSTANTS NoCBase, SRAMBase,  \* 0x1000_0000 and 0x8000_0000
          RoleRegion,         \* 0x0100_0000
          RowStride           \* row_addr_stride

ASSUME AddressAssumption ==
  /\ NoCBase \in Nat /\ SRAMBase \in Nat /\ NoCBase <= SRAMBase
  /\ RoleRegion \in Nat /\ RowStride \in Nat \ {0}

VARIABLES
  row_isa,   \* the rows being compiled
  cursor,    \* i of the loop
  packets    \* the packet instructions

packet_vars == <<row_isa, cursor, packets>>

\* _region_base: the order of its dictionary is the order of the roles.
RoleIndex(role) ==
  CASE role = "Wq" -> 0 [] role = "Wk" -> 1 [] role = "Wv" -> 2 [] role = "Wo" -> 3
    [] role = "W1" -> 4 [] role = "W2" -> 5 [] role = "W3" -> 6
    [] role = "Emb_in" -> 7 [] role = "Emb_out" -> 8 [] OTHER -> 31

RegionBase(row) ==
  IF row.target = "NoC" THEN NoCBase ELSE SRAMBase + RoleIndex(row.role) * RoleRegion

\* _estimate_row_bytes.
RowBytes(row) ==
  IF row.target = "NoC" THEN AtLeast1((IF row.num = 0 THEN 1 ELSE row.num) * 16 * row.repeat)
  ELSE AtLeast1(row.vec * row.cols * 2 * row.chunks)

IsScalar(row, mode) == row.target = "NoC" /\ row.op = "SCALAR" /\ row.mode = mode

\* Row i starts a series of exp that may be fused with the two rows after it.
MayFuse(rows, i) == IsScalar(rows[i], "EXP_MUL") /\ i + 2 <= Len(rows)

Fuses(rows, i) ==
  /\ MayFuse(rows, i)
  /\ IsScalar(rows[i + 1], "EXP_DIV") /\ rows[i + 1].group = rows[i].group
  /\ IsScalar(rows[i + 2], "EXP_ADD") /\ rows[i + 2].group = rows[i].group

\* FAULT: the rows of a region all begin where it does.
BaseOfRegion(rows, i) == RegionBase(rows[i])

\* Rows are numbered from 0; last is addr_end.
Base(rows, i) == RegionBase(rows[i]) + (i - 1) * RowStride

Packet(rows, i, fused) ==
  [row |-> i, fused |-> fused, start |-> Base(rows, i), bytes |-> RowBytes(rows[i]),
   last |-> IF fused THEN Base(rows, i) ELSE Base(rows, i) + RowBytes(rows[i]) - 1]

PacketInit(rows) ==
  /\ row_isa = rows
  /\ cursor = 1
  /\ packets = <<>>

More == cursor <= Len(row_isa)

\* An iteration of the loop of compile_packets.
CompileFused ==
  /\ More /\ Fuses(row_isa, cursor)
  /\ packets' = Append(packets, Packet(row_isa, cursor, TRUE))
  /\ cursor' = cursor + 3
  /\ UNCHANGED row_isa

CompilePlain ==
  /\ More /\ ~MayFuse(row_isa, cursor)
  /\ packets' = Append(packets, Packet(row_isa, cursor, FALSE))
  /\ cursor' = cursor + 1
  /\ UNCHANGED row_isa

\* Two other rows follow the first row of a series: no packet at all.
CompileUnmatched ==
  /\ More /\ MayFuse(row_isa, cursor) /\ ~Fuses(row_isa, cursor)
  /\ cursor' = cursor + 1
  /\ UNCHANGED <<row_isa, packets>>

CompileStep == CompileFused \/ CompilePlain \/ CompileUnmatched
-----------------------------------------------------------------------------
(***************************************************************************)
(* The module on its own: any manifests, any hints.                        *)
(***************************************************************************)
CONSTANTS Manifests, Hints

\* The fields of a row are integers, and so is the size made of them.
ASSUME ManifestAssumption ==
  \A events \in Manifests, seqlen \in Hints, dim \in Hints :
    LET rows == EmitRows(events, seqlen, dim)
    IN \A i \in DOMAIN rows : RowBytes(rows[i]) \in Int

PacketSource ==
  \E events \in Manifests, seqlen \in Hints, dim \in Hints :
    PacketInit(EmitRows(events, seqlen, dim))

PacketSpec == PacketSource /\ [][CompileStep]_packet_vars
-----------------------------------------------------------------------------
(***************************************************************************)
(* What a compiled list of rows must be.                                   *)
(***************************************************************************)

\* The packet of a row; the one of the first row of a fused group stands for
\* the two rows after it as well.
Carries(p, i) == p.row <= i /\ i <= (IF p.fused THEN p.row + 2 ELSE p.row)

\* Every row before the cursor is carried by one packet, and by no other.
RowsCarried ==
  \A i \in 1 .. cursor - 1 :
    \E k \in DOMAIN packets :
      \A m \in DOMAIN packets : Carries(packets[m], i) <=> m = k

\* The packets come in the order of their addresses, a stride apart at least:
\* no two packets whose rows fit in a stride have an address in common,
\* whatever the regions of the roles are (row_to_packet.py:54).
PacketsApart ==
  \A j, k \in DOMAIN packets :
    j < k =>
      /\ packets[j].start + RowStride <= packets[k].start
      /\ packets[j].bytes <= RowStride => packets[j].last < packets[k].start
=============================================================================
