------------------------ MODULE CompAirPipeline_proofs ------------------------
(***************************************************************************)
(* Whatever was recorded, the rows that emit_rows makes of it are compiled *)
(* without losing a row and without addresses in common.  The two facts    *)
(* about emit_rows this rests on: its regions never descend, and its fused *)
(* groups are complete.                                                    *)
(*                                                                         *)
(* And whenever the pipeline is interrupted and started again, the number  *)
(* a finished invocation leaves in the summary is the one of its own       *)
(* trace.  The fact this rests on: no file is made anew from which a later *)
(* one has been made.                                                      *)
(***************************************************************************)
EXTENDS CompAirPipeline, WellFoundedInduction, TLAPS

(***************************************************************************)
(* What the parts of a list of rows have in common: sequences between two  *)
(* regions, in ascending order, that start no group they do not end.       *)
(***************************************************************************)
IsList(rows) == \E S : rows \in Seq(S)

Within(rows, low, high) ==
  \A i \in DOMAIN rows :
    /\ RegionBase(rows[i]) \in Int
    /\ low <= RegionBase(rows[i]) /\ RegionBase(rows[i]) <= high

Ascending(rows) ==
  \A i, j \in DOMAIN rows : i <= j => RegionBase(rows[i]) <= RegionBase(rows[j])

Complete(rows) == \A i \in DOMAIN rows : IsScalar(rows[i], "EXP_MUL") => Fuses(rows, i)

Orderly(rows, low, high) ==
  IsList(rows) /\ Within(rows, low, high) /\ Ascending(rows) /\ Complete(rows)

LEMMA Joined ==
  ASSUME NEW a, IsList(a), NEW b, IsList(b)
  PROVE  /\ IsList(a \o b)
         /\ Len(a) \in Nat /\ Len(b) \in Nat /\ Len(a \o b) = Len(a) + Len(b)
         /\ DOMAIN a = 1 .. Len(a) /\ DOMAIN b = 1 .. Len(b)
         /\ DOMAIN (a \o b) = 1 .. (Len(a) + Len(b))
         /\ \A i \in 1 .. (Len(a) + Len(b)) :
              (a \o b)[i] = IF i <= Len(a) THEN a[i] ELSE b[i - Len(a)]
<1>1. PICK A : a \in Seq(A)
  BY DEF IsList
<1>2. PICK B : b \in Seq(B)
  BY DEF IsList
<1>3. a \in Seq(A \cup B) /\ b \in Seq(A \cup B)
  BY <1>1, <1>2
<1>4. a \o b \in Seq(A \cup B)
  BY <1>3
<1>5. IsList(a \o b)
  BY <1>4 DEF IsList
<1> QED
  BY <1>3, <1>4, <1>5

LEMMA OrderlyJoined ==
  ASSUME NEW a, NEW b, NEW l \in Int, NEW m \in Int, NEW n \in Int, NEW h \in Int, m <= n, l <= n, m <= h,
         Orderly(a, l, m), Orderly(b, n, h)
  PROVE  Orderly(a \o b, l, h)
<1> DEFINE c == a \o b
<1>1. IsList(a) /\ IsList(b)
  BY DEF Orderly
<1>2. /\ IsList(c)
      /\ Len(a) \in Nat /\ Len(b) \in Nat /\ Len(c) = Len(a) + Len(b)
      /\ DOMAIN a = 1 .. Len(a) /\ DOMAIN b = 1 .. Len(b)
      /\ DOMAIN c = 1 .. (Len(a) + Len(b))
      /\ \A i \in 1 .. (Len(a) + Len(b)) :
           c[i] = IF i <= Len(a) THEN a[i] ELSE b[i - Len(a)]
  BY <1>1, Joined
<1> HIDE DEF c
<1>3. \A i \in DOMAIN c :
        \/ i \in DOMAIN a /\ c[i] = a[i]
        \/ i > Len(a) /\ i - Len(a) \in DOMAIN b /\ c[i] = b[i - Len(a)]
  BY <1>2
<1>4. Within(c, l, h)
  BY <1>3 DEF Orderly, Within
<1>5. Ascending(c)
  <2> SUFFICES ASSUME NEW i \in DOMAIN c, NEW j \in DOMAIN c, i <= j
               PROVE  RegionBase(c[i]) <= RegionBase(c[j])
    BY DEF Ascending
  <2>1. CASE j \in DOMAIN a /\ c[j] = a[j]
    <3>1. i \in DOMAIN a /\ c[i] = a[i]
      BY <1>2, <2>1
    <3> QED BY <2>1, <3>1 DEF Orderly, Ascending
  <2>2. CASE i > Len(a) /\ i - Len(a) \in DOMAIN b /\ c[i] = b[i - Len(a)]
    <3>1. j > Len(a) /\ j - Len(a) \in DOMAIN b /\ c[j] = b[j - Len(a)]
      BY <1>2, <2>2
    <3>2. i - Len(a) <= j - Len(a)
      BY <1>2
    <3> QED BY <2>2, <3>1, <3>2 DEF Orderly, Ascending
  <2>3. CASE /\ i \in DOMAIN a /\ c[i] = a[i]
             /\ j - Len(a) \in DOMAIN b /\ c[j] = b[j - Len(a)]
    BY <2>3 DEF Orderly, Within
  <2> QED BY <1>3, <2>1, <2>2, <2>3
<1>6. Complete(c)
  <2> SUFFICES ASSUME NEW i \in DOMAIN c, IsScalar(c[i], "EXP_MUL")
               PROVE  Fuses(c, i)
    BY DEF Complete
  <2>1. CASE i \in DOMAIN a /\ c[i] = a[i]
    <3>1. Fuses(a, i)
      BY <2>1 DEF Orderly, Complete
    <3>2. i + 2 <= Len(a)
      BY <3>1 DEF Fuses, MayFuse
    <3>3. c[i + 1] = a[i + 1] /\ c[i + 2] = a[i + 2] /\ i + 2 <= Len(c)
      BY <1>2, <3>2, <2>1
    <3> QED BY <2>1, <3>1, <3>3 DEF Fuses, MayFuse
  <2>2. CASE i > Len(a) /\ i - Len(a) \in DOMAIN b /\ c[i] = b[i - Len(a)]
    <3> DEFINE k == i - Len(a)
    <3>1. Fuses(b, k)
      BY <2>2 DEF Orderly, Complete
    <3>2. k + 2 <= Len(b)
      BY <3>1 DEF Fuses, MayFuse
    <3>3. k \in Nat \ {0} /\ i = Len(a) + k /\ i \in Nat
      BY <1>2, <2>2
    <3> HIDE DEF k
    <3>4. /\ i + 1 \in 1 .. (Len(a) + Len(b)) /\ i + 2 \in 1 .. (Len(a) + Len(b))
          /\ (i + 1) - Len(a) = k + 1 /\ (i + 2) - Len(a) = k + 2
      BY <1>2, <3>2, <3>3
    <3>5. ~(i + 1 <= Len(a)) /\ ~(i + 2 <= Len(a)) /\ i + 2 <= Len(c)
      BY <1>2, <3>2, <3>3
    <3>6. c[i + 1] = b[k + 1] /\ c[i + 2] = b[k + 2]
      BY <1>2, <3>4, <3>5
    <3> QED BY <2>2, <3>1, <3>5, <3>6 DEF Fuses, MayFuse, k
  <2> QED BY <1>3, <2>1, <2>2
<1> QED
  BY <1>2, <1>4, <1>5, <1>6 DEF Orderly, c

LEMMA OrderlyEmpty ==
  ASSUME NEW l \in Int, NEW h \in Int
  PROVE  Orderly(<<>>, l, h)
<1>1. <<>> \in Seq({})
  OBVIOUS
<1> QED
  BY <1>1 DEF Orderly, IsList, Within, Ascending, Complete

(* Rows of the network: a group of exp, or rows that are in no group.      *)
IsPlainNoC(row) == row.target = "NoC" /\ ~IsScalar(row, "EXP_MUL")

LEMMA OrderlyNoC ==
  ASSUME NEW rows, IsList(rows), \A i \in DOMAIN rows : IsPlainNoC(rows[i])
  PROVE  Orderly(rows, NoCBase, NoCBase)
<1>1. \A i \in DOMAIN rows : RegionBase(rows[i]) = NoCBase
  BY DEF IsPlainNoC, RegionBase
<1> QED
  BY <1>1, AddressAssumption DEF Orderly, Within, Ascending, Complete, IsPlainNoC

LEMMA OrderlyExp ==
  ASSUME NEW group, NEW num
  PROVE  Orderly(ExpRows(group, num), NoCBase, NoCBase)
<1> DEFINE rows == ExpRows(group, num)
<1>1. /\ rows \in Seq({rows[1], rows[2], rows[3]})
      /\ Len(rows) = 3 /\ DOMAIN rows = 1 .. 3
  BY DEF ExpRows
<1>2. /\ rows[1].target = "NoC" /\ rows[2].target = "NoC" /\ rows[3].target = "NoC"
      /\ rows[1].group = group /\ rows[2].group = group /\ rows[3].group = group
      /\ rows[1].op = "SCALAR" /\ rows[2].op = "SCALAR" /\ rows[3].op = "SCALAR"
      /\ rows[1].mode = "EXP_MUL" /\ rows[2].mode = "EXP_DIV" /\ rows[3].mode = "EXP_ADD"
  BY DEF ExpRows, NoCRow
<1> HIDE DEF rows
<1>3. \A i \in DOMAIN rows : RegionBase(rows[i]) = NoCBase
  BY <1>1, <1>2 DEF RegionBase
<1>4. Complete(rows)
  <2> SUFFICES ASSUME NEW i \in DOMAIN rows, IsScalar(rows[i], "EXP_MUL")
               PROVE  Fuses(rows, i)
    BY DEF Complete
  <2>1. i = 1
    BY <1>1, <1>2 DEF IsScalar
  <2> QED BY <1>1, <1>2, <2>1 DEF Fuses, MayFuse, IsScalar
<1>5. IsList(rows)
  BY <1>1 DEF IsList
<1>6. Orderly(rows, NoCBase, NoCBase)
  BY <1>3, <1>4, <1>5, AddressAssumption DEF Orderly, Within, Ascending
<1> QED
  BY <1>6 DEF rows

LEMMA OrderlyNorm ==
  ASSUME NEW events, NEW dim
  PROVE  Orderly(NormRows(events, dim), NoCBase, NoCBase)
<1> DEFINE n == OfNoc(events, "rmsnorm_sa_input_ewmul_store")
                  + OfNoc(events, "rmsnorm_ffn_input_ewmul_store")
           first == <<Collect("REDUCE", n), NoCRow("SQRT", "", "", n, Between(8, dim \div 64, 512))>>
           last == <<ScalarR(n)>>
<1>1. Orderly(<<>>, NoCBase, NoCBase)
  BY OrderlyEmpty, AddressAssumption
<1>2. Orderly(first, NoCBase, NoCBase)
  <2>1. first \in Seq({first[1], first[2]}) /\ DOMAIN first = 1 .. 2
    OBVIOUS
  <2>2. IsPlainNoC(first[1]) /\ IsPlainNoC(first[2])
    BY DEF IsPlainNoC, IsScalar, Collect, NoCRow
  <2> HIDE DEF first
  <2> QED BY <2>1, <2>2, OrderlyNoC DEF IsList
<1>3. Orderly(Spreading(n), NoCBase, NoCBase)
  <2> DEFINE mid == Spreading(n)
  <2>1. mid \in Seq({mid[1], mid[2], mid[3]}) /\ DOMAIN mid = 1 .. 3
    BY DEF Spreading
  <2>2. IsPlainNoC(mid[1]) /\ IsPlainNoC(mid[2]) /\ IsPlainNoC(mid[3])
    BY DEF Spreading, IsPlainNoC, IsScalar, Collect, NoCRow
  <2> HIDE DEF mid
  <2>3. Orderly(mid, NoCBase, NoCBase)
    BY <2>1, <2>2, OrderlyNoC DEF IsList
  <2> QED BY <2>3 DEF mid
<1>4. Orderly(last, NoCBase, NoCBase)
  <2>1. last \in Seq({last[1]}) /\ DOMAIN last = 1 .. 1
    OBVIOUS
  <2>2. IsPlainNoC(last[1])
    BY DEF IsPlainNoC, IsScalar, ScalarR, NoCRow
  <2> HIDE DEF last
  <2> QED BY <2>1, <2>2, OrderlyNoC DEF IsList
<1>5. Orderly(first \o Spreading(n), NoCBase, NoCBase)
  <2> HIDE DEF first
  <2> QED BY <1>2, <1>3, OrderlyJoined, AddressAssumption
<1>6. Orderly((first \o Spreading(n)) \o last, NoCBase, NoCBase)
  <2> HIDE DEF first, last
  <2> QED BY <1>4, <1>5, OrderlyJoined, AddressAssumption
<1> QED
  BY <1>1, <1>6 DEF NormRows


LEMMA OrderlySoftmax ==
  ASSUME NEW events, NEW seqlen
  PROVE  Orderly(SoftmaxRows(events, seqlen), NoCBase, NoCBase)
<1> DEFINE exp == ExpRows("SOFTMAX_EXP", Between(8, seqlen \div 2, 4096))
           first == <<Collect("REDUCE", 1)>>
           mid == Spreading(1)
           last == <<ScalarR(1)>>
<1>1. Orderly(<<>>, NoCBase, NoCBase) /\ Orderly(exp, NoCBase, NoCBase)
  BY OrderlyEmpty, OrderlyExp, AddressAssumption
<1>2. Orderly(first, NoCBase, NoCBase)
  <2>1. first \in Seq({first[1]}) /\ DOMAIN first = 1 .. 1
    OBVIOUS
  <2>2. IsPlainNoC(first[1])
    BY DEF IsPlainNoC, IsScalar, Collect, NoCRow
  <2> HIDE DEF first
  <2> QED BY <2>1, <2>2, OrderlyNoC DEF IsList
<1>3. Orderly(mid, NoCBase, NoCBase)
  <2>1. mid \in Seq({mid[1], mid[2], mid[3]}) /\ DOMAIN mid = 1 .. 3
    BY DEF Spreading
  <2>2. IsPlainNoC(mid[1]) /\ IsPlainNoC(mid[2]) /\ IsPlainNoC(mid[3])
    BY DEF Spreading, IsPlainNoC, IsScalar, Collect, NoCRow
  <2> HIDE DEF mid
  <2> QED BY <2>1, <2>2, OrderlyNoC DEF IsList
<1>4. Orderly(last, NoCBase, NoCBase)
  <2>1. last \in Seq({last[1]}) /\ DOMAIN last = 1 .. 1
    OBVIOUS
  <2>2. IsPlainNoC(last[1])
    BY DEF IsPlainNoC, IsScalar, ScalarR, NoCRow
  <2> HIDE DEF last
  <2> QED BY <2>1, <2>2, OrderlyNoC DEF IsList
<1>5. Orderly(((exp \o first) \o mid) \o last, NoCBase, NoCBase)
  <2> HIDE DEF exp, first, mid, last
  <2>1. Orderly(exp \o first, NoCBase, NoCBase)
    BY <1>1, <1>2, OrderlyJoined, AddressAssumption
  <2>2. Orderly((exp \o first) \o mid, NoCBase, NoCBase)
    BY <2>1, <1>3, OrderlyJoined, AddressAssumption
  <2> QED BY <2>2, <1>4, OrderlyJoined, AddressAssumption
<1> QED
  BY <1>1, <1>5 DEF SoftmaxRows

LEMMA OrderlyRotary ==
  ASSUME NEW events
  PROVE  Orderly(RotaryRows(events), NoCBase, NoCBase)
<1> DEFINE rope == <<Collect("ROPE", 1)>>
<1>1. Orderly(rope, NoCBase, NoCBase)
  <2>1. rope \in Seq({rope[1]}) /\ DOMAIN rope = 1 .. 1
    OBVIOUS
  <2>2. IsPlainNoC(rope[1])
    BY DEF IsPlainNoC, IsScalar, Collect, NoCRow
  <2> HIDE DEF rope
  <2> QED BY <2>1, <2>2, OrderlyNoC DEF IsList
<1> QED
  BY <1>1, OrderlyEmpty, AddressAssumption DEF RotaryRows

LEMMA OrderlySilu ==
  ASSUME NEW events, NEW seqlen
  PROVE  Orderly(SiluRows(events, seqlen), NoCBase, NoCBase)
BY OrderlyExp, OrderlyEmpty, AddressAssumption DEF SiluRows

(* The row of a role begins in the role's region.                          *)
RoleBase(role) == SRAMBase + RoleIndex(role) * RoleRegion

LEMMA OrderlyRole ==
  ASSUME NEW events, NEW role, RoleIndex(role) \in Nat
  PROVE  Orderly(RoleRow(events, role), RoleBase(role), RoleBase(role))
<1> DEFINE rows == RoleRow(events, role)
           row == SramRow(role, Tile(EventsOf(events, role)))
<1>0. RoleIndex(role) * RoleRegion \in Nat /\ RoleBase(role) \in Int
  BY AddressAssumption DEF RoleBase
<1>1. CASE rows = <<>>
  BY <1>0, <1>1, OrderlyEmpty
<1>2. CASE rows = <<row>>
  <2>1. rows \in Seq({row}) /\ DOMAIN rows = 1 .. 1 /\ rows[1] = row
    BY <1>2
  <2>2. row.target = "SRAM-PIM" /\ row.role = role
    BY DEF SramRow
  <2>3. RegionBase(row) = RoleBase(role) /\ ~IsScalar(row, "EXP_MUL")
    BY <2>2 DEF RegionBase, RoleBase, IsScalar
  <2> HIDE DEF row, rows
  <2>4. \A i \in DOMAIN rows : rows[i] = row
    BY <2>1
  <2>5. IsList(rows)
    BY <2>1 DEF IsList
  <2>6. Orderly(rows, RoleBase(role), RoleBase(role))
    BY <1>0, <2>3, <2>4, <2>5 DEF Orderly, Within, Ascending, Complete
  <2> QED BY <2>6 DEF rows
<1> QED
  BY <1>1, <1>2 DEF RoleRow

(* The regions of the roles ascend in the order in which emit_rows goes    *)
(* through the roles.                                                      *)
LEMMA RoleBases ==
  /\ RoleIndex("Wq") = 0 /\ RoleIndex("Wk") = 1 /\ RoleIndex("Wv") = 2
  /\ RoleIndex("Wo") = 3 /\ RoleIndex("W1") = 4 /\ RoleIndex("W2") = 5
  /\ RoleIndex("W3") = 6 /\ RoleIndex("Emb_in") = 7 /\ RoleIndex("Emb_out") = 8
  /\ RoleIndex("") = 31
BY DEF RoleIndex

RegionAt(n) == SRAMBase + n * RoleRegion

LEMMA RegionsAscend ==
  ASSUME NEW m \in Nat, NEW n \in Nat, m <= n
  PROVE  RegionAt(m) \in Int /\ RegionAt(n) \in Int /\ RegionAt(m) <= RegionAt(n)
<1>1. PICK d \in Nat : n = m + d
  BY n - m \in Nat
<1>2. (m + d) * RoleRegion = m * RoleRegion + d * RoleRegion
      /\ m * RoleRegion \in Nat /\ d * RoleRegion \in Nat
  BY AddressAssumption
<1> QED
  BY <1>1, <1>2, AddressAssumption DEF RegionAt

LEMMA NextRegion ==
  ASSUME NEW a, NEW b, NEW m \in Nat, NEW n \in Nat, m <= n,
         Orderly(a, RegionAt(0), RegionAt(m)), Orderly(b, RegionAt(n), RegionAt(n))
  PROVE  Orderly(a \o b, RegionAt(0), RegionAt(n))
<1>1. RegionAt(m) <= RegionAt(n) /\ RegionAt(m) \in Int /\ RegionAt(n) \in Int
  BY RegionsAscend
<1>2. RegionAt(0) <= RegionAt(n) /\ RegionAt(0) \in Int
  BY RegionsAscend
<1> QED
  BY <1>1, <1>2, OrderlyJoined

LEMMA OrderlyInRegion ==
  ASSUME NEW events, NEW role, NEW n \in Nat, RoleIndex(role) = n
  PROVE  Orderly(RoleRow(events, role), RegionAt(n), RegionAt(n))
BY OrderlyRole DEF RoleBase, RegionAt

LEMMA OrderlySram ==
  ASSUME NEW events
  PROVE  Orderly(SramRows(events), SRAMBase, SRAMBase + 31 * RoleRegion)
<1>1. PICK q, k, v, o : /\ q = RoleRow(events, "Wq") /\ k = RoleRow(events, "Wk")
                        /\ v = RoleRow(events, "Wv") /\ o = RoleRow(events, "Wo")
  OBVIOUS
<1>2. PICK w1, w2, w3 : /\ w1 = RoleRow(events, "W1") /\ w2 = RoleRow(events, "W2")
                        /\ w3 = RoleRow(events, "W3")
  OBVIOUS
<1>3. PICK in, out, none : /\ in = RoleRow(events, "Emb_in") /\ out = RoleRow(events, "Emb_out")
                           /\ none = RoleRow(events, "")
  OBVIOUS
<1>4. /\ Orderly(q, RegionAt(0), RegionAt(0)) /\ Orderly(k, RegionAt(1), RegionAt(1))
      /\ Orderly(v, RegionAt(2), RegionAt(2)) /\ Orderly(o, RegionAt(3), RegionAt(3))
  <2>1. Orderly(q, RegionAt(0), RegionAt(0))
    <3>1. RoleIndex("Wq") = 0 /\ 0 \in Nat
      BY RoleBases
    <3>2. Orderly(RoleRow(events, "Wq"), RegionAt(0), RegionAt(0))
      BY <3>1, OrderlyInRegion
    <3> QED BY <1>1, <3>2
  <2>2. Orderly(k, RegionAt(1), RegionAt(1))
    BY <1>1, RoleBases, OrderlyInRegion
  <2>3. Orderly(v, RegionAt(2), RegionAt(2)) /\ Orderly(o, RegionAt(3), RegionAt(3))
    BY <1>1, RoleBases, OrderlyInRegion
  <2> QED BY <2>1, <2>2, <2>3
<1>5. /\ Orderly(w1, RegionAt(4), RegionAt(4)) /\ Orderly(w2, RegionAt(5), RegionAt(5))
      /\ Orderly(w3, RegionAt(6), RegionAt(6))
  BY <1>2, RoleBases, OrderlyInRegion
<1>6. /\ Orderly(in, RegionAt(7), RegionAt(7)) /\ Orderly(out, RegionAt(8), RegionAt(8))
      /\ Orderly(none, RegionAt(31), RegionAt(31))
  BY <1>3, RoleBases, OrderlyInRegion
<1>7. Orderly(((q \o k) \o v) \o o, RegionAt(0), RegionAt(3))
  <2>1. Orderly(q \o k, RegionAt(0), RegionAt(1))
    BY <1>4, NextRegion
  <2>2. Orderly((q \o k) \o v, RegionAt(0), RegionAt(2))
    BY <2>1, <1>4, NextRegion
  <2> QED BY <2>2, <1>4, NextRegion
<1>8. PICK attention : attention = ((q \o k) \o v) \o o
  OBVIOUS
<1>9. Orderly(((attention \o w1) \o w2) \o w3, RegionAt(0), RegionAt(6))
  <2>1. Orderly(attention \o w1, RegionAt(0), RegionAt(4))
    BY <1>5, <1>7, <1>8, NextRegion
  <2>2. Orderly((attention \o w1) \o w2, RegionAt(0), RegionAt(5))
    BY <2>1, <1>5, NextRegion
  <2> QED BY <2>2, <1>5, NextRegion
<1>10. PICK block : block = ((attention \o w1) \o w2) \o w3
  OBVIOUS
<1>11. Orderly(((block \o in) \o out) \o none, RegionAt(0), RegionAt(31))
  <2>1. Orderly(block \o in, RegionAt(0), RegionAt(7))
    BY <1>6, <1>9, <1>10, NextRegion
  <2>2. Orderly((block \o in) \o out, RegionAt(0), RegionAt(8))
    BY <2>1, <1>6, NextRegion
  <2> QED BY <2>2, <1>6, NextRegion
<1>12. RegionAt(0) = SRAMBase /\ RegionAt(31) = SRAMBase + 31 * RoleRegion
  BY AddressAssumption DEF RegionAt
<1>13. SramRows(events) = ((block \o in) \o out) \o none
  BY <1>1, <1>2, <1>3, <1>8, <1>10 DEF SramRows
<1> QED
  BY <1>11, <1>12, <1>13

LEMMA RowsOrderly ==
  ASSUME NEW events, NEW seqlen, NEW dim
  PROVE  Orderly(EmitRows(events, seqlen, dim), NoCBase, SRAMBase + 31 * RoleRegion)
<1> DEFINE a == NormRows(events, dim)
           b == SoftmaxRows(events, seqlen)
           c == RotaryRows(events)
           d == SiluRows(events, seqlen)
           e == SramRows(events)
<1>1. /\ Orderly(a, NoCBase, NoCBase) /\ Orderly(b, NoCBase, NoCBase)
      /\ Orderly(c, NoCBase, NoCBase) /\ Orderly(d, NoCBase, NoCBase)
      /\ Orderly(e, SRAMBase, SRAMBase + 31 * RoleRegion)
  BY OrderlyNorm, OrderlySoftmax, OrderlyRotary, OrderlySilu, OrderlySram
<1>2. EmitRows(events, seqlen, dim) = (((a \o b) \o c) \o d) \o e
  BY DEF EmitRows
<1> HIDE DEF a, b, c, d, e
<1>3. Orderly(a \o b, NoCBase, NoCBase)
  BY <1>1, OrderlyJoined, AddressAssumption
<1>4. Orderly((a \o b) \o c, NoCBase, NoCBase)
  BY <1>1, <1>3, OrderlyJoined, AddressAssumption
<1>5. Orderly(((a \o b) \o c) \o d, NoCBase, NoCBase)
  BY <1>1, <1>4, OrderlyJoined, AddressAssumption
<1>6. Orderly((((a \o b) \o c) \o d) \o e, NoCBase, SRAMBase + 31 * RoleRegion)
  BY <1>1, <1>5, OrderlyJoined, AddressAssumption
<1> QED
  BY <1>2, <1>6
-----------------------------------------------------------------------------
(***************************************************************************)
(* The invariant of the loop.                                              *)
(***************************************************************************)
GoodRows(rows) ==
  /\ IsList(rows)
  /\ \A i \in DOMAIN rows : RegionBase(rows[i]) \in Int /\ RowBytes(rows[i]) \in Int
  /\ Ascending(rows) /\ Complete(rows)

LastRow(p) == IF p.fused THEN p.row + 2 ELSE p.row

AllPackets(rows) ==
  {Packet(rows, i, TRUE) : i \in DOMAIN rows} \cup {Packet(rows, i, FALSE) : i \in DOMAIN rows}

(* Packets stand for pieces of the list that follow each other.            *)
InLine(list, next) ==
  /\ \A k \in DOMAIN list : LastRow(list[k]) < next
  /\ \A j, k \in DOMAIN list : j < k => LastRow(list[j]) < list[k].row

Covered(list, next) ==
  \A i \in 1 .. next - 1 :
    \E k \in DOMAIN list : \A m \in DOMAIN list : Carries(list[m], i) <=> m = k

PacketInv ==
  /\ GoodRows(row_isa)
  /\ cursor \in Nat \ {0}
  /\ packets \in Seq(AllPackets(row_isa))
  /\ InLine(packets, cursor)
  /\ Covered(packets, cursor)

LEMMA PacketFields ==
  ASSUME NEW rows, IsList(rows), NEW p \in AllPackets(rows)
  PROVE  /\ p.row \in DOMAIN rows /\ p.row \in Nat \ {0} /\ p.fused \in BOOLEAN
         /\ LastRow(p) \in Nat /\ p.row <= LastRow(p)
         /\ p.start = Base(rows, p.row) /\ p.bytes = RowBytes(rows[p.row])
         /\ p.last = IF p.fused THEN p.start ELSE p.start + p.bytes - 1
<1>1. PICK i \in DOMAIN rows, f \in {TRUE, FALSE} : p = Packet(rows, i, f)
  BY DEF AllPackets
<1>2. p.row = i /\ p.fused = f /\ p.start = Base(rows, i) /\ p.bytes = RowBytes(rows[i])
      /\ p.last = IF f THEN Base(rows, i) ELSE Base(rows, i) + RowBytes(rows[i]) - 1
  BY <1>1 DEF Packet
<1>3. i \in DOMAIN rows /\ i \in Nat \ {0}
  BY DEF IsList
<1>4. f = TRUE \/ f = FALSE
  OBVIOUS
<1>5. LastRow(p) = IF f THEN i + 2 ELSE i
  BY <1>2 DEF LastRow
<1>6. LastRow(p) \in Nat /\ i <= LastRow(p)
  BY <1>3, <1>4, <1>5
<1>7. p.fused \in BOOLEAN
  BY <1>2, <1>4
<1>8. p.row \in DOMAIN rows /\ p.row \in Nat \ {0} /\ p.row <= LastRow(p)
  BY <1>2, <1>3, <1>6
<1>9. p.start = Base(rows, p.row) /\ p.bytes = RowBytes(rows[p.row])
  BY <1>2
<1>10. p.last = IF p.fused THEN p.start ELSE p.start + p.bytes - 1
  BY <1>2
<1> QED
  BY <1>6, <1>7, <1>8, <1>9, <1>10

(* A packet for the rows from next on.                                     *)
LEMMA OneMore ==
  ASSUME NEW rows, GoodRows(rows), NEW list \in Seq(AllPackets(rows)), NEW next \in Nat \ {0},
         InLine(list, next), Covered(list, next),
         NEW p \in AllPackets(rows), p.row = next
  PROVE  /\ Append(list, p) \in Seq(AllPackets(rows))
         /\ InLine(Append(list, p), LastRow(p) + 1)
         /\ Covered(Append(list, p), LastRow(p) + 1)
<1> DEFINE longer == Append(list, p)
           n == Len(list)
<1>0. IsList(rows)
  BY DEF GoodRows
<1>1. /\ longer \in Seq(AllPackets(rows)) /\ n \in Nat
      /\ DOMAIN list = 1 .. n /\ DOMAIN longer = 1 .. n + 1
      /\ longer[n + 1] = p /\ \A k \in 1 .. n : longer[k] = list[k] /\ list[k] \in AllPackets(rows)
  OBVIOUS
<1>2. \A k \in 1 .. n : /\ list[k].row \in Nat /\ LastRow(list[k]) \in Nat
                        /\ list[k].row <= LastRow(list[k]) /\ LastRow(list[k]) < next
  BY <1>0, <1>1, PacketFields DEF InLine
<1>3. LastRow(p) \in Nat /\ next <= LastRow(p)
  BY <1>0, PacketFields
<1> HIDE DEF longer, n
<1>4. InLine(longer, LastRow(p) + 1)
  <2>1. ASSUME NEW k \in DOMAIN longer
        PROVE  LastRow(longer[k]) < LastRow(p) + 1
    <3>1. CASE k = n + 1
      BY <1>1, <1>3, <3>1
    <3>2. CASE k \in 1 .. n
      <4>1. longer[k] = list[k] /\ LastRow(list[k]) < next /\ LastRow(list[k]) \in Nat
        BY <1>1, <1>2, <3>2
      <4> QED BY <1>3, <4>1
    <3> QED BY <1>1, <3>1, <3>2
  <2>2. ASSUME NEW j \in DOMAIN longer, NEW k \in DOMAIN longer, j < k
        PROVE  LastRow(longer[j]) < longer[k].row
    <3>1. j \in 1 .. n /\ longer[j] = list[j]
      BY <1>1, <2>2
    <3>2. CASE k = n + 1
      BY <1>1, <1>2, <3>1, <3>2
    <3>3. CASE k \in 1 .. n
      BY <1>1, <2>2, <3>1, <3>3 DEF InLine
    <3> QED BY <1>1, <3>2, <3>3
  <2> QED BY <2>1, <2>2 DEF InLine
<1>5. Covered(longer, LastRow(p) + 1)
  <2> SUFFICES ASSUME NEW i \in 1 .. LastRow(p)
               PROVE  \E k \in DOMAIN longer : \A m \in DOMAIN longer : Carries(longer[m], i) <=> m = k
    BY <1>3 DEF Covered
  <2>1. \A q : Carries(q, i) <=> (q.row <= i /\ i <= LastRow(q))
    BY DEF Carries, LastRow
  <2>2. CASE i < next
    <3>1. i \in 1 .. next - 1
      BY <2>2
    <3>2. PICK k \in DOMAIN list : \A m \in DOMAIN list : Carries(list[m], i) <=> m = k
      BY <3>1 DEF Covered
    <3>3. ~Carries(p, i)
      BY <2>1, <2>2
    <3>4. k \in 1 .. n /\ k \in DOMAIN longer
      BY <1>1
    <3>5. \A m \in DOMAIN longer : Carries(longer[m], i) <=> m = k
      <4> TAKE m \in DOMAIN longer
      <4>1. CASE m = n + 1
        <5>1. longer[m] = p /\ m # k
          BY <1>1, <3>4, <4>1
        <5> QED BY <3>3, <5>1
      <4>2. CASE m \in 1 .. n
        <5>1. longer[m] = list[m] /\ m \in DOMAIN list
          BY <1>1, <4>2
        <5> QED BY <3>2, <5>1
      <4> QED BY <1>1, <4>1, <4>2
    <3> QED BY <3>4, <3>5
  <2>3. CASE next <= i
    <3>1. \A m \in 1 .. n : ~Carries(list[m], i)
      BY <1>2, <2>1, <2>3
    <3>2. Carries(p, i)
      BY <1>3, <2>1, <2>3
    <3>3. \A m \in 1 .. n + 1 : Carries(longer[m], i) <=> m = n + 1
      <4> TAKE m \in 1 .. n + 1
      <4>1. CASE m = n + 1
        BY <1>1, <3>2, <4>1
      <4>2. CASE m \in 1 .. n
        BY <1>1, <3>1, <4>2
      <4> QED BY <1>1, <4>1, <4>2
    <3>4. n + 1 \in DOMAIN longer
      BY <1>1
    <3> QED BY <1>1, <3>3, <3>4
  <2> QED BY <2>2, <2>3
<1> QED
  BY <1>1, <1>4, <1>5 DEF longer

LEMMA PacketInvInit == PacketSource => PacketInv
<1> SUFFICES ASSUME PacketSource PROVE PacketInv
  OBVIOUS
<1>1. PICK events \in Manifests, seqlen \in Hints, dim \in Hints :
        PacketInit(EmitRows(events, seqlen, dim))
  BY DEF PacketSource
<1>2. row_isa = EmitRows(events, seqlen, dim) /\ cursor = 1 /\ packets = <<>>
  BY <1>1 DEF PacketInit
<1>3. Orderly(row_isa, NoCBase, SRAMBase + 31 * RoleRegion)
  BY <1>2, RowsOrderly
<1>4. \A i \in DOMAIN row_isa : RowBytes(row_isa[i]) \in Int
  BY <1>2, ManifestAssumption
<1>5. GoodRows(row_isa)
  BY <1>3, <1>4 DEF Orderly, Within, GoodRows
<1>6. packets \in Seq(AllPackets(row_isa))
  BY <1>2
<1>7. InLine(packets, cursor) /\ Covered(packets, cursor)
  BY <1>2 DEF InLine, Covered
<1> QED
  BY <1>2, <1>5, <1>6, <1>7 DEF PacketInv

LEMMA PacketInvStep == PacketInv /\ [CompileStep]_packet_vars => PacketInv'
<1> SUFFICES ASSUME PacketInv, [CompileStep]_packet_vars
             PROVE  PacketInv'
  OBVIOUS
<1>1. CASE CompileFused
  <2> DEFINE p == Packet(row_isa, cursor, TRUE)
  <2>0. p.row = cursor /\ p.fused = TRUE /\ cursor \in Nat
    BY DEF Packet, PacketInv
  <2>1. cursor \in DOMAIN row_isa
    BY <1>1 DEF CompileFused, More, PacketInv, GoodRows, IsList
  <2>2. p \in AllPackets(row_isa) /\ p.row = cursor /\ LastRow(p) + 1 = cursor + 3
    <3>1. p \in AllPackets(row_isa)
      BY <2>1 DEF AllPackets
    <3> HIDE DEF p
    <3> QED BY <2>0, <3>1 DEF LastRow
  <2>3. packets' = Append(packets, p) /\ cursor' = LastRow(p) + 1 /\ row_isa' = row_isa
    BY <1>1, <2>2 DEF CompileFused
  <2> HIDE DEF p
  <2>4. /\ Append(packets, p) \in Seq(AllPackets(row_isa))
        /\ InLine(Append(packets, p), LastRow(p) + 1)
        /\ Covered(Append(packets, p), LastRow(p) + 1)
    BY <2>2, OneMore DEF PacketInv
  <2>5. cursor' \in Nat \ {0}
    BY <1>1 DEF CompileFused, PacketInv
  <2> QED BY <2>3, <2>4, <2>5 DEF PacketInv
<1>2. CASE CompilePlain
  <2> DEFINE p == Packet(row_isa, cursor, FALSE)
  <2>0. p.row = cursor /\ p.fused = FALSE /\ cursor \in Nat
    BY DEF Packet, PacketInv
  <2>1. cursor \in DOMAIN row_isa
    BY <1>2 DEF CompilePlain, More, PacketInv, GoodRows, IsList
  <2>2. p \in AllPackets(row_isa) /\ p.row = cursor /\ LastRow(p) + 1 = cursor + 1
    <3>1. p \in AllPackets(row_isa)
      BY <2>1 DEF AllPackets
    <3> HIDE DEF p
    <3> QED BY <2>0, <3>1 DEF LastRow
  <2>3. packets' = Append(packets, p) /\ cursor' = LastRow(p) + 1 /\ row_isa' = row_isa
    BY <1>2, <2>2 DEF CompilePlain
  <2> HIDE DEF p
  <2>4. /\ Append(packets, p) \in Seq(AllPackets(row_isa))
        /\ InLine(Append(packets, p), LastRow(p) + 1)
        /\ Covered(Append(packets, p), LastRow(p) + 1)
    BY <2>2, OneMore DEF PacketInv
  <2>5. cursor' \in Nat \ {0}
    BY <1>2 DEF CompilePlain, PacketInv
  <2> QED BY <2>3, <2>4, <2>5 DEF PacketInv
<1>3. CASE CompileUnmatched
  <2>1. cursor \in DOMAIN row_isa
    BY <1>3 DEF CompileUnmatched, More, PacketInv, GoodRows, IsList
  <2>2. Fuses(row_isa, cursor)
    BY <1>3, <2>1 DEF CompileUnmatched, MayFuse, Complete, PacketInv, GoodRows
  <2> QED BY <1>3, <2>2 DEF CompileUnmatched
<1>4. CASE UNCHANGED packet_vars
  BY <1>4 DEF packet_vars, PacketInv
<1> QED
  BY <1>1, <1>2, <1>3, <1>4 DEF CompileStep

LEMMA Distributed ==
  ASSUME NEW e \in Nat, NEW d \in Nat, NEW r \in Nat
  PROVE  /\ (e + 1 + d) * r = e * r + r + d * r
         /\ e * r \in Nat /\ d * r \in Nat
OBVIOUS

LEMMA PacketInvApart ==
  ASSUME PacketInv
  PROVE  PacketsApart
<1> SUFFICES ASSUME NEW j \in DOMAIN packets, NEW k \in DOMAIN packets, j < k
             PROVE  /\ packets[j].start + RowStride <= packets[k].start
                    /\ packets[j].bytes <= RowStride => packets[j].last < packets[k].start
  BY DEF PacketsApart
<1>1. IsList(row_isa) /\ packets[j] \in AllPackets(row_isa) /\ packets[k] \in AllPackets(row_isa)
  BY DEF PacketInv, GoodRows
<1>2. PICK a, b : a = packets[j].row /\ b = packets[k].row
  OBVIOUS
<1>3. /\ a \in DOMAIN row_isa /\ a \in Nat \ {0} /\ b \in DOMAIN row_isa /\ b \in Nat \ {0}
      /\ packets[j].start = Base(row_isa, a) /\ packets[k].start = Base(row_isa, b)
      /\ packets[j].bytes = RowBytes(row_isa[a])
      /\ packets[j].last = IF packets[j].fused THEN packets[j].start
                           ELSE packets[j].start + packets[j].bytes - 1
      /\ a <= LastRow(packets[j]) /\ LastRow(packets[j]) \in Nat
  BY <1>1, <1>2, PacketFields
<1>4. a < b
  BY <1>2, <1>3 DEF PacketInv, InLine
<1>5. PICK x, y : x = RegionBase(row_isa[a]) /\ y = RegionBase(row_isa[b])
  OBVIOUS
<1>6. x \in Int /\ y \in Int /\ x <= y /\ packets[j].bytes \in Int
  BY <1>3, <1>4, <1>5 DEF PacketInv, GoodRows, Ascending
<1>7. packets[j].start = x + (a - 1) * RowStride /\ packets[k].start = y + (b - 1) * RowStride
  BY <1>3, <1>5 DEF Base
<1>8. PICK d \in Nat : b - 1 = (a - 1) + 1 + d
  BY <1>3, <1>4, b - a - 1 \in Nat
<1>9. /\ (b - 1) * RowStride = (a - 1) * RowStride + RowStride + d * RowStride
      /\ d * RowStride \in Nat /\ (a - 1) * RowStride \in Nat
  <2>1. a - 1 \in Nat /\ RowStride \in Nat
    BY <1>3, AddressAssumption
  <2>2. (((a - 1) + 1) + d) * RowStride = (a - 1) * RowStride + RowStride + d * RowStride
        /\ (a - 1) * RowStride \in Nat /\ d * RowStride \in Nat
    BY <2>1, Distributed
  <2> QED BY <1>8, <2>2
<1>10. PICK u, v : u = (a - 1) * RowStride /\ v = d * RowStride
  OBVIOUS
<1>11. /\ u \in Nat /\ v \in Nat /\ RowStride \in Nat \ {0}
       /\ packets[j].start = x + u /\ packets[k].start = y + (u + RowStride + v)
  BY <1>7, <1>9, <1>10, AddressAssumption
<1>12. packets[j].start + RowStride <= packets[k].start
  BY <1>6, <1>11
<1>13. packets[j].bytes <= RowStride => packets[j].last < packets[k].start
  BY <1>3, <1>6, <1>11
<1> QED
  BY <1>12, <1>13

(* Every row of every list that emit_rows makes gets a packet, and no row  *)
(* gets two: no group of exp is left without one.                          *)
THEOREM RowsAreCarried == PacketSpec => []RowsCarried
<1>1. PacketInv => RowsCarried
  BY DEF PacketInv, Covered, RowsCarried
<1> QED
  BY <1>1, PacketInvInit, PacketInvStep, PTL DEF PacketSpec

(* The addresses of packets ascend by a row stride at least, and packets   *)
(* that fit in a stride have no address in common.                         *)
THEOREM PacketsAreApart == PacketSpec => []PacketsApart
<1>1. PacketInv => PacketsApart
  BY PacketInvApart
<1> QED
  BY <1>1, PacketInvInit, PacketInvStep, PTL DEF PacketSpec

-----------------------------------------------------------------------------
(***************************************************************************)
(* The files of the pipeline.                                              *)
(***************************************************************************)
Dirs == {j.dir : j \in Jobs}
Firsts == {j.first : j \in Jobs}
Phases == {"idle", "generate", "simulate", "collect", "write csv", "manifests", "compile",
           "table", "write table", "done", "stopped"}
Members(s) == {s[i] : i \in DOMAIN s}
Offered(j) == Members(TraceKeys(j))
Simulated(j) == Members(SimKeys(j))
Waiting == {Submitted[i] : i \in tasks}
Pool == Waiting \cup running
TraceOf(j, n) == Key(j, "pipeline_parallel", 0, n)
WithLeast == {D \in SUBSET Int : D = {} \/ \E n \in D : \A m \in D : n <= m}
LengthRows == UNION {[D -> Int] : D \in WithLeast}

(* The traces a length in the csv file of a directory may be of. *)
Sources(d, n) ==
  {k \in AllKeys : \E m \in Jobs : m.dir = d /\ n \in Lengths(m) /\ k = TraceOf(m, n)}

(* Types. *)
PipeTypes ==
  /\ job \in Jobs /\ phase \in Phases
  /\ tasks \subseteq DOMAIN Submitted /\ running \subseteq AllKeys
  /\ \A k \in AllKeys : written[k].lines \in Nat
  /\ traces \in [AllKeys -> [state : {"none", "cut", "whole"}, lines : Nat]]
  /\ \A k \in AllKeys : traces[k].state = "none" => traces[k] = NoTrace
  /\ logs \in [AllKeys -> Int]
  /\ DOMAIN saved \subseteq AllKeys
  /\ csv \in [Dirs -> [state : {"none", "cut", "whole"}, rows : LengthRows]]
  /\ table = [state |-> table.state, rows |-> table.rows]
  /\ interrupts \in Nat /\ failures \in Nat

(* A log has the cycles of its trace, and no trace is written again that has *)
(* one with any.                                                             *)
LogsTrue ==
  /\ \A k \in AllKeys : logs[k] \in {-1, 0, Cycles(traces[k])}
  /\ \A k \in AllKeys : k.mode = "model_parallel_embedding" => traces[k] = NoTrace
  /\ phase \notin {"generate", "simulate"} => PoolDone
  /\ phase = "generate" => \A k \in Pool : logs[k] <= 0 /\ k \in Offered(job)
  /\ phase = "simulate" => Pool \subseteq Simulated(job)
  /\ phase \in {"simulate", "collect"} =>
       /\ "ramulator" \in job.steps
       /\ \A k \in Simulated(job) : logs[k] >= 0 \/ k \in Pool

(* A length in a csv file has no cycles or those of the log of a case that *)
(* has the directory, which no simulator is writing.                       *)
CsvRows ==
  \A d \in Dirs : \A n \in DOMAIN csv[d].rows : \E k \in Sources(d, n) :
    \/ csv[d].rows[n] = 0
    \/ csv[d].rows[n] = logs[k] /\ csv[d].rows[n] > 0 /\ (phase = "simulate" => k \notin Pool)

CsvTrue ==
  /\ CsvRows
  /\ "ramulator" \in job.steps
       /\ phase \in {"write csv", "manifests", "compile", "table", "write table", "done"} =>
       /\ ~job.parallel /\ job.first \in DOMAIN csv[job.dir].rows
       /\ phase # "write csv" => csv[job.dir].state = "whole"
  /\ phase \in {"write table", "done"} =>
       /\ <<job.dir, job.first>> \in DOMAIN table.rows
       /\ table.rows[<<job.dir, job.first>>].pim = FirstRow

(* Only traces that leave work to others have a manifest. *)
SavedTrue ==
  /\ \A k \in DOMAIN saved : k.noc \/ k.sram
  /\ phase = "generate" =>
       \A k \in running : /\ traces[k].state # "none"
                          /\ traces[k].state = "whole" => k.noc \/ k.sram

Undisturbed ==
  interrupts = 0 =>
    /\ \A k \in AllKeys : traces[k].state # "none" =>
         \/ phase = "generate" /\ k \in running
         \/ traces[k].state = "whole" /\ (k.noc \/ k.sram => k \in DOMAIN saved)
    /\ phase \notin {"idle", "stopped"} /\ "cent" \in job.steps =>
         \A k \in Offered(job) :
           traces[k].state # "none" \/ (phase = "generate" /\ k \in Waiting)
    /\ table.state = "cut" => phase = "write table"
    /\ table.state \notin {"cut", "whole"} => table.rows = <<>>
    /\ \A d \in Dirs : csv[d].state = "whole" =>
         \/ \E n \in Firsts : <<d, n>> \in DOMAIN table.rows
         \/ d = job.dir /\ phase \in {"manifests", "compile", "table"}

LoggedRows ==
  \A d \in Dirs : \A n \in DOMAIN csv[d].rows : \E k \in Sources(d, n) :
    csv[d].rows[n] = logs[k] /\ logs[k] # -1

Unfailed ==
  interrupts = 0 /\ failures = 0 =>
    /\ \A k \in AllKeys : k.mode = "pipeline_parallel" =>
         logs[k] = -1 \/ (logs[k] = Cycles(traces[k]) /\ traces[k].state = "whole")
    /\ phase = "generate" =>
         \A k \in Pool : k.mode = "pipeline_parallel" => logs[k] = -1
    /\ LoggedRows

-----------------------------------------------------------------------------
(* The keys of an invocation. *)

(* A sequence given by a function, and its members.                         *)
LEMMA ListIs ==
  ASSUME NEW n \in Nat, NEW f, DOMAIN f = 1 .. n, f = [i \in 1 .. n |-> f[i]]
  PROVE  f \in Seq(Members(f)) /\ Len(f) = n
  BY DEF Members

(* The members of two sequences in a row. *)
LEMMA RowMembers ==
  ASSUME NEW X, NEW a \in Seq(X), NEW b \in Seq(X)
  PROVE  Members(a \o b) = Members(a) \cup Members(b)
<1>1. /\ Len(a) \in Nat /\ Len(b) \in Nat /\ Len(a \o b) = Len(a) + Len(b)
      /\ DOMAIN a = 1 .. Len(a) /\ DOMAIN b = 1 .. Len(b)
      /\ DOMAIN (a \o b) = 1 .. (Len(a) + Len(b))
  OBVIOUS
<1>2. \A i \in 1 .. Len(a) : (a \o b)[i] = a[i]
  OBVIOUS
<1>3. \A i \in 1 .. Len(b) : (a \o b)[Len(a) + i] = b[i]
  OBVIOUS
<1>4. ASSUME NEW x \in Members(a \o b)
      PROVE  x \in Members(a) \cup Members(b)
  <2>1. PICK i \in 1 .. (Len(a) + Len(b)) : x = (a \o b)[i]
    BY <1>1, <1>4 DEF Members
  <2>2. CASE i <= Len(a)
    BY <1>1, <1>2, <2>1, <2>2 DEF Members
  <2>3. CASE i > Len(a)
    <3>1. i - Len(a) \in 1 .. Len(b) /\ Len(a) + (i - Len(a)) = i
      BY <1>1, <2>1, <2>3
    <3>2. x = b[i - Len(a)]
      BY <1>3, <2>1, <3>1
    <3> QED
      BY <1>1, <3>1, <3>2 DEF Members
  <2> QED
    BY <1>1, <2>1, <2>2, <2>3
<1>5. ASSUME NEW x \in Members(a)
      PROVE  x \in Members(a \o b)
  <2>1. PICK i \in 1 .. Len(a) : x = a[i]
    BY <1>1, <1>5 DEF Members
  <2>2. i \in 1 .. (Len(a) + Len(b)) /\ x = (a \o b)[i]
    BY <1>1, <1>2, <2>1
  <2> QED
    BY <1>1, <2>2 DEF Members
<1>6. ASSUME NEW x \in Members(b)
      PROVE  x \in Members(a \o b)
  <2>1. PICK i \in 1 .. Len(b) : x = b[i]
    BY <1>1, <1>6 DEF Members
  <2>2. Len(a) + i \in 1 .. (Len(a) + Len(b)) /\ x = (a \o b)[Len(a) + i]
    BY <1>1, <1>3, <2>1
  <2> QED
    BY <1>1, <2>2 DEF Members
<1> QED
  BY <1>4, <1>5, <1>6

(* What the traces of an invocation are of. *)
LEMMA TraceKeysAre ==
  ASSUME NEW j \in Jobs
  PROVE  /\ Len(TraceKeys(j)) \in Nat \ {0}
         /\ TraceKeys(j) \in Seq(Offered(j)) /\ DOMAIN TraceKeys(j) = 1 .. Len(TraceKeys(j))
         /\ \A k \in Offered(j) :
              /\ k.noc = j.noc /\ k.sram = j.sram
              /\ k.mode = IF j.parallel THEN "model_parallel" ELSE "pipeline_parallel"
         /\ ~j.parallel => \A i \in DOMAIN j.seqs : TraceOf(j, j.seqs[i]) \in Offered(j)
<1> DEFINE n == Len(Factors)
           m == Len(j.seqs)
           s == TraceKeys(j)
<1>1. n \in Nat /\ n >= 1
  BY CasesAssumption
<1>2. m \in Nat /\ m >= 1 /\ DOMAIN j.seqs = 1 .. m
  <2>1. j.seqs \in Seq(Int) /\ \E i \in DOMAIN j.seqs : j.seqs[i] = j.first
    BY CasesAssumption
  <2>2. m \in Nat /\ DOMAIN j.seqs = 1 .. m
    BY <2>1
  <2>3. 1 .. m # {}
    BY <2>1, <2>2
  <2> QED
    BY <2>2, <2>3
<1> HIDE DEF n, m
<1>3. CASE j.parallel
  <2> DEFINE N == n * m
  <2>1. N \in Nat /\ N >= 1
    BY <1>1, <1>2
  <2> DEFINE F(i) == Key(j, "model_parallel", Factors[((i - 1) % n) + 1],
                         j.seqs[((i - 1) \div n) + 1])
  <2>2. s = [i \in 1 .. N |-> F(i)]
    BY <1>3 DEF TraceKeys, n, m
  <2> HIDE DEF N, s
  <2>3. DOMAIN s = 1 .. N /\ \A i \in 1 .. N : s[i] = F(i)
    BY <2>2
  <2>4. s = [i \in 1 .. N |-> s[i]]
    BY <2>2
  <2>5. s \in Seq(Members(s)) /\ Len(s) = N
    BY <2>1, <2>3, <2>4, ListIs
  <2>6. \A k \in Members(s) : k.noc = j.noc /\ k.sram = j.sram /\ k.mode = "model_parallel"
    BY <2>3 DEF Members, Key
  <2> QED
    BY <1>3, <2>1, <2>3, <2>5, <2>6 DEF s, Offered
<1>4. CASE ~j.parallel
  <2> DEFINE F(i) == Key(j, "pipeline_parallel", 0, j.seqs[i])
  <2>2. s = [i \in 1 .. m |-> F(i)]
    BY <1>4 DEF TraceKeys, m
  <2> HIDE DEF s
  <2>3. DOMAIN s = 1 .. m /\ \A i \in 1 .. m : s[i] = F(i)
    BY <2>2
  <2>4. s = [i \in 1 .. m |-> s[i]]
    BY <2>2
  <2>5. s \in Seq(Members(s)) /\ Len(s) = m
    BY <1>2, <2>3, <2>4, ListIs
  <2>6. \A k \in Members(s) : k.noc = j.noc /\ k.sram = j.sram /\ k.mode = "pipeline_parallel"
    BY <2>3 DEF Members, Key
  <2>7. \A i \in 1 .. m : TraceOf(j, j.seqs[i]) \in Members(s)
    BY <2>3 DEF Members, TraceOf
  <2> QED
    BY <1>2, <1>4, <2>3, <2>5, <2>6, <2>7 DEF s, Offered
<1> QED
  BY <1>3, <1>4

(* Those simulated are the same and some that nobody generates. *)
LEMMA SimKeysAre ==
  ASSUME NEW j \in Jobs
  PROVE  /\ Offered(j) \subseteq Simulated(j)
         /\ \A k \in Simulated(j) : k.mode = "pipeline_parallel" => k \in Offered(j)
         /\ j.parallel =>
              Key(j, "model_parallel_embedding", Factors[1], TotalLength) \in Simulated(j)
         /\ Simulated(j) \subseteq AllKeys
         /\ DOMAIN SimKeys(j) \subseteq Nat
<1> DEFINE own == TraceKeys(j)
           L == Len(own)
           n == Len(Factors)
<1>1. L \in Nat \ {0} /\ own \in Seq(Offered(j)) /\ DOMAIN own = 1 .. L
      /\ \A k \in Offered(j) :
           k.mode = IF j.parallel THEN "model_parallel" ELSE "pipeline_parallel"
  BY TraceKeysAre
<1>2. n \in Nat /\ n >= 1
  BY CasesAssumption
<1>3. \A i \in 1 .. L : own[i] \in Offered(j)
  BY <1>1 DEF Offered, Members
<1>4. Offered(j) = Members(own)
  BY DEF Offered
<1>5. Simulated(j) \subseteq AllKeys
  BY DEF Simulated, AllKeys, Members
<1> DEFINE Other(k) == [k EXCEPT !.mode = "model_parallel_FC"]
           a == [i \in 1 .. n |-> Key(j, "model_parallel_embedding", Factors[i], TotalLength)]
           b == [i \in 1 .. 2 * L |-> IF i % 2 = 1 THEN own[(i + 1) \div 2] ELSE Other(own[i \div 2])]
<1>6. CASE j.parallel
  <2>1. SimKeys(j) = a \o b
    BY <1>6 DEF SimKeys
  <2>2. 2 * L \in Nat
    BY <1>1
  <2>3. a \in Seq(Members(a)) /\ DOMAIN a = 1 .. n
    <3>1. DOMAIN a = 1 .. n /\ a = [i \in 1 .. n |-> a[i]]
      OBVIOUS
    <3> HIDE DEF a
    <3> QED
      BY <1>2, <3>1, ListIs
  <2>4. b \in Seq(Members(b)) /\ DOMAIN b = 1 .. 2 * L
    <3>1. DOMAIN b = 1 .. 2 * L /\ b = [i \in 1 .. 2 * L |-> b[i]]
      OBVIOUS
    <3> DEFINE M == 2 * L
    <3> HIDE DEF b, M
    <3> QED
      BY <2>2, <3>1, ListIs DEF M
  <2>5. \A x \in Members(a) : x.mode = "model_parallel_embedding"
    BY <2>3 DEF Members, Key
  <2>6. Key(j, "model_parallel_embedding", Factors[1], TotalLength) \in Members(a)
    BY <1>2, <2>3 DEF Members
  <2>7. \A i \in 1 .. 2 * L : b[i] \in Offered(j) \/ b[i].mode = "model_parallel_FC"
    <3> TAKE i \in 1 .. 2 * L
    <3>1. CASE i % 2 = 1
      <4>1. (i + 1) \div 2 \in 1 .. L
        BY <1>1, <3>1
      <4> QED
        BY <1>3, <3>1, <4>1
    <3>2. CASE i % 2 # 1
      <4>1. i \div 2 \in 1 .. L
        BY <1>1, <3>2
      <4>2. b[i] = Other(own[i \div 2])
        BY <3>2
      <4>3. "mode" \in DOMAIN own[i \div 2]
        <5>1. own[i \div 2] \in Members(own)
          BY <1>1, <4>1 DEF Members
        <5>2. PICK r \in 1 .. L : own[i \div 2] = own[r]
          BY <4>1
        <5>3. own[i \div 2] = Key(j, "model_parallel", own[i \div 2].devices, own[i \div 2].seq)
          BY <1>1, <1>6, <4>1 DEF TraceKeys, Key
        <5> QED
          BY <5>3 DEF Key
      <4> QED
        BY <4>2, <4>3
    <3> QED
      BY <3>1, <3>2
  <2>8. \A k \in 1 .. L : own[k] \in Members(b)
    <3> TAKE k \in 1 .. L
    <3>1. 2 * k - 1 \in 1 .. 2 * L /\ (2 * k - 1) % 2 = 1 /\ ((2 * k - 1) + 1) \div 2 = k
      BY <1>1
    <3>2. b[2 * k - 1] = own[k]
      BY <3>1
    <3> QED
      BY <2>4, <3>1, <3>2 DEF Members
  <2> HIDE DEF a, b
  <2>9. Simulated(j) = Members(a) \cup Members(b)
    <3>1. a \in Seq(Members(a) \cup Members(b)) /\ b \in Seq(Members(a) \cup Members(b))
      BY <2>3, <2>4
    <3> QED
      BY <2>1, <3>1, RowMembers DEF Simulated
  <2>12. DOMAIN SimKeys(j) \subseteq Nat
    BY <2>1, <2>3, <2>4
  <2>10. Offered(j) \subseteq Members(b)
    BY <1>1, <1>4, <2>8 DEF Members
  <2>11. \A x \in Members(b) : x \in Offered(j) \/ x.mode = "model_parallel_FC"
    BY <2>4, <2>7 DEF Members
  <2> QED
    BY <1>5, <2>5, <2>6, <2>9, <2>10, <2>11, <2>12
<1>7. CASE ~j.parallel
  <2> DEFINE e == <<Key(j, "pipeline_parallel_embedding", 0, TotalLength)>>
  <2>1. SimKeys(j) = e \o own
    BY <1>7 DEF SimKeys
  <2>2. e \in Seq(Members(e)) /\ \A x \in Members(e) : x.mode = "pipeline_parallel_embedding"
    BY DEF Members, Key
  <2> HIDE DEF e, own
  <2>3. Simulated(j) = Members(e) \cup Offered(j)
    <3>1. e \in Seq(Members(e) \cup Offered(j)) /\ own \in Seq(Members(e) \cup Offered(j))
      BY <1>1, <2>2
    <3> QED
      BY <1>4, <2>1, <3>1, RowMembers DEF Simulated
  <2>4. DOMAIN SimKeys(j) \subseteq Nat
    BY <1>1, <2>1, <2>2
  <2> QED
    BY <1>5, <1>7, <2>2, <2>3, <2>4
<1> QED
  BY <1>6, <1>7

-----------------------------------------------------------------------------
(* The pool. *)
FilesInv == PipeTypes /\ LogsTrue /\ CsvTrue /\ SavedTrue /\ Undisturbed /\ Unfailed

(* A set of naturals that is not empty has a least element. *)
LEMMA LeastTask ==
  ASSUME NEW T \in SUBSET Nat, T # {}
  PROVE  \E x \in T : \A y \in T : x <= y
<1> DEFINE Smaller == {ss \in Nat \X Nat : ss[1] < ss[2]}
<1>1. IsWellFoundedOn(Smaller, Nat)
  BY NatLessThanWellFounded DEF OpToRel
<1>2. \A x, y \in Nat : x < y => <<x, y>> \in Smaller
  OBVIOUS
<1> HIDE DEF Smaller
<1>3. PICK x \in T : \A y \in T : ~ (<<y, x>> \in Smaller)
  BY <1>1, WFMin
<1>4. \A y \in T : x <= y
  <2> TAKE y \in T
  <2>1. x \in Nat /\ y \in Nat
    BY <1>3
  <2>2. ~ (y < x)
    BY <1>2, <1>3, <2>1
  <2> QED
    BY <2>1, <2>2
<1> QED
  BY <1>3, <1>4

(* The tasks that wait are traces to write, or to simulate. *)
LEMMA PoolIs ==
  ASSUME PipeTypes
  PROVE  /\ job \in Jobs /\ tasks \subseteq Nat
         /\ Waiting \subseteq AllKeys /\ Pool \subseteq AllKeys
         /\ phase = "generate" => Waiting \subseteq Offered(job)
         /\ phase # "generate" => Waiting \subseteq Simulated(job)
<1>1. job \in Jobs /\ tasks \subseteq DOMAIN Submitted /\ running \subseteq AllKeys
  BY DEF PipeTypes
<1>2. CASE phase = "generate"
  <2>1. Submitted = TraceKeys(job)
    BY <1>2 DEF Submitted
  <2>2. Waiting \subseteq Offered(job)
    BY <1>1, <2>1 DEF Waiting, Offered, Members
  <2>3. tasks \subseteq Nat
    BY <1>1, <2>1, TraceKeysAre
  <2> QED
    BY <1>1, <1>2, <2>2, <2>3, SimKeysAre DEF Pool
<1>3. CASE phase # "generate"
  <2>1. Submitted = SimKeys(job)
    BY <1>3 DEF Submitted
  <2>2. Waiting \subseteq Simulated(job)
    BY <1>1, <2>1 DEF Waiting, Simulated, Members
  <2>3. tasks \subseteq Nat
    BY <1>1, <2>1, SimKeysAre
  <2> QED
    BY <1>1, <1>3, <2>2, <2>3, SimKeysAre DEF Pool
<1> QED
  BY <1>2, <1>3

(* A thread takes a task: the pool has the same ones. *)
LEMMA TaskTaken ==
  ASSUME PipeTypes, NEW workers, TakeTask(workers), UNCHANGED <<phase, job>>
  PROVE  /\ Submitted[Oldest] \in Waiting /\ running' = running \cup {Submitted[Oldest]}
         /\ Pool' = Pool /\ Waiting' \subseteq Waiting
         /\ Waiting \subseteq Waiting' \cup {Submitted[Oldest]}
         /\ tasks' \subseteq DOMAIN Submitted'
<1>1. tasks # {} /\ tasks' = tasks \ {Oldest} /\ running' = running \cup {Submitted[Oldest]}
  BY DEF TakeTask
<1>2. Oldest \in tasks
  <2>1. tasks \in SUBSET Nat
    BY PoolIs
  <2> QED
    BY <1>1, <2>1, LeastTask DEF Oldest
<1>3. Submitted' = Submitted
  BY DEF Submitted
<1>4. tasks' \subseteq DOMAIN Submitted'
  BY <1>1, <1>3 DEF PipeTypes
<1>5. Waiting' = {Submitted[i] : i \in tasks'}
  BY <1>3 DEF Waiting
<1>6. /\ Submitted[Oldest] \in Waiting /\ Waiting' \subseteq Waiting
      /\ Waiting \subseteq Waiting' \cup {Submitted[Oldest]}
  BY <1>1, <1>2, <1>5 DEF Waiting
<1> QED
  BY <1>1, <1>4, <1>6 DEF Pool

(* It is done with one. *)
LEMMA TaskDone ==
  ASSUME PipeTypes, UNCHANGED <<phase, job, tasks>>, NEW k \in running,
         running' = running \ {k}
  PROVE  /\ Waiting' = Waiting /\ Pool' \subseteq Pool /\ Pool \subseteq Pool' \cup {k}
         /\ k \in AllKeys /\ tasks' \subseteq DOMAIN Submitted'
<1>1. Submitted' = Submitted
  BY DEF Submitted
<1>2. Waiting' = Waiting
  BY <1>1 DEF Waiting
<1> QED
  BY <1>1, <1>2 DEF Pool, PipeTypes

(* Steps that change nothing of all this. *)
LEMMA Quiet ==
  ASSUME FilesInv, UNCHANGED <<written, phase, job, pool, files, interrupts, failures>>
  PROVE  FilesInv'
<1>1. UNCHANGED <<written, phase, job, tasks, running, traces, saved, logs, csv, table, interrupts, failures>>
  BY DEF pool, files
<1>2. Submitted' = Submitted /\ Waiting' = Waiting
  BY <1>1 DEF Submitted, Waiting
<1>3. Pool' = Pool /\ FirstRow' = FirstRow
  BY <1>1, <1>2 DEF Pool, FirstRow
<1>4. PipeTypes'
  BY <1>1, <1>2 DEF FilesInv, PipeTypes
<1>5. LogsTrue'
  BY <1>1, <1>3 DEF FilesInv, LogsTrue, PoolDone
<1>6. CsvTrue'
  BY <1>1, <1>3 DEF FilesInv, CsvTrue, CsvRows
<1>7. SavedTrue' /\ Undisturbed' /\ Unfailed'
  BY <1>1, <1>2, <1>3 DEF FilesInv, SavedTrue, Undisturbed, Unfailed, LoggedRows
<1> QED
  BY <1>4, <1>5, <1>6, <1>7 DEF FilesInv

(* The simulator counts some cycles, none without a trace. *)
LEMMA CyclesAre ==
  ASSUME PipeTypes, NEW k \in AllKeys
  PROVE  /\ Cycles(traces[k]) \in Nat
         /\ traces[k].state = "none" => traces[k] = NoTrace /\ Cycles(traces[k]) = 0
         /\ traces[k] = NoTrace => traces[k].state = "none"
         /\ traces[k].state \in {"none", "cut", "whole"} /\ traces[k].lines \in Nat
<1>1. traces[k] \in [state : {"none", "cut", "whole"}, lines : Nat]
  BY DEF PipeTypes
<1>2. traces[k].state \in {"none", "cut", "whole"} /\ traces[k].lines \in Nat
  BY <1>1
<1>3. Cycles(traces[k]) \in Nat
  BY <1>2 DEF Cycles
<1>4. traces[k].state = "none" => traces[k] = NoTrace
  BY DEF PipeTypes
<1>5. traces[k] = NoTrace => traces[k].state = "none" /\ Cycles(traces[k]) = 0
  <2>1. ASSUME traces[k] = NoTrace
        PROVE  traces[k].state = "none" /\ Cycles(traces[k]) = 0
    <3>1. traces[k].state = "none" /\ traces[k].lines = 0
      BY <2>1 DEF NoTrace
    <3>2. 0 \div 2 = 0
      OBVIOUS
    <3> QED
      BY <3>1, <3>2 DEF Cycles
  <2> QED
    BY <2>1
<1> QED
  BY <1>2, <1>3, <1>4, <1>5

(* The initial files. *)
LEMMA FilesBegin ==
  ASSUME FilesInit
  PROVE  FilesInv
<1>1. job \in Jobs
  BY PipelineAssumption DEF FilesInit
<1>2. Pool = {} /\ Waiting = {} /\ PoolDone
  BY DEF FilesInit, Pool, Waiting, PoolDone
<1>3. \A k \in AllKeys : traces[k] = NoTrace /\ logs[k] = -1
  BY DEF FilesInit
<1>4. \A k \in AllKeys : traces[k].state = "none"
  BY <1>3 DEF NoTrace
<1>5. \A k \in AllKeys : written[k].lines \in Nat
  BY TraceAssumption DEF FilesInit
<1>7. DOMAIN csv = Dirs /\ \A d \in Dirs : csv[d] = NoFile
  BY DEF FilesInit, Dirs
<1>8. \A d \in Dirs : csv[d].state = "none" /\ csv[d].rows = <<>>
  BY <1>7 DEF NoFile
<1>9. DOMAIN <<>> = {} /\ <<>> \in LengthRows
  <2>1. <<>> \in [{} -> Int] /\ {} \in WithLeast
    BY DEF WithLeast
  <2> QED
    BY <2>1 DEF LengthRows
<1>10. PipeTypes
  <2>1. traces \in [AllKeys -> [state : {"none", "cut", "whole"}, lines : Nat]]
    <3>1. NoTrace \in [state : {"none", "cut", "whole"}, lines : Nat]
      BY DEF NoTrace
    <3>2. traces = [k \in AllKeys |-> NoTrace]
      BY DEF FilesInit
    <3> QED
      BY <3>1, <3>2
  <2>2. csv \in [Dirs -> [state : {"none", "cut", "whole"}, rows : LengthRows]]
    <3>1. NoFile \in [state : {"none", "cut", "whole"}, rows : LengthRows]
      BY <1>9 DEF NoFile
    <3>2. csv = [d \in Dirs |-> NoFile]
      BY DEF FilesInit, Dirs
    <3> QED
      BY <3>1, <3>2
  <2>3. table = [state |-> table.state, rows |-> table.rows]
    <3>1. table = [state |-> "none", rows |-> <<>>]
      BY DEF FilesInit, NoFile
    <3> QED
      BY <3>1
  <2>4. logs \in [AllKeys -> Int] /\ DOMAIN saved \subseteq AllKeys
    BY <1>9 DEF FilesInit
  <2>5. tasks \subseteq DOMAIN Submitted /\ running \subseteq AllKeys /\ phase \in Phases
        /\ interrupts \in Nat /\ failures \in Nat
    BY DEF FilesInit, Phases
  <2> QED
    BY <1>1, <1>3, <1>5, <2>1, <2>2, <2>3, <2>4, <2>5 DEF PipeTypes
<1>11. phase = "idle" /\ saved = <<>> /\ table = NoFile /\ running = {}
  BY DEF FilesInit
<1>12. table.state = "none" /\ table.rows = <<>>
  BY <1>11 DEF NoFile
<1>13. LogsTrue
  BY <1>2, <1>3, <1>11 DEF LogsTrue
<1>14. CsvTrue
  BY <1>8, <1>9, <1>11 DEF CsvTrue, CsvRows
<1>15. SavedTrue
  BY <1>9, <1>11 DEF SavedTrue
<1>16. Undisturbed
  BY <1>4, <1>8, <1>11, <1>12 DEF Undisturbed
<1>17. Unfailed
  BY <1>2, <1>3, <1>8, <1>9 DEF Unfailed, LoggedRows
<1> QED
  BY <1>10, <1>13, <1>14, <1>15, <1>16, <1>17 DEF FilesInv

(* An invocation begins: it leaves alone what an earlier one has begun. *)
LEMMA StartKeeps ==
  ASSUME FilesInv, Start
  PROVE  FilesInv'
<1>1. PICK j \in Jobs :
        /\ job' = j
        /\ tasks' = IF "cent" \in j.steps
                    THEN {i \in DOMAIN TraceKeys(j) : traces[TraceKeys(j)[i]] = NoTrace}
                    ELSE {}
  BY DEF Start
<1>2. /\ phase \in {"idle", "done", "stopped"} /\ phase' = "generate"
      /\ UNCHANGED <<written, running, traces, saved, logs, csv, table, interrupts, failures>>
  BY DEF Start, AtRest, files
<1>3. running = {} /\ running' = {}
  BY <1>2 DEF FilesInv, LogsTrue, PoolDone
<1>4. Submitted' = TraceKeys(j)
  BY <1>1, <1>2 DEF Submitted
<1>5. Pool' = Waiting' /\ Waiting' = {TraceKeys(j)[i] : i \in tasks'}
  BY <1>3, <1>4 DEF Pool, Waiting
<1>6. tasks' \subseteq DOMAIN TraceKeys(j)
      /\ \A i \in tasks' : traces[TraceKeys(j)[i]] = NoTrace
  BY <1>1
<1>7. \A k \in Waiting' : k \in Offered(j) /\ traces[k] = NoTrace /\ k \in AllKeys
  <2>1. \A k \in Waiting' : k \in Offered(j) /\ traces[k] = NoTrace
    BY <1>5, <1>6 DEF Offered, Members
  <2> QED
    BY <2>1, SimKeysAre
<1>8. "cent" \in j.steps => \A k \in Offered(j) : traces[k] # NoTrace \/ k \in Waiting'
  BY <1>1, <1>5 DEF Offered, Members
<1>9. PipeTypes
  BY DEF FilesInv
<1>10. PipeTypes'
  BY <1>1, <1>2, <1>3, <1>4, <1>6 DEF FilesInv, PipeTypes, Phases
<1>11. \A k \in Waiting' : logs[k] \in {-1, 0} /\ traces[k].state = "none"
  <2> TAKE k \in Waiting'
  <2>1. logs[k] \in {-1, 0, Cycles(traces[k])}
    BY <1>7 DEF FilesInv, LogsTrue
  <2> QED
    BY <1>7, <1>9, <2>1, CyclesAre
<1>12. LogsTrue'
  BY <1>1, <1>2, <1>5, <1>7, <1>11 DEF FilesInv, LogsTrue
<1>13. CsvTrue'
  BY <1>1, <1>2 DEF FilesInv, CsvTrue, CsvRows
<1>14. SavedTrue'
  BY <1>2, <1>3 DEF FilesInv, SavedTrue
<1>15. Undisturbed'
  <2> SUFFICES ASSUME interrupts' = 0
               PROVE  Undisturbed'
    BY DEF Undisturbed
  <2>1. \A k \in AllKeys : traces[k].state # "none" =>
          traces[k].state = "whole" /\ (k.noc \/ k.sram => k \in DOMAIN saved)
    BY <1>2 DEF FilesInv, Undisturbed
  <2>2. "cent" \in j.steps => \A k \in Offered(j) : traces[k].state # "none" \/ k \in Waiting'
    <3>1. \A k \in Offered(j) : k \in AllKeys
      BY SimKeysAre
    <3> QED
      BY <1>8, <1>9, <3>1, CyclesAre
  <2>3. /\ table.state # "cut"
        /\ table.state \notin {"cut", "whole"} => table.rows = <<>>
        /\ \A d \in Dirs : csv[d].state = "whole" => \E n \in Firsts : <<d, n>> \in DOMAIN table.rows
    BY <1>2 DEF FilesInv, Undisturbed
  <2> QED
    BY <1>1, <1>2, <2>1, <2>2, <2>3 DEF Undisturbed
<1>16. Unfailed'
  <2> SUFFICES ASSUME interrupts' = 0, failures' = 0
               PROVE  Unfailed'
    BY DEF Unfailed, LoggedRows
  <2>1. /\ \A k \in AllKeys : k.mode = "pipeline_parallel" =>
             logs[k] = -1 \/ (logs[k] = Cycles(traces[k]) /\ traces[k].state = "whole")
        /\ \A d \in Dirs : \A n \in DOMAIN csv[d].rows : \E k \in Sources(d, n) :
             csv[d].rows[n] = logs[k] /\ logs[k] # -1
    BY <1>2 DEF FilesInv, Unfailed, LoggedRows
  <2>2. \A k \in Pool' : k.mode = "pipeline_parallel" => logs[k] = -1
    BY <1>5, <1>7, <1>11, <2>1
  <2> QED
    BY <1>2, <2>1, <2>2 DEF Unfailed, LoggedRows
<1> QED
  BY <1>10, <1>12, <1>13, <1>14, <1>15, <1>16 DEF FilesInv

(* The threads write only traces that have no cycles yet. *)
LEMMA Generating ==
  ASSUME FilesInv, PipeTypes', phase = "generate",
         UNCHANGED <<phase, job, logs, csv, table, interrupts, failures>>,
         Pool' \subseteq Pool,
         \A k \in AllKeys : k \notin Pool => traces'[k] = traces[k]
  PROVE  LogsTrue' /\ CsvTrue' /\ Unfailed'
<1>1. PipeTypes
  BY DEF FilesInv
<1>2. \A k \in Pool : k \in AllKeys /\ k \in Offered(job) /\ logs[k] \in {-1, 0}
  <2> TAKE k \in Pool
  <2>1. k \in AllKeys
    BY <1>1, PoolIs
  <2>2. logs[k] \in {-1, 0, Cycles(traces[k])} /\ logs[k] <= 0 /\ k \in Offered(job)
    BY <2>1 DEF FilesInv, LogsTrue
  <2>3. Cycles(traces[k]) \in Nat
    BY <1>1, <2>1, CyclesAre
  <2> QED
    BY <2>1, <2>2, <2>3
<1>3. \A k \in Pool : k.mode # "model_parallel_embedding"
  <2> TAKE k \in Pool
  <2>1. k \in Offered(job) /\ job \in Jobs
    BY <1>1, <1>2, PoolIs
  <2>2. k.mode = IF job.parallel THEN "model_parallel" ELSE "pipeline_parallel"
    BY <2>1, TraceKeysAre
  <2> QED
    BY <2>2
<1>4. LogsTrue'
  <2>1. \A k \in AllKeys : logs'[k] \in {-1, 0, Cycles(traces'[k])}
    <3> TAKE k \in AllKeys
    <3>1. CASE k \in Pool
      BY <1>2, <3>1
    <3>2. CASE k \notin Pool
      BY <3>2 DEF FilesInv, LogsTrue
    <3> QED
      BY <3>1, <3>2
  <2>2. \A k \in AllKeys : k.mode = "model_parallel_embedding" => traces'[k] = NoTrace
    BY <1>3 DEF FilesInv, LogsTrue
  <2>3. \A k \in Pool' : logs'[k] <= 0 /\ k \in Offered(job')
    BY <1>2
  <2>4. phase' = "generate"
    OBVIOUS
  <2> QED
    BY <2>1, <2>2, <2>3, <2>4 DEF LogsTrue
<1>5. CsvTrue'
  BY DEF FilesInv, CsvTrue, CsvRows
<1>6. Unfailed'
  <2> SUFFICES ASSUME interrupts' = 0, failures' = 0
               PROVE  Unfailed'
    BY DEF Unfailed, LoggedRows
  <2>1. /\ \A k \in AllKeys : k.mode = "pipeline_parallel" =>
             logs[k] = -1 \/ (logs[k] = Cycles(traces[k]) /\ traces[k].state = "whole")
        /\ \A k \in Pool : k.mode = "pipeline_parallel" => logs[k] = -1
        /\ \A d \in Dirs : \A n \in DOMAIN csv[d].rows : \E k \in Sources(d, n) :
             csv[d].rows[n] = logs[k] /\ logs[k] # -1
    BY DEF FilesInv, Unfailed, LoggedRows
  <2>2. \A k \in AllKeys : k.mode = "pipeline_parallel" =>
          logs'[k] = -1 \/ (logs'[k] = Cycles(traces'[k]) /\ traces'[k].state = "whole")
    <3> TAKE k \in AllKeys
    <3>1. CASE k \in Pool
      BY <2>1, <3>1
    <3>2. CASE k \notin Pool
      BY <2>1, <3>2
    <3> QED
      BY <3>1, <3>2
  <2> QED
    BY <2>1, <2>2 DEF Unfailed, LoggedRows
<1> QED
  BY <1>4, <1>5, <1>6

(* A thread opens the file of a trace that nothing has been simulated of. *)
LEMMA OpenTraceKeeps ==
  ASSUME FilesInv, OpenTrace
  PROVE  FilesInv'
<1> DEFINE k == Submitted[Oldest]
<1>1. /\ phase = "generate" /\ TakeTask(GenWorkers)
      /\ traces' = [traces EXCEPT ![k] = [state |-> "cut", lines |-> written[k].lines]]
      /\ UNCHANGED <<written, phase, job, saved, logs, csv, table, interrupts, failures>>
  BY DEF OpenTrace, bounds
<1>2. PipeTypes
  BY DEF FilesInv
<1>3. /\ k \in Waiting /\ running' = running \cup {k}
      /\ Pool' = Pool /\ Waiting' \subseteq Waiting /\ Waiting \subseteq Waiting' \cup {k}
      /\ tasks' \subseteq DOMAIN Submitted'
  BY <1>1, <1>2, TaskTaken
<1>4. k \in AllKeys /\ k \in Pool
  BY <1>2, <1>3, PoolIs DEF Pool
<1> HIDE DEF k
<1>5. /\ DOMAIN traces = AllKeys /\ DOMAIN traces' = AllKeys
      /\ traces'[k].state = "cut" /\ traces'[k].lines \in Nat
      /\ \A x \in AllKeys : x # k => traces'[x] = traces[x]
  BY <1>1, <1>2, <1>4 DEF PipeTypes
<1>6. PipeTypes'
  <2>1. traces' \in [AllKeys -> [state : {"none", "cut", "whole"}, lines : Nat]]
    BY <1>1, <1>2, <1>4 DEF PipeTypes
  <2>2. \A x \in AllKeys : traces'[x].state = "none" => traces'[x] = NoTrace
    BY <1>2, <1>5 DEF PipeTypes
  <2>3. running' \subseteq AllKeys
    BY <1>2, <1>3, <1>4 DEF PipeTypes
  <2> QED
    BY <1>1, <1>2, <1>3, <2>1, <2>2, <2>3 DEF PipeTypes
<1>7. LogsTrue' /\ CsvTrue' /\ Unfailed'
  BY <1>1, <1>3, <1>4, <1>5, <1>6, Generating
<1>8. SavedTrue'
  <2>1. running \subseteq AllKeys
    BY <1>2 DEF PipeTypes
  <2> QED
    BY <1>1, <1>3, <1>5, <2>1 DEF FilesInv, SavedTrue
<1>9. Undisturbed'
  <2> SUFFICES ASSUME interrupts' = 0
               PROVE  Undisturbed'
    BY DEF Undisturbed
  <2>0. Undisturbed /\ interrupts = 0
    BY <1>1 DEF FilesInv
  <2>1. \A x \in AllKeys : traces'[x].state # "none" =>
          \/ x \in running'
          \/ traces'[x].state = "whole" /\ (x.noc \/ x.sram => x \in DOMAIN saved')
    <3> TAKE x \in AllKeys
    <3>1. CASE x = k
      BY <1>3, <3>1
    <3>2. CASE x # k
      BY <1>1, <1>3, <1>5, <2>0, <3>2 DEF Undisturbed
    <3> QED
      BY <3>1, <3>2
  <2>2. "cent" \in job.steps =>
          \A x \in Offered(job) : traces'[x].state # "none" \/ x \in Waiting'
    <3> SUFFICES ASSUME "cent" \in job.steps, NEW x \in Offered(job)
                 PROVE  traces'[x].state # "none" \/ x \in Waiting'
      OBVIOUS
    <3>1. CASE x = k
      BY <1>5, <3>1
    <3>2. CASE x # k
      <4>1. x \in AllKeys
        BY <1>2, PoolIs, SimKeysAre
      <4>2. traces[x].state # "none" \/ x \in Waiting
        BY <1>1, <2>0 DEF Undisturbed
      <4> QED
        BY <1>3, <1>5, <3>2, <4>1, <4>2
    <3> QED
      BY <3>1, <3>2
  <2>3. /\ table.state # "cut"
        /\ table.state \notin {"cut", "whole"} => table.rows = <<>>
        /\ \A d \in Dirs : csv[d].state = "whole" => \E n \in Firsts : <<d, n>> \in DOMAIN table.rows
    BY <1>1, <2>0 DEF Undisturbed
  <2>4. phase' = "generate" /\ job' = job /\ table' = table /\ csv' = csv
    BY <1>1
  <2> QED
    BY <2>1, <2>2, <2>3, <2>4 DEF Undisturbed
<1> QED
  BY <1>6, <1>7, <1>8, <1>9 DEF FilesInv

(* It closes it: a trace that leaves nothing to others is done. *)
LEMMA CloseTraceKeeps ==
  ASSUME FilesInv, CloseTrace
  PROVE  FilesInv'
<1>1. PICK k \in running :
        /\ traces[k].state = "cut"
        /\ traces' = [traces EXCEPT ![k].state = "whole"]
        /\ running' = IF k.noc \/ k.sram THEN running ELSE running \ {k}
  BY DEF CloseTrace
<1>2. /\ phase = "generate"
      /\ UNCHANGED <<written, phase, job, tasks, saved, logs, csv, table, interrupts, failures>>
  BY DEF CloseTrace, bounds
<1>3. PipeTypes
  BY DEF FilesInv
<1>4. k \in AllKeys /\ k \in Pool
  BY <1>3 DEF PipeTypes, Pool
<1>5. /\ DOMAIN traces = AllKeys /\ DOMAIN traces' = AllKeys
      /\ traces'[k].state = "whole" /\ traces'[k] \in [state : {"none", "cut", "whole"}, lines : Nat]
      /\ \A x \in AllKeys : x # k => traces'[x] = traces[x]
  <2>1. DOMAIN traces = AllKeys /\ traces[k] \in [state : {"none", "cut", "whole"}, lines : Nat]
    BY <1>3, <1>4 DEF PipeTypes
  <2>2. traces'[k] = [traces[k] EXCEPT !.state = "whole"]
    BY <1>1, <1>4, <2>1
  <2>3. traces'[k].state = "whole" /\ traces'[k] \in [state : {"none", "cut", "whole"}, lines : Nat]
    BY <2>1, <2>2
  <2> QED
    BY <1>1, <2>1, <2>3
<1>6. Submitted' = Submitted /\ Waiting' = Waiting /\ Pool' \subseteq Pool /\ running' \subseteq running
  <2>1. Submitted' = Submitted
    BY <1>2 DEF Submitted
  <2>2. Waiting' = Waiting
    BY <1>2, <2>1 DEF Waiting
  <2> QED
    BY <1>1, <2>1, <2>2 DEF Pool
<1>7. PipeTypes'
  <2>1. traces' \in [AllKeys -> [state : {"none", "cut", "whole"}, lines : Nat]]
    <3>1. \A x \in AllKeys : traces'[x] \in [state : {"none", "cut", "whole"}, lines : Nat]
      BY <1>3, <1>5 DEF PipeTypes
    <3> QED
      BY <1>1, <1>3, <1>5, <3>1 DEF PipeTypes
  <2>2. \A x \in AllKeys : traces'[x].state = "none" => traces'[x] = NoTrace
    BY <1>3, <1>5 DEF PipeTypes
  <2> QED
    BY <1>2, <1>3, <1>6, <2>1, <2>2 DEF PipeTypes
<1>8. LogsTrue' /\ CsvTrue' /\ Unfailed'
  BY <1>2, <1>4, <1>5, <1>6, <1>7, Generating
<1>9. SavedTrue'
  <2>1. running \subseteq AllKeys
    BY <1>3 DEF PipeTypes
  <2>2. \A x \in running' : traces'[x].state # "none" /\ (traces'[x].state = "whole" => x.noc \/ x.sram)
    <3> TAKE x \in running'
    <3>1. CASE x = k
      BY <1>1, <1>5, <3>1
    <3>2. CASE x # k
      BY <1>2, <1>5, <1>6, <2>1, <3>2 DEF FilesInv, SavedTrue
    <3> QED
      BY <3>1, <3>2
  <2> QED
    BY <1>2, <2>2 DEF FilesInv, SavedTrue
<1>10. Undisturbed'
  <2> SUFFICES ASSUME interrupts' = 0
               PROVE  Undisturbed'
    BY DEF Undisturbed
  <2>0. Undisturbed /\ interrupts = 0
    BY <1>2 DEF FilesInv
  <2>1. \A x \in AllKeys : traces'[x].state # "none" =>
          \/ x \in running'
          \/ traces'[x].state = "whole" /\ (x.noc \/ x.sram => x \in DOMAIN saved')
    <3> TAKE x \in AllKeys
    <3>1. CASE x = k
      BY <1>1, <1>5, <3>1
    <3>2. CASE x # k
      <4>1. running' = running \/ running' = running \ {k}
        BY <1>1
      <4>2. x \in running => x \in running'
        BY <3>2, <4>1
      <4> QED
        BY <1>2, <1>5, <2>0, <3>2, <4>2 DEF Undisturbed
    <3> QED
      BY <3>1, <3>2
  <2>2. "cent" \in job.steps =>
          \A x \in Offered(job) : traces'[x].state # "none" \/ x \in Waiting'
    <3> SUFFICES ASSUME "cent" \in job.steps, NEW x \in Offered(job)
                 PROVE  traces'[x].state # "none" \/ x \in Waiting'
      OBVIOUS
    <3>1. CASE x = k
      BY <1>5, <3>1
    <3>2. CASE x # k
      <4>1. x \in AllKeys
        BY <1>3, PoolIs, SimKeysAre
      <4>2. traces[x].state # "none" \/ x \in Waiting
        BY <1>2, <2>0 DEF Undisturbed
      <4> QED
        BY <1>5, <1>6, <3>2, <4>1, <4>2
    <3> QED
      BY <3>1, <3>2
  <2>3. /\ table.state # "cut"
        /\ table.state \notin {"cut", "whole"} => table.rows = <<>>
        /\ \A d \in Dirs : csv[d].state = "whole" => \E n \in Firsts : <<d, n>> \in DOMAIN table.rows
    BY <1>2, <2>0 DEF Undisturbed
  <2>4. phase' = "generate" /\ job' = job /\ table' = table /\ csv' = csv
    BY <1>2
  <2> QED
    BY <2>1, <2>2, <2>3, <2>4 DEF Undisturbed
<1> QED
  BY <1>7, <1>8, <1>9, <1>10 DEF FilesInv

(* The entries of a file that one is added to. *)
LEMMA PutIs ==
  ASSUME NEW f, NEW x, NEW y
  PROVE  /\ DOMAIN Put(f, x, y) = DOMAIN f \cup {x}
         /\ Put(f, x, y)[x] = y
         /\ \A z \in DOMAIN f : z # x => Put(f, x, y)[z] = f[z]
<1> DEFINE g == [z \in {x} |-> y]
<1>1. DOMAIN g = {x} /\ g[x] = y
  OBVIOUS
<1> HIDE DEF g
<1>2. Put(f, x, y) = [z \in {x} \cup DOMAIN f |-> IF z \in {x} THEN g[z] ELSE f[z]]
  BY <1>1 DEF Put, Over, g
<1> QED
  BY <1>1, <1>2

(* It saves the manifest of one that does. *)
LEMMA SaveManifestKeeps ==
  ASSUME FilesInv, SaveManifest
  PROVE  FilesInv'
<1>1. PICK k \in running :
        /\ traces[k].state = "whole"
        /\ saved' = Put(saved, k, written[k].events)
        /\ running' = running \ {k}
  BY DEF SaveManifest
<1>2. /\ phase = "generate"
      /\ UNCHANGED <<written, phase, job, tasks, traces, logs, csv, table, interrupts, failures>>
  BY DEF SaveManifest, bounds
<1>3. PipeTypes
  BY DEF FilesInv
<1>4. /\ Waiting' = Waiting /\ Pool' \subseteq Pool /\ k \in AllKeys
      /\ tasks' \subseteq DOMAIN Submitted'
  BY <1>1, <1>2, <1>3, TaskDone
<1>5. DOMAIN saved' = DOMAIN saved \cup {k}
  BY <1>1, PutIs
<1>6. PipeTypes'
  BY <1>1, <1>2, <1>3, <1>4, <1>5 DEF PipeTypes
<1>7. LogsTrue' /\ CsvTrue' /\ Unfailed'
  BY <1>2, <1>4, <1>6, Generating
<1>8. SavedTrue'
  <2>1. k.noc \/ k.sram
    BY <1>1, <1>2 DEF FilesInv, SavedTrue
  <2> QED
    BY <1>1, <1>2, <1>5, <2>1 DEF FilesInv, SavedTrue
<1>9. Undisturbed'
  <2> SUFFICES ASSUME interrupts' = 0
               PROVE  Undisturbed'
    BY DEF Undisturbed
  <2>0. Undisturbed /\ interrupts = 0
    BY <1>2 DEF FilesInv
  <2>1. \A x \in AllKeys : traces'[x].state # "none" =>
          \/ x \in running'
          \/ traces'[x].state = "whole" /\ (x.noc \/ x.sram => x \in DOMAIN saved')
    BY <1>1, <1>2, <1>5, <2>0 DEF Undisturbed
  <2>2. "cent" \in job.steps =>
          \A x \in Offered(job) : traces'[x].state # "none" \/ x \in Waiting'
    BY <1>2, <1>4, <2>0 DEF Undisturbed
  <2>3. /\ table.state # "cut"
        /\ table.state \notin {"cut", "whole"} => table.rows = <<>>
        /\ \A d \in Dirs : csv[d].state = "whole" => \E n \in Firsts : <<d, n>> \in DOMAIN table.rows
    BY <1>2, <2>0 DEF Undisturbed
  <2>4. phase' = "generate" /\ job' = job /\ table' = table /\ csv' = csv
    BY <1>2
  <2> QED
    BY <2>1, <2>2, <2>3, <2>4 DEF Undisturbed
<1> QED
  BY <1>6, <1>7, <1>8, <1>9 DEF FilesInv

(* run_sim.py submits the traces without cycles: no csv file has any for their *)
(* lengths.                                                                *)
LEMMA EndGenerateKeeps ==
  ASSUME FilesInv, EndGenerate
  PROVE  FilesInv'
<1>1. /\ phase = "generate" /\ tasks = {} /\ running = {} /\ running' = {}
      /\ UNCHANGED <<written, job, traces, saved, logs, csv, table, interrupts, failures>>
  BY DEF EndGenerate, PoolDone, files, bounds
<1>2. \/ /\ "ramulator" \in job.steps /\ phase' = "simulate"
         /\ tasks' = {i \in DOMAIN SimKeys(job) : logs[SimKeys(job)[i]] <= 0}
      \/ "ramulator" \notin job.steps /\ phase' = "manifests" /\ tasks' = {}
  BY <1>1 DEF EndGenerate
<1>3. PipeTypes
  BY DEF FilesInv
<1>4. /\ Submitted' = SimKeys(job) /\ tasks' \subseteq DOMAIN SimKeys(job)
      /\ \A i \in tasks' : logs[SimKeys(job)[i]] <= 0
      /\ Waiting' = {SimKeys(job)[i] : i \in tasks'} /\ Pool' = Waiting'
  <2>1. Submitted' = SimKeys(job)
    BY <1>1, <1>2 DEF Submitted
  <2> QED
    BY <1>1, <1>2, <2>1 DEF Waiting, Pool
<1>5. Waiting = {} /\ Pool = {}
  BY <1>1 DEF Waiting, Pool
<1>6. \A k \in Pool' : k \in Simulated(job) /\ logs[k] <= 0
  BY <1>4 DEF Simulated, Members
<1>7. PipeTypes'
  <2>1. phase' \in Phases
    BY <1>2 DEF Phases
  <2> QED
    BY <1>1, <1>3, <1>4, <2>1 DEF PipeTypes
<1>8. LogsTrue'
  <2>1. /\ \A k \in AllKeys : logs'[k] \in {-1, 0, Cycles(traces'[k])}
        /\ \A k \in AllKeys : k.mode = "model_parallel_embedding" => traces'[k] = NoTrace
    BY <1>1 DEF FilesInv, LogsTrue
  <2>2. phase' = "simulate" =>
          /\ "ramulator" \in job'.steps
          /\ \A k \in Simulated(job') : logs'[k] >= 0 \/ k \in Pool'
    <3> SUFFICES ASSUME phase' = "simulate"
                 PROVE  /\ "ramulator" \in job.steps
                        /\ \A k \in Simulated(job) : logs[k] >= 0 \/ k \in Pool'
      BY <1>1
    <3>1. /\ "ramulator" \in job.steps
          /\ tasks' = {i \in DOMAIN SimKeys(job) : logs[SimKeys(job)[i]] <= 0}
      BY <1>2
    <3>2. \A k \in Simulated(job) : logs[k] <= 0 => k \in Pool'
      BY <1>4, <3>1 DEF Simulated, Members
    <3>3. \A k \in Simulated(job) : logs[k] \in Int
      <4>1. Simulated(job) \subseteq AllKeys
        BY <1>3, PoolIs, SimKeysAre
      <4> QED
        BY <1>3, <4>1 DEF PipeTypes
    <3> QED
      BY <3>1, <3>2, <3>3
  <2>3. phase' \notin {"generate", "simulate"} => PoolDone'
    BY <1>1, <1>2 DEF PoolDone
  <2> QED
    BY <1>1, <1>2, <1>6, <2>1, <2>2, <2>3 DEF LogsTrue
<1>9. CsvTrue'
  <2>1. \A d \in Dirs : \A n \in DOMAIN csv[d].rows : \E k \in Sources(d, n) :
           csv[d].rows[n] = 0 \/ (csv[d].rows[n] = logs[k] /\ csv[d].rows[n] > 0)
    BY DEF FilesInv, CsvTrue, CsvRows
  <2>2. ASSUME NEW d \in Dirs, NEW n \in DOMAIN csv[d].rows
        PROVE  \E k \in Sources(d, n) :
                 csv[d].rows[n] = 0
                 \/ (csv[d].rows[n] = logs[k] /\ csv[d].rows[n] > 0 /\ k \notin Pool')
    <3>1. PICK k \in Sources(d, n) :
            csv[d].rows[n] = 0 \/ (csv[d].rows[n] = logs[k] /\ csv[d].rows[n] > 0)
      BY <2>1
    <3>2. k \in AllKeys
      BY DEF Sources
    <3>3. logs[k] > 0 => k \notin Pool'
      <4>1. logs[k] \in Int
        BY <1>3, <3>2 DEF PipeTypes
      <4> QED
        BY <1>6, <4>1
    <3> QED
      BY <3>1, <3>3
  <2>3. phase' \in {"write csv", "manifests", "compile", "table", "write table", "done"}
          => "ramulator" \notin job'.steps
    BY <1>1, <1>2
  <2>4. phase' \notin {"write table", "done"}
    BY <1>2
  <2> QED
    BY <1>1, <2>2, <2>3, <2>4 DEF CsvTrue, CsvRows
<1>10. SavedTrue'
  BY <1>1, <1>2 DEF FilesInv, SavedTrue
<1>11. Undisturbed'
  <2> SUFFICES ASSUME interrupts' = 0
               PROVE  Undisturbed'
    BY DEF Undisturbed
  <2>0. Undisturbed /\ interrupts = 0
    BY <1>1 DEF FilesInv
  <2>1. \A x \in AllKeys : traces[x].state # "none" =>
          traces[x].state = "whole" /\ (x.noc \/ x.sram => x \in DOMAIN saved)
    BY <1>1, <2>0 DEF Undisturbed
  <2>2. "cent" \in job.steps => \A x \in Offered(job) : traces[x].state # "none"
    BY <1>1, <1>5, <2>0 DEF Undisturbed
  <2>3. /\ table.state # "cut"
        /\ table.state \notin {"cut", "whole"} => table.rows = <<>>
        /\ \A d \in Dirs : csv[d].state = "whole" => \E n \in Firsts : <<d, n>> \in DOMAIN table.rows
    BY <1>1, <2>0 DEF Undisturbed
  <2> QED
    BY <1>1, <2>1, <2>2, <2>3 DEF Undisturbed
<1>12. Unfailed'
  BY <1>1, <1>2 DEF FilesInv, Unfailed, LoggedRows
<1> QED
  BY <1>7, <1>8, <1>9, <1>10, <1>11, <1>12 DEF FilesInv

(* A thread starts a simulator. *)
LEMMA RunSimulatorKeeps ==
  ASSUME FilesInv, RunSimulator
  PROVE  FilesInv'
<1>1. /\ phase = "simulate" /\ TakeTask(SimWorkers)
      /\ UNCHANGED <<written, phase, job, traces, saved, logs, csv, table, interrupts, failures>>
  BY DEF RunSimulator, files, bounds
<1>2. PipeTypes
  BY DEF FilesInv
<1>3. /\ Submitted[Oldest] \in Waiting /\ running' = running \cup {Submitted[Oldest]}
      /\ Pool' = Pool /\ tasks' \subseteq DOMAIN Submitted'
  BY <1>1, <1>2, TaskTaken
<1>4. Submitted[Oldest] \in AllKeys
  BY <1>2, <1>3, PoolIs
<1>5. PipeTypes'
  BY <1>1, <1>2, <1>3, <1>4 DEF PipeTypes
<1>6. LogsTrue'
  BY <1>1, <1>3 DEF FilesInv, LogsTrue
<1>7. CsvTrue'
  BY <1>1, <1>3 DEF FilesInv, CsvTrue, CsvRows
<1>8. SavedTrue'
  BY <1>1 DEF FilesInv, SavedTrue
<1>9. Undisturbed'
  BY <1>1 DEF FilesInv, Undisturbed
<1>10. Unfailed'
  BY <1>1 DEF FilesInv, Unfailed, LoggedRows
<1> QED
  BY <1>5, <1>6, <1>7, <1>8, <1>9, <1>10 DEF FilesInv

(* A simulator has ended.  It had no cycles to lose; without a failure the   *)
(* trace it was given is whole.                                              *)
LEMMA Logged ==
  ASSUME FilesInv, phase = "simulate",
         UNCHANGED <<written, phase, job, tasks, traces, saved, csv, table, interrupts>>,
         NEW k \in running, running' = running \ {k},
         NEW c \in {0, Cycles(traces[k])}, logs' = [logs EXCEPT ![k] = c],
         failures' \in Nat, failures' = 0 => failures = 0 /\ c = Cycles(traces[k])
  PROVE  FilesInv'
<1>1. PipeTypes
  BY DEF FilesInv
<1>2. /\ Waiting' = Waiting /\ Pool' \subseteq Pool /\ Pool \subseteq Pool' \cup {k}
      /\ k \in AllKeys /\ tasks' \subseteq DOMAIN Submitted'
  BY <1>1, TaskDone
<1>3. c \in Nat
  BY <1>1, <1>2, CyclesAre
<1>4. k \in Pool /\ k \in Simulated(job)
  BY DEF FilesInv, LogsTrue, Pool
<1>5. /\ DOMAIN logs = AllKeys /\ logs' \in [AllKeys -> Int]
      /\ logs'[k] = c /\ \A x \in AllKeys : x # k => logs'[x] = logs[x]
  BY <1>1, <1>2, <1>3 DEF PipeTypes
<1>6. PipeTypes'
  BY <1>1, <1>2, <1>5 DEF PipeTypes
<1>7. job \in Jobs /\ Simulated(job) \subseteq AllKeys
  BY <1>1, PoolIs, SimKeysAre
<1>8. LogsTrue'
  <2>1. \A x \in AllKeys : logs'[x] \in {-1, 0, Cycles(traces'[x])}
    <3> TAKE x \in AllKeys
    <3>1. CASE x = k
      BY <1>5, <3>1
    <3>2. CASE x # k
      BY <1>5, <3>2 DEF FilesInv, LogsTrue
    <3> QED
      BY <3>1, <3>2
  <2>2. \A x \in Simulated(job) : logs'[x] >= 0 \/ x \in Pool'
    <3> TAKE x \in Simulated(job)
    <3>1. CASE x = k
      BY <1>3, <1>5, <3>1
    <3>2. CASE x # k
      <4>1. logs[x] >= 0 \/ x \in Pool
        BY DEF FilesInv, LogsTrue
      <4> QED
        BY <1>2, <1>5, <1>7, <3>2, <4>1
    <3> QED
      BY <3>1, <3>2
  <2>3. "ramulator" \in job.steps /\ Pool' \subseteq Simulated(job)
    BY <1>2 DEF FilesInv, LogsTrue
  <2>4. \A x \in AllKeys : x.mode = "model_parallel_embedding" => traces'[x] = NoTrace
    BY DEF FilesInv, LogsTrue
  <2>5. phase' = "simulate" /\ job' = job
    OBVIOUS
  <2> QED
    BY <2>1, <2>2, <2>3, <2>4, <2>5 DEF LogsTrue
<1>9. CsvTrue'
  <2>1. ASSUME NEW d \in Dirs, NEW n \in DOMAIN csv[d].rows
        PROVE  \E x \in Sources(d, n) :
                 csv[d].rows[n] = 0
                 \/ (csv[d].rows[n] = logs'[x] /\ csv[d].rows[n] > 0 /\ x \notin Pool')
    <3>1. PICK x \in Sources(d, n) :
            csv[d].rows[n] = 0
            \/ (csv[d].rows[n] = logs[x] /\ csv[d].rows[n] > 0 /\ x \notin Pool)
      BY <2>1 DEF FilesInv, CsvTrue, CsvRows
    <3>2. x \notin Pool => x # k /\ x \notin Pool'
      BY <1>2, <1>4
    <3>3. x \in AllKeys
      BY DEF Sources
    <3> QED
      BY <1>5, <3>1, <3>2, <3>3
  <2>2. csv' = csv /\ phase' = "simulate"
    OBVIOUS
  <2> QED
    BY <2>1, <2>2 DEF CsvTrue, CsvRows
<1>10. SavedTrue'
  BY DEF FilesInv, SavedTrue
<1>11. Undisturbed'
  BY <1>2 DEF FilesInv, Undisturbed
<1>12. Unfailed'
  <2> SUFFICES ASSUME interrupts' = 0, failures' = 0
               PROVE  Unfailed'
    BY DEF Unfailed, LoggedRows
  <2>1. interrupts = 0 /\ failures = 0 /\ c = Cycles(traces[k])
    OBVIOUS
  <2>2. /\ \A x \in AllKeys : x.mode = "pipeline_parallel" =>
             logs[x] = -1 \/ (logs[x] = Cycles(traces[x]) /\ traces[x].state = "whole")
        /\ \A d \in Dirs : \A n \in DOMAIN csv[d].rows : \E x \in Sources(d, n) :
             csv[d].rows[n] = logs[x] /\ logs[x] # -1
    BY <2>1 DEF FilesInv, Unfailed, LoggedRows
  <2>3. k.mode = "pipeline_parallel" => traces[k].state = "whole"
    <3> SUFFICES ASSUME k.mode = "pipeline_parallel"
                 PROVE  traces[k].state = "whole"
      OBVIOUS
    <3>1. k \in Offered(job)
      BY <1>4, <1>7, SimKeysAre
    <3>2. "cent" \in job.steps
      <4>1. "ramulator" \in job.steps
        BY DEF FilesInv, LogsTrue
      <4> QED
        BY <1>7, <4>1, CasesAssumption
    <3>3. traces[k].state # "none"
      BY <2>1, <3>1, <3>2 DEF FilesInv, Undisturbed
    <3> QED
      BY <1>2, <2>1, <3>3 DEF FilesInv, Undisturbed
  <2>4. \A x \in AllKeys : x.mode = "pipeline_parallel" =>
          logs'[x] = -1 \/ (logs'[x] = Cycles(traces[x]) /\ traces[x].state = "whole")
    <3> TAKE x \in AllKeys
    <3>1. CASE x = k
      BY <1>5, <2>1, <2>3, <3>1
    <3>2. CASE x # k
      BY <1>5, <2>2, <3>2
    <3> QED
      BY <3>1, <3>2
  <2>5. ASSUME NEW d \in Dirs, NEW n \in DOMAIN csv[d].rows
        PROVE  \E x \in Sources(d, n) : csv[d].rows[n] = logs'[x] /\ logs'[x] # -1
    <3>1. PICK x \in Sources(d, n) : csv[d].rows[n] = logs[x] /\ logs[x] # -1
      BY <2>2, <2>5
    <3>2. x \in AllKeys /\ x.mode = "pipeline_parallel"
      BY DEF Sources, TraceOf, Key
    <3>3. logs'[x] = logs[x]
      <4>1. CASE x = k
        <5>1. logs[x] = Cycles(traces[x])
          BY <2>2, <3>1, <3>2
        <5> QED
          BY <1>5, <2>1, <4>1, <5>1
      <4>2. CASE x # k
        BY <1>5, <3>2, <4>2
      <4> QED
        BY <4>1, <4>2
    <3> QED
      BY <3>1, <3>3
  <2>6. csv' = csv /\ phase' = "simulate" /\ traces' = traces
    OBVIOUS
  <2> QED
    BY <2>4, <2>5, <2>6 DEF Unfailed, LoggedRows
<1> QED
  BY <1>6, <1>8, <1>9, <1>10, <1>11, <1>12 DEF FilesInv

(* A simulator leaves nothing: it failed, or there was no trace. *)
LEMMA FailedLogKeeps ==
  ASSUME FilesInv, FailedLog
  PROVE  FilesInv'
<1>1. PICK k \in running :
        /\ logs' = [logs EXCEPT ![k] = 0]
        /\ running' = running \ {k}
        /\ IF traces[k] = NoTrace THEN UNCHANGED failures ELSE failures' = failures + 1
  BY DEF FailedLog
<1>2. /\ phase = "simulate"
      /\ UNCHANGED <<written, phase, job, tasks, traces, saved, csv, table, interrupts>>
  BY DEF FailedLog
<1>3. PipeTypes
  BY DEF FilesInv
<1>4. k \in AllKeys /\ failures \in Nat
  BY <1>3 DEF PipeTypes
<1>5. failures' \in Nat /\ (failures' = 0 => failures = 0 /\ 0 = Cycles(traces[k]))
  <2>1. CASE traces[k] = NoTrace
    BY <1>1, <1>3, <1>4, <2>1, CyclesAre
  <2>2. CASE traces[k] # NoTrace
    BY <1>1, <1>4, <2>2
  <2> QED
    BY <2>1, <2>2
<1> DEFINE c == 0
<1>6. c \in {0, Cycles(traces[k])} /\ logs' = [logs EXCEPT ![k] = c]
      /\ (failures' = 0 => failures = 0 /\ c = Cycles(traces[k]))
  BY <1>1, <1>5
<1> HIDE DEF c
<1> QED
  BY <1>1, <1>2, <1>5, <1>6, Logged

(* A simulator leaves its cycles. *)
LEMMA WriteLogKeeps ==
  ASSUME FilesInv, WriteLog
  PROVE  FilesInv'
<1>1. PICK k \in running :
        logs' = [logs EXCEPT ![k] = Cycles(traces[k])] /\ running' = running \ {k}
  BY DEF WriteLog
<1>2. /\ phase = "simulate"
      /\ UNCHANGED <<written, phase, job, tasks, traces, saved, csv, table, interrupts, failures>>
  BY DEF WriteLog, bounds
<1>3. failures \in Nat
  BY DEF FilesInv, PipeTypes
<1> DEFINE c == Cycles(traces[k])
<1>4. c \in {0, Cycles(traces[k])} /\ logs' = [logs EXCEPT ![k] = c]
      /\ failures' \in Nat /\ (failures' = 0 => failures = 0 /\ c = Cycles(traces[k]))
  BY <1>1, <1>2, <1>3
<1> HIDE DEF c
<1> QED
  BY <1>1, <1>2, <1>4, Logged

(* Steps from one part of an invocation to the next. *)
LEMMA PhaseMoves ==
  ASSUME FilesInv, PoolDone, NEW to, phase' = to,
         UNCHANGED <<written, job, tasks, running, traces, saved, logs, csv, table,
                     interrupts, failures>>,
         \/ phase = "simulate" /\ to = "collect"
         \/ phase = "collect" /\ to = "stopped"
         \/ phase \in {"manifests", "compile"} /\ to \in {"compile", "table"}
  PROVE  FilesInv'
<1>1. tasks = {} /\ running = {} /\ tasks' = {} /\ running' = {}
  BY DEF PoolDone
<1>2. Pool = {} /\ Pool' = {} /\ PoolDone'
  BY <1>1 DEF Pool, Waiting, PoolDone
<1>3. to \in Phases /\ to \notin {"generate", "simulate", "write csv", "write table", "done"}
  BY DEF Phases
<1>4. PipeTypes'
  BY <1>1, <1>3 DEF FilesInv, PipeTypes
<1>5. LogsTrue'
  BY <1>2, <1>3 DEF FilesInv, LogsTrue
<1>6. CsvTrue'
  BY <1>2, <1>3 DEF FilesInv, CsvTrue, CsvRows
<1>7. SavedTrue'
  BY <1>1 DEF FilesInv, SavedTrue
<1>8. Undisturbed'
  <2> SUFFICES ASSUME interrupts' = 0
               PROVE  Undisturbed'
    BY DEF Undisturbed
  <2>0. Undisturbed /\ interrupts = 0
    BY DEF FilesInv
  <2>1. \A x \in AllKeys : traces[x].state # "none" =>
          traces[x].state = "whole" /\ (x.noc \/ x.sram => x \in DOMAIN saved)
    BY <1>1, <2>0 DEF Undisturbed
  <2>2. "cent" \in job.steps => \A x \in Offered(job) : traces[x].state # "none"
    BY <1>1, <2>0 DEF Undisturbed
  <2>3. table.state # "cut" /\ (table.state \notin {"cut", "whole"} => table.rows = <<>>)
    BY <2>0 DEF Undisturbed
  <2>4. \A d \in Dirs : csv[d].state = "whole" =>
          \/ \E n \in Firsts : <<d, n>> \in DOMAIN table.rows
          \/ d = job.dir /\ to \in {"manifests", "compile", "table"}
    BY <2>0 DEF Undisturbed
  <2> QED
    BY <1>3, <2>1, <2>2, <2>3, <2>4 DEF Undisturbed
<1>9. Unfailed'
  BY <1>2, <1>3 DEF FilesInv, Unfailed, LoggedRows
<1> QED
  BY <1>4, <1>5, <1>6, <1>7, <1>8, <1>9 DEF FilesInv

(* What changes no file and no task. *)
LEMMA PhasesKeep ==
  ASSUME FilesInv, EndSimulate \/ CollectRaises \/ NoManifest \/ LoadManifests \/ EndCompile
  PROVE  FilesInv'
<1>1. phase \in {"collect", "manifests", "compile"} => PoolDone
  BY DEF FilesInv, LogsTrue
<1>2. CASE EndSimulate
  <2>1. /\ PoolDone /\ phase = "simulate" /\ phase' = "collect"
        /\ UNCHANGED <<written, job, tasks, running, traces, saved, logs, csv, table, interrupts, failures>>
    BY <1>2 DEF EndSimulate, files, bounds, pool
  <2> QED
    BY <2>1, PhaseMoves
<1>3. CASE CollectRaises
  <2>1. /\ phase = "collect" /\ phase' = "stopped"
        /\ UNCHANGED <<written, job, tasks, running, traces, saved, logs, csv, table, interrupts, failures>>
    BY <1>3 DEF CollectRaises, files, bounds, pool
  <2> QED
    BY <1>1, <2>1, PhaseMoves
<1>4. CASE NoManifest
  <2>1. /\ phase = "manifests" /\ phase' = "table"
        /\ UNCHANGED <<written, job, tasks, running, traces, saved, logs, csv, table, interrupts, failures>>
    BY <1>4 DEF NoManifest, files, bounds, pool
  <2> QED
    BY <1>1, <2>1, PhaseMoves
<1>5. CASE LoadManifests
  <2>1. /\ phase = "manifests" /\ phase' = "compile"
        /\ UNCHANGED <<written, job, tasks, running, traces, saved, logs, csv, table, interrupts, failures>>
    BY <1>5 DEF LoadManifests, files, bounds, pool
  <2> QED
    BY <1>1, <2>1, PhaseMoves
<1>6. CASE EndCompile
  <2>1. /\ phase = "compile" /\ phase' = "table"
        /\ UNCHANGED <<written, job, tasks, running, traces, saved, logs, csv, table, interrupts, failures>>
    BY <1>6 DEF EndCompile, files, bounds, pool
  <2> QED
    BY <1>1, <2>1, PhaseMoves
<1> QED
  BY <1>2, <1>3, <1>4, <1>5, <1>6

(* An interruption leaves the files as they are. *)
LEMMA InterruptKeeps ==
  ASSUME FilesInv, Interrupt
  PROVE  FilesInv'
<1>1. /\ phase' = "stopped" /\ tasks' = {} /\ running' = {} /\ interrupts' = interrupts + 1
      /\ UNCHANGED <<written, job, traces, saved, logs, csv, table, failures>>
  BY DEF Interrupt, files
<1>2. Pool' = {} /\ PoolDone'
  BY <1>1 DEF Pool, Waiting, PoolDone
<1>3. interrupts \in Nat
  BY DEF FilesInv, PipeTypes
<1>4. interrupts' \in Nat /\ interrupts' # 0
  BY <1>1, <1>3
<1>5. PipeTypes'
  BY <1>1, <1>4 DEF FilesInv, PipeTypes, Phases
<1>6. LogsTrue'
  BY <1>1, <1>2 DEF FilesInv, LogsTrue
<1>7. CsvTrue'
  BY <1>1 DEF FilesInv, CsvTrue, CsvRows
<1>8. SavedTrue'
  BY <1>1 DEF FilesInv, SavedTrue
<1>9. Undisturbed' /\ Unfailed'
  BY <1>4 DEF Undisturbed, Unfailed, LoggedRows
<1> QED
  BY <1>5, <1>6, <1>7, <1>8, <1>9 DEF FilesInv

-----------------------------------------------------------------------------
(* The csv file. *)

(* Rows and logs that stay are of the same traces. *)
LEMMA CsvRowsStay ==
  ASSUME \A d \in Dirs : csv'[d].rows = csv[d].rows, logs' = logs
  PROVE  /\ CsvRows /\ phase' # "simulate" => CsvRows'
         /\ LoggedRows => LoggedRows'
<1>1. ASSUME CsvRows, phase' # "simulate"
      PROVE  CsvRows'
  <2> SUFFICES ASSUME NEW d \in Dirs, NEW n \in DOMAIN csv'[d].rows
               PROVE  \E k \in Sources(d, n) :
                        csv'[d].rows[n] = 0
                        \/ (csv'[d].rows[n] = logs'[k] /\ csv'[d].rows[n] > 0)
    BY <1>1 DEF CsvRows
  <2>1. PICK k \in Sources(d, n) :
          csv[d].rows[n] = 0 \/ (csv[d].rows[n] = logs[k] /\ csv[d].rows[n] > 0)
    BY <1>1 DEF CsvRows
  <2> QED
    BY <2>1
<1>2. ASSUME LoggedRows
      PROVE  LoggedRows'
  <2> SUFFICES ASSUME NEW d \in Dirs, NEW n \in DOMAIN csv'[d].rows
               PROVE  \E k \in Sources(d, n) :
                        csv'[d].rows[n] = logs'[k] /\ logs'[k] # -1
    BY DEF LoggedRows
  <2>1. PICK k \in Sources(d, n) : csv[d].rows[n] = logs[k] /\ logs[k] # -1
    BY <1>2 DEF LoggedRows
  <2> QED
    BY <2>1
<1> QED
  BY <1>1, <1>2

(* The first row of a directory of one case is of its own trace. *)
LEMMA FirstOfOneCase ==
  ASSUME NEW j \in Jobs, OfOneCase(j), NEW k \in FirstTraces(j)
  PROVE  k = Own(j)
<1>1. PICK m \in Sharing(j) : \E n \in Lengths(m) :
        n <= j.first /\ k = Key(m, "pipeline_parallel", 0, n)
  BY DEF FirstTraces
<1>2. m \in Jobs /\ m.noc = j.noc /\ m.sram = j.sram /\ m.first = j.first
  BY <1>1 DEF OfOneCase, Sharing
<1>3. m.seqs \in Seq(Int) /\ \A i \in DOMAIN m.seqs : m.first <= m.seqs[i]
  BY <1>2, CasesAssumption
<1>4. PICK i \in DOMAIN m.seqs :
        m.seqs[i] <= j.first /\ k = Key(m, "pipeline_parallel", 0, m.seqs[i])
  BY <1>1 DEF Lengths
<1> DEFINE n == m.seqs[i]
<1>5. j.first \in Int /\ n \in Int /\ j.first <= n
  <2>1. n \in Int
    BY <1>3, <1>4
  <2>2. PICK e \in DOMAIN m.seqs : m.seqs[e] = m.first
    BY <1>2, CasesAssumption
  <2>3. m.first \in Int
    BY <1>3, <2>2
  <2> QED
    BY <1>2, <1>3, <1>4, <2>1, <2>3
<1>6. n = j.first
  BY <1>4, <1>5
<1> QED
  BY <1>2, <1>4, <1>6 DEF Own, Key

(* run_sim.py has a latency for each length of an invocation it ends for:    *)
(* never in model parallel mode, whose embedding is not generated.           *)
LEMMA LatenciesAre ==
  ASSUME FilesInv, phase = "collect", EmbeddingKnown
  PROVE  /\ ~job.parallel /\ DOMAIN Latencies \subseteq Int /\ job.first \in DOMAIN Latencies
         /\ \A n \in DOMAIN Latencies :
              /\ n >= job.first /\ n \in Lengths(job) /\ TraceOf(job, n) \in AllKeys
              /\ Latencies[n] = logs[TraceOf(job, n)] /\ logs[TraceOf(job, n)] \in Nat
<1>1. PipeTypes /\ job \in Jobs
  BY DEF FilesInv, PipeTypes
<1>2. Pool = {} /\ "ramulator" \in job.steps /\ \A k \in Simulated(job) : logs[k] >= 0
  <2>1. PoolDone
    BY DEF FilesInv, LogsTrue
  <2>2. Pool = {}
    BY <2>1 DEF PoolDone, Pool, Waiting
  <2> QED
    BY <2>2 DEF FilesInv, LogsTrue
<1>3. Simulated(job) \subseteq AllKeys
  BY <1>1, SimKeysAre
<1>4. ~job.parallel
  <2> SUFFICES ASSUME job.parallel
               PROVE  FALSE
    OBVIOUS
  <2> DEFINE e == Key(job, "model_parallel_embedding", Factors[1], TotalLength)
  <2>1. e \in AllKeys /\ e.mode = "model_parallel_embedding"
    BY <1>1, <1>3, SimKeysAre DEF Key
  <2>2. logs[e] > 0
    <3>1. Factors \in Seq(Nat) /\ Factors # <<>>
      BY CasesAssumption
    <3>2. 1 \in DOMAIN Factors
      BY <3>1
    <3> QED
      BY <3>2 DEF EmbeddingKnown
  <2> HIDE DEF e
  <2>3. traces[e] = NoTrace /\ logs[e] \in {-1, 0, Cycles(traces[e])}
    BY <2>1 DEF FilesInv, LogsTrue
  <2>4. Cycles(traces[e]) = 0
    BY <1>1, <2>1, <2>3, CyclesAre
  <2> QED
    BY <2>2, <2>3, <2>4
<1>5. /\ job.seqs \in Seq(Int) /\ \E i \in DOMAIN job.seqs : job.seqs[i] = job.first
      /\ \A i \in DOMAIN job.seqs : job.first <= job.seqs[i]
  BY <1>1, CasesAssumption
<1>6. DOMAIN Latencies = {job.seqs[i] : i \in DOMAIN job.seqs}
      /\ \A n \in DOMAIN Latencies : Latencies[n] = logs[TraceOf(job, n)]
  BY DEF Latencies, TraceOf
<1>7. DOMAIN Latencies \subseteq Int /\ job.first \in DOMAIN Latencies
  <2>1. \A i \in DOMAIN job.seqs : job.seqs[i] \in Int
    BY <1>5
  <2> QED
    BY <1>5, <1>6, <2>1
<1>8. ASSUME NEW n \in DOMAIN Latencies
      PROVE  /\ n >= job.first /\ n \in Lengths(job) /\ TraceOf(job, n) \in AllKeys
             /\ logs[TraceOf(job, n)] \in Nat
  <2>1. PICK i \in DOMAIN job.seqs : n = job.seqs[i]
    BY <1>6
  <2>2. TraceOf(job, n) \in Offered(job)
    BY <1>1, <1>4, <2>1, TraceKeysAre
  <2>3. TraceOf(job, n) \in Simulated(job) /\ TraceOf(job, n) \in AllKeys
    BY <1>1, <1>3, <2>2, SimKeysAre
  <2>4. logs[TraceOf(job, n)] \in Int /\ logs[TraceOf(job, n)] >= 0
    BY <1>1, <1>2, <2>3 DEF PipeTypes
  <2>5. job.first \in Int /\ n \in Int
    BY <1>7
  <2> QED
    BY <1>5, <2>1, <2>3, <2>4, <2>5 DEF Lengths
<1> QED
  BY <1>4, <1>6, <1>7, <1>8

(* The latencies are added to those the csv file of the case has. *)
LEMMA OpenCsvKeeps ==
  ASSUME FilesInv, OpenCsv
  PROVE  FilesInv'
<1> DEFINE old == csv[job.dir].rows
           new == Over(old, Latencies)
<1>1. /\ phase = "collect" /\ phase' = "write csv" /\ EmbeddingKnown
      /\ csv' = [csv EXCEPT ![job.dir] = Cut(new)]
      /\ UNCHANGED <<written, job, tasks, running, traces, saved, logs, table, interrupts, failures>>
  BY DEF OpenCsv, bounds, pool
<1>2. PipeTypes /\ job \in Jobs /\ job.dir \in Dirs
  BY DEF FilesInv, PipeTypes, Dirs
<1>3. PoolDone
  BY <1>1 DEF FilesInv, LogsTrue
<1>4. PoolDone' /\ tasks' = {} /\ running' = {}
  BY <1>1, <1>3 DEF PoolDone
<1>5. /\ ~job.parallel /\ DOMAIN Latencies \subseteq Int /\ job.first \in DOMAIN Latencies
      /\ \A n \in DOMAIN Latencies :
           /\ n >= job.first /\ n \in Lengths(job) /\ TraceOf(job, n) \in AllKeys
           /\ Latencies[n] = logs[TraceOf(job, n)] /\ logs[TraceOf(job, n)] \in Nat
  BY <1>1, LatenciesAre
<1>6. csv[job.dir] \in [state : {"none", "cut", "whole"}, rows : LengthRows]
  BY <1>2 DEF PipeTypes
<1>7. PICK D \in WithLeast : old \in [D -> Int]
  BY <1>6 DEF LengthRows
<1>8. /\ DOMAIN new = D \cup DOMAIN Latencies
      /\ \A n \in D : new[n] = old[n]
      /\ \A n \in DOMAIN Latencies \ D : new[n] = Latencies[n]
  BY <1>7 DEF Over
<1>9. new \in LengthRows
  <2>1. \A n \in DOMAIN new : new[n] \in Int
    <3> HIDE DEF new, old
    <3>1. \A n \in D : new[n] \in Int
      BY <1>7, <1>8
    <3>2. \A n \in DOMAIN Latencies \ D : new[n] \in Int
      BY <1>5, <1>8
    <3> QED
      BY <1>8, <3>1, <3>2
  <2>2. new = [n \in DOMAIN new |-> new[n]]
    BY DEF Over
  <2>3. DOMAIN new \in WithLeast
    <3> DEFINE L == DOMAIN Latencies
    <3>1. D \subseteq Int /\ (D = {} \/ \E n \in D : \A m \in D : n <= m)
      BY DEF WithLeast
    <3>2. DOMAIN new = D \cup L
      BY <1>8
    <3>3. L \subseteq Int /\ job.first \in L /\ \A n \in L : job.first <= n
      BY <1>5
    <3> HIDE DEF L, new
    <3>4. \E n \in D \cup L : \A m \in D \cup L : n <= m
      <4>1. CASE D = {}
        BY <3>3, <4>1
      <4>2. CASE D # {}
        <5>1. PICK a \in D : \A m \in D : a <= m
          BY <3>1, <4>2
        <5>2. PICK b \in L : b = job.first
          BY <3>3
        <5>3. a \in Int /\ b \in Int /\ \A m \in L : m \in Int /\ b <= m
          BY <3>1, <3>3, <5>2
        <5>4. CASE a <= b
          <6>1. \A m \in D \cup L : a <= m
            BY <5>1, <5>3, <5>4
          <6> QED
            BY <6>1
        <5>5. CASE b <= a
          <6>1. \A m \in D : m \in Int
            BY <3>1
          <6>2. \A m \in D \cup L : b <= m
            BY <5>1, <5>3, <5>5, <6>1
          <6> QED
            BY <6>2
        <5> QED
          BY <5>3, <5>4, <5>5
      <4> QED
        BY <4>1, <4>2
    <3> QED
      BY <3>1, <3>2, <3>3, <3>4 DEF WithLeast
  <2> HIDE DEF new
  <2>4. new \in [DOMAIN new -> Int]
    BY <2>1, <2>2
  <2> QED
    BY <2>3, <2>4 DEF LengthRows
<1> HIDE DEF new
<1>10. /\ DOMAIN csv = Dirs /\ DOMAIN csv' = Dirs
       /\ csv'[job.dir].state = "cut" /\ csv'[job.dir].rows = new
       /\ csv'[job.dir] \in [state : {"none", "cut", "whole"}, rows : LengthRows]
       /\ \A d \in Dirs : d # job.dir => csv'[d] = csv[d]
  <2>1. DOMAIN csv = Dirs
    BY <1>2 DEF PipeTypes
  <2>2. csv'[job.dir] = [state |-> "cut", rows |-> new]
    BY <1>1, <1>2, <2>1 DEF Cut
  <2>3. \A d \in Dirs : d # job.dir => csv'[d] = csv[d]
    BY <1>1, <2>1
  <2>4. DOMAIN csv' = Dirs
    BY <1>1, <2>1
  <2> QED
    BY <1>9, <2>1, <2>2, <2>3, <2>4
<1>11. PipeTypes'
  <2>1. csv' \in [Dirs -> [state : {"none", "cut", "whole"}, rows : LengthRows]]
    <3>1. \A d \in Dirs : csv'[d] \in [state : {"none", "cut", "whole"}, rows : LengthRows]
      BY <1>2, <1>10 DEF PipeTypes
    <3>2. csv' = [d \in Dirs |-> csv'[d]]
      BY <1>1, <1>2, <1>10 DEF PipeTypes
    <3> QED
      BY <3>1, <3>2
  <2> QED
    BY <1>1, <1>2, <1>4, <2>1 DEF PipeTypes, Phases
<1>12. LogsTrue'
  BY <1>1, <1>4 DEF FilesInv, LogsTrue
<1>13. CsvTrue'
  <2>1. ASSUME NEW d \in Dirs, NEW n \in DOMAIN csv'[d].rows
        PROVE  \E k \in Sources(d, n) :
                 csv'[d].rows[n] = 0 \/ (csv'[d].rows[n] = logs[k] /\ csv'[d].rows[n] > 0)
    <3>1. CASE d # job.dir
      <4>1. csv'[d] = csv[d] /\ n \in DOMAIN csv[d].rows
        BY <1>10, <2>1, <3>1
      <4>2. PICK k \in Sources(d, n) :
              csv[d].rows[n] = 0 \/ (csv[d].rows[n] = logs[k] /\ csv[d].rows[n] > 0)
        BY <4>1 DEF FilesInv, CsvTrue, CsvRows
      <4> QED
        BY <4>1, <4>2
    <3>2. CASE d = job.dir
      <4>1. csv'[d].rows = new /\ n \in D \cup DOMAIN Latencies
        BY <1>8, <1>10, <2>1, <3>2
      <4>2. CASE n \in D
        <5>1. n \in DOMAIN csv[d].rows /\ csv'[d].rows[n] = csv[d].rows[n]
          BY <1>7, <1>8, <3>2, <4>1, <4>2
        <5> QED
          BY <5>1 DEF FilesInv, CsvTrue, CsvRows
      <4>3. CASE n \notin D
        <5>1. n \in DOMAIN Latencies /\ csv'[d].rows[n] = Latencies[n]
          BY <1>8, <4>1, <4>3
        <5>2. TraceOf(job, n) \in Sources(d, n)
          BY <1>2, <1>5, <3>2, <5>1 DEF Sources
        <5> QED
          BY <1>5, <5>1, <5>2
      <4> QED
        BY <4>2, <4>3
    <3> QED
      BY <3>1, <3>2
  <2>2. job.first \in DOMAIN csv'[job.dir].rows
    BY <1>5, <1>8, <1>10
  <2>3. CsvRows'
    <3> SUFFICES ASSUME NEW d \in Dirs, NEW n \in DOMAIN csv'[d].rows
                 PROVE  \E k \in Sources(d, n) :
                          csv'[d].rows[n] = 0
                          \/ (csv'[d].rows[n] = logs'[k] /\ csv'[d].rows[n] > 0)
      BY <1>1 DEF CsvRows
    <3> QED
      BY <1>1, <2>1
  <2> QED
    BY <1>1, <1>5, <2>2, <2>3 DEF CsvTrue
<1>14. SavedTrue'
  BY <1>1 DEF FilesInv, SavedTrue
<1>15. Undisturbed'
  <2> SUFFICES ASSUME interrupts' = 0
               PROVE  Undisturbed'
    BY DEF Undisturbed
  <2>0. Undisturbed /\ interrupts = 0
    BY <1>1 DEF FilesInv
  <2>1. \A x \in AllKeys : traces[x].state # "none" =>
          traces[x].state = "whole" /\ (x.noc \/ x.sram => x \in DOMAIN saved)
    BY <1>1, <2>0 DEF Undisturbed
  <2>2. "cent" \in job.steps => \A x \in Offered(job) : traces[x].state # "none"
    BY <1>1, <2>0 DEF Undisturbed
  <2>3. table.state # "cut" /\ (table.state \notin {"cut", "whole"} => table.rows = <<>>)
    BY <1>1, <2>0 DEF Undisturbed
  <2>4. \A d \in Dirs : csv'[d].state = "whole" => \E n \in Firsts : <<d, n>> \in DOMAIN table.rows
    <3> TAKE d \in Dirs
    <3>1. csv[d].state = "whole" => \E n \in Firsts : <<d, n>> \in DOMAIN table.rows
      BY <1>1, <2>0 DEF Undisturbed
    <3> QED
      BY <1>10, <3>1
  <2> QED
    BY <1>1, <2>1, <2>2, <2>3, <2>4 DEF Undisturbed
<1>16. Unfailed'
  <2> SUFFICES ASSUME interrupts' = 0, failures' = 0
               PROVE  Unfailed'
    BY DEF Unfailed
  <2>0. Unfailed /\ interrupts = 0 /\ failures = 0
    BY <1>1 DEF FilesInv
  <2>1. ASSUME NEW d \in Dirs, NEW n \in DOMAIN csv'[d].rows
        PROVE  \E k \in Sources(d, n) : csv'[d].rows[n] = logs[k] /\ logs[k] # -1
    <3>1. CASE d # job.dir
      BY <1>10, <2>0, <2>1, <3>1 DEF Unfailed, LoggedRows
    <3>2. CASE d = job.dir
      <4>1. csv'[d].rows = new /\ n \in D \cup DOMAIN Latencies
        BY <1>8, <1>10, <2>1, <3>2
      <4>2. CASE n \in D
        <5>1. n \in DOMAIN csv[d].rows /\ csv'[d].rows[n] = csv[d].rows[n]
          BY <1>7, <1>8, <3>2, <4>1, <4>2
        <5> QED
          BY <2>0, <5>1 DEF Unfailed, LoggedRows
      <4>3. CASE n \notin D
        <5>1. n \in DOMAIN Latencies /\ csv'[d].rows[n] = Latencies[n]
          BY <1>8, <4>1, <4>3
        <5>2. TraceOf(job, n) \in Sources(d, n)
          BY <1>2, <1>5, <3>2, <5>1 DEF Sources
        <5> QED
          BY <1>5, <5>1, <5>2
      <4> QED
        BY <4>2, <4>3
    <3> QED
      BY <3>1, <3>2
  <2>2. LoggedRows'
    <3> SUFFICES ASSUME NEW d \in Dirs, NEW n \in DOMAIN csv'[d].rows
                 PROVE  \E k \in Sources(d, n) :
                          csv'[d].rows[n] = logs'[k] /\ logs'[k] # -1
      BY DEF LoggedRows
    <3> QED
      BY <1>1, <2>1
  <2> QED
    BY <1>1, <2>0, <2>2 DEF Unfailed
<1> QED
  BY <1>11, <1>12, <1>13, <1>14, <1>15, <1>16 DEF FilesInv

(* The csv file is complete. *)
LEMMA WriteCsvKeeps ==
  ASSUME FilesInv, WriteCsv
  PROVE  FilesInv'
<1>1. /\ phase = "write csv" /\ phase' = "manifests"
      /\ csv' = [csv EXCEPT ![job.dir].state = "whole"]
      /\ UNCHANGED <<written, job, tasks, running, traces, saved, logs, table, interrupts, failures>>
  BY DEF WriteCsv, bounds, pool
<1>2. PipeTypes /\ job \in Jobs /\ job.dir \in Dirs
  BY DEF FilesInv, PipeTypes, Dirs
<1>3. PoolDone
  BY <1>1 DEF FilesInv, LogsTrue
<1>4. PoolDone' /\ tasks' = {} /\ running = {} /\ running' = {}
  BY <1>1, <1>3 DEF PoolDone
<1>5. /\ DOMAIN csv = Dirs /\ DOMAIN csv' = Dirs /\ csv'[job.dir].state = "whole"
      /\ csv'[job.dir] \in [state : {"none", "cut", "whole"}, rows : LengthRows]
      /\ \A d \in Dirs : csv'[d].rows = csv[d].rows
      /\ \A d \in Dirs : d # job.dir => csv'[d] = csv[d]
  <2>1. DOMAIN csv = Dirs /\ csv[job.dir] \in [state : {"none", "cut", "whole"}, rows : LengthRows]
    BY <1>2 DEF PipeTypes
  <2>2. csv'[job.dir] = [csv[job.dir] EXCEPT !.state = "whole"]
    BY <1>1, <1>2, <2>1
  <2>3. /\ csv'[job.dir].state = "whole" /\ csv'[job.dir].rows = csv[job.dir].rows
        /\ csv'[job.dir] \in [state : {"none", "cut", "whole"}, rows : LengthRows]
    BY <2>1, <2>2
  <2>4. \A d \in Dirs : d # job.dir => csv'[d] = csv[d]
    BY <1>1, <2>1
  <2> QED
    BY <1>1, <2>1, <2>3, <2>4
<1>6. PipeTypes'
  <2>1. csv' \in [Dirs -> [state : {"none", "cut", "whole"}, rows : LengthRows]]
    <3>1. \A d \in Dirs : csv'[d] \in [state : {"none", "cut", "whole"}, rows : LengthRows]
      BY <1>2, <1>5 DEF PipeTypes
    <3>2. csv' = [d \in Dirs |-> csv'[d]]
      BY <1>1, <1>2, <1>5 DEF PipeTypes
    <3> QED
      BY <3>1, <3>2
  <2> QED
    BY <1>1, <1>2, <1>4, <2>1 DEF PipeTypes, Phases
<1>7. LogsTrue'
  BY <1>1, <1>4 DEF FilesInv, LogsTrue
<1>8. \A d \in Dirs : csv'[d].rows = csv[d].rows
  BY <1>5
<1>9. CsvTrue'
  <2>1. CsvTrue
    BY DEF FilesInv
  <2>2. "ramulator" \in job.steps =>
          /\ ~job.parallel /\ job.first \in DOMAIN csv'[job.dir].rows
          /\ csv'[job.dir].state = "whole"
    BY <1>1, <1>2, <1>5, <2>1 DEF CsvTrue
  <2>3. CsvRows'
    BY <1>1, <1>8, <2>1, CsvRowsStay DEF CsvTrue
  <2> QED
    BY <1>1, <2>2, <2>3 DEF CsvTrue
<1>10. SavedTrue'
  BY <1>1 DEF FilesInv, SavedTrue
<1>11. Undisturbed'
  <2> SUFFICES ASSUME interrupts' = 0
               PROVE  Undisturbed'
    BY DEF Undisturbed
  <2>0. Undisturbed /\ interrupts = 0
    BY <1>1 DEF FilesInv
  <2>1. \A x \in AllKeys : traces[x].state # "none" =>
          traces[x].state = "whole" /\ (x.noc \/ x.sram => x \in DOMAIN saved)
    BY <1>1, <2>0 DEF Undisturbed
  <2>2. "cent" \in job.steps => \A x \in Offered(job) : traces[x].state # "none"
    BY <1>1, <2>0 DEF Undisturbed
  <2>3. table.state # "cut" /\ (table.state \notin {"cut", "whole"} => table.rows = <<>>)
    BY <1>1, <2>0 DEF Undisturbed
  <2>4. \A d \in Dirs : csv'[d].state = "whole" =>
          d = job.dir \/ \E n \in Firsts : <<d, n>> \in DOMAIN table.rows
    BY <1>1, <1>5, <2>0 DEF Undisturbed
  <2> QED
    BY <1>1, <2>1, <2>2, <2>3, <2>4 DEF Undisturbed
<1>12. Unfailed'
  BY <1>1, <1>8, CsvRowsStay DEF FilesInv, Unfailed
<1> QED
  BY <1>6, <1>7, <1>9, <1>10, <1>11, <1>12 DEF FilesInv

(* The csv file is read where it is. *)
LEMMA FirstRowStays ==
  ASSUME UNCHANGED <<csv, job>>
  PROVE  FirstRow' = FirstRow
<1>1. csv' = csv /\ job' = job
  OBVIOUS
<1> QED
  BY <1>1 DEF FirstRow

(* The row of the case is added to the table, which a file that cannot be  *)
(* read would make empty.                                                  *)
LEMMA OpenTableKeeps ==
  ASSUME FilesInv, OpenTable
  PROVE  FilesInv'
<1> DEFINE here == <<job.dir, job.first>>
           old == IF table.state = "whole" THEN table.rows ELSE <<>>
           new == Put(old, here, Delay)
<1>1. /\ phase = "table" /\ phase' = "write table"
      /\ table' = Cut(new)
      /\ UNCHANGED <<written, job, tasks, running, traces, saved, logs, csv, interrupts, failures>>
  BY DEF OpenTable, bounds, pool
<1>2. PipeTypes /\ job \in Jobs /\ job.dir \in Dirs /\ job.first \in Firsts
  BY DEF FilesInv, PipeTypes, Dirs, Firsts
<1>3. PoolDone
  BY <1>1 DEF FilesInv, LogsTrue
<1>4. PoolDone' /\ tasks' = {} /\ running = {} /\ running' = {}
  BY <1>1, <1>3 DEF PoolDone
<1>5. DOMAIN new = DOMAIN old \cup {here} /\ new[here] = Delay
  <2> DEFINE d == Delay
  <2>1. new = Put(old, here, d)
    OBVIOUS
  <2> HIDE DEF d, new, old, here
  <2>2. DOMAIN new = DOMAIN old \cup {here}
    BY <2>1, PutIs
  <2>3. new[here] = d
    BY <2>1 DEF Put, Over
  <2> QED
    BY <2>2, <2>3 DEF d
<1> HIDE DEF new, here
<1>6. /\ table'.state = "cut" /\ table'.rows = new
      /\ table' = [state |-> table'.state, rows |-> table'.rows]
  BY <1>1 DEF Cut
<1>7. Delay.pim = FirstRow /\ FirstRow' = FirstRow
  <2>1. Delay.pim = FirstRow
    BY DEF Delay
  <2>2. FirstRow' = FirstRow
    BY <1>1, FirstRowStays
  <2> QED
    BY <2>1, <2>2
<1>8. PipeTypes'
  BY <1>1, <1>2, <1>4, <1>6 DEF PipeTypes, Phases
<1>9. LogsTrue'
  BY <1>1, <1>4 DEF FilesInv, LogsTrue
<1>10. CsvTrue'
  <2>1. here \in DOMAIN table'.rows /\ table'.rows[here].pim = FirstRow'
    BY <1>5, <1>6, <1>7
  <2>2. <<job'.dir, job'.first>> = here
    BY <1>1 DEF here
  <2>3. CsvTrue
    BY DEF FilesInv
  <2>4. "ramulator" \in job.steps =>
          /\ ~job.parallel /\ job.first \in DOMAIN csv[job.dir].rows
          /\ csv[job.dir].state = "whole"
    BY <1>1, <2>3 DEF CsvTrue
  <2>5. CsvRows'
    BY <1>1, <2>3, CsvRowsStay DEF CsvTrue
  <2> QED
    BY <1>1, <2>1, <2>2, <2>4, <2>5 DEF CsvTrue
<1>11. SavedTrue'
  BY <1>1 DEF FilesInv, SavedTrue
<1>12. Undisturbed'
  <2> SUFFICES ASSUME interrupts' = 0
               PROVE  Undisturbed'
    BY DEF Undisturbed
  <2>0. Undisturbed /\ interrupts = 0
    BY <1>1 DEF FilesInv
  <2>1. \A x \in AllKeys : traces[x].state # "none" =>
          traces[x].state = "whole" /\ (x.noc \/ x.sram => x \in DOMAIN saved)
    BY <1>1, <2>0 DEF Undisturbed
  <2>2. "cent" \in job.steps => \A x \in Offered(job) : traces[x].state # "none"
    BY <1>1, <2>0 DEF Undisturbed
  <2>3. DOMAIN table.rows \subseteq DOMAIN old
    <3>1. table.state = "whole" \/ table.rows = <<>>
      BY <1>1, <2>0 DEF Undisturbed
    <3> QED
      BY <3>1
  <2>4. \A d \in Dirs : csv[d].state = "whole" => \E n \in Firsts : <<d, n>> \in DOMAIN new
    <3> SUFFICES ASSUME NEW d \in Dirs, csv[d].state = "whole"
                 PROVE  \E n \in Firsts : <<d, n>> \in DOMAIN new
      OBVIOUS
    <3>1. CASE d = job.dir
      BY <1>2, <1>5, <3>1 DEF here
    <3>2. CASE d # job.dir
      <4>1. \E n \in Firsts : <<d, n>> \in DOMAIN table.rows
        BY <1>1, <2>0, <3>2 DEF Undisturbed
      <4> QED
        BY <1>5, <2>3, <4>1
    <3> QED
      BY <3>1, <3>2
  <2> QED
    BY <1>1, <1>6, <2>1, <2>2, <2>4 DEF Undisturbed
<1>13. Unfailed'
  BY <1>1, CsvRowsStay DEF FilesInv, Unfailed
<1> QED
  BY <1>8, <1>9, <1>10, <1>11, <1>12, <1>13 DEF FilesInv

(* The table is complete. *)
LEMMA WriteTableKeeps ==
  ASSUME FilesInv, WriteTable
  PROVE  FilesInv'
<1>1. /\ phase = "write table" /\ phase' = "done"
      /\ table' = [table EXCEPT !.state = "whole"]
      /\ UNCHANGED <<written, job, tasks, running, traces, saved, logs, csv, interrupts, failures>>
  BY DEF WriteTable, bounds, pool
<1>2. PipeTypes
  BY DEF FilesInv
<1>3. PoolDone
  BY <1>1 DEF FilesInv, LogsTrue
<1>4. PoolDone' /\ tasks' = {} /\ running = {} /\ running' = {}
  BY <1>1, <1>3 DEF PoolDone
<1>5. /\ table'.state = "whole" /\ table'.rows = table.rows
      /\ table' = [state |-> table'.state, rows |-> table'.rows]
  <2>1. table = [state |-> table.state, rows |-> table.rows]
    BY <1>2 DEF PipeTypes
  <2>2. table' = [state |-> "whole", rows |-> table.rows]
    BY <1>1, <2>1
  <2> QED
    BY <2>2
<1>6. FirstRow' = FirstRow
  BY <1>1, FirstRowStays
<1>7. PipeTypes'
  BY <1>1, <1>2, <1>4, <1>5 DEF PipeTypes, Phases
<1>8. LogsTrue'
  BY <1>1, <1>4 DEF FilesInv, LogsTrue
<1>9. CsvTrue'
  BY <1>1, <1>5, <1>6, CsvRowsStay DEF FilesInv, CsvTrue
<1>10. SavedTrue'
  BY <1>1 DEF FilesInv, SavedTrue
<1>11. Undisturbed'
  BY <1>1, <1>4, <1>5 DEF FilesInv, Undisturbed
<1>12. Unfailed'
  BY <1>1, CsvRowsStay DEF FilesInv, Unfailed
<1> QED
  BY <1>7, <1>8, <1>9, <1>10, <1>11, <1>12 DEF FilesInv

(* Every step of the pipeline keeps the invariant. *)
LEMMA FilesStep ==
  ASSUME FilesInv, [PipelineNext]_pipeline_vars
  PROVE  FilesInv'
<1>1. CASE Start
  BY <1>1, StartKeeps
<1>2. CASE OpenTrace
  BY <1>2, OpenTraceKeeps
<1>3. CASE CloseTrace
  BY <1>3, CloseTraceKeeps
<1>4. CASE SaveManifest
  BY <1>4, SaveManifestKeeps
<1>5. CASE EndGenerate
  BY <1>5, EndGenerateKeeps
<1>6. CASE RunSimulator
  BY <1>6, RunSimulatorKeeps
<1>7. CASE FailedLog
  BY <1>7, FailedLogKeeps
<1>8. CASE WriteLog
  BY <1>8, WriteLogKeeps
<1>9. CASE OpenCsv
  BY <1>9, OpenCsvKeeps
<1>10. CASE WriteCsv
  BY <1>10, WriteCsvKeeps
<1>11. CASE EndSimulate \/ CollectRaises \/ NoManifest \/ LoadManifests \/ EndCompile
  BY <1>11, PhasesKeep
<1>12. CASE Compile
  <2>1. UNCHANGED <<written, phase, job, pool, files, interrupts, failures>>
    BY <1>12 DEF Compile, bounds
  <2> QED
    BY <2>1, Quiet
<1>13. CASE OpenTable
  BY <1>13, OpenTableKeeps
<1>14. CASE WriteTable
  BY <1>14, WriteTableKeeps
<1>15. CASE Interrupt
  BY <1>15, InterruptKeeps
<1>16. CASE AllRun \/ UNCHANGED pipeline_vars
  <2>1. UNCHANGED <<written, phase, job, pool, files, interrupts, failures>>
    BY <1>16 DEF AllRun, pipeline_vars, bounds
  <2> QED
    BY <2>1, Quiet
<1> QED
  BY <1>1, <1>2, <1>3, <1>4, <1>5, <1>6, <1>7, <1>8, <1>9, <1>10, <1>11, <1>12, <1>13,
     <1>14, <1>15, <1>16 DEF PipelineNext

(* The first row of the csv file is the one of the least length, which is   *)
(* not above the first of the invocation.                                    *)
LEMMA FirstRowIs ==
  ASSUME FilesInv, phase = "done", "ramulator" \in job.steps
  PROVE  \E n \in DOMAIN csv[job.dir].rows :
           n <= job.first /\ FirstRow = csv[job.dir].rows[n]
<1> DEFINE D == DOMAIN csv[job.dir].rows
<1>1. job \in Jobs /\ job.first \in D /\ csv[job.dir].state = "whole"
  BY DEF FilesInv, CsvTrue, PipeTypes
<1>2. D \in WithLeast
  <2>1. csv[job.dir] \in [state : {"none", "cut", "whole"}, rows : LengthRows]
    BY <1>1 DEF FilesInv, PipeTypes, Dirs
  <2>2. csv[job.dir].rows \in LengthRows
    BY <2>1
  <2> QED
    BY <2>2 DEF LengthRows
<1>3. DOMAIN csv[job.dir].rows = D
  OBVIOUS
<1> DEFINE first == CHOOSE n \in D : \A m \in D : n <= m
<1>4. FirstRow = csv[job.dir].rows[first]
  BY <1>1 DEF FirstRow
<1> HIDE DEF D
<1>5. \E n \in D : \A m \in D : n <= m
  BY <1>1, <1>2 DEF WithLeast
<1>6. first \in D /\ \A m \in D : first <= m
  BY <1>5
<1> HIDE DEF first
<1> QED
  BY <1>1, <1>3, <1>4, <1>6

(* What the row of an invocation that has ended is of. *)
LEMMA RowIs ==
  ASSUME FilesInv, phase = "done", "ramulator" \in job.steps
  PROVE  /\ \E k \in FirstTraces(job) : FirstRow \in {0, Cycles(traces[k])}
         /\ interrupts = 0 /\ failures = 0 =>
              \E k \in FirstTraces(job) : FirstRow = traces[k].lines
<1>1. job \in Jobs /\ job.dir \in Dirs
  BY DEF FilesInv, PipeTypes, Dirs
<1>2. PICK n \in DOMAIN csv[job.dir].rows :
        n <= job.first /\ FirstRow = csv[job.dir].rows[n]
  BY FirstRowIs
<1>3. Sources(job.dir, n) \subseteq FirstTraces(job)
  BY <1>2 DEF Sources, FirstTraces, Sharing, TraceOf
<1>4. \E k \in FirstTraces(job) : FirstRow \in {0, Cycles(traces[k])}
  <2>1. PICK k \in Sources(job.dir, n) : FirstRow = 0 \/ (FirstRow = logs[k] /\ FirstRow > 0)
    BY <1>1, <1>2 DEF FilesInv, CsvTrue, CsvRows
  <2>2. logs[k] \in {-1, 0, Cycles(traces[k])}
    BY DEF FilesInv, LogsTrue, Sources
  <2> QED
    BY <1>3, <2>1, <2>2
<1>5. ASSUME interrupts = 0, failures = 0
      PROVE  \E k \in FirstTraces(job) : FirstRow = traces[k].lines
  <2>1. PICK k \in Sources(job.dir, n) : FirstRow = logs[k] /\ logs[k] # -1
    BY <1>1, <1>2, <1>5 DEF FilesInv, Unfailed, LoggedRows
  <2>2. k \in AllKeys /\ k.mode = "pipeline_parallel"
    BY DEF Sources, TraceOf, Key
  <2>3. logs[k] = Cycles(traces[k]) /\ traces[k].state = "whole"
    BY <1>5, <2>1, <2>2 DEF FilesInv, Unfailed
  <2> QED
    BY <1>3, <2>1, <2>3 DEF Cycles
<1> QED
  BY <1>4, <1>5

(* What the invariant says of the table. *)
LEMMA SummaryFollows ==
  ASSUME FilesInv
  PROVE  SummaryRight
<1> SUFFICES ASSUME phase = "done"
             PROVE  SummaryRight
  BY DEF SummaryRight
<1> DEFINE row == table.rows[<<job.dir, job.first>>]
<1>1. job \in Jobs /\ PipeTypes
  BY DEF FilesInv, PipeTypes
<1>3. row.pim = FirstRow
  BY DEF FilesInv, CsvTrue
<1> HIDE DEF row
<1>4. ASSUME "ramulator" \in job.steps
      PROVE  /\ row.pim \in {0} \cup {Cycles(traces[k]) : k \in FirstTraces(job)}
             /\ OfOneCase(job) => row.pim \in {0, Cycles(traces[Own(job)])}
             /\ interrupts = 0 /\ failures = 0 =>
                  /\ \E k \in FirstTraces(job) : row.pim = traces[k].lines
                  /\ OfOneCase(job) => row.pim = traces[Own(job)].lines
  <2>1. PICK k \in FirstTraces(job) : row.pim \in {0, Cycles(traces[k])}
    BY <1>3, <1>4, RowIs
  <2>2. OfOneCase(job) => \A x \in FirstTraces(job) : x = Own(job)
    BY <1>1, FirstOfOneCase
  <2>3. interrupts = 0 /\ failures = 0 =>
          \E x \in FirstTraces(job) : row.pim = traces[x].lines
    BY <1>3, <1>4, RowIs
  <2> QED
    BY <2>1, <2>2, <2>3
<1>5. ASSUME interrupts = 0, "cent" \in job.steps
      PROVE  (Found(job) # {}) <=> (job.noc \/ job.sram)
  <2>1. ASSUME Found(job) # {}
        PROVE  job.noc \/ job.sram
    BY <2>1 DEF Found, FilesInv, SavedTrue
  <2>2. ASSUME job.noc \/ job.sram
        PROVE  Found(job) # {}
    <3>1. PICK k \in Offered(job) : TRUE
      <4>1. Len(TraceKeys(job)) \in Nat \ {0} /\ DOMAIN TraceKeys(job) = 1 .. Len(TraceKeys(job))
        BY <1>1, TraceKeysAre
      <4>2. 1 \in DOMAIN TraceKeys(job)
        BY <4>1
      <4> QED
        BY <4>2 DEF Offered, Members
    <3>2. k \in AllKeys /\ k.noc = job.noc /\ k.sram = job.sram
      BY <1>1, SimKeysAre, TraceKeysAre
    <3>3. traces[k].state # "none"
      BY <1>5 DEF FilesInv, Undisturbed
    <3>4. k \in DOMAIN saved
      BY <1>5, <2>2, <3>2, <3>3 DEF FilesInv, Undisturbed
    <3> QED
      BY <3>2, <3>4 DEF Found
  <2> QED
    BY <2>1, <2>2
<1>6. ASSUME interrupts = 0
      PROVE  \A j \in Jobs : csv[j.dir].state = "whole" =>
               \E n \in {m.first : m \in Jobs} : <<j.dir, n>> \in DOMAIN table.rows
  BY <1>6 DEF FilesInv, Undisturbed, Dirs, Firsts
<1> QED
  BY <1>4, <1>5, <1>6 DEF SummaryRight, row

(* The files of the pipeline are always what the invariant says, for every *)
(* set of cases, every pool and every number of interruptions and failures. *)
THEOREM FilesAlways == PipelineSpec => []FilesInv
<1>1. FilesInit => FilesInv
  BY FilesBegin
<1>2. FilesInv /\ [PipelineNext]_pipeline_vars => FilesInv'
  BY FilesStep
<1> QED
  BY <1>1, <1>2, PTL DEF PipelineSpec

(* SummaryRight: at whatever points of their writing run.sh and its threads *)
(* are interrupted and started again, the cycles in the summary of an      *)
(* invocation are none, or those of a trace no longer than its own of an   *)
(* invocation with the same result directory; where the directory is of    *)
(* one case, of its own trace.                                             *)
THEOREM SummaryIsRight == PipelineSpec => []SummaryRight
<1>1. FilesInv => SummaryRight
  BY SummaryFollows
<1> QED
  BY <1>1, FilesAlways, PTL
===============================================================================
