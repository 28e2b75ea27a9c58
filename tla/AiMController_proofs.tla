------------------------ MODULE AiMController_proofs ------------------------
(***************************************************************************)
(* The controllers behind the DMA, for every number of channels, banks and *)
(* rows, every buffer size, watermark, trace and instruction set: every    *)
(* step of the system is a step of the DMA, so that the DMA's theorems     *)
(* hold of it, and the requests of a channel stay where, and in the order  *)
(* in which, the controller's handlers expect them.                        *)
(*                                                                         *)
(* What a handler does to one channel is first proved of the channel's     *)
(* lists as plain values (H is what the DMA believes the controller holds, *)
(* R, W, A and Q are the four buffers, P and V what is pending, M what the *)
(* DMA has not sent), then lifted to the state.                            *)
(***************************************************************************)
EXTENDS AiMController, AiMDMA_proofs

Distinct(list) == \A i, j \in 1 .. Len(list) : list[i] = list[j] => i = j

(* The AiM copies of a list are in the order of the program. *)
InProgramOrder(list) ==
  \A i, j \in 1 .. Len(list) :
    i < j /\ IsAiM(list[i]) /\ IsAiM(list[j]) => Before(list[i], list[j])

(* Every copy the controller holds is in exactly one of its lists. *)
Placed(H, R, W, A, Q, P, V) ==
  /\ Q \in Seq(CopySet) /\ Distinct(Q)
  /\ P \in Seq(CopySet) /\ Distinct(P)
  /\ H = V \cup ToSet(P) \cup R \cup W \cup A \cup ToSet(Q)
  /\ H \in SUBSET CopySet /\ IsFiniteSet(H)
  /\ R \cap W = {} /\ R \cap A = {} /\ R \cap ToSet(Q) = {}
  /\ R \cap ToSet(P) = {} /\ R \cap V = {}
  /\ W \cap A = {} /\ W \cap ToSet(Q) = {} /\ W \cap ToSet(P) = {} /\ W \cap V = {}
  /\ A \cap ToSet(Q) = {} /\ A \cap ToSet(P) = {} /\ A \cap V = {}
  /\ ToSet(Q) \cap ToSet(P) = {} /\ ToSet(Q) \cap V = {}
  /\ ToSet(P) \cap V = {}

(* Each list holds only the kind of request it is for. *)
Sorted(R, W, A, Q, P, V) ==
  /\ \A c \in R : IsRead(c)
  /\ \A c \in W : IsWrite(c)
  /\ \A c \in A : IsRead(c) \/ IsWrite(c)
  /\ \A c \in ToSet(Q) : IsAiM(c)
  /\ \A c \in ToSet(P) : c.ins.op \in ReadOps
  /\ \A c \in V : c.ins.op \notin ReadOps
  /\ Q = <<>> \/ (R = {} /\ W = {})

(* What was sent precedes what was not, what was issued of the AiM copies  *)
(* what is queued, and the lists that are served from the front are in the *)
(* order of the program.                                                   *)
Ordered(H, Q, P, V, M) ==
  /\ \A c \in H, d \in M : Before(c, d)
  /\ \A c \in V \cup ToSet(P), d \in ToSet(Q) : IsAiM(c) => Before(c, d)
  /\ InProgramOrder(Q) /\ InProgramOrder(P)

(* No local instruction has copies, and a channel's copies are finitely    *)
(* many.                                                                   *)
Sendable(M) == IsFiniteSet(M) /\ \A c \in M : c.ins.op \in Ops \ LocalOps

(* An activated request's bank holds its row or none, and no bank has two  *)
(* activated requests.                                                     *)
RowsKept(A, open) ==
  /\ \A r \in A : open[r.ins.bank] \in {r.ins.row, Closed}
  /\ \A r, s \in A : r.ins.bank = s.ins.bank => r = s

ChannelInv(ch) ==
  /\ Placed(held[ch], readBuf[ch], writeBuf[ch], active[ch], aimBuf[ch],
            pendingReads[ch], pendingWrites[ch])
  /\ Sorted(readBuf[ch], writeBuf[ch], active[ch], aimBuf[ch],
            pendingReads[ch], pendingWrites[ch])
  /\ Ordered(held[ch], aimBuf[ch], pendingReads[ch], pendingWrites[ch], remaining[ch])
  /\ Sendable(remaining[ch])
  /\ RowsKept(active[ch], openRow[ch])

SysInv == IInv /\ SysTypeOK /\ \A ch \in Channels : ChannelInv(ch)

-----------------------------------------------------------------------------
(* Lists of copies. *)

LEMMA ToSetIsRange ==
  ASSUME NEW S, NEW s \in Seq(S)
  PROVE  /\ ToSet(s) = {s[i] : i \in 1 .. Len(s)}
         /\ ToSet(s) \in SUBSET S
         /\ ToSet(s) = {} <=> s = <<>>
<1>1. DOMAIN s = 1 .. Len(s) /\ Len(s) \in Nat /\ \A i \in 1 .. Len(s) : s[i] \in S
  BY LenProperties, ElementOfSeq
<1>2. ToSet(s) = {s[i] : i \in 1 .. Len(s)}
  BY <1>1 DEF ToSet
<1>3. s = <<>> => ToSet(s) = {}
  BY <1>2
<1>4. s # <<>> => s[1] \in ToSet(s)
  BY <1>1, <1>2, EmptySeq
<1> QED
  BY <1>1, <1>2, <1>3, <1>4

LEMMA EmptyList == \A s \in Seq(CopySet) : s = <<>> <=> ToSet(s) = {}
  BY ToSetIsRange

LEMMA ToSetOfConcat ==
  ASSUME NEW S, NEW s \in Seq(S), NEW t \in Seq(S)
  PROVE  ToSet(s \o t) = ToSet(s) \cup ToSet(t)
<1>1. /\ s \o t \in Seq(S) /\ Len(s \o t) = Len(s) + Len(t)
      /\ Len(s) \in Nat /\ Len(t) \in Nat
      /\ \A i \in 1 .. Len(s) + Len(t) :
            (s \o t)[i] = IF i <= Len(s) THEN s[i] ELSE t[i - Len(s)]
  BY ConcatProperties, LenProperties
<1> DEFINE u == s \o t
<1>5. /\ ToSet(s) = {s[i] : i \in 1 .. Len(s)}
      /\ ToSet(t) = {t[i] : i \in 1 .. Len(t)}
      /\ ToSet(u) = {u[i] : i \in 1 .. Len(s) + Len(t)}
  <2>1. ToSet(u) = {u[i] : i \in 1 .. Len(u)}
    BY <1>1, ToSetIsRange
  <2>2. ToSet(u) = {u[i] : i \in 1 .. Len(s) + Len(t)}
    BY <1>1, <2>1
  <2>3. ToSet(s) = {s[i] : i \in 1 .. Len(s)}
    BY ToSetIsRange
  <2>4. ToSet(t) = {t[i] : i \in 1 .. Len(t)}
    BY ToSetIsRange
  <2> HIDE DEF u
  <2> QED
    BY <2>2, <2>3, <2>4
<1>2. ToSet(s \o t) \subseteq ToSet(s) \cup ToSet(t)
  <2> SUFFICES ASSUME NEW i \in 1 .. Len(s) + Len(t)
               PROVE  (s \o t)[i] \in ToSet(s) \cup ToSet(t)
    BY <1>5
  <2>1. CASE i <= Len(s)
    BY <1>1, <2>1, <1>5
  <2>2. CASE ~(i <= Len(s))
    <3>1. i - Len(s) \in 1 .. Len(t)
      BY <1>1, <2>2
    <3> QED
      BY <1>1, <2>2, <3>1, <1>5
  <2> QED
    BY <2>1, <2>2
<1>3. ToSet(s) \subseteq ToSet(s \o t)
  <2> SUFFICES ASSUME NEW i \in 1 .. Len(s) PROVE s[i] \in ToSet(s \o t)
    BY <1>5
  <2>1. i \in 1 .. Len(s) + Len(t) /\ i <= Len(s)
    BY <1>1
  <2> QED
    BY <1>1, <2>1, <1>5
<1>4. ToSet(t) \subseteq ToSet(s \o t)
  <2> SUFFICES ASSUME NEW i \in 1 .. Len(t) PROVE t[i] \in ToSet(s \o t)
    BY <1>5
  <2>1. /\ Len(s) + i \in 1 .. Len(s) + Len(t) /\ ~(Len(s) + i <= Len(s))
        /\ (Len(s) + i) - Len(s) = i
    BY <1>1
  <2>2. (s \o t)[Len(s) + i] = t[i]
    BY <1>1, <2>1
  <2> QED
    BY <1>1, <2>1, <2>2, <1>5
<1> QED
  BY <1>2, <1>3, <1>4

LEMMA DistinctConcat ==
  ASSUME NEW S, NEW s \in Seq(S), NEW t \in Seq(S), Distinct(s), Distinct(t),
         ToSet(s) \cap ToSet(t) = {}
  PROVE  Distinct(s \o t)
<1>1. /\ s \o t \in Seq(S) /\ Len(s \o t) = Len(s) + Len(t)
      /\ Len(s) \in Nat /\ Len(t) \in Nat
      /\ \A i \in 1 .. Len(s) + Len(t) :
            (s \o t)[i] = IF i <= Len(s) THEN s[i] ELSE t[i - Len(s)]
  BY ConcatProperties, LenProperties
<1> SUFFICES ASSUME NEW i \in 1 .. Len(s) + Len(t), NEW j \in 1 .. Len(s) + Len(t),
                    (s \o t)[i] = (s \o t)[j]
             PROVE  i = j
  BY <1>1 DEF Distinct
<1>2. \A a \in 1 .. Len(s), b \in 1 .. Len(t) : s[a] # t[b]
  <2>1. /\ ToSet(s) = {s[a] : a \in 1 .. Len(s)}
        /\ ToSet(t) = {t[b] : b \in 1 .. Len(t)}
    BY ToSetIsRange
  <2> QED
    BY <2>1
<1>3. CASE i <= Len(s) /\ j <= Len(s)
  <2>1. i \in 1 .. Len(s) /\ j \in 1 .. Len(s) /\ s[i] = s[j]
    BY <1>1, <1>3
  <2> QED
    BY <2>1 DEF Distinct
<1>4. CASE ~(i <= Len(s)) /\ ~(j <= Len(s))
  <2>1. /\ i - Len(s) \in 1 .. Len(t) /\ j - Len(s) \in 1 .. Len(t)
        /\ t[i - Len(s)] = t[j - Len(s)]
    BY <1>1, <1>4
  <2>2. i - Len(s) = j - Len(s)
    BY <2>1, Zenon DEF Distinct
  <2> QED
    BY <1>1, <2>2
<1>5. CASE i <= Len(s) /\ ~(j <= Len(s))
  <2>1. i \in 1 .. Len(s) /\ j - Len(s) \in 1 .. Len(t) /\ s[i] = t[j - Len(s)]
    BY <1>1, <1>5
  <2> QED
    BY <1>2, <2>1
<1>6. CASE ~(i <= Len(s)) /\ j <= Len(s)
  <2>1. j \in 1 .. Len(s) /\ i - Len(s) \in 1 .. Len(t) /\ s[j] = t[i - Len(s)]
    BY <1>1, <1>6
  <2> QED
    BY <1>2, <2>1
<1> QED
  BY <1>3, <1>4, <1>5, <1>6

LEMMA ProgramOrderConcat ==
  ASSUME NEW S, NEW s \in Seq(S), NEW t \in Seq(S),
         InProgramOrder(s), InProgramOrder(t),
         \A c \in ToSet(s), d \in ToSet(t) : IsAiM(c) /\ IsAiM(d) => Before(c, d)
  PROVE  InProgramOrder(s \o t)
<1>1. /\ s \o t \in Seq(S) /\ Len(s \o t) = Len(s) + Len(t)
      /\ Len(s) \in Nat /\ Len(t) \in Nat
      /\ \A i \in 1 .. Len(s) + Len(t) :
            (s \o t)[i] = IF i <= Len(s) THEN s[i] ELSE t[i - Len(s)]
  BY ConcatProperties, LenProperties
<1> SUFFICES ASSUME NEW i \in 1 .. Len(s) + Len(t), NEW j \in 1 .. Len(s) + Len(t),
                    i < j, IsAiM((s \o t)[i]), IsAiM((s \o t)[j])
             PROVE  Before((s \o t)[i], (s \o t)[j])
  BY <1>1 DEF InProgramOrder
<1>2. CASE j <= Len(s)
  <2>1. /\ i \in 1 .. Len(s) /\ j \in 1 .. Len(s)
        /\ (s \o t)[i] = s[i] /\ (s \o t)[j] = s[j]
    BY <1>1, <1>2
  <2> QED
    BY <2>1, Zenon DEF InProgramOrder
<1>3. CASE ~(i <= Len(s))
  <2>1. /\ i - Len(s) \in 1 .. Len(t) /\ j - Len(s) \in 1 .. Len(t)
        /\ i - Len(s) < j - Len(s)
        /\ (s \o t)[i] = t[i - Len(s)] /\ (s \o t)[j] = t[j - Len(s)]
    BY <1>1, <1>3
  <2> QED
    BY <2>1, Zenon DEF InProgramOrder
<1>4. CASE i <= Len(s) /\ ~(j <= Len(s))
  <2>1. /\ i \in 1 .. Len(s) /\ j - Len(s) \in 1 .. Len(t)
        /\ (s \o t)[i] = s[i] /\ (s \o t)[j] = t[j - Len(s)]
    BY <1>1, <1>4
  <2>2. s[i] \in ToSet(s) /\ t[j - Len(s)] \in ToSet(t)
    BY <2>1, ToSetIsRange
  <2> QED
    BY <2>1, <2>2, Zenon
<1> QED
  BY <1>1, <1>2, <1>3, <1>4

(* Appending one copy is concatenating a list of one.                      *)
LEMMA SingletonList ==
  ASSUME NEW S, NEW c \in S
  PROVE  /\ <<c>> \in Seq(S) /\ ToSet(<<c>>) = {c}
         /\ Distinct(<<c>>) /\ InProgramOrder(<<c>>)
         /\ \A s \in Seq(S) : Append(s, c) = s \o <<c>>
<1>1. <<c>> \in Seq(S) /\ Len(<<c>>) = 1 /\ <<c>>[1] = c
  OBVIOUS
<1>2. ToSet(<<c>>) = {c}
  <2>1. ToSet(<<c>>) = {<<c>>[i] : i \in 1 .. Len(<<c>>)}
    BY <1>1, ToSetIsRange, Zenon
  <2>2. \A i \in 1 .. Len(<<c>>) : <<c>>[i] = c
    BY <1>1
  <2> QED
    BY <1>1, <2>1, <2>2
<1>3. Distinct(<<c>>) /\ InProgramOrder(<<c>>)
  BY <1>1 DEF Distinct, InProgramOrder
<1>4. \A s \in Seq(S) : Append(s, c) = s \o <<c>>
  BY AppendIsConcat
<1> QED
  BY <1>1, <1>2, <1>3, <1>4

LEMMA TailOfList ==
  ASSUME NEW S, NEW s \in Seq(S), s # <<>>, Distinct(s)
  PROVE  /\ Tail(s) \in Seq(S) /\ Distinct(Tail(s))
         /\ InProgramOrder(s) => InProgramOrder(Tail(s))
         /\ Head(s) \in ToSet(s)
         /\ ToSet(Tail(s)) = ToSet(s) \ {Head(s)}
         /\ Removed(s, Head(s)) = Tail(s)
         /\ InProgramOrder(s) =>
              \A d \in ToSet(Tail(s)) : IsAiM(Head(s)) /\ IsAiM(d) => Before(Head(s), d)
<1> DEFINE n == Len(s)
<1>1. /\ n \in Nat \ {0} /\ Head(s) = s[1] /\ Tail(s) \in Seq(S)
      /\ Len(Tail(s)) = n - 1
      /\ \A i \in 1 .. n - 1 : Tail(s)[i] = s[i + 1]
  BY EmptySeq, HeadTailProperties
<1>2. \A i \in 1 .. n - 1 : i + 1 \in 1 .. n /\ i + 1 # 1 /\ 1 < i + 1
  BY <1>1
<1>3. \A i, j \in 1 .. n - 1 : (i + 1 = j + 1 => i = j) /\ (i < j => i + 1 < j + 1)
  BY <1>1
<1>4. Distinct(Tail(s))
  <2> SUFFICES ASSUME NEW i \in 1 .. n - 1, NEW j \in 1 .. n - 1, Tail(s)[i] = Tail(s)[j]
               PROVE  i = j
    BY <1>1 DEF Distinct
  <2>1. s[i + 1] = s[j + 1]
    BY <1>1
  <2>2. i + 1 = j + 1
    BY <2>1, <1>2, Zenon DEF Distinct
  <2> QED
    BY <1>3, <2>2, Zenon
<1>5. ASSUME InProgramOrder(s) PROVE InProgramOrder(Tail(s))
  <2> SUFFICES ASSUME NEW i \in 1 .. n - 1, NEW j \in 1 .. n - 1, i < j,
                      IsAiM(Tail(s)[i]), IsAiM(Tail(s)[j])
               PROVE  Before(Tail(s)[i], Tail(s)[j])
    BY <1>1 DEF InProgramOrder
  <2>1. Tail(s)[i] = s[i + 1] /\ Tail(s)[j] = s[j + 1]
    BY <1>1
  <2> QED
    BY <2>1, <1>2, <1>3, <1>5, Zenon DEF InProgramOrder
<1>6. 1 \in 1 .. n /\ Head(s) \in ToSet(s)
  BY <1>1, ToSetIsRange
<1>7. ToSet(Tail(s)) = ToSet(s) \ {Head(s)}
  <2>1. ToSet(Tail(s)) = {s[i + 1] : i \in 1 .. n - 1}
    <3>1. ToSet(Tail(s)) = {Tail(s)[i] : i \in 1 .. Len(Tail(s))}
      BY <1>1, ToSetIsRange, Zenon
    <3> QED
      BY <1>1, <3>1
  <2>2. \A i \in 1 .. n - 1 : s[i + 1] \in ToSet(s) /\ s[i + 1] # s[1]
    BY <1>2, <1>6, ToSetIsRange DEF Distinct
  <2>3. ASSUME NEW j \in 1 .. n, s[j] # s[1] PROVE s[j] \in ToSet(Tail(s))
    <3>1. j - 1 \in 1 .. n - 1 /\ (j - 1) + 1 = j
      BY <1>1, <2>3
    <3> QED
      BY <2>1, <3>1
  <2> QED
    BY <1>1, <2>1, <2>2, <2>3, ToSetIsRange
<1>8. Removed(s, Head(s)) = Tail(s)
  <2> DEFINE at == CHOOSE i \in 1 .. n : s[i] = Head(s)
  <2>1. at = 1
    BY <1>1, <1>6 DEF Distinct
  <2>2. Removed(s, Head(s)) = RemoveAt(s, 1)
    BY <1>6, <2>1 DEF Removed
  <2>3. SubSeq(s, 1, 1 - 1) = <<>> /\ SubSeq(s, 1 + 1, n) = Tail(s)
    BY <1>1, SubSeqEmpty, TailIsSubSeq
  <2> QED
    BY <1>1, <2>2, <2>3, ConcatEmptySeq DEF RemoveAt
<1>9. ASSUME InProgramOrder(s), NEW d \in ToSet(Tail(s)), IsAiM(Head(s)), IsAiM(d)
      PROVE  Before(Head(s), d)
  <2>1. PICK i \in 1 .. n - 1 : d = Tail(s)[i]
    <3>1. ToSet(Tail(s)) = {Tail(s)[i] : i \in 1 .. Len(Tail(s))}
      BY <1>1, ToSetIsRange, Zenon
    <3> QED
      BY <1>1, <1>9, <3>1
  <2>2. d = s[i + 1] /\ i + 1 \in 1 .. n /\ 1 < i + 1
    BY <1>1, <1>2, <2>1
  <2> QED
    BY <1>1, <1>6, <1>9, <2>2, Zenon DEF InProgramOrder
<1> QED
  BY <1>1, <1>4, <1>5, <1>6, <1>7, <1>8, <1>9

(* The copies of one request, by column: the number of copies ahead of one *)
(* tells them apart and takes every value below how many there are.        *)
LEMMA InOrderLists ==
  ASSUME NEW S \in SUBSET CopySet, IsFiniteSet(S),
         \A c, d \in S : c.k = d.k => c = d
  PROVE  /\ InOrder(S) \in Seq(S)
         /\ ToSet(InOrder(S)) = S
         /\ Distinct(InOrder(S))
         /\ \A i, j \in 1 .. Len(InOrder(S)) :
              i < j => InOrder(S)[i].k < InOrder(S)[j].k
<1> DEFINE n == Cardinality(S)
           list == InOrder(S)
           rank == [c \in S |-> Ahead(S, c)]
<1>1. n \in Nat /\ \A c \in S : c.k \in Nat
  BY FS_CardinalityType DEF CopySet
<1>2. ASSUME NEW c \in S, NEW d \in S, c.k < d.k
      PROVE  Ahead(S, c) < Ahead(S, d)
  <2> DEFINE X == {e \in S : e.k < c.k}
             Y == {e \in S : e.k < d.k}
  <2>1. IsFiniteSet(Y) /\ X \in SUBSET Y
    <3>1. \A e \in S : e.k < c.k => e.k < d.k
      BY <1>1, <1>2
    <3>2. X \in SUBSET Y
      BY <3>1
    <3>3. Y \in SUBSET S
      OBVIOUS
    <3>4. IsFiniteSet(Y)
      BY <3>3, FS_Subset, Zenon
    <3> QED
      BY <3>2, <3>4
  <2>2. c \in Y /\ c \notin X
    BY <1>1, <1>2
  <2>3. IsFiniteSet(X) /\ Cardinality(X) <= Cardinality(Y) /\ Cardinality(X) # Cardinality(Y)
    BY <2>1, <2>2, FS_Subset
  <2>4. Cardinality(X) \in Nat /\ Cardinality(Y) \in Nat
    BY <2>1, <2>3, FS_CardinalityType
  <2> QED
    BY <2>3, <2>4 DEF Ahead
<1>3. ASSUME NEW c \in S PROVE Ahead(S, c) \in 0 .. n - 1
  <2> DEFINE X == {e \in S : e.k < c.k}
  <2>1. X \in SUBSET S /\ X # S
    BY <1>1
  <2>2. IsFiniteSet(X) /\ Cardinality(X) <= n /\ Cardinality(X) # n
    BY <2>1, FS_Subset
  <2>3. Cardinality(X) \in Nat
    BY <2>2, FS_CardinalityType
  <2> QED
    BY <1>1, <2>2, <2>3 DEF Ahead
<1>4. rank \in Injection(S, 0 .. n - 1)
  <2>1. \A c \in S : rank[c] \in 0 .. n - 1
    BY <1>3
  <2>2. ASSUME NEW c \in S, NEW d \in S, rank[c] = rank[d] PROVE c = d
    <3>1. ~(c.k < d.k) /\ ~(d.k < c.k)
      BY <1>2, <1>3, <2>2
    <3>2. c.k = d.k
      BY <1>1, <3>1
    <3> QED
      BY <3>2
  <2> QED
    BY <2>1, <2>2 DEF Injection, IsInjective
<1>5. rank \in Surjection(S, 0 .. n - 1)
  <2>1. IsFiniteSet(0 .. n - 1) /\ Cardinality(0 .. n - 1) = n
    BY <1>1, FS_Interval
  <2> QED
    BY <1>4, <2>1, FS_Injection
<1>6. \A i \in 1 .. n : \E c \in S : Ahead(S, c) = i - 1
  <2> SUFFICES ASSUME NEW i \in 1 .. n PROVE \E c \in S : Ahead(S, c) = i - 1
    OBVIOUS
  <2>1. i - 1 \in 0 .. n - 1
    BY <1>1
  <2> QED
    BY <1>5, <2>1 DEF Surjection
<1>7. list = [i \in 1 .. n |-> CHOOSE c \in S : Ahead(S, c) = i - 1]
  BY DEF InOrder
<1>8. /\ list \in Seq(S) /\ Len(list) = n
      /\ \A i \in 1 .. n : list[i] \in S /\ Ahead(S, list[i]) = i - 1
  <2>1. \A i \in 1 .. n : list[i] \in S /\ Ahead(S, list[i]) = i - 1
    <3> SUFFICES ASSUME NEW i \in 1 .. n
                 PROVE  list[i] \in S /\ Ahead(S, list[i]) = i - 1
      OBVIOUS
    <3>1. list[i] = CHOOSE c \in S : Ahead(S, c) = i - 1
      BY <1>7
    <3> QED
      BY <1>6, <3>1
  <2>2. list \in [1 .. n -> S]
    BY <1>7, <2>1
  <2> HIDE DEF list
  <2>3. list \in Seq(S) /\ Len(list) = n
    BY <1>1, <2>2
  <2> QED
    BY <2>1, <2>3
<1>9. \A i, j \in 1 .. n : i < j => list[i].k < list[j].k
  <2> SUFFICES ASSUME NEW i \in 1 .. n, NEW j \in 1 .. n, i < j
               PROVE  list[i].k < list[j].k
    OBVIOUS
  <2> HIDE DEF list
  <2>1. Ahead(S, list[i]) < Ahead(S, list[j])
    BY <1>8
  <2>2. list[i].k \in Nat /\ list[j].k \in Nat
    BY <1>1, <1>8
  <2>3. ~(list[j].k < list[i].k)
    BY <1>2, <1>3, <1>8, <2>1
  <2>4. list[i].k # list[j].k
    BY <1>8, <2>1
  <2> QED
    BY <2>2, <2>3, <2>4
<1>10. ToSet(list) = S
  <2> HIDE DEF list
  <2>1. ToSet(list) = {list[i] : i \in 1 .. n}
    BY <1>8, ToSetIsRange
  <2>2. ASSUME NEW c \in S PROVE \E i \in 1 .. n : list[i] = c
    <3>1. Ahead(S, c) + 1 \in 1 .. n /\ (Ahead(S, c) + 1) - 1 = Ahead(S, c)
      BY <1>1, <1>3
    <3>2. Ahead(S, list[Ahead(S, c) + 1]) = Ahead(S, c) /\ list[Ahead(S, c) + 1] \in S
      BY <1>8, <3>1
    <3>3. list[Ahead(S, c) + 1] = c
      BY <1>4, <3>2 DEF Injection, IsInjective
    <3> QED
      BY <3>1, <3>3
  <2> QED
    BY <1>8, <2>1, <2>2
<1>11. Distinct(list)
  <2> HIDE DEF list
  <2> SUFFICES ASSUME NEW i \in 1 .. n, NEW j \in 1 .. n, list[i] = list[j]
               PROVE  i = j
    BY <1>8 DEF Distinct
  <2>1. i - 1 = j - 1
    BY <1>8
  <2> QED
    BY <1>1, <2>1
<1> QED
  BY <1>8, <1>9, <1>10, <1>11

-----------------------------------------------------------------------------
(* What the handlers do to one channel. *)

(* The kinds of request exclude one another, and a request with copies is  *)
(* of one of them.                                                         *)
LEMMA KindsApart ==
  ASSUME NEW c
  PROVE  /\ IsAiM(c) => ~IsRead(c) /\ ~IsWrite(c)
         /\ IsRead(c) => ~IsWrite(c) /\ c.ins.op \in ReadOps
         /\ IsWrite(c) => c.ins.op \notin ReadOps
         /\ c.ins.op \in Ops \ LocalOps => IsAiM(c) \/ IsRead(c) \/ IsWrite(c)
         /\ IsBarrier(c) => IsAiM(c) /\ c.ins.op \in ReadOps
         /\ Blocking(c) => c.ins.op \in ReadOps
BY DEF IsAiM, IsRead, IsWrite, IsBarrier, Blocking, ReadOps, Ops, LocalOps, AiMOps,
       ConventionalOps, SingleBankOps, MemOps, BroadcastOps, BlockingOps

(* serve_completed_reqs takes the head of pending_reads and any writes.    *)
LEMMA ServeKeeps ==
  ASSUME NEW H, NEW R, NEW W, NEW A, NEW Q, NEW P, NEW V, NEW M,
         Placed(H, R, W, A, Q, P, V), Sorted(R, W, A, Q, P, V), Ordered(H, Q, P, V, M),
         NEW S, NEW P2, NEW D \in SUBSET V,
         \/ P # <<>> /\ S = {Head(P)} /\ P2 = Tail(P)
         \/ S = {} /\ P2 = P
  PROVE  /\ Placed(H \ (S \cup D), R, W, A, Q, P2, V \ D)
         /\ Sorted(R, W, A, Q, P2, V \ D)
         /\ Ordered(H \ (S \cup D), Q, P2, V \ D, M)
<1>1. /\ P \in Seq(CopySet) /\ Distinct(P) /\ InProgramOrder(P)
  BY DEF Placed, Ordered
<1>2. /\ P2 \in Seq(CopySet) /\ Distinct(P2) /\ InProgramOrder(P2)
      /\ S \in SUBSET ToSet(P) /\ ToSet(P2) = ToSet(P) \ S
  <2>1. CASE P # <<>> /\ S = {Head(P)} /\ P2 = Tail(P)
    <3>1. /\ Tail(P) \in Seq(CopySet) /\ Distinct(Tail(P)) /\ InProgramOrder(Tail(P))
          /\ Head(P) \in ToSet(P) /\ ToSet(Tail(P)) = ToSet(P) \ {Head(P)}
      BY <1>1, <2>1, TailOfList
    <3> QED
      BY <2>1, <3>1
  <2>2. CASE S = {} /\ P2 = P
    BY <1>1, <2>2
  <2> QED
    BY <2>1, <2>2
<1>3. IsFiniteSet(H \ (S \cup D))
  BY FS_Subset DEF Placed
<1>4. /\ Q \in Seq(CopySet) /\ Distinct(Q) /\ H \ (S \cup D) \in SUBSET CopySet
  BY DEF Placed
<1>5. H \ (S \cup D) = (V \ D) \cup ToSet(P2) \cup R \cup W \cup A \cup ToSet(Q)
  BY <1>2 DEF Placed
<1>6. Placed(H \ (S \cup D), R, W, A, Q, P2, V \ D)
  BY <1>2, <1>3, <1>4, <1>5 DEF Placed
<1>7. Sorted(R, W, A, Q, P2, V \ D)
  BY <1>2 DEF Sorted
<1>8. Ordered(H \ (S \cup D), Q, P2, V \ D, M)
  BY <1>2 DEF Ordered
<1> QED
  BY <1>6, <1>7, <1>8

(* A request leaves its buffer: of the AiM requests it can be the first.   *)
LEMMA RemovedFromList ==
  ASSUME NEW Q \in Seq(CopySet), Distinct(Q), InProgramOrder(Q), NEW c,
         c \in ToSet(Q) => c = Head(Q)
  PROVE  /\ Removed(Q, c) \in Seq(CopySet)
         /\ Distinct(Removed(Q, c)) /\ InProgramOrder(Removed(Q, c))
         /\ ToSet(Removed(Q, c)) = ToSet(Q) \ {c}
         /\ Q = <<>> => Removed(Q, c) = <<>>
         /\ c \in ToSet(Q) =>
              \A d \in ToSet(Removed(Q, c)) : IsAiM(c) /\ IsAiM(d) => Before(c, d)
<1>1. CASE c \in ToSet(Q)
  <2>1. Q # <<>> /\ c = Head(Q)
    BY <1>1, ToSetIsRange
  <2>2. /\ Tail(Q) \in Seq(CopySet) /\ Distinct(Tail(Q)) /\ InProgramOrder(Tail(Q))
        /\ ToSet(Tail(Q)) = ToSet(Q) \ {Head(Q)} /\ Removed(Q, Head(Q)) = Tail(Q)
        /\ \A d \in ToSet(Tail(Q)) : IsAiM(Head(Q)) /\ IsAiM(d) => Before(Head(Q), d)
    BY <2>1, TailOfList
  <2> QED
    BY <2>1, <2>2
<1>2. CASE c \notin ToSet(Q)
  <2>1. Removed(Q, c) = Q
    BY <1>2 DEF Removed
  <2> QED
    BY <1>2, <2>1
<1> QED
  BY <1>1, <1>2

(* The final command: from its buffer to what is pending.                  *)
LEMMA FinalKeeps ==
  ASSUME NEW H, NEW R, NEW W, NEW A, NEW Q, NEW P, NEW V, NEW M,
         Placed(H, R, W, A, Q, P, V), Sorted(R, W, A, Q, P, V), Ordered(H, Q, P, V, M),
         NEW c \in R \cup W \cup A \cup ToSet(Q), c \in ToSet(Q) => c = Head(Q),
         NEW P2, NEW V2,
         \/ c.ins.op \in ReadOps /\ P2 = Append(P, c) /\ V2 = V
         \/ c.ins.op \notin ReadOps /\ P2 = P /\ V2 = V \cup {c}
  PROVE  /\ Placed(H, R \ {c}, W \ {c}, A \ {c}, Removed(Q, c), P2, V2)
         /\ Sorted(R \ {c}, W \ {c}, A \ {c}, Removed(Q, c), P2, V2)
         /\ Ordered(H, Removed(Q, c), P2, V2, M)
<1> DEFINE Q2 == Removed(Q, c)
<1>1. /\ Q \in Seq(CopySet) /\ Distinct(Q) /\ InProgramOrder(Q)
      /\ P \in Seq(CopySet) /\ Distinct(P) /\ InProgramOrder(P)
      /\ c \in CopySet /\ c \in H
  BY DEF Placed, Ordered
<1>2. /\ Q2 \in Seq(CopySet) /\ Distinct(Q2) /\ InProgramOrder(Q2)
      /\ ToSet(Q2) = ToSet(Q) \ {c}
      /\ Q = <<>> => Q2 = <<>>
      /\ c \in ToSet(Q) => \A d \in ToSet(Q2) : IsAiM(c) /\ IsAiM(d) => Before(c, d)
  BY <1>1, RemovedFromList
<1> HIDE DEF Q2
<1>3. c \notin ToSet(P) /\ c \notin V
  BY DEF Placed
<1>4. IsAiM(c) => c \in ToSet(Q)
  BY KindsApart DEF Sorted
<1>5. \A e \in ToSet(P) : IsAiM(e) /\ IsAiM(c) => Before(e, c)
  BY <1>4 DEF Ordered
<1>6. /\ P2 \in Seq(CopySet) /\ Distinct(P2) /\ InProgramOrder(P2)
      /\ ToSet(P2) \cup V2 = ToSet(P) \cup V \cup {c}
      /\ ToSet(P2) \cap V2 = {}
      /\ \A e \in ToSet(P2) : e.ins.op \in ReadOps
      /\ \A e \in V2 : e.ins.op \notin ReadOps
  <2>1. CASE c.ins.op \in ReadOps /\ P2 = Append(P, c) /\ V2 = V
    <3>1. PICK one \in Seq(CopySet) :
            ToSet(one) = {c} /\ Distinct(one) /\ InProgramOrder(one) /\ P2 = P \o one
      BY <1>1, <2>1, SingletonList, Zenon
    <3>2. P2 \in Seq(CopySet) /\ ToSet(P2) = ToSet(P) \cup {c}
      BY <1>1, <3>1, ToSetOfConcat, ConcatProperties
    <3>3. ToSet(P) \cap ToSet(one) = {}
      BY <1>3, <3>1
    <3>4. Distinct(P2)
      BY <1>1, <3>1, <3>3, DistinctConcat
    <3>5. InProgramOrder(P2)
      BY <1>1, <1>5, <3>1, ProgramOrderConcat
    <3>6. ToSet(P) \cap V = {} /\ \A e \in ToSet(P) : e.ins.op \in ReadOps
      BY DEF Placed, Sorted
    <3>7. \A e \in V : e.ins.op \notin ReadOps
      BY DEF Sorted
    <3> QED
      BY <1>3, <2>1, <3>2, <3>4, <3>5, <3>6, <3>7
  <2>2. CASE c.ins.op \notin ReadOps /\ P2 = P /\ V2 = V \cup {c}
    BY <1>1, <1>3, <2>2 DEF Placed, Sorted
  <2> QED
    BY <2>1, <2>2
<1>7. Placed(H, R \ {c}, W \ {c}, A \ {c}, Q2, P2, V2)
  <2>1. H = V2 \cup ToSet(P2) \cup (R \ {c}) \cup (W \ {c}) \cup (A \ {c}) \cup ToSet(Q2)
    BY <1>2, <1>6 DEF Placed
  <2>2. \A X : X \cap ToSet(P) = {} /\ X \cap V = {} =>
          (X \ {c}) \cap ToSet(P2) = {} /\ (X \ {c}) \cap V2 = {}
    BY <1>6
  <2>3. /\ (R \ {c}) \cap ToSet(P2) = {} /\ (R \ {c}) \cap V2 = {}
        /\ (W \ {c}) \cap ToSet(P2) = {} /\ (W \ {c}) \cap V2 = {}
        /\ (A \ {c}) \cap ToSet(P2) = {} /\ (A \ {c}) \cap V2 = {}
        /\ ToSet(Q2) \cap ToSet(P2) = {} /\ ToSet(Q2) \cap V2 = {}
    BY <1>2, <2>2 DEF Placed
  <2>4. /\ (R \ {c}) \cap (W \ {c}) = {} /\ (R \ {c}) \cap (A \ {c}) = {}
        /\ (R \ {c}) \cap ToSet(Q2) = {} /\ (W \ {c}) \cap (A \ {c}) = {}
        /\ (W \ {c}) \cap ToSet(Q2) = {} /\ (A \ {c}) \cap ToSet(Q2) = {}
    BY <1>2 DEF Placed
  <2>5. H \in SUBSET CopySet /\ IsFiniteSet(H)
    BY DEF Placed
  <2> QED
    BY <1>2, <1>6, <2>1, <2>3, <2>4, <2>5 DEF Placed
<1>8. Sorted(R \ {c}, W \ {c}, A \ {c}, Q2, P2, V2)
  BY <1>2, <1>6 DEF Sorted
<1>9. Ordered(H, Q2, P2, V2, M)
  <2>1. \A d \in ToSet(Q2) : IsAiM(d) /\ d \in ToSet(Q)
    BY <1>2 DEF Sorted
  <2>2. \A d \in ToSet(Q2) : IsAiM(c) => Before(c, d)
    BY <1>2, <1>4, <2>1
  <2>3. \A e \in V \cup ToSet(P), d \in ToSet(Q2) : IsAiM(e) => Before(e, d)
    BY <2>1 DEF Ordered
  <2>4. \A e \in V2 \cup ToSet(P2), d \in ToSet(Q2) : IsAiM(e) => Before(e, d)
    BY <1>6, <2>2, <2>3
  <2> QED
    BY <1>2, <1>6, <2>4 DEF Ordered
<1> QED
  BY <1>7, <1>8, <1>9 DEF Q2

(* A conventional request whose row is being opened moves to the active    *)
(* buffer, or stays there.                                                 *)
LEMMA ActivateKeeps ==
  ASSUME NEW H, NEW R, NEW W, NEW A, NEW Q, NEW P, NEW V,
         Placed(H, R, W, A, Q, P, V), Sorted(R, W, A, Q, P, V),
         NEW c \in R \cup W \cup A
  PROVE  /\ Removed(Q, c) = Q
         /\ Placed(H, R \ {c}, W \ {c}, A \cup {c}, Q, P, V)
         /\ Sorted(R \ {c}, W \ {c}, A \cup {c}, Q, P, V)
<1>1. c \notin ToSet(Q) /\ c \notin ToSet(P) /\ c \notin V
  BY DEF Placed
<1>2. Removed(Q, c) = Q
  BY <1>1 DEF Removed
<1>3. Placed(H, R \ {c}, W \ {c}, A \cup {c}, Q, P, V)
  BY <1>1 DEF Placed
<1>4. Sorted(R \ {c}, W \ {c}, A \cup {c}, Q, P, V)
  BY DEF Sorted
<1> QED
  BY <1>2, <1>3, <1>4

OneRequest(todo) ==
  \A c, d \in todo : c.ins = d.ins /\ c.id = d.id /\ (c.k = d.k => c = d)

(* What is admitted meets only its own kind in the buffers.                *)
MeetsItsKind(sent, R, W, Q) ==
  \A c \in sent : IF IsAiM(c) THEN R = {} /\ W = {} ELSE Q = <<>>

(* Where what is admitted goes.                                            *)
Splits(sent, fwd, aims, reads, writes) ==
  /\ fwd \in SUBSET sent /\ \A c \in fwd : IsRead(c)
  /\ aims = {c \in sent \ fwd : IsAiM(c)}
  /\ reads = {c \in sent \ fwd : IsRead(c)}
  /\ writes = {c \in sent \ fwd : IsWrite(c)}

(* What the controller admits of the copies todo of one request: reads that *)
(* are answered from the write buffer go straight to what is pending.      *)
LEMMA AcceptKeeps ==
  ASSUME NEW H, NEW R, NEW W, NEW A, NEW Q, NEW P, NEW V, NEW todo,
         Placed(H, R, W, A, Q, P, V), Sorted(R, W, A, Q, P, V), Ordered(H, Q, P, V, todo),
         todo \in SUBSET CopySet, Sendable(todo), OneRequest(todo), todo \cap H = {},
         NEW sent, IsPrefixOf(sent, todo), MeetsItsKind(sent, R, W, Q),
         NEW fwd, NEW aims, NEW reads, NEW writes, Splits(sent, fwd, aims, reads, writes)
  PROVE  /\ Placed(H \cup sent, R \cup reads, W \cup writes, A, Q \o InOrder(aims),
                   P \o InOrder(fwd), V)
         /\ Sorted(R \cup reads, W \cup writes, A, Q \o InOrder(aims),
                   P \o InOrder(fwd), V)
         /\ Ordered(H \cup sent, Q \o InOrder(aims), P \o InOrder(fwd), V, todo \ sent)
         /\ Sendable(todo \ sent)
<1>a. /\ \A c, d \in todo : c.ins = d.ins /\ c.id = d.id /\ (c.k = d.k => c = d)
      /\ \A c \in todo : c.ins.op \in Ops \ LocalOps
      /\ sent \in SUBSET todo /\ \A c \in sent, d \in todo \ sent : c.k < d.k
      /\ fwd \in SUBSET sent /\ \A c \in fwd : IsRead(c)
      /\ aims = {c \in sent \ fwd : IsAiM(c)}
      /\ reads = {c \in sent \ fwd : IsRead(c)}
      /\ writes = {c \in sent \ fwd : IsWrite(c)}
  BY DEF OneRequest, Sendable, IsPrefixOf, Splits
<1> USE <1>a
<1> DEFINE qs == InOrder(aims)
           ps == InOrder(fwd)
<1>1. /\ Q \in Seq(CopySet) /\ Distinct(Q) /\ InProgramOrder(Q)
      /\ P \in Seq(CopySet) /\ Distinct(P) /\ InProgramOrder(P)
      /\ H \in SUBSET CopySet /\ IsFiniteSet(H) /\ IsFiniteSet(todo)
  BY DEF Placed, Ordered, Sendable
<1>2. ASSUME NEW S \in SUBSET sent
      PROVE  /\ InOrder(S) \in Seq(CopySet) /\ ToSet(InOrder(S)) = S
             /\ Distinct(InOrder(S)) /\ InProgramOrder(InOrder(S))
  <2>1. S \in SUBSET CopySet /\ IsFiniteSet(S)
    <3>1. S \in SUBSET todo
      OBVIOUS
    <3> QED
      BY <1>1, <3>1, FS_Subset
  <2>2. \A c, d \in S : c.k = d.k => c = d
    OBVIOUS
  <2>3. /\ InOrder(S) \in Seq(S) /\ ToSet(InOrder(S)) = S /\ Distinct(InOrder(S))
        /\ \A i, j \in 1 .. Len(InOrder(S)) :
             i < j => InOrder(S)[i].k < InOrder(S)[j].k
    BY <2>1, <2>2, InOrderLists
  <2>4. InOrder(S) \in Seq(CopySet)
    BY <2>1, <2>3, SeqMonotonic
  <2>5. InProgramOrder(InOrder(S))
    <3>1. \A i \in 1 .. Len(InOrder(S)) : InOrder(S)[i] \in todo
      BY <2>3, ElementOfSeq
    <3> QED
      BY <2>3, <3>1 DEF InProgramOrder, Before
  <2> QED
    BY <2>3, <2>4, <2>5
<1>3. /\ qs \in Seq(CopySet) /\ ToSet(qs) = aims /\ Distinct(qs) /\ InProgramOrder(qs)
      /\ ps \in Seq(CopySet) /\ ToSet(ps) = fwd /\ Distinct(ps) /\ InProgramOrder(ps)
  <2>1. aims \in SUBSET sent /\ fwd \in SUBSET sent
    OBVIOUS
  <2> QED
    BY <1>2, <2>1
<1> HIDE DEF qs, ps
<1>4. /\ sent = aims \cup reads \cup writes \cup fwd
      /\ aims \cap reads = {} /\ aims \cap writes = {} /\ aims \cap fwd = {}
      /\ reads \cap writes = {} /\ reads \cap fwd = {} /\ writes \cap fwd = {}
  <2>1. \A c \in sent : IsAiM(c) \/ IsRead(c) \/ IsWrite(c)
    <3>1. \A c \in sent : c.ins.op \in Ops \ LocalOps
      BY DEF Sendable
    <3> QED
      BY <3>1, KindsApart
  <2>2. \A c \in sent : /\ IsAiM(c) => ~IsRead(c) /\ ~IsWrite(c)
                        /\ IsRead(c) => ~IsWrite(c)
    BY KindsApart
  <2> QED
    BY <2>1, <2>2
<1>5. /\ ToSet(Q) \cup ToSet(P) \cup V \cup R \cup W \cup A = H
      /\ sent \cap H = {}
  BY DEF Placed
<1>6. \A c \in H, d \in todo : Before(c, d)
  BY DEF Ordered
<1>7. /\ Q \o qs \in Seq(CopySet) /\ Distinct(Q \o qs) /\ InProgramOrder(Q \o qs)
      /\ ToSet(Q \o qs) = ToSet(Q) \cup aims
  <2>1. ToSet(Q) \cap ToSet(qs) = {}
    BY <1>3, <1>4, <1>5
  <2>2. \A c \in ToSet(Q), d \in ToSet(qs) : IsAiM(c) /\ IsAiM(d) => Before(c, d)
    BY <1>3, <1>4, <1>5, <1>6
  <2>3. ToSet(Q \o qs) = ToSet(Q) \cup ToSet(qs)
    BY <1>1, <1>3, ToSetOfConcat
  <2>4. Distinct(Q \o qs)
    BY <1>1, <1>3, <2>1, DistinctConcat
  <2>5. InProgramOrder(Q \o qs)
    BY <1>1, <1>3, <2>2, ProgramOrderConcat
  <2> QED
    BY <1>1, <1>3, <2>3, <2>4, <2>5, ConcatProperties
<1>8. /\ P \o ps \in Seq(CopySet) /\ Distinct(P \o ps) /\ InProgramOrder(P \o ps)
      /\ ToSet(P \o ps) = ToSet(P) \cup fwd
  <2>1. ToSet(P) \cap ToSet(ps) = {}
    BY <1>3, <1>4, <1>5
  <2>2. \A c \in ToSet(P), d \in ToSet(ps) : IsAiM(c) /\ IsAiM(d) => Before(c, d)
    BY <1>3, <1>5, <1>6
  <2>3. ToSet(P \o ps) = ToSet(P) \cup ToSet(ps)
    BY <1>1, <1>3, ToSetOfConcat
  <2>4. Distinct(P \o ps)
    BY <1>1, <1>3, <2>1, DistinctConcat
  <2>5. InProgramOrder(P \o ps)
    BY <1>1, <1>3, <2>2, ProgramOrderConcat
  <2> QED
    BY <1>1, <1>3, <2>3, <2>4, <2>5, ConcatProperties
<1>9. Placed(H \cup sent, R \cup reads, W \cup writes, A, Q \o qs, P \o ps, V)
  <2>1. IsFiniteSet(H \cup sent) /\ H \cup sent \in SUBSET CopySet
    <3>1. IsFiniteSet(sent)
      BY <1>1, FS_Subset
    <3> QED
      BY <1>1, <3>1, FS_Union
  <2>2. H \cup sent = V \cup ToSet(P \o ps) \cup (R \cup reads) \cup (W \cup writes)
                     \cup A \cup ToSet(Q \o qs)
    BY <1>4, <1>5, <1>7, <1>8
  <2>3. \A X, Y : X \in SUBSET H /\ Y \in SUBSET sent => X \cap Y = {}
    BY <1>5
  <2>4. /\ aims \in SUBSET sent /\ reads \in SUBSET sent /\ writes \in SUBSET sent
        /\ R \in SUBSET H /\ W \in SUBSET H /\ A \in SUBSET H /\ V \in SUBSET H
        /\ ToSet(P) \in SUBSET H /\ ToSet(Q) \in SUBSET H
    BY <1>5
  <2>5. /\ (R \cup reads) \cap (W \cup writes) = {} /\ (R \cup reads) \cap A = {}
        /\ (R \cup reads) \cap ToSet(Q \o qs) = {}
        /\ (R \cup reads) \cap ToSet(P \o ps) = {} /\ (R \cup reads) \cap V = {}
    BY <1>4, <1>5, <1>7, <1>8, <2>4 DEF Placed
  <2>6. /\ (W \cup writes) \cap A = {} /\ (W \cup writes) \cap ToSet(Q \o qs) = {}
        /\ (W \cup writes) \cap ToSet(P \o ps) = {} /\ (W \cup writes) \cap V = {}
    BY <1>4, <1>5, <1>7, <1>8, <2>4 DEF Placed
  <2>7. /\ A \cap ToSet(Q \o qs) = {} /\ A \cap ToSet(P \o ps) = {} /\ A \cap V = {}
        /\ ToSet(Q \o qs) \cap ToSet(P \o ps) = {} /\ ToSet(Q \o qs) \cap V = {}
        /\ ToSet(P \o ps) \cap V = {}
    BY <1>4, <1>5, <1>7, <1>8, <2>4 DEF Placed
  <2> QED
    BY <1>7, <1>8, <2>1, <2>2, <2>5, <2>6, <2>7 DEF Placed
<1>10. Sorted(R \cup reads, W \cup writes, A, Q \o qs, P \o ps, V)
  <2>1. Q \o qs = <<>> \/ (R \cup reads = {} /\ W \cup writes = {})
    <3>0. Q \o qs = <<>> <=> ToSet(Q) = {} /\ aims = {}
      <4>1. Q \o qs = <<>> <=> ToSet(Q \o qs) = {}
        BY <1>7, EmptyList, Zenon
      <4> QED
        BY <1>7, <4>1
    <3>1. CASE aims # {}
      <4>1. \A c \in sent : IsAiM(c)
        BY <3>1 DEF IsAiM
      <4>2. reads = {} /\ writes = {}
        BY <4>1, KindsApart
      <4>3. R = {} /\ W = {}
        BY <3>1, <4>1 DEF MeetsItsKind
      <4> QED
        BY <4>2, <4>3
    <3>2. CASE aims = {} /\ reads \cup writes # {}
      <4>1. Q = <<>>
        BY <3>2, <1>4 DEF MeetsItsKind
      <4>2. ToSet(Q) = {}
        BY <1>1, <4>1, ToSetIsRange, Zenon
      <4> QED
        BY <3>0, <3>2, <4>2, Zenon
    <3>3. CASE aims = {} /\ reads \cup writes = {}
      <4>1. Q = <<>> <=> ToSet(Q) = {}
        BY <1>1, EmptyList, Zenon
      <4>2. Q = <<>> \/ (R = {} /\ W = {})
        BY DEF Sorted
      <4>3. CASE Q = <<>>
        BY <3>0, <3>3, <4>1, <4>3, Zenon
      <4>4. CASE R = {} /\ W = {}
        BY <3>3, <4>4
      <4> QED
        BY <4>2, <4>3, <4>4
    <3> QED
      BY <3>1, <3>2, <3>3
  <2>2. /\ \A c \in R \cup reads : IsRead(c)
        /\ \A c \in W \cup writes : IsWrite(c)
        /\ \A c \in A : IsRead(c) \/ IsWrite(c)
        /\ \A c \in ToSet(Q \o qs) : IsAiM(c)
        /\ \A c \in V : c.ins.op \notin ReadOps
    BY <1>7 DEF Sorted
  <2>3. \A c \in ToSet(P \o ps) : c.ins.op \in ReadOps
    BY <1>8, KindsApart DEF Sorted
  <2> QED
    BY <2>1, <2>2, <2>3 DEF Sorted
<1>11. Ordered(H \cup sent, Q \o qs, P \o ps, V, todo \ sent)
  <2>1. \A c \in sent, d \in todo \ sent : Before(c, d)
    BY DEF Before
  <2>2. \A c \in fwd : ~IsAiM(c)
    BY KindsApart
  <2>3. \A c \in V \cup ToSet(P), d \in ToSet(Q) \cup aims : IsAiM(c) => Before(c, d)
    BY <1>5, <1>6 DEF Ordered
  <2> QED
    BY <1>6, <1>7, <1>8, <2>1, <2>2, <2>3 DEF Ordered
<1>12. Sendable(todo \ sent)
  BY <1>1, FS_Subset DEF Sendable
<1> QED
  BY <1>9, <1>10, <1>11, <1>12 DEF qs, ps

-----------------------------------------------------------------------------
(* Commands and rows. *)

(* A command may close the row of an activated request, but none opens     *)
(* another row in its bank; and since no two of them share a bank, an      *)
(* activation always finds room in the active buffer.                      *)
LEMMA CommandKeepsRows ==
  ASSUME NEW A, NEW open \in [Banks -> Rows \cup {Closed}], RowsKept(A, open),
         \A r \in A : r.ins \in Instrs /\ r.ins.op \in BankOps,
         NEW c, NEW ins \in Instrs, NEW cmd, cmd = Preq(open, ins),
         c.ins = ins,
         \A r \in A : open[r.ins.bank] = Closed =>
           cmd # "ACT16" /\ (cmd = "ACT" /\ ins.bank = r.ins.bank => c = r),
         ~(IsClosing(cmd, ins) /\ ins.op \in BankOps /\ \E r \in A : r.ins.bank = ins.bank)
  PROVE  /\ AfterCommand(open, cmd, ins) \in [Banks -> Rows \cup {Closed}]
         /\ RowsKept(A, AfterCommand(open, cmd, ins))
         /\ cmd = "ACT" =>
              /\ Cardinality(A) <= BufMax
              /\ \A r \in A : r.ins.bank = ins.bank => r = c
              /\ AfterCommand(open, cmd, ins)[ins.bank] = ins.row
         /\ ins.op \in BankOps => (cmd = "COL" <=> open[ins.bank] = ins.row)
<1> DEFINE after == AfterCommand(open, cmd, ins)
<1>1. /\ Closed \notin Rows
      /\ ins.op \in BankOps => ins.bank \in Banks /\ ins.row \in Rows
      /\ ins.op \in AllBankOps => ins.row \in Rows
      /\ \A r \in A : r.ins.bank \in Banks /\ r.ins.row \in Rows
      /\ \A r \in A : open[r.ins.bank] \in {r.ins.row, Closed}
      /\ \A r, s \in A : r.ins.bank = s.ins.bank => r = s
  BY ControllerAssumption, AddressAssumption DEF RowsKept
<1>2. ins.op \in BankOps =>
        /\ cmd = "ACT" => open[ins.bank] = Closed
        /\ cmd = "COL" <=> open[ins.bank] = ins.row
        /\ cmd \in {"ACT", "COL", "PRE"} /\ ins.op # "WR_ABK"
  BY <1>1 DEF Preq, BankOps, ConventionalOps, SingleBankOps, MemOps
<1>3. ins.op \notin BankOps /\ ins.op \in AllBankOps =>
        /\ cmd \in {"PREA", "COL", "ACT16"}
        /\ cmd = "ACT16" => \A b \in Banks : open[b] \in {Closed, ins.row}
  BY DEF Preq
<1>4. ins.op \notin BankOps /\ ins.op \notin AllBankOps => cmd = "COL" /\ ins.op # "WR_ABK"
  BY DEF Preq, AllBankOps
<1>5. CASE ins.op \in BankOps /\ cmd = "ACT"
  <2>1. after = [open EXCEPT ![ins.bank] = ins.row]
    BY <1>5 DEF AfterCommand
  <2>2. \A r \in A : r.ins.bank = ins.bank => r = c
    BY <1>1, <1>2, <1>5
  <2>3. after \in [Banks -> Rows \cup {Closed}] /\ after[ins.bank] = ins.row
    BY <1>1, <1>5, <2>1
  <2>4. RowsKept(A, after)
    <3>1. ASSUME NEW r \in A PROVE after[r.ins.bank] \in {r.ins.row, Closed}
      <4>1. CASE r.ins.bank = ins.bank
        BY <1>1, <2>2, <2>3, <4>1, c.ins = ins
      <4>2. CASE r.ins.bank # ins.bank
        BY <1>1, <2>1, <4>2
      <4> QED
        BY <4>1, <4>2
    <3> QED
      BY <1>1, <3>1 DEF RowsKept
  <2>5. Cardinality(A) <= BufMax
    <3> DEFINE bankOf == [r \in A |-> r.ins.bank]
    <3>1. bankOf \in Injection(A, Banks)
      BY <1>1 DEF Injection, IsInjective
    <3>2. IsFiniteSet(A) /\ Cardinality(A) <= Cardinality(Banks)
      BY <3>1, ControllerAssumption, FS_Injection
    <3>3. /\ Cardinality(A) \in Nat /\ Cardinality(Banks) \in Nat
          /\ BufMax \in Nat /\ Cardinality(Banks) <= BufMax
      BY <3>2, ControllerAssumption, FS_CardinalityType
    <3> QED
      BY <3>2, <3>3
  <2> QED
    BY <1>2, <2>2, <2>3, <2>4, <2>5
<1>6. CASE ins.op \in BankOps /\ cmd = "PRE"
  <2>1. after = [open EXCEPT ![ins.bank] = Closed]
    BY <1>6 DEF AfterCommand
  <2>2. \A r \in A : r.ins.bank # ins.bank
    BY <1>6 DEF IsClosing
  <2> QED
    BY <1>1, <1>2, <1>6, <2>1, <2>2 DEF RowsKept
<1>7. CASE ins.op \in BankOps /\ cmd = "COL"
  <2>1. after = open
    BY <1>2, <1>7 DEF AfterCommand
  <2> QED
    BY <1>2, <1>7, <2>1
<1>8. CASE ins.op \notin BankOps /\ ins.op \in AllBankOps /\ cmd = "ACT16"
  <2>1. after = [b \in Banks |-> ins.row]
    BY <1>8 DEF AfterCommand
  <2>2. \A r \in A : r.ins.row = ins.row
    BY <1>1, <1>3, <1>8, Closed \notin Rows
  <2> QED
    BY <1>1, <1>8, <2>1, <2>2 DEF RowsKept
<1>9. CASE ins.op \notin BankOps /\ ins.op \in AllBankOps /\ IsClosing(cmd, ins)
  <2>1. after = [b \in Banks |-> Closed]
    BY <1>3, <1>9 DEF AfterCommand, IsClosing
  <2>2. cmd # "ACT"
    BY <1>3, <1>9
  <2> QED
    BY <1>1, <1>9, <2>1, <2>2 DEF RowsKept
<1>10. CASE ins.op \notin BankOps /\ cmd = "COL" /\ ins.op # "WR_ABK"
  <2>1. after = open
    BY <1>10 DEF AfterCommand
  <2> QED
    BY <1>10, <2>1
<1> QED
  BY <1>2, <1>3, <1>4, <1>5, <1>6, <1>7, <1>8, <1>9, <1>10 DEF IsClosing

-----------------------------------------------------------------------------
(* From one channel to the state. *)

LEMMA ChannelTypes ==
  ASSUME SysTypeOK
  PROVE  /\ TypeOK
         /\ active \in [Channels -> SUBSET CopySet]
         /\ readBuf \in [Channels -> SUBSET CopySet]
         /\ writeBuf \in [Channels -> SUBSET CopySet]
         /\ pendingWrites \in [Channels -> SUBSET CopySet]
         /\ aimBuf \in [Channels -> Seq(CopySet)]
         /\ pendingReads \in [Channels -> Seq(CopySet)]
         /\ held \in [Channels -> SUBSET CopySet]
         /\ remaining \in [Channels -> SUBSET CopySet]
         /\ writeMode \in [Channels -> BOOLEAN]
         /\ regRW \in [Channels -> BOOLEAN]
         /\ openRow \in [Channels -> [Banks -> Rows \cup {Closed}]]
<1>1. \A f \in {active, readBuf, writeBuf, pendingWrites} : f \in [Channels -> SUBSET CopySet]
  BY DEF SysTypeOK
<1>2. \A f \in {aimBuf, pendingReads} : f \in [Channels -> Seq(CopySet)]
  BY DEF SysTypeOK
<1>3. held \in [Channels -> SUBSET CopySet] /\ remaining \in [Channels -> SUBSET CopySet]
  BY DEF SysTypeOK, TypeOK
<1> QED
  BY <1>1, <1>2, <1>3, Zenon DEF SysTypeOK

(* A step that touches one channel only: what its lists become.            *)
Becomes(ch, H, R, W, A, Q, P, V, open) ==
  /\ held' = [held EXCEPT ![ch] = H]
  /\ readBuf' = [readBuf EXCEPT ![ch] = R]
  /\ writeBuf' = [writeBuf EXCEPT ![ch] = W]
  /\ active' = [active EXCEPT ![ch] = A]
  /\ aimBuf' = [aimBuf EXCEPT ![ch] = Q]
  /\ pendingReads' = [pendingReads EXCEPT ![ch] = P]
  /\ pendingWrites' = [pendingWrites EXCEPT ![ch] = V]
  /\ openRow' = [openRow EXCEPT ![ch] = open]
  /\ remaining' = remaining
  /\ writeMode' \in [Channels -> BOOLEAN]
  /\ regRW' \in [Channels -> BOOLEAN]

LEMMA ChannelStep ==
  ASSUME SysInv, IInv', NEW ch \in Channels,
         NEW H, NEW R, NEW W, NEW A, NEW Q, NEW P, NEW V,
         NEW open \in [Banks -> Rows \cup {Closed}],
         Becomes(ch, H, R, W, A, Q, P, V, open),
         Placed(H, R, W, A, Q, P, V), Sorted(R, W, A, Q, P, V),
         Ordered(H, Q, P, V, remaining[ch]), RowsKept(A, open)
  PROVE  SysInv'
<1>0. /\ held' = [held EXCEPT ![ch] = H]
      /\ readBuf' = [readBuf EXCEPT ![ch] = R]
      /\ writeBuf' = [writeBuf EXCEPT ![ch] = W]
      /\ active' = [active EXCEPT ![ch] = A]
      /\ aimBuf' = [aimBuf EXCEPT ![ch] = Q]
      /\ pendingReads' = [pendingReads EXCEPT ![ch] = P]
      /\ pendingWrites' = [pendingWrites EXCEPT ![ch] = V]
      /\ openRow' = [openRow EXCEPT ![ch] = open]
      /\ remaining' = remaining
      /\ writeMode' \in [Channels -> BOOLEAN] /\ regRW' \in [Channels -> BOOLEAN]
  BY DEF Becomes
<1>1. /\ active \in [Channels -> SUBSET CopySet]
      /\ readBuf \in [Channels -> SUBSET CopySet]
      /\ writeBuf \in [Channels -> SUBSET CopySet]
      /\ pendingWrites \in [Channels -> SUBSET CopySet]
      /\ aimBuf \in [Channels -> Seq(CopySet)]
      /\ pendingReads \in [Channels -> Seq(CopySet)]
      /\ held \in [Channels -> SUBSET CopySet]
      /\ openRow \in [Channels -> [Banks -> Rows \cup {Closed}]]
  BY ChannelTypes DEF SysInv
<1>2. /\ R \in SUBSET CopySet /\ W \in SUBSET CopySet /\ A \in SUBSET CopySet
      /\ V \in SUBSET CopySet /\ Q \in Seq(CopySet) /\ P \in Seq(CopySet)
  BY DEF Placed
<1>3. SysTypeOK'
  <2>1. /\ active' \in [Channels -> SUBSET CopySet]
        /\ readBuf' \in [Channels -> SUBSET CopySet]
        /\ writeBuf' \in [Channels -> SUBSET CopySet]
        /\ pendingWrites' \in [Channels -> SUBSET CopySet]
    BY <1>0, <1>1, <1>2
  <2>2. /\ aimBuf' \in [Channels -> Seq(CopySet)]
        /\ pendingReads' \in [Channels -> Seq(CopySet)]
    BY <1>0, <1>1, <1>2
  <2>3. openRow' \in [Channels -> [Banks -> Rows \cup {Closed}]]
    BY <1>0, <1>1
  <2>4. TypeOK'
    BY DEF IInv
  <2> QED
    BY <1>0, <2>1, <2>2, <2>3, <2>4 DEF SysTypeOK
<1>4. ASSUME NEW d \in Channels PROVE ChannelInv(d)'
  <2>1. CASE d = ch
    <3>1. /\ held'[d] = H /\ readBuf'[d] = R /\ writeBuf'[d] = W /\ active'[d] = A
          /\ aimBuf'[d] = Q /\ pendingReads'[d] = P /\ pendingWrites'[d] = V
          /\ openRow'[d] = open /\ remaining'[d] = remaining[ch]
      BY <1>0, <1>1, <2>1
    <3>2. Sendable(remaining[ch])
      BY DEF SysInv, ChannelInv
    <3> QED
      BY <3>1, <3>2 DEF ChannelInv
  <2>2. CASE d # ch
    <3>1. /\ held'[d] = held[d] /\ readBuf'[d] = readBuf[d] /\ writeBuf'[d] = writeBuf[d]
          /\ active'[d] = active[d] /\ aimBuf'[d] = aimBuf[d]
          /\ pendingReads'[d] = pendingReads[d] /\ pendingWrites'[d] = pendingWrites[d]
          /\ openRow'[d] = openRow[d] /\ remaining'[d] = remaining[d]
      BY <1>0, <1>1, <2>2
    <3>2. ChannelInv(d)
      BY DEF SysInv
    <3> QED
      BY <3>1, <3>2 DEF ChannelInv
  <2> QED
    BY <2>1, <2>2
<1> QED
  BY <1>3, <1>4 DEF SysInv

-----------------------------------------------------------------------------
(* AiMDRAMController::tick. *)

(* The completions of a tick: S is the read that departs, if any, and P    *)
(* what is pending after it.                                               *)
Completes(ch, S, P, departed) ==
  \E serve \in BOOLEAN :
    /\ ServeCompleted(ch, serve, departed)
    /\ S = IF serve THEN {Head(pendingReads[ch])} ELSE {}
    /\ P = IF serve THEN Tail(pendingReads[ch]) ELSE pendingReads[ch]

LEMMA Served ==
  ASSUME SysInv, NEW ch \in Channels, NEW departed \in SUBSET pendingWrites[ch],
         NEW S, NEW P, Completes(ch, S, P, departed)
  PROVE  /\ held' = [held EXCEPT ![ch] = held[ch] \ (S \cup departed)]
         /\ remaining' = remaining
         /\ S = {} \/ (CanServe(ch) /\ S = {Head(pendingReads[ch])})
         /\ Placed(held[ch] \ (S \cup departed), readBuf[ch], writeBuf[ch], active[ch],
                   aimBuf[ch], P, pendingWrites[ch] \ departed)
         /\ Sorted(readBuf[ch], writeBuf[ch], active[ch], aimBuf[ch], P,
                   pendingWrites[ch] \ departed)
         /\ Ordered(held[ch] \ (S \cup departed), aimBuf[ch], P,
                    pendingWrites[ch] \ departed, remaining[ch])
         /\ ControllerFinish(ch)
<1>0. PICK serve \in BOOLEAN :
        /\ ServeCompleted(ch, serve, departed)
        /\ S = IF serve THEN {Head(pendingReads[ch])} ELSE {}
        /\ P = IF serve THEN Tail(pendingReads[ch]) ELSE pendingReads[ch]
  BY DEF Completes
<1>1. /\ held' = [held EXCEPT ![ch] = held[ch] \ (S \cup departed)]
      /\ remaining' = remaining
      /\ serve => CanServe(ch)
      /\ UNCHANGED <<hostReqId, frontReq, reachedEOC, remaining>>
      /\ IF \E c \in S : Blocking(c)
         THEN Receive(Head(pendingReads[ch]))
         ELSE UNCHANGED <<queue, calledBack, stalled, thrown>>
  BY <1>0 DEF ServeCompleted
<1>2. /\ Placed(held[ch], readBuf[ch], writeBuf[ch], active[ch], aimBuf[ch],
                pendingReads[ch], pendingWrites[ch])
      /\ Sorted(readBuf[ch], writeBuf[ch], active[ch], aimBuf[ch],
                pendingReads[ch], pendingWrites[ch])
      /\ Ordered(held[ch], aimBuf[ch], pendingReads[ch], pendingWrites[ch], remaining[ch])
  BY DEF SysInv, ChannelInv
<1>3. serve => pendingReads[ch] # <<>>
  BY <1>1 DEF CanServe
<1>4. /\ Placed(held[ch] \ (S \cup departed), readBuf[ch], writeBuf[ch], active[ch],
                aimBuf[ch], P, pendingWrites[ch] \ departed)
      /\ Sorted(readBuf[ch], writeBuf[ch], active[ch], aimBuf[ch], P,
                pendingWrites[ch] \ departed)
      /\ Ordered(held[ch] \ (S \cup departed), aimBuf[ch], P,
                 pendingWrites[ch] \ departed, remaining[ch])
  <2>1. \/ pendingReads[ch] # <<>> /\ S = {Head(pendingReads[ch])}
           /\ P = Tail(pendingReads[ch])
        \/ S = {} /\ P = pendingReads[ch]
    BY <1>0, <1>3
  <2> QED
    BY <1>2, <2>1, ServeKeeps
<1>5. departed \in SUBSET held[ch] /\ \A c \in departed : ~Blocking(c)
  <2>1. \A c \in departed : c.ins.op \notin ReadOps /\ c \in held[ch]
    BY <1>2 DEF Placed, Sorted
  <2> QED
    BY <2>1, KindsApart
<1>6. serve => Head(pendingReads[ch]) \in held[ch]
  <2>1. pendingReads[ch] \in Seq(CopySet) /\ Distinct(pendingReads[ch])
    BY <1>2 DEF Placed
  <2>2. serve => Head(pendingReads[ch]) \in ToSet(pendingReads[ch])
    BY <1>3, <2>1, TailOfList
  <2> QED
    BY <1>2, <2>2 DEF Placed
<1>7. ControllerFinish(ch)
  <2>1. CASE \E c \in S : Blocking(c)
    <3> DEFINE c == Head(pendingReads[ch])
    <3>1. serve /\ S = {c} /\ Blocking(c) /\ c \in held[ch]
      BY <1>0, <1>6, <2>1
    <3>2. held' = [held EXCEPT ![ch] = @ \ (departed \cup {c})]
      <4>1. S \cup departed = departed \cup {c}
        BY <3>1
      <4> QED
        BY <1>1, <4>1
    <3>3. FinishWithCallback(ch, c, departed)
      BY <1>1, <2>1, <3>1, <3>2, Zenon DEF FinishWithCallback
    <3>4. departed \in SUBSET Silent(ch)
      BY <1>5 DEF Silent
    <3> QED
      BY <3>1, <3>3, <3>4 DEF ControllerFinish
  <2>2. CASE ~\E c \in S : Blocking(c)
    <3>1. S \cup departed \in SUBSET Silent(ch)
      BY <1>0, <1>5, <1>6, <2>2 DEF Silent
    <3>2. FinishSilently(ch, S \cup departed)
      BY <1>1, <2>2 DEF FinishSilently, dmaVars
    <3> QED
      BY <3>1, <3>2 DEF ControllerFinish
  <2> QED
    BY <2>1, <2>2
<1> QED
  BY <1>0, <1>1, <1>4, <1>7

(* What schedule_request may choose.                                       *)
LEMMA CandidatesQueued ==
  ASSUME SysInv, NEW ch \in Channels, NEW c \in Candidates(ch)
  PROVE  /\ c \in readBuf[ch] \cup writeBuf[ch] \cup active[ch] \cup ToSet(aimBuf[ch])
         /\ c \in ToSet(aimBuf[ch]) => c = Head(aimBuf[ch])
         /\ c \in held[ch] /\ c.ins \in Instrs
         /\ \A r \in active[ch] : r.ins \in Instrs /\ r.ins.op \in BankOps
<1>1. /\ Placed(held[ch], readBuf[ch], writeBuf[ch], active[ch], aimBuf[ch],
                pendingReads[ch], pendingWrites[ch])
      /\ Sorted(readBuf[ch], writeBuf[ch], active[ch], aimBuf[ch],
                pendingReads[ch], pendingWrites[ch])
  BY DEF SysInv, ChannelInv
<1>2. \/ c \in active[ch] \cup readBuf[ch] \cup writeBuf[ch]
      \/ aimBuf[ch] # <<>> /\ c = Head(aimBuf[ch])
  BY DEF Candidates, SelectedBuffer
<1>3. /\ aimBuf[ch] # <<>> => Head(aimBuf[ch]) \in ToSet(aimBuf[ch])
      /\ (active[ch] \cup readBuf[ch] \cup writeBuf[ch]) \cap ToSet(aimBuf[ch]) = {}
  BY <1>1, TailOfList DEF Placed
<1>4. /\ held[ch] \in SUBSET CopySet /\ active[ch] \in SUBSET held[ch]
      /\ c \in held[ch]
  BY <1>1, <1>2, <1>3 DEF Placed
<1>5. \A r \in active[ch] : r.ins.op \in BankOps
  BY <1>1 DEF Sorted, IsRead, IsWrite, BankOps, ConventionalOps, SingleBankOps, MemOps
<1> QED
  BY <1>2, <1>3, <1>4, <1>5 DEF CopySet

LEMMA TickStep ==
  ASSUME SysInv, IInv', NEW ch \in Channels, NEW departed \in SUBSET pendingWrites[ch],
         NEW S, NEW reads, Completes(ch, S, reads, departed), NEW writes, writes = pendingWrites[ch] \ departed,
         \/ \E c \in Candidates(ch) : Issue(ch, c, reads, writes)
         \/ IssueNothing(ch, reads, writes)
  PROVE  SysInv'
<1> DEFINE H == held[ch] \ (S \cup departed)
<1>1. /\ held' = [held EXCEPT ![ch] = H]
      /\ remaining' = remaining
      /\ Placed(H, readBuf[ch], writeBuf[ch], active[ch], aimBuf[ch], reads, writes)
      /\ Sorted(readBuf[ch], writeBuf[ch], active[ch], aimBuf[ch], reads, writes)
      /\ Ordered(H, aimBuf[ch], reads, writes, remaining[ch])
  BY Served
<1> HIDE DEF H
<1>2. /\ active \in [Channels -> SUBSET CopySet]
      /\ readBuf \in [Channels -> SUBSET CopySet]
      /\ writeBuf \in [Channels -> SUBSET CopySet]
      /\ aimBuf \in [Channels -> Seq(CopySet)]
      /\ writeMode \in [Channels -> BOOLEAN]
      /\ regRW \in [Channels -> BOOLEAN]
      /\ openRow \in [Channels -> [Banks -> Rows \cup {Closed}]]
  BY ChannelTypes DEF SysInv
<1>3. /\ active = [active EXCEPT ![ch] = active[ch]]
      /\ readBuf = [readBuf EXCEPT ![ch] = readBuf[ch]]
      /\ writeBuf = [writeBuf EXCEPT ![ch] = writeBuf[ch]]
      /\ aimBuf = [aimBuf EXCEPT ![ch] = aimBuf[ch]]
      /\ openRow = [openRow EXCEPT ![ch] = openRow[ch]]
  BY <1>2
<1>4. RowsKept(active[ch], openRow[ch]) /\ openRow[ch] \in [Banks -> Rows \cup {Closed}]
  BY <1>2 DEF SysInv, ChannelInv
<1>5. ASSUME NEW b, UpdateWriteMode(ch, b) PROVE writeMode' \in [Channels -> BOOLEAN]
  <2>1. NewWriteMode(ch) \in BOOLEAN
    BY DEF NewWriteMode
  <2> QED
    BY <1>2, <1>5, <2>1 DEF UpdateWriteMode
<1>6. CASE IssueNothing(ch, reads, writes)
  <2>1. /\ pendingReads' = [pendingReads EXCEPT ![ch] = reads]
        /\ pendingWrites' = [pendingWrites EXCEPT ![ch] = writes]
        /\ active' = active /\ readBuf' = readBuf /\ writeBuf' = writeBuf
        /\ aimBuf' = aimBuf /\ regRW' = regRW /\ openRow' = openRow
        /\ \E b : UpdateWriteMode(ch, b)
    BY <1>6 DEF IssueNothing, buffers
  <2>2. writeMode' \in [Channels -> BOOLEAN] /\ regRW' \in [Channels -> BOOLEAN]
    BY <1>2, <1>5, <2>1
  <2>3. Becomes(ch, H, readBuf[ch], writeBuf[ch], active[ch], aimBuf[ch], reads, writes,
                openRow[ch])
    BY <1>1, <1>3, <2>1, <2>2, Zenon DEF Becomes
  <2> QED
    BY <1>1, <1>4, <2>3, ChannelStep
<1>7. CASE \E c \in Candidates(ch) : Issue(ch, c, reads, writes)
  <2>1. PICK c \in Candidates(ch) : Issue(ch, c, reads, writes)
    BY <1>7
  <2> DEFINE cmd == Preq(openRow[ch], c.ins)
             switch == ~IsBarrier(c) /\ (c.ins.op \in RegisterOps) # regRW[ch]
             after == AfterCommand(openRow[ch], cmd, c.ins)
  <2>2. /\ Ready(ch, c, cmd, reads)
        /\ ~(IsClosing(cmd, c.ins) /\ InterruptsActive(ch, c))
        /\ UpdateWriteMode(ch, c \in active[ch])
        /\ regRW' = [regRW EXCEPT ![ch] = IF switch THEN ~@ ELSE @]
        /\ openRow' = IF switch THEN openRow ELSE [openRow EXCEPT ![ch] = after]
        /\ IF cmd = "COL" /\ ~switch
           THEN IssueFinal(ch, c, reads, writes)
           ELSE /\ IF switch THEN UNCHANGED buffers ELSE IssuePrerequisite(ch, c, cmd)
                /\ pendingReads' = [pendingReads EXCEPT ![ch] = reads]
                /\ pendingWrites' = [pendingWrites EXCEPT ![ch] = writes]
    BY <2>1 DEF Issue
  <2>3. writeMode' \in [Channels -> BOOLEAN] /\ regRW' \in [Channels -> BOOLEAN]
    <3>1. writeMode' \in [Channels -> BOOLEAN]
      BY <1>5, <2>2
    <3>2. regRW' \in [Channels -> BOOLEAN]
      BY <1>2, <2>2
    <3> QED
      BY <3>1, <3>2
  <2>4. /\ c \in readBuf[ch] \cup writeBuf[ch] \cup active[ch] \cup ToSet(aimBuf[ch])
        /\ c \in ToSet(aimBuf[ch]) => c = Head(aimBuf[ch])
        /\ c.ins \in Instrs
        /\ \A r \in active[ch] : r.ins \in Instrs /\ r.ins.op \in BankOps
    BY CandidatesQueued
  <2>5. /\ after \in [Banks -> Rows \cup {Closed}]
        /\ RowsKept(active[ch], after)
        /\ cmd = "ACT" =>
             /\ Cardinality(active[ch]) <= BufMax
             /\ \A r \in active[ch] : r.ins.bank = c.ins.bank => r = c
             /\ after[c.ins.bank] = c.ins.row
    <3>1. \A r \in active[ch] : openRow[ch][r.ins.bank] = Closed =>
            cmd # "ACT16" /\ (cmd = "ACT" /\ c.ins.bank = r.ins.bank => c = r)
      BY <2>2 DEF Ready, ReopensFirst
    <3>2. ~(IsClosing(cmd, c.ins) /\ c.ins.op \in BankOps
              /\ \E r \in active[ch] : r.ins.bank = c.ins.bank)
      BY <2>2 DEF InterruptsActive
    <3> QED
      BY <1>4, <2>4, <3>1, <3>2, CommandKeepsRows
  <2> HIDE DEF cmd, switch, after
  <2>6. CASE switch
    <3>1. /\ active' = active /\ readBuf' = readBuf /\ writeBuf' = writeBuf
          /\ aimBuf' = aimBuf /\ openRow' = openRow
          /\ pendingReads' = [pendingReads EXCEPT ![ch] = reads]
          /\ pendingWrites' = [pendingWrites EXCEPT ![ch] = writes]
      BY <2>2, <2>6 DEF buffers
    <3>2. Becomes(ch, H, readBuf[ch], writeBuf[ch], active[ch], aimBuf[ch], reads, writes,
                  openRow[ch])
      BY <1>1, <1>3, <2>3, <3>1, Zenon DEF Becomes
    <3> QED
      BY <1>1, <1>4, <3>2, ChannelStep
  <2>7. CASE ~switch /\ cmd # "COL" /\ ~(~IsAiM(c) /\ cmd = "ACT")
    <3>1. /\ active' = active /\ readBuf' = readBuf /\ writeBuf' = writeBuf
          /\ aimBuf' = aimBuf /\ openRow' = [openRow EXCEPT ![ch] = after]
          /\ pendingReads' = [pendingReads EXCEPT ![ch] = reads]
          /\ pendingWrites' = [pendingWrites EXCEPT ![ch] = writes]
      BY <2>2, <2>7 DEF IssuePrerequisite, buffers
    <3>2. Becomes(ch, H, readBuf[ch], writeBuf[ch], active[ch], aimBuf[ch], reads, writes,
                  after)
      BY <1>1, <1>3, <2>3, <3>1, Zenon DEF Becomes
    <3> QED
      BY <1>1, <2>5, <3>2, ChannelStep
  <2>8. CASE ~switch /\ cmd = "ACT" /\ ~IsAiM(c)
    <3> DEFINE R == readBuf[ch] \ {c}
               W == writeBuf[ch] \ {c}
               A == active[ch] \cup {c}
    <3>1. Without(ch, c) /\ active' = [active EXCEPT ![ch] = A]
      BY <2>2, <2>5, <2>8 DEF IssuePrerequisite
    <3>2. c \in readBuf[ch] \cup writeBuf[ch] \cup active[ch]
      <4>1. c \notin ToSet(aimBuf[ch])
        BY <1>1, <2>8 DEF Sorted
      <4> QED
        BY <2>4, <4>1
    <3>3. /\ Removed(aimBuf[ch], c) = aimBuf[ch]
          /\ Placed(H, R, W, A, aimBuf[ch], reads, writes)
          /\ Sorted(R, W, A, aimBuf[ch], reads, writes)
      <4>1. /\ Placed(H, readBuf[ch], writeBuf[ch], active[ch], aimBuf[ch], reads, writes)
            /\ Sorted(readBuf[ch], writeBuf[ch], active[ch], aimBuf[ch], reads, writes)
        BY <1>1
      <4> QED
        BY ONLY <3>2, <4>1, ActivateKeeps, Zenon
    <3>4. RowsKept(A, after)
      BY <2>5, <2>8 DEF RowsKept
    <3>5. /\ readBuf' = [readBuf EXCEPT ![ch] = R]
          /\ writeBuf' = [writeBuf EXCEPT ![ch] = W]
          /\ aimBuf' = [aimBuf EXCEPT ![ch] = aimBuf[ch]]
          /\ openRow' = [openRow EXCEPT ![ch] = after]
          /\ pendingReads' = [pendingReads EXCEPT ![ch] = reads]
          /\ pendingWrites' = [pendingWrites EXCEPT ![ch] = writes]
      BY <2>2, <2>8, <3>1, <3>3 DEF Without
    <3> HIDE DEF R, W, A
    <3>6. Becomes(ch, H, R, W, A, aimBuf[ch], reads, writes, after)
      BY <1>1, <2>3, <3>1, <3>5, Zenon DEF Becomes
    <3> QED
      BY <1>1, <2>5, <3>3, <3>4, <3>6, ChannelStep
  <2>9. CASE ~switch /\ cmd = "COL"
    <3> DEFINE R == readBuf[ch] \ {c}
               W == writeBuf[ch] \ {c}
               A == active[ch] \ {c}
               Q == Removed(aimBuf[ch], c)
               P == IF c.ins.op \in ReadOps THEN Append(reads, c) ELSE reads
               V == IF c.ins.op \in ReadOps THEN writes ELSE writes \cup {c}
    <3>1. /\ readBuf' = [readBuf EXCEPT ![ch] = R]
          /\ writeBuf' = [writeBuf EXCEPT ![ch] = W]
          /\ active' = [active EXCEPT ![ch] = A]
          /\ aimBuf' = [aimBuf EXCEPT ![ch] = Q]
          /\ openRow' = [openRow EXCEPT ![ch] = after]
          /\ pendingReads' = [pendingReads EXCEPT ![ch] = P]
          /\ pendingWrites' = [pendingWrites EXCEPT ![ch] = V]
      BY <2>2, <2>9 DEF IssueFinal, Without
    <3>2. \/ c.ins.op \in ReadOps /\ P = Append(reads, c) /\ V = writes
          \/ c.ins.op \notin ReadOps /\ P = reads /\ V = writes \cup {c}
      OBVIOUS
    <3> HIDE DEF P, V
    <3>3. /\ Placed(H, R, W, A, Q, P, V)
          /\ Sorted(R, W, A, Q, P, V)
          /\ Ordered(H, Q, P, V, remaining[ch])
      BY <1>1, <2>4, <3>2, FinalKeeps
    <3>4. RowsKept(A, after)
      BY <2>5 DEF RowsKept
    <3> HIDE DEF R, W, A, Q
    <3>5. Becomes(ch, H, R, W, A, Q, P, V, after)
      BY <1>1, <2>3, <3>1, Zenon DEF Becomes
    <3> QED
      BY <1>1, <2>5, <3>3, <3>4, <3>5, ChannelStep
  <2> QED
    BY <2>6, <2>7, <2>8, <2>9
<1> QED
  BY <1>6, <1>7
-----------------------------------------------------------------------------
(* AiMDRAMController::send, offered the copies of one host request.        *)

(* A controller refuses one copy and, with it, every copy offered after it,*)
(* although it looks at its buffers afresh for each.                       *)
LEMMA AdmittedIsPrefix ==
  ASSUME SysInv, NEW ch \in Channels, NEW todo \in SUBSET CopySet,
         IsFiniteSet(todo), OneRequest(todo)
  PROVE  /\ IsPrefixOf(Admitted(ch, todo), todo)
         /\ MeetsItsKind(Admitted(ch, todo), readBuf[ch], writeBuf[ch], aimBuf[ch])
<1>1. \A c, d \in todo :
        /\ Forwarded(ch, c) <=> Forwarded(ch, d)
        /\ OppositeBuffered(ch, c) <=> OppositeBuffered(ch, d)
        /\ Room(ch, c) = Room(ch, d)
  <2>1. \A c, d \in todo : c.ins = d.ins
    BY DEF OneRequest
  <2> QED
    BY <2>1 DEF Forwarded, OppositeBuffered, Room, IsRead, IsAiM, Addr
<1>2. \A c \in todo : Room(ch, c) \in Int
  <2>1. /\ IsFiniteSet(readBuf[ch]) /\ IsFiniteSet(writeBuf[ch])
        /\ aimBuf[ch] \in Seq(CopySet)
    <3>1. /\ IsFiniteSet(held[ch]) /\ readBuf[ch] \in SUBSET held[ch]
          /\ writeBuf[ch] \in SUBSET held[ch] /\ aimBuf[ch] \in Seq(CopySet)
      BY DEF SysInv, ChannelInv, Placed
    <3> QED
      BY <3>1, FS_Subset
  <2>2. /\ Cardinality(readBuf[ch]) \in Nat /\ Cardinality(writeBuf[ch]) \in Nat
        /\ Len(aimBuf[ch]) \in Nat /\ BufMax \in Nat
    BY <2>1, FS_CardinalityType, LenProperties, ControllerAssumption
  <2> QED
    BY <2>2 DEF Room
<1>3. ASSUME NEW c \in todo, NEW d \in todo, ~(c.k < d.k)
      PROVE  /\ Ahead(todo, c) \in Nat /\ Ahead(todo, d) \in Nat
             /\ Ahead(todo, d) <= Ahead(todo, c)
  <2> DEFINE X == {e \in todo : e.k < c.k}
             Y == {e \in todo : e.k < d.k}
  <2>1. \A e \in todo : e.k \in Nat
    BY DEF CopySet
  <2>2. Y \in SUBSET X
    BY <1>3, <2>1
  <2>3. X \in SUBSET todo
    OBVIOUS
  <2>4. IsFiniteSet(X)
    BY <2>3, FS_Subset, Zenon
  <2>5. IsFiniteSet(Y) /\ Cardinality(Y) <= Cardinality(X)
    BY <2>2, <2>4, FS_Subset
  <2>6. Cardinality(X) \in Nat /\ Cardinality(Y) \in Nat
    BY <2>4, <2>5, FS_CardinalityType
  <2> QED
    BY <2>5, <2>6 DEF Ahead
<1>4. ASSUME NEW c \in Admitted(ch, todo), NEW d \in todo, d \notin Admitted(ch, todo)
      PROVE  c.k < d.k
  <2>1. c \in todo /\ ~Forwarded(ch, c) /\ Ahead(todo, c) < Room(ch, c)
        /\ ~(Ahead(todo, d) < Room(ch, d))
    BY <1>1, <1>4 DEF Admitted
  <2>2. Room(ch, c) = Room(ch, d) /\ Room(ch, c) \in Int
    BY <1>1, <1>2, <2>1
  <2>3. SUFFICES ASSUME ~(c.k < d.k) PROVE FALSE
    OBVIOUS
  <2>4. /\ Ahead(todo, c) \in Nat /\ Ahead(todo, d) \in Nat
        /\ Ahead(todo, d) <= Ahead(todo, c)
    BY <1>3, <2>1, <2>3
  <2> QED
    BY <2>1, <2>2, <2>4
<1>5. IsPrefixOf(Admitted(ch, todo), todo)
  BY <1>4 DEF IsPrefixOf, Admitted
<1>6. MeetsItsKind(Admitted(ch, todo), readBuf[ch], writeBuf[ch], aimBuf[ch])
  BY DEF Admitted, OppositeBuffered, MeetsItsKind
<1> QED
  BY <1>5, <1>6

(* What the DMA offers a channel: copies of one request that follow in the *)
(* program everything the channel holds.                                   *)
Offered(ch, todo) ==
  /\ todo \in SUBSET CopySet /\ Sendable(todo) /\ OneRequest(todo)
  /\ todo \cap held[ch] = {}
  /\ Ordered(held[ch], aimBuf[ch], pendingReads[ch], pendingWrites[ch], todo)

LEMMA AcceptChannel ==
  ASSUME SysInv, NEW ch \in Channels, NEW todo, Offered(ch, todo),
         NEW sent, sent = Admitted(ch, todo),
         NEW fwd, NEW aims, NEW reads, NEW writes, Splits(sent, fwd, aims, reads, writes)
  PROVE  /\ Placed(held[ch] \cup sent, readBuf[ch] \cup reads, writeBuf[ch] \cup writes,
                   active[ch], aimBuf[ch] \o InOrder(aims),
                   pendingReads[ch] \o InOrder(fwd), pendingWrites[ch])
         /\ Sorted(readBuf[ch] \cup reads, writeBuf[ch] \cup writes, active[ch],
                   aimBuf[ch] \o InOrder(aims), pendingReads[ch] \o InOrder(fwd),
                   pendingWrites[ch])
         /\ Ordered(held[ch] \cup sent, aimBuf[ch] \o InOrder(aims),
                    pendingReads[ch] \o InOrder(fwd), pendingWrites[ch], todo \ sent)
         /\ Sendable(todo \ sent)
<1>1. /\ todo \in SUBSET CopySet /\ Sendable(todo) /\ todo \cap held[ch] = {}
      /\ Ordered(held[ch], aimBuf[ch], pendingReads[ch], pendingWrites[ch], todo)
      /\ Placed(held[ch], readBuf[ch], writeBuf[ch], active[ch], aimBuf[ch],
                pendingReads[ch], pendingWrites[ch])
      /\ Sorted(readBuf[ch], writeBuf[ch], active[ch], aimBuf[ch],
                pendingReads[ch], pendingWrites[ch])
  BY DEF Offered, SysInv, ChannelInv
<1>2. IsFiniteSet(todo) /\ OneRequest(todo)
  BY <1>1 DEF Offered, Sendable
<1>3. /\ IsPrefixOf(sent, todo)
      /\ MeetsItsKind(sent, readBuf[ch], writeBuf[ch], aimBuf[ch])
  BY <1>1, <1>2, AdmittedIsPrefix
<1> QED
  BY <1>1, <1>2, <1>3, AcceptKeeps

LEMMA AcceptStep ==
  ASSUME SysInv, IInv', NEW todo, \A ch \in Channels : Offered(ch, todo[ch]),
         NEW sent, sent = [ch \in Channels |-> Admitted(ch, todo[ch])],
         Accept(sent),
         remaining' = [ch \in Channels |-> todo[ch] \ sent[ch]],
         held' = [ch \in Channels |-> held[ch] \cup sent[ch]]
  PROVE  SysInv'
<1> DEFINE fwd(ch) == {c \in sent[ch] : Forwarded(ch, c)}
           new(ch) == sent[ch] \ fwd(ch)
           R(ch) == readBuf[ch] \cup {c \in new(ch) : IsRead(c)}
           W(ch) == writeBuf[ch] \cup {c \in new(ch) : IsWrite(c)}
           Q(ch) == aimBuf[ch] \o InOrder({c \in new(ch) : IsAiM(c)})
           P(ch) == pendingReads[ch] \o InOrder(fwd(ch))
<1>1. /\ readBuf' = [ch \in Channels |-> R(ch)]
      /\ writeBuf' = [ch \in Channels |-> W(ch)]
      /\ aimBuf' = [ch \in Channels |-> Q(ch)]
      /\ pendingReads' = [ch \in Channels |-> P(ch)]
      /\ UNCHANGED <<active, pendingWrites, writeMode, regRW, openRow>>
  BY DEF Accept
<1>2. ASSUME NEW ch \in Channels
      PROVE  /\ Placed(held[ch] \cup sent[ch], R(ch), W(ch), active[ch], Q(ch), P(ch),
                       pendingWrites[ch])
             /\ Sorted(R(ch), W(ch), active[ch], Q(ch), P(ch), pendingWrites[ch])
             /\ Ordered(held[ch] \cup sent[ch], Q(ch), P(ch), pendingWrites[ch],
                        todo[ch] \ sent[ch])
             /\ Sendable(todo[ch] \ sent[ch])
  <2> DEFINE aims == {c \in new(ch) : IsAiM(c)}
             reads == {c \in new(ch) : IsRead(c)}
             writes == {c \in new(ch) : IsWrite(c)}
             F == fwd(ch)
  <2>1. sent[ch] = Admitted(ch, todo[ch]) /\ Offered(ch, todo[ch])
    OBVIOUS
  <2>2. Splits(sent[ch], F, aims, reads, writes)
    BY DEF Splits, Forwarded
  <2>3. /\ R(ch) = readBuf[ch] \cup reads /\ W(ch) = writeBuf[ch] \cup writes
        /\ Q(ch) = aimBuf[ch] \o InOrder(aims) /\ P(ch) = pendingReads[ch] \o InOrder(F)
    OBVIOUS
  <2> DEFINE one == sent[ch]
             rest == todo[ch]
  <2>4. one = Admitted(ch, rest) /\ Offered(ch, rest)
    BY <2>1
  <2>5. Splits(one, F, aims, reads, writes)
    BY <2>2
  <2> HIDE DEF R, W, Q, P, F, aims, reads, writes, one, rest
  <2>6. /\ Placed(held[ch] \cup one, readBuf[ch] \cup reads, writeBuf[ch] \cup writes,
                  active[ch], aimBuf[ch] \o InOrder(aims),
                  pendingReads[ch] \o InOrder(F), pendingWrites[ch])
        /\ Sorted(readBuf[ch] \cup reads, writeBuf[ch] \cup writes, active[ch],
                  aimBuf[ch] \o InOrder(aims), pendingReads[ch] \o InOrder(F),
                  pendingWrites[ch])
        /\ Ordered(held[ch] \cup one, aimBuf[ch] \o InOrder(aims),
                   pendingReads[ch] \o InOrder(F), pendingWrites[ch], rest \ one)
        /\ Sendable(rest \ one)
    BY <2>4, <2>5, AcceptChannel
  <2> QED
    BY <2>3, <2>6 DEF one, rest
<1> HIDE DEF R, W, Q, P
<1>3. ASSUME NEW ch \in Channels
      PROVE  /\ readBuf'[ch] = R(ch) /\ writeBuf'[ch] = W(ch) /\ aimBuf'[ch] = Q(ch)
             /\ pendingReads'[ch] = P(ch) /\ held'[ch] = held[ch] \cup sent[ch]
             /\ remaining'[ch] = todo[ch] \ sent[ch]
             /\ active'[ch] = active[ch] /\ pendingWrites'[ch] = pendingWrites[ch]
             /\ openRow'[ch] = openRow[ch]
  BY <1>1
<1>4. ASSUME NEW ch \in Channels PROVE ChannelInv(ch)'
  <2>1. RowsKept(active[ch], openRow[ch])
    BY DEF SysInv, ChannelInv
  <2> QED
    BY <1>2, <1>3, <2>1 DEF ChannelInv
<1>5. ASSUME NEW ch \in Channels
      PROVE  /\ R(ch) \in SUBSET CopySet /\ W(ch) \in SUBSET CopySet
             /\ Q(ch) \in Seq(CopySet) /\ P(ch) \in Seq(CopySet)
  BY <1>2 DEF Placed
<1>6. SysTypeOK'
  <2>1. /\ active' \in [Channels -> SUBSET CopySet]
        /\ pendingWrites' \in [Channels -> SUBSET CopySet]
        /\ writeMode' \in [Channels -> BOOLEAN]
        /\ regRW' \in [Channels -> BOOLEAN]
        /\ openRow' \in [Channels -> [Banks -> Rows \cup {Closed}]]
    BY <1>1, ChannelTypes DEF SysInv
  <2>2. /\ readBuf' \in [Channels -> SUBSET CopySet]
        /\ writeBuf' \in [Channels -> SUBSET CopySet]
        /\ aimBuf' \in [Channels -> Seq(CopySet)]
        /\ pendingReads' \in [Channels -> Seq(CopySet)]
    BY <1>1, <1>5
  <2>3. TypeOK'
    BY DEF IInv
  <2> QED
    BY <2>1, <2>2, <2>3 DEF SysTypeOK
<1> QED
  BY <1>4, <1>6 DEF SysInv
-----------------------------------------------------------------------------
(* Every action. *)

LEMMA SysInitInvariant == SysInit => SysInv
<1> SUFFICES ASSUME SysInit PROVE SysInv
  OBVIOUS
<1>1. /\ IInv
      /\ held = [ch \in Channels |-> {}] /\ remaining = [ch \in Channels |-> {}]
      /\ active = [ch \in Channels |-> {}] /\ readBuf = [ch \in Channels |-> {}]
      /\ writeBuf = [ch \in Channels |-> {}] /\ pendingWrites = [ch \in Channels |-> {}]
      /\ aimBuf = [ch \in Channels |-> <<>>] /\ pendingReads = [ch \in Channels |-> <<>>]
      /\ writeMode = [ch \in Channels |-> FALSE] /\ regRW = [ch \in Channels |-> FALSE]
      /\ openRow = [ch \in Channels |-> [b \in Banks |-> Closed]]
  BY InitInvariant DEF SysInit, Init
<1> HIDE DEF IInv
<1>2. /\ <<>> \in Seq(CopySet) /\ ToSet(<<>>) = {} /\ Len(<<>>) = 0
  <2>1. <<>> \in Seq(CopySet) /\ Len(<<>>) = 0
    OBVIOUS
  <2> QED
    BY <2>1, EmptyList, Zenon
<1>3. Distinct(<<>>) /\ InProgramOrder(<<>>)
  BY <1>2 DEF Distinct, InProgramOrder
<1>4. SysTypeOK
  <2>1. TypeOK
    BY <1>1 DEF IInv
  <2>2. /\ active \in [Channels -> SUBSET CopySet]
        /\ readBuf \in [Channels -> SUBSET CopySet]
        /\ writeBuf \in [Channels -> SUBSET CopySet]
        /\ pendingWrites \in [Channels -> SUBSET CopySet]
        /\ writeMode \in [Channels -> BOOLEAN]
        /\ regRW \in [Channels -> BOOLEAN]
        /\ openRow \in [Channels -> [Banks -> Rows \cup {Closed}]]
    BY <1>1
  <2>3. /\ aimBuf \in [Channels -> Seq(CopySet)]
        /\ pendingReads \in [Channels -> Seq(CopySet)]
    BY <1>1, <1>2
  <2> QED
    BY <2>1, <2>2, <2>3 DEF SysTypeOK
<1>5. ASSUME NEW ch \in Channels PROVE ChannelInv(ch)
  <2>1. /\ held[ch] = {} /\ remaining[ch] = {} /\ active[ch] = {} /\ readBuf[ch] = {}
        /\ writeBuf[ch] = {} /\ pendingWrites[ch] = {}
        /\ aimBuf[ch] = <<>> /\ pendingReads[ch] = <<>>
    BY <1>1
  <2>2. Placed({}, {}, {}, {}, <<>>, <<>>, {})
    BY <1>2, <1>3, FS_EmptySet DEF Placed
  <2>3. Sorted({}, {}, {}, <<>>, <<>>, {}) /\ Ordered({}, <<>>, <<>>, {}, {})
    BY <1>2, <1>3 DEF Sorted, Ordered
  <2>4. Sendable({}) /\ RowsKept({}, openRow[ch])
    BY FS_EmptySet DEF Sendable, RowsKept
  <2> QED
    BY <2>1, <2>2, <2>3, <2>4 DEF ChannelInv
<1> QED
  BY <1>1, <1>4, <1>5 DEF SysInv

(* A step of which the controllers know nothing.                           *)
LEMMA ControllersUnchanged ==
  ASSUME SysInv, IInv', UNCHANGED ctrlVars, UNCHANGED <<held, remaining>>
  PROVE  SysInv'
<1>1. /\ active' = active /\ readBuf' = readBuf /\ writeBuf' = writeBuf
      /\ aimBuf' = aimBuf /\ pendingReads' = pendingReads /\ pendingWrites' = pendingWrites
      /\ writeMode' = writeMode /\ regRW' = regRW /\ openRow' = openRow
      /\ held' = held /\ remaining' = remaining
  BY DEF ctrlVars, buffers
<1>2. SysTypeOK'
  <2>1. TypeOK'
    BY DEF IInv
  <2>2. /\ active \in [Channels -> SUBSET CopySet]
        /\ readBuf \in [Channels -> SUBSET CopySet]
        /\ writeBuf \in [Channels -> SUBSET CopySet]
        /\ pendingWrites \in [Channels -> SUBSET CopySet]
        /\ aimBuf \in [Channels -> Seq(CopySet)]
        /\ pendingReads \in [Channels -> Seq(CopySet)]
        /\ writeMode \in [Channels -> BOOLEAN]
        /\ regRW \in [Channels -> BOOLEAN]
        /\ openRow \in [Channels -> [Banks -> Rows \cup {Closed}]]
    BY ChannelTypes DEF SysInv
  <2> QED
    BY <1>1, <2>1, <2>2 DEF SysTypeOK
<1>3. ASSUME NEW ch \in Channels PROVE ChannelInv(ch)'
  <2>1. ChannelInv(ch)
    BY DEF SysInv
  <2> QED
    BY <1>1, <2>1 DEF ChannelInv
<1> QED
  BY <1>2, <1>3 DEF SysInv

LEMMA SysFlushStep ==
  ASSUME SysInv, SysFlush
  PROVE  SysInv' /\ DMATick /\ \A ch \in Channels : held[ch] \subseteq held'[ch]
<1> DEFINE sent == [ch \in Channels |-> Admitted(ch, remaining[ch])]
<1>1. FlushRemaining(sent) /\ Accept(sent)
  BY DEF SysFlush
<1>2. IInv /\ IInv'
  BY <1>1, FlushStep DEF SysInv
<1>3. /\ remaining' = [ch \in Channels |-> remaining[ch] \ sent[ch]]
      /\ held' = [ch \in Channels |-> held[ch] \cup sent[ch]]
  BY <1>1 DEF FlushRemaining, Dispatch
<1>4. ASSUME NEW ch \in Channels PROVE Offered(ch, remaining[ch])
  <2>1. ChannelInv(ch) /\ remaining[ch] \in SUBSET CopySet
    BY ChannelTypes DEF SysInv
  <2>2. \A c \in remaining[ch] : OfHead(c) /\ c.ch = ch /\ c \notin held[ch]
    BY <1>2 DEF IInv, WorkIsOfHead, CopiesInPlace, AllRemaining
  <2>3. OneRequest(remaining[ch])
    BY <2>1, <2>2 DEF OneRequest, OfHead, CopySet
  <2> QED
    BY <2>1, <2>2, <2>3 DEF Offered, ChannelInv
<1>5. sent \in [Channels -> SUBSET AllRemaining]
  BY DEF Admitted, AllRemaining
<1>6. DMATick
  BY <1>1, <1>5, Zenon DEF DMATick
<1>7. \A ch \in Channels : held[ch] \subseteq held'[ch]
  BY <1>3
<1> HIDE DEF sent
<1>8. sent = [ch \in Channels |-> Admitted(ch, remaining[ch])]
  BY DEF sent
<1> QED
  BY <1>1, <1>2, <1>3, <1>4, <1>6, <1>7, <1>8, AcceptStep

LEMMA SysDecodeStep ==
  ASSUME SysInv, SysDecode
  PROVE  SysInv' /\ DMATick /\ \A ch \in Channels : held[ch] \subseteq held'[ch]
<1> DEFINE req == Head(queue)
           todo == DecodedCopies(req)
           sent == [ch \in Channels |-> Admitted(ch, todo[ch])]
<1>1. DecodeHead(sent) /\ Accept(sent) /\ queue # <<>>
  BY DEF SysDecode
<1>2. IInv /\ IInv'
  BY <1>1, DecodeStep DEF SysInv
<1>3. /\ stalled = 0 /\ \A ch \in Channels : remaining[ch] = {}
      /\ remaining' = [ch \in Channels |-> todo[ch] \ sent[ch]]
      /\ held' = [ch \in Channels |-> held[ch] \cup sent[ch]]
  BY <1>1 DEF DecodeHead, Dispatch
<1>4. /\ req \in Request /\ req.id = Oldest /\ req.ins \in Instrs
      /\ IsFiniteSet(Copies(req))
      /\ \A c \in Copies(req) : c \in CopySet /\ c.id = Oldest /\ c.ins = req.ins
  BY <1>1, <1>2, HeadIsOldest, CopiesOfRequest DEF Request
<1> HIDE DEF req
<1>5. \A ch \in Channels : todo[ch] = {c \in Copies(req) : c.ch = ch}
  BY DEF DecodedCopies
<1>6. \A c \in AllHeld : c.id < Oldest
  <2>1. AllRemaining = {}
    BY <1>3 DEF AllRemaining
  <2>2. \A c \in AllHeld : c.id <= Oldest /\ c.id # Oldest
    BY <1>2, <1>3, <2>1 DEF IInv, HeldNotAhead
  <2>3. \A c \in AllHeld : c.id \in Nat
    BY ChannelTypes DEF SysInv, AllHeld, CopySet
  <2>4. Oldest \in Nat
    BY <1>4 DEF Request
  <2> QED
    BY <2>2, <2>3, <2>4
<1>7. \A c \in Copies(req) : c.ins.op \in Ops \ LocalOps
  <2>1. Copies(req) # {} => Targets(req.ins) # {}
    BY DEF Copies
  <2>2. req.ins.op \in Ops
    BY <1>4, InstrAssumption
  <2>3. req.ins.op \in LocalOps => Targets(req.ins) = {}
    BY DEF Targets, LocalOps, BroadcastOps
  <2> QED
    BY <1>4, <2>1, <2>2, <2>3
<1>8. ASSUME NEW ch \in Channels PROVE Offered(ch, todo[ch])
  <2> DEFINE T == todo[ch]
  <2>1. T = {c \in Copies(req) : c.ch = ch}
    BY <1>5
  <2> HIDE DEF T, todo
  <2>2. T \in SUBSET CopySet /\ T \in SUBSET Copies(req)
    BY <1>4, <2>1
  <2>3. Sendable(T)
    BY <1>4, <1>7, <2>2, FS_Subset DEF Sendable
  <2>4. OneRequest(T)
    BY <1>4, <2>1, <2>2 DEF OneRequest, CopySet
  <2>5. \A c \in held[ch] : c.id < Oldest
    BY <1>6 DEF AllHeld
  <2>6. T \cap held[ch] = {}
    <3> SUFFICES ASSUME NEW c \in T, c \in held[ch] PROVE FALSE
      OBVIOUS
    <3>1. c.id = Oldest /\ c.id < Oldest /\ c.id \in Nat
      BY <1>4, <2>2, <2>5 DEF CopySet
    <3> QED
      BY <3>1
  <2>7. \A c \in held[ch], d \in T : Before(c, d)
    BY <1>4, <2>2, <2>5 DEF Before
  <2>8. Ordered(held[ch], aimBuf[ch], pendingReads[ch], pendingWrites[ch], T)
    BY <2>7 DEF SysInv, ChannelInv, Ordered
  <2>9. Offered(ch, T)
    BY <2>2, <2>3, <2>4, <2>6, <2>8 DEF Offered
  <2> QED
    BY <2>9 DEF T
<1>9. DMATick
  <2>1. sent \in [Channels -> SUBSET Copies(req)]
    BY <1>5 DEF Admitted
  <2> QED
    BY <1>1, <2>1, Zenon DEF DMATick, req
<1>10. \A ch \in Channels : held[ch] \subseteq held'[ch]
  BY <1>3
<1>11. sent = [ch \in Channels |-> Admitted(ch, todo[ch])]
  OBVIOUS
<1> HIDE DEF todo, sent
<1> QED
  BY <1>1, <1>2, <1>3, <1>8, <1>9, <1>10, <1>11, AcceptStep

LEMMA ControllerTickStep ==
  ASSUME SysInv, NEW ch \in Channels, ControllerTick(ch)
  PROVE  SysInv' /\ ControllerFinish(ch)
<1>1. PICK serve \in BOOLEAN, departed \in SUBSET pendingWrites[ch] :
        /\ ServeCompleted(ch, serve, departed)
        /\ LET reads  == IF serve THEN Tail(pendingReads[ch]) ELSE pendingReads[ch]
               writes == pendingWrites[ch] \ departed
           IN  \/ \E c \in Candidates(ch) : Issue(ch, c, reads, writes)
               \/ IssueNothing(ch, reads, writes)
  BY Zenon DEF ControllerTick
<1> DEFINE S == IF serve THEN {Head(pendingReads[ch])} ELSE {}
           reads == IF serve THEN Tail(pendingReads[ch]) ELSE pendingReads[ch]
           writes == pendingWrites[ch] \ departed
<1>2. Completes(ch, S, reads, departed)
  BY <1>1, Zenon DEF Completes
<1>3. \/ \E c \in Candidates(ch) : Issue(ch, c, reads, writes)
      \/ IssueNothing(ch, reads, writes)
  BY <1>1, Zenon
<1>4. writes = pendingWrites[ch] \ departed
  OBVIOUS
<1> HIDE DEF S, reads, writes
<1>5. ControllerFinish(ch)
  BY <1>2, Served
<1>6. IInv'
  BY <1>5, FinishSilentlyStep, FinishWithCallbackStep DEF ControllerFinish, SysInv
<1> QED
  BY <1>2, <1>3, <1>4, <1>5, <1>6, TickStep

LEMMA SysNextStep == SysInv /\ [SysNext]_sysVars => SysInv' /\ [Next]_vars
<1> SUFFICES ASSUME SysInv, [SysNext]_sysVars PROVE SysInv' /\ [Next]_vars
  OBVIOUS
<1>1. IInv
  BY DEF SysInv
<1>2. CASE SysFrontendTick
  <2>1. FrontendTick /\ UNCHANGED ctrlVars
    BY <1>2 DEF SysFrontendTick
  <2>2. IInv' /\ UNCHANGED <<held, remaining>>
    BY <1>1, <2>1, FrontendStep DEF FrontendTick
  <2> QED
    BY <2>1, <2>2, ControllersUnchanged DEF Next
<1>3. CASE SysFlush
  BY <1>3, SysFlushStep DEF Next
<1>4. CASE SysDecode
  BY <1>4, SysDecodeStep DEF Next
<1>5. CASE \E ch \in Channels : ControllerTick(ch)
  BY <1>5, ControllerTickStep DEF Next
<1>6. CASE SysTerminated \/ UNCHANGED sysVars
  <2>1. UNCHANGED vars /\ UNCHANGED ctrlVars
    BY <1>6 DEF SysTerminated, sysVars
  <2>2. IInv' /\ UNCHANGED <<held, remaining>>
    BY <1>1, <2>1, StutterStep DEF vars, dmaVars
  <2> QED
    BY <2>1, <2>2, ControllersUnchanged
<1> QED
  BY <1>2, <1>3, <1>4, <1>5, <1>6 DEF SysNext

(* Every reachable state of the system satisfies the inductive invariant.  *)
THEOREM SystemInvariant == SysSpec => []SysInv
BY SysInitInvariant, SysNextStep, PTL DEF SysSpec

(* The controllers do to the DMA only what its specification lets a        *)
(* controller do: what a host request is unrolled into is accepted in      *)
(* order, finished once, and called back for when it blocks.               *)
THEOREM SystemIsDMA == SysSpec => Spec
<1>1. SysInit => Init
  BY DEF SysInit
<1> QED
  BY <1>1, SysInitInvariant, SysNextStep, PTL DEF SysSpec, Spec
-----------------------------------------------------------------------------
(* What follows. *)

(* A list without repetitions is as long as the set of its elements.       *)
LEMMA LengthOfDistinct ==
  ASSUME NEW S, NEW s \in Seq(S), Distinct(s)
  PROVE  IsFiniteSet(ToSet(s)) /\ Cardinality(ToSet(s)) = Len(s) /\ Len(s) \in Nat
<1> DEFINE n == Len(s)
           T == ToSet(s)
           f == [i \in 1 .. n |-> s[i]]
<1>1. n \in Nat /\ T = {s[i] : i \in 1 .. n}
  BY ToSetIsRange, LenProperties
<1>2. f \in Surjection(1 .. n, T)
  BY <1>1 DEF Surjection
<1>3. f \in Injection(1 .. n, T)
  BY <1>1 DEF Injection, IsInjective, Distinct
<1>4. IsFiniteSet(1 .. n) /\ Cardinality(1 .. n) = n
  BY <1>1, FS_Interval
<1> HIDE DEF f, T, n
<1>5. IsFiniteSet(T) /\ Cardinality(T) = Cardinality(1 .. n)
  BY <1>2, <1>3, <1>4, FS_Surjection
<1> QED
  BY <1>1, <1>4, <1>5 DEF T, n

LEMMA DisjointUnion ==
  ASSUME NEW S, NEW T, IsFiniteSet(S), IsFiniteSet(T), S \cap T = {}
  PROVE  /\ IsFiniteSet(S \cup T) /\ Cardinality(S) \in Nat /\ Cardinality(T) \in Nat
         /\ Cardinality(S \cup T) = Cardinality(S) + Cardinality(T)
<1>1. /\ IsFiniteSet(S \cup T)
      /\ Cardinality(S \cup T) = Cardinality(S) + Cardinality(T) - Cardinality(S \cap T)
  BY FS_Union
<1>2. Cardinality(S \cap T) = 0
  BY FS_EmptySet
<1>3. Cardinality(S) \in Nat /\ Cardinality(T) \in Nat
  BY FS_CardinalityType
<1> QED
  BY <1>1, <1>2, <1>3

(* Being in one list each, the copies of a channel are counted by them.    *)
LEMMA PlacedOnce ==
  ASSUME NEW H, NEW R, NEW W, NEW A, NEW Q, NEW P, NEW V, Placed(H, R, W, A, Q, P, V)
  PROVE  Cardinality(H) = Cardinality(R) + Cardinality(W) + Cardinality(A)
                          + Len(Q) + Len(P) + Cardinality(V)
<1> DEFINE q == ToSet(Q)
           p == ToSet(P)
<1>1. /\ IsFiniteSet(q) /\ Cardinality(q) = Len(Q) /\ Len(Q) \in Nat
      /\ IsFiniteSet(p) /\ Cardinality(p) = Len(P) /\ Len(P) \in Nat
  BY LengthOfDistinct DEF Placed
<1>2. H = V \cup p \cup R \cup W \cup A \cup q /\ IsFiniteSet(H)
  BY DEF Placed
<1>3. IsFiniteSet(R) /\ IsFiniteSet(W) /\ IsFiniteSet(A) /\ IsFiniteSet(V)
  <2>1. R \in SUBSET H /\ W \in SUBSET H /\ A \in SUBSET H /\ V \in SUBSET H
    BY <1>2
  <2> QED
    BY <1>2, <2>1, FS_Subset
<1>4. /\ R \cap W = {} /\ (R \cup W) \cap A = {} /\ (R \cup W \cup A) \cap q = {}
      /\ (R \cup W \cup A \cup q) \cap p = {} /\ (R \cup W \cup A \cup q \cup p) \cap V = {}
  BY DEF Placed
<1> HIDE DEF q, p
<1>5. /\ IsFiniteSet(R \cup W) /\ Cardinality(R) \in Nat /\ Cardinality(W) \in Nat
      /\ Cardinality(R \cup W) = Cardinality(R) + Cardinality(W)
  BY <1>3, <1>4, DisjointUnion
<1>6. /\ IsFiniteSet(R \cup W \cup A) /\ Cardinality(A) \in Nat
      /\ Cardinality(R \cup W \cup A) = Cardinality(R \cup W) + Cardinality(A)
  BY <1>3, <1>4, <1>5, DisjointUnion
<1>7. /\ IsFiniteSet(R \cup W \cup A \cup q)
      /\ Cardinality(R \cup W \cup A \cup q) = Cardinality(R \cup W \cup A) + Cardinality(q)
  BY <1>1, <1>4, <1>6, DisjointUnion
<1>8. /\ IsFiniteSet(R \cup W \cup A \cup q \cup p)
      /\ Cardinality(R \cup W \cup A \cup q \cup p) =
           Cardinality(R \cup W \cup A \cup q) + Cardinality(p)
  BY <1>1, <1>4, <1>7, DisjointUnion
<1>9. /\ Cardinality(V) \in Nat
      /\ Cardinality(R \cup W \cup A \cup q \cup p \cup V) =
           Cardinality(R \cup W \cup A \cup q \cup p) + Cardinality(V)
  BY <1>3, <1>4, <1>8, DisjointUnion
<1>10. H = R \cup W \cup A \cup q \cup p \cup V
  BY <1>2
<1> DEFINE h == Cardinality(H)
           r == Cardinality(R)
           w == Cardinality(W)
           a == Cardinality(A)
           v == Cardinality(V)
<1>11. h = r + w + a + Len(Q) + Len(P) + v
  BY <1>1, <1>5, <1>6, <1>7, <1>8, <1>9, <1>10
<1> QED
  BY <1>11

(* Every copy a controller accepted and has not finished is in exactly one *)
(* place of it, AiM and conventional requests never wait in its buffers at *)
(* once, and an activated request has its bank to itself: the bank holds   *)
(* its row, or none since an all-bank command closed it, for every number  *)
(* of banks and every size of the buffers that leaves the active buffer    *)
(* room for one request per bank.                                          *)
THEOREM BuffersStayConsistent == SysSpec => []BuffersConsistent
<1> SUFFICES SysInv => BuffersConsistent
  BY SystemInvariant, PTL
<1> SUFFICES ASSUME SysInv PROVE BuffersConsistent
  OBVIOUS
<1>1. SysTypeOK
  BY DEF SysInv
<1>2. HeldExactlyOnce
  <2> SUFFICES ASSUME NEW ch \in Channels
               PROVE  /\ held[ch] = Issued(ch) \cup Queued(ch)
                      /\ Cardinality(held[ch]) =
                           Cardinality(readBuf[ch]) + Cardinality(writeBuf[ch])
                           + Cardinality(active[ch]) + Len(aimBuf[ch])
                           + Len(pendingReads[ch]) + Cardinality(pendingWrites[ch])
    BY DEF HeldExactlyOnce
  <2>1. Placed(held[ch], readBuf[ch], writeBuf[ch], active[ch], aimBuf[ch],
               pendingReads[ch], pendingWrites[ch])
    BY DEF SysInv, ChannelInv
  <2>2. held[ch] = Issued(ch) \cup Queued(ch)
    BY <2>1 DEF Placed, Issued, Queued
  <2>3. Cardinality(held[ch]) =
          Cardinality(readBuf[ch]) + Cardinality(writeBuf[ch]) + Cardinality(active[ch])
          + Len(aimBuf[ch]) + Len(pendingReads[ch]) + Cardinality(pendingWrites[ch])
    BY <2>1, PlacedOnce
  <2> QED
    BY <2>2, <2>3
<1>3. OneKindBuffered
  BY DEF OneKindBuffered, SysInv, ChannelInv, Sorted
<1>4. ActiveKeepsBank
  BY DEF ActiveKeepsBank, SysInv, ChannelInv, RowsKept
<1> QED
  BY <1>1, <1>2, <1>3, <1>4 DEF BuffersConsistent

(* "Processes AiM memory requests in order": what a channel has issued of  *)
(* its AiM copies precedes what it still queues, and that what the DMA has *)
(* not sent it.                                                            *)
THEOREM AiMStaysInOrder == SysSpec => []AiMInOrder
<1> SUFFICES SysInv => AiMInOrder
  BY SystemInvariant, PTL
<1> SUFFICES ASSUME SysInv, NEW ch \in Channels
             PROVE  /\ \A c \in Issued(ch), d \in ToSet(aimBuf[ch]) \cup remaining[ch] :
                         IsAiM(c) /\ IsAiM(d) => Before(c, d)
                    /\ \A i, j \in 1 .. Len(aimBuf[ch]) :
                         i < j => Before(aimBuf[ch][i], aimBuf[ch][j])
                    /\ \A c \in ToSet(aimBuf[ch]), d \in remaining[ch] : Before(c, d)
  BY DEF AiMInOrder
<1>1. /\ Placed(held[ch], readBuf[ch], writeBuf[ch], active[ch], aimBuf[ch],
                pendingReads[ch], pendingWrites[ch])
      /\ \A c \in ToSet(aimBuf[ch]) : IsAiM(c)
      /\ Ordered(held[ch], aimBuf[ch], pendingReads[ch], pendingWrites[ch], remaining[ch])
  BY DEF SysInv, ChannelInv, Sorted
<1>2. Issued(ch) \in SUBSET held[ch] /\ ToSet(aimBuf[ch]) \in SUBSET held[ch]
  BY <1>1 DEF Placed, Issued
<1>3. \A i \in 1 .. Len(aimBuf[ch]) : IsAiM(aimBuf[ch][i])
  <2>1. ToSet(aimBuf[ch]) = {aimBuf[ch][i] : i \in 1 .. Len(aimBuf[ch])}
    BY <1>1, ToSetIsRange DEF Placed
  <2> QED
    BY <1>1, <2>1
<1> QED
  BY <1>1, <1>2, <1>3 DEF Ordered, InProgramOrder, Issued

(* When a channel answers a SYNC or an EOC, every AiM copy before it in    *)
(* program order has finished there, its writes included.                  *)
THEOREM BarriersDrainAiM == SysSpec => BarrierDrainsAiM
<1> DEFINE Drains ==
      \A ch \in Channels : \A c \in held[ch] \ held'[ch] :
        IsBarrier(c) => \A d \in held'[ch] : IsAiM(d) => ~Before(d, c)
<1>1. ASSUME SysInv, NEW ch \in Channels, ControllerTick(ch) PROVE Drains
  <2>0. PICK departed \in SUBSET pendingWrites[ch] : \E S, P : Completes(ch, S, P, departed)
    BY <1>1, Zenon DEF ControllerTick, Completes
  <2>1. PICK S, P : Completes(ch, S, P, departed)
    BY <2>0
  <2>2. /\ held' = [held EXCEPT ![ch] = held[ch] \ (S \cup departed)]
        /\ S = {} \/ (CanServe(ch) /\ S = {Head(pendingReads[ch])})
    BY <1>1, <2>1, Served
  <2>3. /\ Placed(held[ch], readBuf[ch], writeBuf[ch], active[ch], aimBuf[ch],
                  pendingReads[ch], pendingWrites[ch])
        /\ Sorted(readBuf[ch], writeBuf[ch], active[ch], aimBuf[ch],
                  pendingReads[ch], pendingWrites[ch])
        /\ Ordered(held[ch], aimBuf[ch], pendingReads[ch], pendingWrites[ch],
                   remaining[ch])
    BY <1>1 DEF SysInv, ChannelInv
  <2>4. held \in [Channels -> SUBSET CopySet]
    BY <1>1, ChannelTypes DEF SysInv
  <2> SUFFICES ASSUME NEW c \in held[ch], c \notin held'[ch], IsBarrier(c),
                      NEW d \in held'[ch], IsAiM(d)
               PROVE  ~Before(d, c)
    BY <2>2, <2>4
  <2>5. c \in S \cup departed /\ d \in held[ch] /\ d \notin S
    BY <2>2, <2>4
  <2>6. c \notin departed
    BY <2>3, KindsApart DEF Sorted
  <2>7. CanServe(ch) /\ c = Head(pendingReads[ch]) /\ d # c
    BY <2>2, <2>5, <2>6
  <2>8. pendingReads[ch] # <<>> /\ pendingWrites[ch] = {}
    BY <2>7 DEF CanServe
  <2>9. d \in ToSet(pendingReads[ch]) \cup ToSet(aimBuf[ch])
    <3>1. ~IsRead(d) /\ ~IsWrite(d)
      BY KindsApart
    <3>2. d \notin readBuf[ch] /\ d \notin writeBuf[ch] /\ d \notin active[ch]
      BY <2>3, <3>1 DEF Sorted
    <3> QED
      BY <2>3, <2>5, <2>8, <3>2 DEF Placed
  <2>10. c \in ToSet(pendingReads[ch]) /\ IsAiM(c) /\ Before(c, d)
    <3>1. /\ pendingReads[ch] \in Seq(CopySet) /\ Distinct(pendingReads[ch])
          /\ InProgramOrder(pendingReads[ch])
      BY <2>3 DEF Placed, Ordered
    <3>2. /\ c \in ToSet(pendingReads[ch])
          /\ ToSet(Tail(pendingReads[ch])) = ToSet(pendingReads[ch]) \ {c}
          /\ \A e \in ToSet(Tail(pendingReads[ch])) : IsAiM(c) /\ IsAiM(e) => Before(c, e)
      BY <2>7, <2>8, <3>1, TailOfList
    <3>3. IsAiM(c)
      BY KindsApart
    <3>4. CASE d \in ToSet(pendingReads[ch])
      BY <2>7, <3>2, <3>3, <3>4
    <3>5. CASE d \in ToSet(aimBuf[ch])
      BY <2>3, <3>2, <3>3, <3>5 DEF Ordered
    <3> QED
      BY <2>9, <3>2, <3>3, <3>4, <3>5
  <2>11. c.id \in Nat /\ d.id \in Nat /\ c.k \in Nat /\ d.k \in Nat
    BY <2>4, <2>5 DEF CopySet
  <2> QED
    BY <2>10, <2>11 DEF Before
<1>2. ASSUME SysInv, [SysNext]_sysVars PROVE [Drains]_sysVars
  <2>1. CASE SysFrontendTick
    BY <2>1 DEF SysFrontendTick, FrontendTick
  <2>2. CASE SysFlush
    <3>1. \A ch \in Channels : held[ch] \subseteq held'[ch]
      BY <1>2, <2>2, SysFlushStep
    <3> QED
      BY <3>1
  <2>3. CASE SysDecode
    <3>1. \A ch \in Channels : held[ch] \subseteq held'[ch]
      BY <1>2, <2>3, SysDecodeStep
    <3> QED
      BY <3>1
  <2>4. CASE \E ch \in Channels : ControllerTick(ch)
    BY <1>1, <1>2, <2>4
  <2>5. CASE SysTerminated \/ UNCHANGED sysVars
    BY <2>5 DEF SysTerminated
  <2> QED
    BY <1>2, <2>1, <2>2, <2>3, <2>4, <2>5 DEF SysNext
<1> HIDE DEF Drains
<1>3. SysSpec => [][Drains]_sysVars
  BY SystemInvariant, <1>2, PTL DEF SysSpec
<1> QED
  BY <1>3 DEF Drains, BarrierDrainsAiM

(* The trace is carried out line by line also by the system: no callback   *)
(* of a controller ever meets another request than the head's.             *)
THEOREM SystemCarriesOutTrace == SysSpec => [](TraceCarriedOut /\ WorkAccountedFor)
BY SystemIsDMA, TraceIsCarriedOut, WorkIsAccountedFor, PTL

(* An instruction that blocks keeps every later one away from every        *)
(* controller of the system until its last callback.                       *)
THEOREM SystemKeepsBarriers == SysSpec => []BlockingStopsLaterCopies
BY SystemIsDMA, BlockingIsABarrier, PTL

(* The DMA stops offering a channel copies at the first refusal, so it may *)
(* take what send() admits for the first of them: a controller that refuses*)
(* a copy would refuse every later one of the same request too.            *)
AdmitsFirst ==
  \A ch \in Channels : IsPrefixOf(Admitted(ch, remaining[ch]), remaining[ch])

THEOREM SystemAdmitsFirst == SysSpec => []AdmitsFirst
<1> SUFFICES SysInv => AdmitsFirst
  BY SystemInvariant, PTL
<1> SUFFICES ASSUME SysInv, NEW ch \in Channels
             PROVE  IsPrefixOf(Admitted(ch, remaining[ch]), remaining[ch])
  BY DEF AdmitsFirst
<1>1. remaining[ch] \in SUBSET CopySet /\ IsFiniteSet(remaining[ch])
  BY ChannelTypes DEF SysInv, ChannelInv, Sendable
<1>2. \A c \in remaining[ch] : OfHead(c) /\ c.ch = ch
  BY DEF SysInv, IInv, WorkIsOfHead, CopiesInPlace, AllRemaining
<1>3. OneRequest(remaining[ch])
  BY <1>1, <1>2 DEF OneRequest, OfHead, CopySet
<1> QED
  BY <1>1, <1>3, AdmittedIsPrefix
=============================================================================
