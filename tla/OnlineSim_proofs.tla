-------------------------- MODULE OnlineSim_proofs --------------------------
(***************************************************************************)
(* Proofs about OnlineSim, for every set of nodes, every set of requests   *)
(* and every number of packets: no packet is lost, sent twice or overtaken *)
(* at its source, the workload's queues and the counts of the manager      *)
(* agree with where the packets are, a stage settles a packet the driver   *)
(* waits for, and i_fifo is read only when it may be.                      *)
(*                                                                         *)
(* The workload, the queues of the nodes and the network each have their   *)
(* part of the invariant, as an operator of their value. A lemma says what *)
(* one operation makes of such a value, and the steps of the simulator put *)
(* them together.                                                          *)
(***************************************************************************)
EXTENDS OnlineSim, FiniteSetTheorems, SequenceTheorems, WellFoundedInduction, TLAPS

(* No element twice. *)
Distinct(s) == \A i, j \in DOMAIN s : s[i] = s[j] => i = j

(* The packets that the workload has read, and those it or i_fifo holds.   *)
Waiting(w)      == ReadyPackets(w) \cup ({w.next} \ {NoPacket})
HeldPackets(w)  == Waiting(w) \cup Range(w.fifo)

(* A node waits for its turn once, while it has ready packets.             *)
TurnsOK(w) ==
  /\ Distinct(w.pending) /\ Distinct(w.deferred)
  /\ Range(w.pending) \cap Range(w.deferred) = {}
  /\ \A n \in Nodes : n \in Range(w.pending) \cup Range(w.deferred) <=> w.ready[n] # <<>>

(* Packets are in the order of their ids: ready at a node before next     *)
(* before those in i_fifo.                                                 *)
Rising(s) == \A i, j \in DOMAIN s : i < j => s[i].id < s[j].id

OrderOK(w, c) ==
  /\ Rising(w.fifo)
  /\ \A p \in Waiting(w), q \in Range(w.fifo) : p.id < q.id
  /\ \A p \in HeldPackets(w) : p.id <= c
  /\ w.next # NoPacket => \A p \in ReadyPackets(w) : p.id < w.next.id
  /\ \A n \in Nodes : Rising(w.ready[n]) /\ \A p \in Range(w.ready[n]) : p.src = n
  /\ \A p, q \in ReadyPackets(w) : p.id = q.id => p = q

WorkloadOK(w, c) == w \in Workload /\ TurnsOK(w) /\ OrderOK(w, c)

TailOf(f) == [pkt |-> f.pkt, i |-> f.pkt.size]

(* The queue of a source: flits of its own, in order, of one packet but    *)
(* for the copies that routers had it send.                                *)
QueueOK(n, q) ==
  /\ \A f \in Range(q) : f.pkt.src = n
  /\ \A i, j \in DOMAIN q : i < j /\ q[i].pkt = q[j].pkt => q[i].i < q[j].i
  /\ \A f, g \in Range(q) :
       f.pkt.id <= MaxPackets /\ g.pkt.id <= MaxPackets => f.pkt = g.pkt

(* An id is one packet's, and a packet's tail is with its other flits.     *)
OnePacketPerId(flits) == \A f, g \in flits : f.pkt.id = g.pkt.id => f.pkt = g.pkt
TailsIncluded(flits)  == \A f \in flits : TailOf(f) \in flits

(* The flits that are to be sent, and those in the network.                *)
FlitsOK(parts, nt) ==
  /\ parts \in [Nodes -> Seq(AllFlits)] /\ nt \subseteq AllFlits /\ IsFiniteSet(nt)
  /\ \A n \in Nodes : QueueOK(n, parts[n])
  /\ \A f \in nt, g \in Queued(parts) : f.pkt = g.pkt => f.i < g.i
  /\ OnePacketPerId(nt \cup Queued(parts))
  /\ TailsIncluded(nt \cup Queued(parts))

(* A cycle of the network: flits are ejected, sent and absorbed.           *)
Moves(parts, nt, ejected, senders, taken, parts2, nt2) ==
  /\ FlitsOK(parts, nt)
  /\ ejected \subseteq nt /\ \A f \in ejected, g \in nt : g.pkt = f.pkt => f.i <= g.i
  /\ senders \subseteq {n \in Nodes : parts[n] # <<>>}
  /\ taken \subseteq nt \ ejected /\ \A f \in taken : f.pkt.kind = "reduce"
  /\ parts2 = [n \in Nodes |-> IF n \in senders THEN Tail(parts[n]) ELSE parts[n]]
  /\ nt2 = (nt \ (ejected \cup taken)) \cup {Head(parts[n]) : n \in senders}

Moved(parts, nt, ejected, taken, parts2, nt2) ==
  LET before == nt \cup Queued(parts)
      after  == nt2 \cup Queued(parts2)
      tails  == {f \in ejected : IsTail(f)}
  IN  /\ FlitsOK(parts2, nt2)
      /\ after = before \ (ejected \cup taken)
      /\ \A n \in Nodes : Range(parts2[n]) \subseteq Range(parts[n])
      /\ Ids(after) \cap (Ids(tails) \cup Ids(taken)) = {}
      /\ Ids(tails) \cap Ids(taken) = {}
      /\ Ids(before) \subseteq Ids(after) \cup Ids(tails) \cup Ids(taken)
      /\ Ids(after) \cup Ids(tails) \cup Ids(taken) \subseteq Ids(before)

(* The copies made at the nodes join their queues, and sources with nothing*)
(* left to send start a packet each.                                       *)
Arrives(parts, nt, extra, parts2) ==
  /\ FlitsOK(parts, nt) /\ extra \in [Nodes -> Seq(AllFlits)]
  /\ \A n \in Nodes : \A f \in Range(extra[n]) :
       f.pkt \in Copies /\ f.pkt.src = n /\ f.pkt.id \notin Ids(nt \cup Queued(parts))
  /\ \A n, m \in Nodes : \A f \in Range(extra[n]), g \in Range(extra[m]) :
       f.pkt.id = g.pkt.id => f = g
  /\ \A n \in Nodes : Distinct(extra[n])
  /\ parts2 = [n \in Nodes |-> parts[n] \o extra[n]]

Starts(parts, nt, go, first, parts2) ==
  /\ FlitsOK(parts, nt) /\ go \subseteq Nodes
  /\ \A n \in go : /\ parts[n] = <<>> /\ first[n] \in AllPackets /\ first[n].src = n
                   /\ first[n].id \notin Ids(nt \cup Queued(parts))
  /\ \A n, m \in go : first[n].id = first[m].id => first[n] = first[m]
  /\ parts2 = [n \in Nodes |-> IF n \in go THEN FlitsOf(first[n]) ELSE parts[n]]

(* What a source is sending was injected before what it holds.            *)
SourcesOK(w, parts) ==
  \A n \in Nodes : \A f \in Range(parts[n]), p \in HeldPackets(w) :
    p.src = n /\ f.pkt.id <= MaxPackets => f.pkt.id < p.id

(* What routers absorbed is of packets that are nowhere else.              *)
AbsorbedOK(gone, parts, nt) ==
  /\ gone \subseteq AllFlits /\ \A f \in gone : f.pkt.kind = "reduce"
  /\ Ids(gone) \cap Ids(nt \cup Queued(parts)) = {}

(* Of the packets of ids 1 .. c each is held, in flight or settled.        *)
Accounts(held, flying, done, c) ==
  /\ 1 .. c \subseteq held \cup flying \cup done
  /\ held \cap flying = {} /\ held \cap done = {} /\ flying \cap done = {}

HeldIds(w)      == {p.id : p \in HeldPackets(w)}
GenIds(packets) == {p.id : p \in Range(packets)}

(* The ids a simulation knows are those of the packets injected and those  *)
(* of the copies of them; no copy that is to be sent was sent before.      *)
Known(id, copied, c) == id <= c \/ (id > MaxPackets /\ id - MaxPackets \in copied)

CopiesOK(packets, sent, copied, c) ==
  /\ packets \in Seq(Copies)
  /\ \A i, j \in DOMAIN packets : packets[i].id = packets[j].id => i = j
  /\ GenIds(packets) \cap sent = {}
  /\ \A id \in GenIds(packets) \cup sent : Known(id, copied, c)
  /\ copied \subseteq 1 .. MaxPackets

(* Copies are made of broadcasts in the network that had none made before. *)
CopiesMade(nt, copied, c, copying, at, sent, packets) ==
  /\ nt \subseteq AllFlits /\ IsFiniteSet(nt) /\ OnePacketPerId(nt)
  /\ copied \subseteq 1 .. MaxPackets /\ c \in 0 .. MaxPackets
  /\ copying \subseteq nt /\ at \in [copying -> Nodes]
  /\ \A f \in copying : f.pkt.kind = "broadcast" /\ f.pkt.id \notin copied
  /\ \A id \in sent : Known(id, copied, c)
  /\ packets = SetToSeq({CopyOf(f, at[f]) : f \in copying})

(* The packet a copy was made of is in flight when the copy is sent.       *)
CopiesFollow ==
  pc \in {"driver", "stage"} =>
    \A id \in GenIds(generated) : id - MaxPackets \in Ids(inflight)

Due == owed \cup {id + MaxPackets : id \in owed}

(* A stage is about the packets the driver waits for; until one of them    *)
(* has settled there is one to go on with.                                 *)
StageOK ==
  /\ pc = "stage" => returned = "stage" /\ Unsettled \cup GenIds(generated) \subseteq Due
  /\ pc = "stage" /\ owed # {} => Due \cap settled # {} \/ Loaded(wl) \cup Ids(inflight) # {}

(* Before the greenlet has called init() there is only i_fifo.             *)
NotStarted ==
  ~started => wl = [EmptyWorkload EXCEPT !.fifo = wl.fifo] /\ inflight = {}

Types ==
  /\ pc \in {"driver", "stage", "draining", "ended"}
  /\ ending \in BOOLEAN /\ started \in BOOLEAN /\ count \in 0 .. MaxPackets
  /\ clock \in Nat /\ info \subseteq PacketId /\ settled \subseteq PacketId
  /\ owed \subseteq PacketId /\ returned \in {"none", "init", "stage"}

(* The inductive invariant. *)
IInv ==
  /\ Types
  /\ WorkloadOK(wl, count) /\ FlitsOK(partial, net) /\ SourcesOK(wl, partial)
  /\ AbsorbedOK(absorbed, partial, net) /\ InFlightExact
  /\ Accounts(HeldIds(wl), Ids(inflight), settled, count)
  /\ CopiesOK(generated, Ids(inflight) \cup settled, spawned, count)
  /\ CopiesFollow /\ StageOK /\ NotStarted
  /\ StageSettlesOne

-----------------------------------------------------------------------------
(* Induction over the naturals, and functions defined by it.               *)

(* A set of naturals that is not empty has a least element. *)
LEMMA LeastNatural ==
  ASSUME NEW T \in SUBSET Nat, T # {}
  PROVE  \E x \in T : \A y \in T : x <= y
<1> DEFINE R == {ss \in Nat \X Nat : ss[1] < ss[2]}
<1>1. IsWellFoundedOn(R, Nat)
  BY NatLessThanWellFounded DEF OpToRel
<1>2. \A x, y \in Nat : x < y => <<x, y>> \in R
  OBVIOUS
<1>3. \E x \in T : \A y \in T : ~ (<<y, x>> \in R)
  <2> HIDE DEF R
  <2> QED BY <1>1, WFMin
<1> HIDE DEF R
<1>4. PICK x \in T : \A y \in T : ~ (<<y, x>> \in R)
  BY <1>3
<1>5. \A y \in T : x <= y
  <2> TAKE y \in T
  <2>1. x \in Nat /\ y \in Nat
    OBVIOUS
  <2>2. ~(y < x)
    BY <1>2, <1>4, <2>1
  <2> QED
    BY <2>1, <2>2
<1> QED
  BY <1>5

(* Induction, with the property as a set. *)
LEMMA SetInduction ==
  ASSUME NEW S \in SUBSET Nat, 0 \in S, \A k \in S : k + 1 \in S
  PROVE  S = Nat
<1> SUFFICES ASSUME Nat \ S # {} PROVE FALSE
  OBVIOUS
<1>1. PICK k \in Nat \ S : \A m \in Nat \ S : k <= m
  BY LeastNatural
<1>2. k # 0
  OBVIOUS
<1>3. k - 1 \in Nat /\ ~(k <= k - 1)
  BY <1>2
<1>4. k - 1 \in S
  BY <1>1, <1>3
<1>5. (k - 1) + 1 \in S
  BY <1>4
<1> QED
  BY <1>5

(* A loop of n turns has a function that gives its state after each turn.  *)
IsLoop(g, S, s0, n, F) ==
  /\ g \in [0 .. n -> S] /\ g[0] = s0
  /\ \A k \in 1 .. n : g[k] = F[<<g[k - 1], k>>]

(* A loop of n turns has such a function. *)
LEMMA LoopExists ==
  ASSUME NEW S, NEW s0 \in S, NEW n \in Nat, NEW F \in [S \X (1 .. n) -> S]
  PROVE  \E g : IsLoop(g, S, s0, n, F)
<1> DEFINE Upto(m, g) == /\ g \in [0 .. m -> S] /\ g[0] = s0
                         /\ \A k \in 1 .. m : g[k] = F[<<g[k - 1], k>>]
           T == {m \in Nat : m <= n => \E g : Upto(m, g)}
<1>1. 0 \in T
  <2>1. Upto(0, [k \in 0 .. 0 |-> s0])
    OBVIOUS
  <2> QED BY <2>1
<1>2. ASSUME NEW m \in Nat, m + 1 <= n, NEW g, Upto(m, g)
      PROVE  \E h : Upto(m + 1, h)
  <2> DEFINE h == [k \in 0 .. m + 1 |-> IF k <= m THEN g[k] ELSE F[<<g[m], m + 1>>]]
  <2>1. g[m] \in S /\ m + 1 \in 1 .. n
    BY <1>2
  <2>2. F[<<g[m], m + 1>>] \in S
    BY <2>1
  <2>3. h \in [0 .. m + 1 -> S] /\ h[0] = s0
    BY <1>2, <2>2
  <2>4. \A k \in 1 .. m + 1 : h[k] = F[<<h[k - 1], k>>]
    <3> TAKE k \in 1 .. m + 1
    <3>1. k - 1 \in 0 .. m + 1 /\ k - 1 <= m /\ h[k - 1] = g[k - 1]
      OBVIOUS
    <3>2. CASE k = m + 1
      <4>1. h[k] = F[<<g[m], m + 1>>] /\ k - 1 = m
        BY <3>2
      <4> QED BY <3>1, <3>2, <4>1
    <3>3. CASE k # m + 1
      <4>1. k \in 1 .. m /\ h[k] = g[k]
        BY <3>3
      <4> QED BY <1>2, <3>1, <4>1
    <3> QED BY <3>2, <3>3
  <2> QED
    BY <2>3, <2>4
<1>3. ASSUME NEW m \in T
      PROVE  m + 1 \in T
  <2> HIDE DEF Upto
  <2> QED BY <1>2, <1>3
<1>4. T = Nat
  <2> HIDE DEF T
  <2>1. T \in SUBSET Nat
    BY DEF T
  <2> QED BY <1>1, <1>3, <2>1, SetInduction
<1>5. \E g : Upto(n, g)
  <2> HIDE DEF Upto
  <2> QED BY <1>4
<1> QED
  BY <1>5 DEF IsLoop

-----------------------------------------------------------------------------
(* Sequences and the sets of their elements.                               *)

(* What Append, \o and Tail make of a sequence and of its range.           *)
LEMMA AppendFacts ==
  ASSUME NEW A, NEW s \in Seq(A), NEW x \in A
  PROVE  /\ Append(s, x) \in Seq(A) /\ Len(Append(s, x)) = Len(s) + 1
         /\ DOMAIN Append(s, x) = 1 .. Len(s) + 1
         /\ \A i \in 1 .. Len(s) : Append(s, x)[i] = s[i]
         /\ Append(s, x)[Len(s) + 1] = x
         /\ Range(Append(s, x)) = Range(s) \cup {x}
         /\ Append(s, x) # <<>>
<1>1. /\ Append(s, x) \in Seq(A) /\ Len(Append(s, x)) = Len(s) + 1
      /\ DOMAIN Append(s, x) = 1 .. Len(s) + 1 /\ DOMAIN s = 1 .. Len(s) /\ Len(s) \in Nat
      /\ \A i \in 1 .. Len(s) : Append(s, x)[i] = s[i]
      /\ Append(s, x)[Len(s) + 1] = x
  BY AppendProperties, LenProperties
<1>2. Range(Append(s, x)) = Range(s) \cup {x}
  BY <1>1 DEF Range
<1>3. Append(s, x) # <<>>
  BY <1>1
<1> QED
  BY <1>1, <1>2, <1>3

LEMMA ConcatFacts ==
  ASSUME NEW A, NEW s \in Seq(A), NEW t \in Seq(A)
  PROVE  /\ s \o t \in Seq(A) /\ Len(s \o t) = Len(s) + Len(t)
         /\ DOMAIN (s \o t) = 1 .. Len(s) + Len(t)
         /\ \A i \in 1 .. Len(s) : (s \o t)[i] = s[i]
         /\ \A i \in 1 .. Len(t) : (s \o t)[Len(s) + i] = t[i]
         /\ Range(s \o t) = Range(s) \cup Range(t)
<1>1. /\ s \o t \in Seq(A) /\ Len(s \o t) = Len(s) + Len(t)
      /\ DOMAIN (s \o t) = 1 .. Len(s) + Len(t) /\ DOMAIN s = 1 .. Len(s) /\ DOMAIN t = 1 .. Len(t)
      /\ Len(s) \in Nat /\ Len(t) \in Nat
  BY ConcatProperties, LenProperties
<1>2. \A i \in 1 .. Len(s) : (s \o t)[i] = s[i]
  BY <1>1
<1>3. \A i \in 1 .. Len(t) : (s \o t)[Len(s) + i] = t[i] /\ Len(s) + i \in 1 .. Len(s) + Len(t)
  BY <1>1
<1>4. \A i \in 1 .. Len(s) + Len(t) :
        (i \in 1 .. Len(s)) \/ (\E j \in 1 .. Len(t) : i = Len(s) + j)
  <2> TAKE i \in 1 .. Len(s) + Len(t)
  <2>1. CASE i <= Len(s)
    BY <1>1, <2>1
  <2>2. CASE i > Len(s)
    <3>1. i - Len(s) \in 1 .. Len(t) /\ i = Len(s) + (i - Len(s))
      BY <1>1, <2>2
    <3> QED BY <3>1
  <2> QED BY <1>1, <2>1, <2>2
<1>5. Range(s \o t) \subseteq Range(s) \cup Range(t)
  BY <1>1, <1>2, <1>3, <1>4 DEF Range
<1>6. 1 .. Len(s) \subseteq 1 .. Len(s) + Len(t)
  BY <1>1
<1>7. Range(s) \cup Range(t) \subseteq Range(s \o t)
  BY <1>1, <1>2, <1>3, <1>6 DEF Range
<1> QED
  BY <1>1, <1>2, <1>3, <1>5, <1>7

LEMMA TailFacts ==
  ASSUME NEW A, NEW s \in Seq(A), s # <<>>
  PROVE  /\ Len(s) \in Nat /\ Len(s) >= 1
         /\ Head(s) = s[1] /\ Head(s) \in A /\ 1 \in DOMAIN s
         /\ Tail(s) \in Seq(A) /\ Len(Tail(s)) = Len(s) - 1
         /\ DOMAIN Tail(s) = 1 .. Len(s) - 1
         /\ \A i \in DOMAIN Tail(s) : Tail(s)[i] = s[i + 1] /\ i + 1 \in DOMAIN s
         /\ Range(s) = {Head(s)} \cup Range(Tail(s))
<1>1. Len(s) \in Nat /\ Len(s) >= 1 /\ DOMAIN s = 1 .. Len(s)
  BY EmptySeq, LenProperties
<1>2. /\ Head(s) = s[1] /\ Head(s) \in A /\ 1 \in DOMAIN s
      /\ Tail(s) \in Seq(A) /\ Len(Tail(s)) = Len(s) - 1
  BY <1>1, HeadTailProperties
<1>3. DOMAIN Tail(s) = 1 .. Len(s) - 1
  BY <1>2, LenProperties
<1>4. \A i \in DOMAIN Tail(s) : Tail(s)[i] = s[i + 1] /\ i + 1 \in DOMAIN s
  BY <1>1, <1>2, <1>3, HeadTailProperties
<1>5. \A i \in 1 .. Len(s) : i = 1 \/ (i - 1 \in DOMAIN Tail(s) /\ s[i] = Tail(s)[i - 1])
  <2> TAKE i \in 1 .. Len(s)
  <2>1. CASE i # 1
    <3>1. i - 1 \in DOMAIN Tail(s) /\ (i - 1) + 1 = i
      BY <1>1, <1>3, <2>1
    <3> QED BY <1>4, <3>1
  <2> QED BY <2>1
<1>6. Range(s) \subseteq {Head(s)} \cup Range(Tail(s))
  <2> SUFFICES ASSUME NEW i \in 1 .. Len(s)
               PROVE  s[i] \in {Head(s)} \cup Range(Tail(s))
    BY <1>1 DEF Range
  <2>1. CASE i = 1
    BY <1>2, <2>1
  <2>2. CASE i # 1
    BY <1>5, <2>2 DEF Range
  <2> QED BY <2>1, <2>2
<1>7. {Head(s)} \cup Range(Tail(s)) \subseteq Range(s)
  BY <1>2, <1>4 DEF Range
<1> QED
  BY <1>1, <1>2, <1>3, <1>4, <1>6, <1>7

(* The tail is not empty when there is more than one element.              *)
LEMMA TailEmpty ==
  ASSUME NEW A, NEW s \in Seq(A), s # <<>>
  PROVE  Tail(s) # <<>> <=> Len(s) > 1
<1>1. /\ Tail(s) \in Seq(A) /\ Len(s) \in Nat
      /\ Len(Tail(s)) = Len(s) - 1 /\ Len(s) >= 1
  BY TailFacts
<1>2. Tail(s) = <<>> <=> Len(Tail(s)) = 0
  BY <1>1, EmptySeq
<1>3. (Len(Tail(s)) = 0) <=> ~(Len(s) > 1)
  <2>1. Len(s) = 1 \/ Len(s) > 1
    BY <1>1
  <2>2. CASE Len(s) = 1
    BY <1>1, <2>2
  <2>3. CASE Len(s) > 1
    BY <1>1, <2>3
  <2> QED BY <2>1, <2>2, <2>3
<1> QED
  BY <1>2, <1>3

(* Sequences without repetitions that share no element, one after the other. *)
LEMMA DistinctConcat ==
  ASSUME NEW A, NEW s \in Seq(A), NEW t \in Seq(A),
         Distinct(s), Distinct(t), Range(s) \cap Range(t) = {}
  PROVE  Distinct(s \o t)
<1>1. /\ Len(s) \in Nat /\ Len(t) \in Nat /\ DOMAIN s = 1 .. Len(s) /\ DOMAIN t = 1 .. Len(t)
      /\ DOMAIN (s \o t) = 1 .. Len(s) + Len(t)
      /\ \A i \in 1 .. Len(s) : (s \o t)[i] = s[i]
      /\ \A i \in 1 .. Len(t) : (s \o t)[Len(s) + i] = t[i]
  BY ConcatFacts, LenProperties
<1>2. \A i \in 1 .. Len(s), j \in 1 .. Len(t) : s[i] # t[j]
  BY <1>1 DEF Range
<1>3. ASSUME NEW i \in 1 .. Len(s) + Len(t), NEW j \in 1 .. Len(s) + Len(t),
             (s \o t)[i] = (s \o t)[j]
      PROVE  i = j
  <2>1. CASE i <= Len(s) /\ j <= Len(s)
    <3>1. i \in 1 .. Len(s) /\ j \in 1 .. Len(s)
      BY <1>1, <2>1
    <3> QED BY <1>1, <1>3, <3>1 DEF Distinct
  <2>2. CASE i > Len(s) /\ j > Len(s)
    <3>1. PICK a \in 1 .. Len(t) : i = Len(s) + a
      BY <1>1, <2>2, i - Len(s) \in 1 .. Len(t), i = Len(s) + (i - Len(s))
    <3>2. PICK b \in 1 .. Len(t) : j = Len(s) + b
      BY <1>1, <2>2, j - Len(s) \in 1 .. Len(t), j = Len(s) + (j - Len(s))
    <3>3. t[a] = t[b]
      BY <1>1, <1>3, <3>1, <3>2
    <3> QED BY <1>1, <3>1, <3>2, <3>3 DEF Distinct
  <2>3. ASSUME NEW a \in 1 .. Len(s) + Len(t), NEW b \in 1 .. Len(s) + Len(t),
               a <= Len(s), b > Len(s)
        PROVE  (s \o t)[a] # (s \o t)[b]
    <3>1. a \in 1 .. Len(s) /\ b - Len(s) \in 1 .. Len(t) /\ b = Len(s) + (b - Len(s))
      BY <1>1, <2>3
    <3> QED BY <1>1, <1>2, <3>1
  <2> QED
    BY <1>1, <1>3, <2>1, <2>2, <2>3
<1> QED
  BY <1>1, <1>3 DEF Distinct

LEMMA DistinctAppend ==
  ASSUME NEW A, NEW s \in Seq(A), NEW x \in A, Distinct(s), x \notin Range(s)
  PROVE  Distinct(Append(s, x))
<1>1. /\ Len(s) \in Nat /\ DOMAIN s = 1 .. Len(s) /\ DOMAIN Append(s, x) = 1 .. Len(s) + 1
      /\ \A i \in 1 .. Len(s) : Append(s, x)[i] = s[i]
      /\ Append(s, x)[Len(s) + 1] = x
  BY AppendFacts, LenProperties
<1>2. \A i \in 1 .. Len(s) : s[i] # x
  BY <1>1 DEF Range
<1> QED
  BY <1>1, <1>2 DEF Distinct

(* What Keep keeps. *)
LEMMA KeepFacts ==
  ASSUME NEW A, NEW s \in Seq(A), NEW S
  PROVE  /\ Keep(s, S) \in Seq(A)
         /\ Range(Keep(s, S)) = Range(s) \cap S
         /\ Distinct(s) => Distinct(Keep(s, S))
<1> DEFINE n == Len(s)
           F == [x \in Seq(A) \X (1 .. n) |->
                   IF s[x[2]] \in S THEN Append(x[1], s[x[2]]) ELSE x[1]]
           Def(kept) == [i \in 0 .. Len(s) |->
                   IF i = 0 THEN <<>>
                   ELSE IF s[i] \in S THEN Append(kept[i - 1], s[i]) ELSE kept[i - 1]]
<1>1. n \in Nat /\ DOMAIN s = 1 .. n /\ \A i \in 1 .. n : s[i] \in A
  BY LenProperties, ElementOfSeq
<1>2. F \in [Seq(A) \X (1 .. n) -> Seq(A)]
  BY <1>1
<1>3. PICK g : IsLoop(g, Seq(A), <<>>, n, F)
  <2>1. <<>> \in Seq(A)
    OBVIOUS
  <2> HIDE DEF F, n
  <2> QED BY <1>1, <1>2, <2>1, LoopExists
<1>loop. g \in [0 .. n -> Seq(A)] /\ g[0] = <<>> /\ \A k \in 1 .. n : g[k] = F[<<g[k - 1], k>>]
  BY <1>3 DEF IsLoop
<1>4. \A k \in 1 .. n : k - 1 \in 0 .. n /\ k \in 0 .. n /\ g[k - 1] \in Seq(A)
  BY <1>1, <1>loop
<1>5. \A k \in 1 .. n : g[k] = IF s[k] \in S THEN Append(g[k - 1], s[k]) ELSE g[k - 1]
  BY <1>4, <1>loop
<1>6. g = Def(g)
  <2>1. \A i \in 0 .. n : g[i] = IF i = 0 THEN <<>>
                                 ELSE IF s[i] \in S THEN Append(g[i - 1], s[i]) ELSE g[i - 1]
    <3> TAKE i \in 0 .. n
    <3>1. CASE i = 0
      BY <1>loop, <3>1
    <3>2. CASE i # 0
      <4>1. i \in 1 .. n
        BY <1>1, <3>2
      <4> QED BY <1>5, <3>2, <4>1
    <3> QED BY <3>1, <3>2
  <2>2. g = [i \in 0 .. n |-> g[i]]
    BY <1>loop
  <2> QED BY <2>1, <2>2
<1>7. PICK kept : kept = Def(kept) /\ Keep(s, S) = kept[n]
  <2> DEFINE chosen == CHOOSE f : f = Def(f)
  <2>1. \E f : f = Def(f)
    BY <1>6
  <2>2. chosen = Def(chosen)
    <3> HIDE DEF Def
    <3> QED BY <2>1
  <2>3. Keep(s, S) = chosen[n]
    BY DEF Keep
  <2> HIDE DEF chosen
  <2> QED BY <2>2, <2>3
<1>8. \A k \in 1 .. n : kept[k] = IF s[k] \in S THEN Append(kept[k - 1], s[k]) ELSE kept[k - 1]
  <2> TAKE k \in 1 .. n
  <2>1. k \in 0 .. Len(s) /\ k # 0
    BY <1>1
  <2>2. kept[k] = Def(kept)[k]
    BY <1>7
  <2>3. Def(kept)[k] = IF s[k] \in S THEN Append(kept[k - 1], s[k]) ELSE kept[k - 1]
    BY <2>1
  <2> QED BY <2>2, <2>3
<1>9. kept[0] = <<>>
  BY <1>1, <1>7
<1> DEFINE Good(k) == /\ kept[k] \in Seq(A)
                      /\ Range(kept[k]) = {s[j] : j \in 1 .. k} \cap S
                      /\ Distinct(s) => Distinct(kept[k])
           T == {k \in Nat : k <= n => Good(k)}
<1>10. Good(0)
  <2>1. <<>> \in Seq(A) /\ Range(<<>>) = {} /\ Distinct(<<>>)
    BY DEF Range, Distinct
  <2> QED BY <1>9, <2>1
<1>11. ASSUME NEW k \in Nat, k + 1 <= n, Good(k)
       PROVE  Good(k + 1)
  <2>1. k + 1 \in 1 .. n /\ (k + 1) - 1 = k /\ 1 .. k + 1 = (1 .. k) \cup {k + 1}
    BY <1>1, <1>11
  <2>2. s[k + 1] \in A
    BY <1>1, <2>1
  <2>3. {s[j] : j \in 1 .. k + 1} = {s[j] : j \in 1 .. k} \cup {s[k + 1]}
    BY <2>1
  <2>4. Distinct(s) => s[k + 1] \notin {s[j] : j \in 1 .. k}
    BY <1>1, <2>1 DEF Distinct
  <2>5. CASE s[k + 1] \in S
    <3>1. kept[k + 1] = Append(kept[k], s[k + 1])
      BY <1>8, <2>1, <2>5
    <3>2. kept[k + 1] \in Seq(A) /\ Range(kept[k + 1]) = Range(kept[k]) \cup {s[k + 1]}
      BY <1>11, <2>2, <3>1, AppendFacts
    <3>3. Distinct(s) => Distinct(kept[k + 1])
      BY <1>11, <2>2, <2>4, <3>1, DistinctAppend
    <3> QED
      BY <1>11, <2>3, <2>5, <3>2, <3>3
  <2>6. CASE s[k + 1] \notin S
    <3>1. kept[k + 1] = kept[k]
      BY <1>8, <2>1, <2>6
    <3> QED
      BY <1>11, <2>3, <2>6, <3>1
  <2> QED
    BY <2>5, <2>6
<1>12. T = Nat
  <2>1. T \in SUBSET Nat /\ 0 \in T
    BY <1>10
  <2>2. \A k \in T : k + 1 \in T
    <3> HIDE DEF Good
    <3> QED BY <1>1, <1>11
  <2> HIDE DEF T
  <2> QED BY <2>1, <2>2, SetInduction
<1>13. Good(n)
  <2>1. n \in T
    <3> HIDE DEF T
    <3> QED BY <1>1, <1>12
  <2>2. n <= n
    BY <1>1
  <2> HIDE DEF Good
  <2> QED BY <2>1, <2>2
<1>14. Range(s) = {s[j] : j \in 1 .. n}
  BY <1>1 DEF Range
<1> QED
  BY <1>7, <1>13, <1>14

-----------------------------------------------------------------------------
(* Packets. *)

(* The fields of the packets that are injected, and of the copies.         *)
LEMMA PacketFacts ==
  ASSUME NEW p \in AllPackets
  PROVE  /\ p.id \in Nat /\ p.id \in 1 .. MaxPackets /\ p.id # 0 /\ p # NoPacket
         /\ p.src \in Nodes /\ p.delay \in Nat /\ p.size \in Nat /\ p.size >= 1
         /\ p.kind \in Kinds /\ (p.kind # "plain" => p.size = 1)
<1>1. PICK id \in 1 .. MaxPackets, r \in Requests : p = Packet(id, r)
  BY DEF AllPackets
<1>2. r \in [src : Nodes, delay : Nat, size : Nat \ {0}, kind : Kinds]
      /\ (r.kind # "plain" => r.size = 1)
  BY RequestAssumption
<1>3. MaxPackets \in Nat
  BY RequestAssumption
<1>4. /\ p.id = id /\ p.src = r.src /\ p.delay = r.delay /\ p.size = r.size /\ p.kind = r.kind
      /\ "size" \in DOMAIN p
  BY <1>1 DEF Packet
<1>5. p # NoPacket
  BY <1>4 DEF NoPacket
<1> QED
  BY <1>2, <1>3, <1>4, <1>5

LEMMA CopyFacts ==
  ASSUME NEW p \in Copies
  PROVE  /\ p.id \in Nat /\ p.id > MaxPackets /\ p.id \in 1 .. 2 * MaxPackets
         /\ p.src \in Nodes /\ p.size = 1 /\ p.kind = "plain"
<1>1. PICK q \in AllPackets, n \in Nodes : p = CopyOf([pkt |-> q], n)
  BY DEF Copies
<1>2. p.id = q.id + MaxPackets /\ p.src = n /\ p.size = 1 /\ p.kind = "plain"
  BY <1>1 DEF CopyOf
<1>3. MaxPackets \in Nat /\ q.id \in 1 .. MaxPackets
  BY RequestAssumption, PacketFacts
<1> QED
  BY <1>2, <1>3

-----------------------------------------------------------------------------
(* The workload keeps its queues in order. *)

(* The fields of the workload, and the packets it holds. *)
LEMMA WorkloadFields ==
  ASSUME NEW w \in Workload
  PROVE  /\ w.fifo \in Seq(AllPackets) /\ w.pending \in Seq(Nodes) /\ w.deferred \in Seq(Nodes)
         /\ w.ready \in [Nodes -> Seq(AllPackets)] /\ w.next \in AllPackets \cup {NoPacket}
         /\ w.wait \in Nat
BY DEF Workload

LEMMA RangeType ==
  ASSUME NEW A, NEW s \in Seq(A)
  PROVE  Range(s) \subseteq A
BY LenProperties, ElementOfSeq DEF Range

LEMMA WaitingPackets ==
  ASSUME NEW w \in Workload
  PROVE  /\ HeldPackets(w) \subseteq AllPackets
         /\ Loaded(w) = {p.id : p \in Waiting(w)}
         /\ Unread(w) = {p.id : p \in Range(w.fifo)}
<1>1. Range(w.fifo) \subseteq AllPackets /\ \A n \in Nodes : Range(w.ready[n]) \subseteq AllPackets
  BY RangeType, WorkloadFields
<1>2. HeldPackets(w) \subseteq AllPackets
  BY <1>1, WorkloadFields DEF HeldPackets, Waiting, ReadyPackets
<1>3. \A p \in Waiting(w) : p.id # 0
  BY <1>2, PacketFacts DEF HeldPackets
<1>4. NoPacket.id = 0
  BY DEF NoPacket
<1>5. Loaded(w) = {p.id : p \in ReadyPackets(w) \cup {w.next}} \ {0}
  BY DEF Loaded
<1>6. {p.id : p \in ReadyPackets(w) \cup {w.next}} \ {0} = {p.id : p \in Waiting(w)}
  BY <1>3, <1>4 DEF Waiting
<1> QED
  BY <1>2, <1>5, <1>6 DEF Unread

(* A packet is known by its id. *)
LEMMA HeldById ==
  ASSUME NEW w, NEW c, WorkloadOK(w, c),
         NEW p \in HeldPackets(w), NEW q \in HeldPackets(w), p.id = q.id
  PROVE  p = q
<1>1. w \in Workload /\ OrderOK(w, c) /\ p \in AllPackets /\ q \in AllPackets
  BY WaitingPackets DEF WorkloadOK
<1>2. p.id \in Nat /\ q.id \in Nat
  BY <1>1, PacketFacts
<1>3. \A a, b \in Range(w.fifo) : a.id = b.id => a = b
  <2> SUFFICES ASSUME NEW i \in DOMAIN w.fifo, NEW j \in DOMAIN w.fifo,
                      w.fifo[i].id = w.fifo[j].id
               PROVE  i = j
    BY DEF Range
  <2>1. w.fifo \in Seq(AllPackets)
    BY <1>1, WorkloadFields
  <2>2. DOMAIN w.fifo \subseteq Nat /\ w.fifo[i] \in AllPackets /\ w.fifo[j] \in AllPackets
    BY <2>1, LenProperties, ElementOfSeq
  <2>3. w.fifo[i].id \in Nat /\ w.fifo[j].id \in Nat /\ i \in Nat /\ j \in Nat
    BY <2>2, PacketFacts
  <2> QED
    BY <1>1, <2>3 DEF OrderOK, Rising
<1>4. \A a, b \in Waiting(w) : a.id = b.id => a = b
  <2> SUFFICES ASSUME NEW a \in Waiting(w), NEW b \in Waiting(w), a.id = b.id
               PROVE  a = b
    OBVIOUS
  <2>1. a \in AllPackets /\ b \in AllPackets
    BY <1>1, WaitingPackets DEF HeldPackets
  <2>2. a.id \in Nat /\ b.id \in Nat
    BY <2>1, PacketFacts
  <2>3. a \in ReadyPackets(w) \/ (a = w.next /\ w.next # NoPacket)
    BY DEF Waiting
  <2>4. b \in ReadyPackets(w) \/ (b = w.next /\ w.next # NoPacket)
    BY DEF Waiting
  <2> QED
    BY <1>1, <2>2, <2>3, <2>4 DEF OrderOK
<1>5. \A a \in Waiting(w), b \in Range(w.fifo) : a.id < b.id
  BY <1>1 DEF OrderOK
<1> QED
  BY <1>2, <1>3, <1>4, <1>5 DEF HeldPackets

(* Queues in the order of their ids, longer and shorter. *)
LEMMA RisingAppend ==
  ASSUME NEW s \in Seq(AllPackets), NEW p \in AllPackets, Rising(s),
         \A q \in Range(s) : q.id < p.id
  PROVE  Rising(Append(s, p))
<1>1. /\ Len(s) \in Nat /\ DOMAIN s = 1 .. Len(s) /\ DOMAIN Append(s, p) = 1 .. Len(s) + 1
      /\ \A i \in 1 .. Len(s) : Append(s, p)[i] = s[i]
      /\ Append(s, p)[Len(s) + 1] = p
  BY AppendFacts, LenProperties
<1>2. \A i \in 1 .. Len(s) : s[i].id < p.id
  BY <1>1 DEF Range
<1>3. ASSUME NEW i \in 1 .. Len(s) + 1, NEW j \in 1 .. Len(s) + 1, i < j
      PROVE  Append(s, p)[i].id < Append(s, p)[j].id
  <2>1. i \in 1 .. Len(s) /\ (j \in 1 .. Len(s) \/ j = Len(s) + 1)
    BY <1>1, <1>3
  <2> QED BY <1>1, <1>2, <1>3, <2>1 DEF Rising
<1> QED
  BY <1>1, <1>3 DEF Rising

LEMMA RisingTail ==
  ASSUME NEW s \in Seq(AllPackets), s # <<>>, Rising(s)
  PROVE  Rising(Tail(s)) /\ \A q \in Range(Tail(s)) : Head(s).id < q.id
<1>1. /\ Len(s) \in Nat /\ Head(s) = s[1] /\ 1 \in DOMAIN s
      /\ DOMAIN Tail(s) = 1 .. Len(s) - 1
      /\ \A i \in DOMAIN Tail(s) : Tail(s)[i] = s[i + 1] /\ i + 1 \in DOMAIN s
  BY TailFacts
<1>2. Rising(Tail(s))
  <2> SUFFICES ASSUME NEW i \in DOMAIN Tail(s), NEW j \in DOMAIN Tail(s), i < j
               PROVE  Tail(s)[i].id < Tail(s)[j].id
    BY DEF Rising
  <2>1. i + 1 < j + 1 /\ i + 1 \in DOMAIN s /\ j + 1 \in DOMAIN s
    BY <1>1
  <2> QED BY <1>1, <2>1 DEF Rising
<1>3. ASSUME NEW i \in DOMAIN Tail(s)
      PROVE  Head(s).id < Tail(s)[i].id
  <2>1. 1 < i + 1 /\ i + 1 \in DOMAIN s
    BY <1>1
  <2> QED BY <1>1, <2>1 DEF Rising
<1> QED
  BY <1>2, <1>3 DEF Range

(* A packet that is due joins the ready ones of its source. *)
LEMMA MakeReadyOK ==
  ASSUME NEW c \in Nat, NEW w, WorkloadOK(w, c), w.next = NoPacket,
         NEW p \in AllPackets, p.id <= c,
         \A q \in ReadyPackets(w) : q.id < p.id,
         \A q \in Range(w.fifo) : p.id < q.id
  PROVE  /\ WorkloadOK(MakeReady(w, p), c)
         /\ MakeReady(w, p).fifo = w.fifo /\ MakeReady(w, p).next = NoPacket
         /\ Waiting(MakeReady(w, p)) = Waiting(w) \cup {p}
<1> DEFINE v == MakeReady(w, p)
           s == p.src
<1>1. s \in Nodes /\ p.id \in Nat /\ p # NoPacket
  BY PacketFacts
<1>2. /\ w.fifo \in Seq(AllPackets) /\ w.pending \in Seq(Nodes) /\ w.deferred \in Seq(Nodes)
      /\ w.ready \in [Nodes -> Seq(AllPackets)] /\ w.wait \in Nat /\ w \in Workload
  BY WorkloadFields DEF WorkloadOK
<1>3. TurnsOK(w) /\ OrderOK(w, c)
  BY DEF WorkloadOK
<1> DEFINE r == Append(w.ready[s], p)
           t == IF w.ready[s] = <<>> THEN Append(w.pending, s) ELSE w.pending
<1>4. /\ r \in Seq(AllPackets) /\ r # <<>> /\ Range(r) = Range(w.ready[s]) \cup {p}
      /\ t \in Seq(Nodes)
      /\ Range(t) = IF w.ready[s] = <<>> THEN Range(w.pending) \cup {s} ELSE Range(w.pending)
  <2>1. w.ready[s] \in Seq(AllPackets)
    BY <1>1, <1>2
  <2>2. r \in Seq(AllPackets) /\ r # <<>> /\ Range(r) = Range(w.ready[s]) \cup {p}
    <3> HIDE DEF s
    <3> QED BY <2>1, AppendFacts
  <2>3. Append(w.pending, s) \in Seq(Nodes) /\ Range(Append(w.pending, s)) = Range(w.pending) \cup {s}
    <3> HIDE DEF s
    <3> QED BY <1>1, <1>2, AppendFacts
  <2> QED BY <1>2, <2>2, <2>3
<1>5. v = [w EXCEPT !.ready[s] = r, !.pending = t]
  BY DEF MakeReady
<1>6. /\ v \in Workload
      /\ v.fifo = w.fifo /\ v.deferred = w.deferred /\ v.next = w.next /\ v.pending = t
      /\ v.ready = [w.ready EXCEPT ![s] = r]
  <2> HIDE DEF v, r, t, s
  <2>1. [w.ready EXCEPT ![s] = r] \in [Nodes -> Seq(AllPackets)]
    BY <1>2, <1>4
  <2> QED BY <1>2, <1>4, <1>5, <2>1 DEF Workload
<1>7. v.ready[s] = r /\ \A n \in Nodes : n # s => v.ready[n] = w.ready[n]
  BY <1>1, <1>2, <1>6
<1> HIDE DEF v
<1>8. ReadyPackets(v) = ReadyPackets(w) \cup {p}
  <2>1. \A n \in Nodes : Range(v.ready[n]) = Range(w.ready[n]) \cup (IF n = s THEN {p} ELSE {})
    BY <1>4, <1>7
  <2> QED BY <1>1, <2>1 DEF ReadyPackets
<1>9. Waiting(v) = Waiting(w) \cup {p} /\ Waiting(w) = ReadyPackets(w)
  BY <1>6, <1>8 DEF Waiting
<1>10. HeldPackets(v) = HeldPackets(w) \cup {p}
  BY <1>6, <1>9 DEF HeldPackets
<1>11. TurnsOK(v)
  <2>1. Distinct(t) /\ Range(t) \cap Range(w.deferred) = {}
    <3>1. CASE w.ready[s] = <<>>
      <4>1. s \notin Range(w.pending) /\ s \notin Range(w.deferred)
        BY <1>1, <1>3, <3>1 DEF TurnsOK
      <4>2. Distinct(Append(w.pending, s))
        BY <1>1, <1>2, <1>3, <4>1, DistinctAppend DEF TurnsOK
      <4> QED BY <1>3, <1>4, <3>1, <4>1, <4>2 DEF TurnsOK
    <3>2. CASE w.ready[s] # <<>>
      BY <1>3, <3>2 DEF TurnsOK
    <3> QED BY <3>1, <3>2
  <2> HIDE DEF t, r
  <2>2. \A n \in Nodes : n \in Range(t) \cup Range(w.deferred) <=> v.ready[n] # <<>>
    <3> TAKE n \in Nodes
    <3>1. CASE n = s
      <4>1. s \in Range(t) \cup Range(w.deferred)
        BY <1>1, <1>3, <1>4 DEF TurnsOK
      <4> QED BY <1>4, <1>7, <3>1, <4>1
    <3>2. CASE n # s
      <4>1. n \in Range(t) <=> n \in Range(w.pending)
        BY <1>4, <3>2
      <4> QED BY <1>3, <1>7, <3>2, <4>1 DEF TurnsOK
    <3> QED BY <3>1, <3>2
  <2> QED
    BY <1>3, <1>6, <2>1, <2>2 DEF TurnsOK
<1>12. OrderOK(v, c)
  <2>1. Rising(v.fifo) /\ \A x \in HeldPackets(v) : x.id <= c
    BY <1>3, <1>6, <1>10 DEF OrderOK
  <2>2. \A x \in Waiting(v), q \in Range(v.fifo) : x.id < q.id
    BY <1>3, <1>6, <1>9 DEF OrderOK
  <2>3. Rising(r)
    <3>1. \A q \in Range(w.ready[s]) : q.id < p.id
      BY <1>1 DEF ReadyPackets
    <3> QED BY <1>1, <1>2, <1>3, <3>1, RisingAppend DEF OrderOK
  <2>4. \A n \in Nodes : Rising(v.ready[n]) /\ \A x \in Range(v.ready[n]) : x.src = n
    BY <1>3, <1>4, <1>7, <2>3 DEF OrderOK
  <2>5. \A x \in ReadyPackets(w) : x.id # p.id /\ x.id \in Nat
    <3> TAKE x \in ReadyPackets(w)
    <3>1. x \in AllPackets
      BY <1>2, WaitingPackets DEF HeldPackets, Waiting
    <3>2. x.id < p.id /\ x.id \in Nat
      BY <3>1, PacketFacts
    <3> QED BY <1>1, <3>2
  <2>6. \A x, y \in ReadyPackets(v) : x.id = y.id => x = y
    BY <1>3, <1>8, <2>5 DEF OrderOK
  <2>7. v.next = NoPacket
    BY <1>6
  <2> QED
    BY <2>1, <2>2, <2>4, <2>6, <2>7 DEF OrderOK
<1> QED
  BY <1>6, <1>9, <1>11, <1>12 DEF WorkloadOK, v

(* One packet read: it goes where it belongs, and nothing else moves. *)
LEMMA ReadOK ==
  ASSUME NEW c \in Nat, NEW w, WorkloadOK(w, c)
  PROVE  /\ WorkloadOK(Read(w), c)
         /\ HeldPackets(Read(w)) = HeldPackets(w)
         /\ Waiting(w) \subseteq Waiting(Read(w))
         /\ w.fifo # <<>> /\ w.next = NoPacket => Head(w.fifo) \in Waiting(Read(w))
<1>1. CASE w.fifo = <<>> \/ w.next # NoPacket
  BY <1>1 DEF Read
<1>2. CASE w.fifo # <<>> /\ w.next = NoPacket
  <2> DEFINE p == Head(w.fifo)
             v == [w EXCEPT !.fifo = Tail(@)]
  <2>1. /\ w \in Workload /\ TurnsOK(w) /\ OrderOK(w, c) /\ w.fifo \in Seq(AllPackets)
    BY WorkloadFields DEF WorkloadOK
  <2>2. /\ p \in AllPackets /\ Tail(w.fifo) \in Seq(AllPackets)
        /\ Range(w.fifo) = {p} \cup Range(Tail(w.fifo))
    BY <1>2, <2>1, TailFacts
  <2>3. Rising(Tail(w.fifo)) /\ \A q \in Range(Tail(w.fifo)) : p.id < q.id
    BY <1>2, <2>1, RisingTail DEF OrderOK
  <2>4. p # NoPacket /\ p.id \in Nat /\ p.delay \in Nat
    BY <2>2, PacketFacts
  <2>5. p.id <= c /\ \A q \in ReadyPackets(w) : q.id < p.id
    BY <2>1, <2>2 DEF OrderOK, HeldPackets, Waiting
  <2>6. CASE p.delay > 0
    <3> DEFINE u == [v EXCEPT !.next = p, !.wait = p.delay]
    <3>1. Read(w) = u
      BY <1>2, <2>6 DEF Read
    <3>2. /\ u \in Workload /\ u.fifo = Tail(w.fifo) /\ u.next = p /\ u.pending = w.pending
          /\ u.deferred = w.deferred /\ u.ready = w.ready
      <4> HIDE DEF p
      <4> QED BY <2>1, <2>2, <2>4 DEF Workload
    <3> HIDE DEF u, v
    <3>3. ReadyPackets(u) = ReadyPackets(w) /\ Waiting(u) = Waiting(w) \cup {p}
      BY <1>2, <2>4, <3>2 DEF ReadyPackets, Waiting
    <3>4. HeldPackets(u) = HeldPackets(w)
      BY <2>2, <3>2, <3>3 DEF HeldPackets
    <3>5. TurnsOK(u)
      BY <2>1, <3>2 DEF TurnsOK
    <3>6. \A x \in Waiting(u), q \in Range(u.fifo) : x.id < q.id
      BY <2>1, <2>2, <2>3, <3>2, <3>3 DEF OrderOK
    <3>7. OrderOK(u, c)
      BY <2>1, <2>3, <2>5, <3>2, <3>3, <3>4, <3>6 DEF OrderOK
    <3> QED
      BY <3>1, <3>2, <3>3, <3>4, <3>5, <3>7 DEF WorkloadOK
  <2>7. CASE ~(p.delay > 0)
    <3>1. Read(w) = MakeReady(v, p)
      BY <1>2, <2>7 DEF Read
    <3>2. /\ v \in Workload /\ v.fifo = Tail(w.fifo) /\ v.next = NoPacket /\ v.pending = w.pending
          /\ v.deferred = w.deferred /\ v.ready = w.ready
      <4> HIDE DEF p
      <4> QED BY <1>2, <2>1, <2>2, <2>4 DEF Workload
    <3> HIDE DEF v
    <3>3. ReadyPackets(v) = ReadyPackets(w) /\ Waiting(v) = Waiting(w)
      BY <1>2, <3>2 DEF ReadyPackets, Waiting
    <3>4. HeldPackets(w) = HeldPackets(v) \cup {p}
      BY <2>2, <3>2, <3>3 DEF HeldPackets
    <3>5. TurnsOK(v)
      BY <2>1, <3>2 DEF TurnsOK
    <3>6. \A x \in Waiting(v), q \in Range(v.fifo) : x.id < q.id
      BY <2>1, <2>2, <3>2, <3>3 DEF OrderOK
    <3>7. OrderOK(v, c)
      BY <2>1, <2>3, <3>2, <3>3, <3>4, <3>6 DEF OrderOK
    <3>8. WorkloadOK(v, c)
      BY <3>2, <3>5, <3>7 DEF WorkloadOK
    <3>9. /\ \A q \in ReadyPackets(v) : q.id < p.id
          /\ \A q \in Range(v.fifo) : p.id < q.id
      BY <2>3, <2>5, <3>2, <3>3
    <3> HIDE DEF p
    <3>10. /\ WorkloadOK(MakeReady(v, p), c) /\ MakeReady(v, p).fifo = v.fifo
           /\ Waiting(MakeReady(v, p)) = Waiting(v) \cup {p}
      BY <2>2, <2>5, <3>2, <3>8, <3>9, MakeReadyOK
    <3>11. HeldPackets(MakeReady(v, p)) = HeldPackets(w)
      BY <3>4, <3>10 DEF HeldPackets
    <3> QED
      BY <3>1, <3>3, <3>10, <3>11 DEF p
  <2> QED
    BY <2>6, <2>7
<1> QED
  BY <1>1, <1>2

(* A turn of _refill's loop keeps the workload's type. *)
LEMMA ReadType ==
  ASSUME NEW w \in Workload
  PROVE  Read(w) \in Workload
<1>1. /\ w.fifo \in Seq(AllPackets) /\ w.pending \in Seq(Nodes)
      /\ w.ready \in [Nodes -> Seq(AllPackets)] /\ w.wait \in Nat
  BY WorkloadFields
<1>2. CASE w.fifo = <<>> \/ w.next # NoPacket
  BY <1>2 DEF Read
<1>3. CASE w.fifo # <<>> /\ w.next = NoPacket
  <2> DEFINE p == Head(w.fifo)
             v == [w EXCEPT !.fifo = Tail(@)]
             r == Append(w.ready[p.src], p)
             t == IF w.ready[p.src] = <<>> THEN Append(w.pending, p.src) ELSE w.pending
  <2>1. p \in AllPackets /\ Tail(w.fifo) \in Seq(AllPackets) /\ p.src \in Nodes /\ p.delay \in Nat
    BY <1>1, <1>3, TailFacts, PacketFacts
  <2>2. r \in Seq(AllPackets) /\ t \in Seq(Nodes)
    BY <1>1, <2>1, AppendFacts
  <2> HIDE DEF p
  <2>3. v \in Workload /\ v.ready = w.ready /\ v.pending = w.pending
    BY <2>1 DEF Workload
  <2>4. [v EXCEPT !.next = p, !.wait = p.delay] \in Workload
    BY <2>1, <2>3 DEF Workload
  <2>5. MakeReady(v, p) = [v EXCEPT !.ready[p.src] = r, !.pending = t]
    BY <2>3 DEF MakeReady
  <2>6. [w.ready EXCEPT ![p.src] = r] \in [Nodes -> Seq(AllPackets)]
    BY <1>1, <2>2
  <2> HIDE DEF v, r, t
  <2>7. MakeReady(v, p) \in Workload
    BY <2>2, <2>3, <2>5, <2>6 DEF Workload
  <2> QED
    BY <1>3, <2>4, <2>7 DEF Read, v, p
<1> QED
  BY <1>2, <1>3

(* _refill loses nothing, keeps the order, and reads something if there is.*)
LEMMA RefillOK ==
  ASSUME NEW c \in Nat, NEW w, WorkloadOK(w, c), w.next = NoPacket
  PROVE  /\ WorkloadOK(Refill(w), c)
         /\ HeldPackets(Refill(w)) = HeldPackets(w)
         /\ Waiting(w) \subseteq Waiting(Refill(w))
         /\ w.fifo # <<>> => Waiting(Refill(w)) # {}
<1> DEFINE n == Len(w.fifo)
           F == [x \in Workload \X (1 .. n) |-> Read(x[1])]
           Def(after) == [k \in 0 .. Len(w.fifo) |->
              IF k > 0 THEN Read(after[k - 1])
              ELSE IF w.fifo = <<>> THEN w ELSE [w EXCEPT !.next = NoPacket]]
<1>1. w \in Workload /\ w.fifo \in Seq(AllPackets) /\ n \in Nat
  BY WorkloadFields, LenProperties DEF WorkloadOK
<1>2. [w EXCEPT !.next = NoPacket] = w
  BY <1>1 DEF Workload
<1>3. F \in [Workload \X (1 .. n) -> Workload]
  BY ReadType
<1>loop. PICK g : IsLoop(g, Workload, w, n, F)
  <2> HIDE DEF F, n
  <2> QED BY <1>1, <1>3, LoopExists
<1>4. g \in [0 .. n -> Workload] /\ g[0] = w /\ \A k \in 1 .. n : g[k] = F[<<g[k - 1], k>>]
  BY <1>loop DEF IsLoop
<1>5. \A k \in 1 .. n : k - 1 \in 0 .. n /\ k \in 0 .. n /\ g[k - 1] \in Workload
  BY <1>1, <1>4
<1>6. \A k \in 1 .. n : g[k] = Read(g[k - 1])
  BY <1>4, <1>5
<1>7. g = Def(g)
  BY <1>1, <1>2, <1>4, <1>6
<1>8. PICK after : after = Def(after) /\ Refill(w) = after[n]
  BY <1>7 DEF Refill
<1>9. after[0] = w /\ \A k \in 1 .. n : after[k] = Read(after[k - 1])
  BY <1>1, <1>2, <1>8
<1> DEFINE Good(k) == /\ WorkloadOK(after[k], c)
                      /\ HeldPackets(after[k]) = HeldPackets(w)
                      /\ Waiting(w) \subseteq Waiting(after[k])
                      /\ k > 0 => Head(w.fifo) \in Waiting(after[k])
           T == {k \in Nat : k <= n => Good(k)}
<1>10. Good(0)
  BY <1>9
<1>11. ASSUME NEW k \in Nat, k + 1 <= n, Good(k)
       PROVE  Good(k + 1)
  <2>1. k + 1 \in 1 .. n /\ (k + 1) - 1 = k
    BY <1>1, <1>11
  <2>2. after[k + 1] = Read(after[k])
    BY <1>9, <2>1
  <2>3. /\ WorkloadOK(after[k + 1], c) /\ HeldPackets(after[k + 1]) = HeldPackets(after[k])
        /\ Waiting(after[k]) \subseteq Waiting(after[k + 1])
    BY <1>11, <2>2, ReadOK
  <2>4. Head(w.fifo) \in Waiting(after[k + 1])
    <3>1. CASE k = 0
      <4>1. w.fifo # <<>>
        BY <1>1, <2>1
      <4> QED BY <1>9, <2>2, <3>1, <4>1, ReadOK
    <3>2. CASE k # 0
      BY <1>11, <2>3, <3>2
    <3> QED BY <3>1, <3>2
  <2> QED
    BY <1>11, <2>3, <2>4
<1>12. T = Nat
  <2>1. T \in SUBSET Nat /\ 0 \in T
    BY <1>10
  <2>2. \A k \in T : k + 1 \in T
    <3> HIDE DEF Good
    <3> QED BY <1>1, <1>11
  <2> HIDE DEF T
  <2> QED BY <2>1, <2>2, SetInduction
<1>13. Good(n)
  BY <1>1, <1>12
<1>14. w.fifo # <<>> => n > 0
  BY <1>1, EmptySeq
<1> QED
  BY <1>8, <1>13, <1>14

(* Packets leave the workload from the head of their source's queue. *)
LEMMA StartedOK ==
  ASSUME NEW c \in Nat, NEW w, WorkloadOK(w, c), NEW parts
  PROVE  LET go == Starting(w, parts)
             v  == Started(w, parts)
         IN  /\ WorkloadOK(v, c)
             /\ v.fifo = w.fifo /\ v.next = w.next
             /\ HeldPackets(v) = HeldPackets(w) \ {Head(w.ready[n]) : n \in go}
             /\ \A n \in go :
                  /\ n \in Nodes /\ w.ready[n] # <<>> /\ parts[n] = <<>>
                  /\ Head(w.ready[n]) \in AllPackets /\ Head(w.ready[n]) \in HeldPackets(w)
                  /\ Head(w.ready[n]).src = n
                  /\ \A p \in HeldPackets(v) : p.src = n => Head(w.ready[n]).id < p.id
<1> DEFINE go == Starting(w, parts)
           v  == Started(w, parts)
           K  == {n \in Nodes : n \notin go \/ Len(w.ready[n]) > 1}
           heads == {Head(w.ready[n]) : n \in go}
<1>1. /\ w.fifo \in Seq(AllPackets) /\ w.pending \in Seq(Nodes) /\ w.deferred \in Seq(Nodes)
      /\ w.ready \in [Nodes -> Seq(AllPackets)] /\ w.next \in AllPackets \cup {NoPacket}
      /\ w.wait \in Nat /\ w \in Workload
  BY WorkloadFields DEF WorkloadOK
<1>2. TurnsOK(w) /\ OrderOK(w, c)
  BY DEF WorkloadOK
<1>3. \A n \in go : n \in Nodes /\ n \in Range(w.pending) /\ w.ready[n] # <<>> /\ parts[n] = <<>>
  BY <1>1, <1>2, RangeType DEF Starting, TurnsOK
<1>4. \A n \in go :
        /\ Head(w.ready[n]) \in AllPackets /\ Tail(w.ready[n]) \in Seq(AllPackets)
        /\ Range(w.ready[n]) = {Head(w.ready[n])} \cup Range(Tail(w.ready[n]))
        /\ Rising(Tail(w.ready[n]))
        /\ \A q \in Range(Tail(w.ready[n])) : Head(w.ready[n]).id < q.id
        /\ Len(w.ready[n]) \in Nat /\ Len(Tail(w.ready[n])) = Len(w.ready[n]) - 1
  <2> TAKE n \in go
  <2>1. n \in Nodes /\ w.ready[n] # <<>> /\ w.ready[n] \in Seq(AllPackets) /\ Rising(w.ready[n])
    BY <1>1, <1>2, <1>3 DEF OrderOK
  <2> HIDE DEF go
  <2> QED BY <2>1, TailFacts, RisingTail
<1> DEFINE kept == Keep(w.pending, K)
<1>5. /\ kept \in Seq(Nodes) /\ Range(kept) = Range(w.pending) \cap K /\ Distinct(kept)
  <2> HIDE DEF K
  <2> QED BY <1>1, <1>2, KeepFacts DEF TurnsOK
<1>6. /\ w.deferred \o kept \in Seq(Nodes)
      /\ Range(w.deferred \o kept) = Range(w.deferred) \cup Range(kept)
      /\ Distinct(w.deferred \o kept)
  <2>1. Range(w.deferred) \cap Range(kept) = {}
    BY <1>2, <1>5 DEF TurnsOK
  <2> HIDE DEF kept
  <2> QED BY <1>1, <1>2, <1>5, <2>1, ConcatFacts, DistinctConcat DEF TurnsOK
<1> DEFINE r == [n \in Nodes |-> IF n \in go THEN Tail(w.ready[n]) ELSE w.ready[n]]
<1>7. r \in [Nodes -> Seq(AllPackets)]
  BY <1>1, <1>4
<1>8. /\ v \in Workload /\ v.fifo = w.fifo /\ v.next = w.next /\ v.pending = <<>>
      /\ v.deferred = w.deferred \o kept /\ v.ready = r
  <2>1. v = [w EXCEPT !.pending = <<>>, !.ready = r, !.deferred = w.deferred \o kept]
    BY <1>1 DEF Started, Workload
  <2>2. <<>> \in Seq(Nodes)
    OBVIOUS
  <2> HIDE DEF v, r, kept
  <2>3. v \in Workload
    BY <1>1, <1>6, <1>7, <2>1, <2>2 DEF Workload
  <2> QED BY <1>1, <2>1, <2>3 DEF Workload
<1>9. \A n \in go : Head(w.ready[n]).src = n /\ Head(w.ready[n]) \in ReadyPackets(w)
                    /\ Head(w.ready[n]).id \in Nat
  <2> TAKE n \in go
  <2>1. Head(w.ready[n]) \in Range(w.ready[n]) /\ n \in Nodes
    BY <1>3, <1>4
  <2> QED BY <1>2, <1>4, <2>1, PacketFacts DEF OrderOK, ReadyPackets
<1> HIDE DEF v, K, kept
<1>10. \A n \in Nodes : Range(r[n]) = Range(w.ready[n]) \ heads
  <2> TAKE n \in Nodes
  <2>1. \A p \in Range(w.ready[n]) : p.src = n
    BY <1>2 DEF OrderOK
  <2>2. CASE n \in go
    <3>1. \A q \in Range(Tail(w.ready[n])) : q # Head(w.ready[n])
      BY <1>4, <1>9, <2>2
    <3>2. \A m \in go : m # n => Head(w.ready[m]) \notin Range(w.ready[n])
      BY <1>9, <2>1
    <3> QED BY <1>4, <2>2, <3>1, <3>2
  <2>3. CASE n \notin go
    BY <1>9, <2>1, <2>3
  <2> QED BY <2>2, <2>3
<1>11. ReadyPackets(v) = ReadyPackets(w) \ heads
  <2> HIDE DEF r, heads
  <2> QED BY <1>8, <1>10 DEF ReadyPackets
<1>12. /\ heads \cap ({w.next} \ {NoPacket}) = {}
       /\ heads \cap Range(w.fifo) = {}
  <2>1. ASSUME NEW p \in ReadyPackets(w)
        PROVE  p \in Waiting(w) /\ p.id \in Nat
    <3>1. p \in AllPackets
      BY <1>1, WaitingPackets DEF HeldPackets, Waiting
    <3> QED BY <3>1, PacketFacts DEF Waiting
  <2>2. \A p \in ReadyPackets(w) : p \notin Range(w.fifo)
    BY <1>2, <2>1 DEF OrderOK
  <2>3. \A p \in ReadyPackets(w) : w.next # NoPacket => p # w.next
    BY <1>2, <2>1 DEF OrderOK
  <2> QED BY <1>9, <2>2, <2>3
<1>13. Waiting(v) = Waiting(w) \ heads /\ HeldPackets(v) = HeldPackets(w) \ heads
  BY <1>8, <1>11, <1>12 DEF Waiting, HeldPackets
<1>14. TurnsOK(v)
  <2>1. Distinct(<<>>) /\ Range(<<>>) = {}
    BY DEF Distinct, Range
  <2>2. \A n \in Nodes : n \in Range(v.deferred) <=> v.ready[n] # <<>>
    <3> TAKE n \in Nodes
    <3>1. n \in Range(v.deferred) <=>
            n \in Range(w.deferred) \/ (n \in Range(w.pending) /\ (n \notin go \/ Len(w.ready[n]) > 1))
      BY <1>5, <1>6, <1>8 DEF K
    <3>2. CASE n \in go
      <4>1. Tail(w.ready[n]) # <<>> <=> Len(w.ready[n]) > 1
        <5>1. w.ready[n] \in Seq(AllPackets) /\ w.ready[n] # <<>>
          BY <1>1, <1>3, <3>2
        <5> HIDE DEF go, heads, r
        <5> QED BY <5>1, TailEmpty
      <4>2. n \notin Range(w.deferred) /\ n \in Range(w.pending)
        BY <1>2, <1>3, <3>2 DEF TurnsOK
      <4> QED BY <1>8, <3>1, <3>2, <4>1, <4>2
    <3>3. CASE n \notin go
      BY <1>2, <1>8, <3>1, <3>3 DEF TurnsOK
    <3> QED BY <3>2, <3>3
  <2> QED
    BY <1>6, <1>8, <2>1, <2>2 DEF TurnsOK
<1>15. OrderOK(v, c)
  <2>1. \A n \in Nodes : Rising(v.ready[n]) /\ \A p \in Range(v.ready[n]) : p.src = n
    BY <1>2, <1>4, <1>8, <1>10 DEF OrderOK
  <2> HIDE DEF r, heads
  <2> QED
    BY <1>2, <1>8, <1>11, <1>13, <2>1 DEF OrderOK
<1>16. ASSUME NEW n \in go, NEW p \in HeldPackets(v), p.src = n
       PROVE  Head(w.ready[n]).id < p.id
  <2>1. p \in HeldPackets(w) /\ p \notin heads
    BY <1>13
  <2>2. CASE p \in ReadyPackets(w)
    <3>1. PICK m \in Nodes : p \in Range(w.ready[m])
      BY <2>2 DEF ReadyPackets
    <3>2. m = n
      BY <1>2, <1>16, <3>1 DEF OrderOK
    <3> QED BY <1>4, <2>1, <3>1, <3>2
  <2>3. CASE p \in Range(w.fifo) \/ (p = w.next /\ w.next # NoPacket)
    BY <1>2, <1>9, <2>3 DEF OrderOK, Waiting
  <2> QED BY <2>1, <2>2, <2>3 DEF HeldPackets, Waiting
<1>17. \A n \in go : Head(w.ready[n]) \in HeldPackets(w)
  BY <1>9 DEF HeldPackets, Waiting
<1> QED
  BY <1>3, <1>4, <1>8, <1>9, <1>13, <1>14, <1>15, <1>16, <1>17 DEF WorkloadOK, v

(* Time passes: the deferred get their turn again, the next packet its own.*)
LEMMA AdvanceOK ==
  ASSUME NEW c \in Nat, NEW w, WorkloadOK(w, c)
  PROVE  /\ WorkloadOK(AdvanceTime(w), c)
         /\ HeldPackets(AdvanceTime(w)) = HeldPackets(w)
         /\ Waiting(w) \subseteq Waiting(AdvanceTime(w))
         /\ w.next = NoPacket => AdvanceTime(w).fifo = w.fifo
<1> DEFINE v == [w EXCEPT !.pending = @ \o w.deferred, !.deferred = <<>>]
<1>1. /\ w.fifo \in Seq(AllPackets) /\ w.pending \in Seq(Nodes) /\ w.deferred \in Seq(Nodes)
      /\ w.ready \in [Nodes -> Seq(AllPackets)] /\ w.next \in AllPackets \cup {NoPacket}
      /\ w.wait \in Nat /\ w \in Workload
  BY WorkloadFields DEF WorkloadOK
<1>2. TurnsOK(w) /\ OrderOK(w, c)
  BY DEF WorkloadOK
<1>3. /\ w.pending \o w.deferred \in Seq(Nodes)
      /\ Range(w.pending \o w.deferred) = Range(w.pending) \cup Range(w.deferred)
      /\ Distinct(w.pending \o w.deferred)
  BY <1>1, <1>2, ConcatFacts, DistinctConcat DEF TurnsOK
<1>4. Distinct(<<>>) /\ Range(<<>>) = {}
  BY DEF Distinct, Range
<1>5. /\ v \in Workload /\ v.fifo = w.fifo /\ v.next = w.next /\ v.ready = w.ready /\ v.wait = w.wait
      /\ v.pending = w.pending \o w.deferred /\ v.deferred = <<>>
  <2> DEFINE t == w.pending \o w.deferred
  <2>1. <<>> \in Seq(Nodes) /\ t \in Seq(Nodes)
    BY <1>3
  <2>2. v = [w EXCEPT !.pending = t, !.deferred = <<>>]
    BY <1>1 DEF Workload
  <2> HIDE DEF t, v
  <2>3. v \in Workload
    BY <1>1, <2>1, <2>2 DEF Workload
  <2>4. v.pending = t /\ v.deferred = <<>>
    BY <1>1, <2>2 DEF Workload
  <2>5. v.fifo = w.fifo /\ v.next = w.next /\ v.ready = w.ready /\ v.wait = w.wait
    BY <1>1, <2>2 DEF Workload
  <2> QED BY <2>3, <2>4, <2>5 DEF t
<1> HIDE DEF v
<1>6. ReadyPackets(v) = ReadyPackets(w) /\ Waiting(v) = Waiting(w) /\ HeldPackets(v) = HeldPackets(w)
  BY <1>5 DEF ReadyPackets, Waiting, HeldPackets
<1>7. WorkloadOK(v, c)
  <2>1. TurnsOK(v)
    BY <1>2, <1>3, <1>4, <1>5 DEF TurnsOK
  <2>2. OrderOK(v, c)
    BY <1>2, <1>5, <1>6 DEF OrderOK
  <2> QED BY <1>5, <2>1, <2>2 DEF WorkloadOK
<1>8. CASE w.next = NoPacket
  <2>1. AdvanceTime(w) = v
    BY <1>8 DEF AdvanceTime, v
  <2> QED BY <1>5, <1>6, <1>7, <2>1
<1>9. CASE w.next # NoPacket /\ w.wait > 1
  <2> DEFINE u == [v EXCEPT !.wait = @ - 1]
  <2>1. AdvanceTime(w) = u
    BY <1>9 DEF AdvanceTime, v
  <2>2. /\ u \in Workload /\ u.fifo = v.fifo /\ u.next = v.next /\ u.ready = v.ready
        /\ u.pending = v.pending /\ u.deferred = v.deferred
    <3>1. v.wait - 1 \in Nat
      BY <1>1, <1>5, <1>9
    <3>2. u \in Workload
      BY <1>5, <3>1 DEF Workload
    <3> QED BY <1>5, <3>2 DEF Workload
  <2> HIDE DEF u
  <2>3. ReadyPackets(u) = ReadyPackets(v) /\ Waiting(u) = Waiting(v) /\ HeldPackets(u) = HeldPackets(v)
    BY <2>2 DEF ReadyPackets, Waiting, HeldPackets
  <2>4. TurnsOK(u) /\ OrderOK(u, c)
    BY <1>7, <2>2, <2>3 DEF TurnsOK, OrderOK, WorkloadOK
  <2> QED BY <1>6, <1>9, <2>1, <2>2, <2>3, <2>4 DEF WorkloadOK
<1>10. CASE w.next # NoPacket /\ ~(w.wait > 1)
  <2> DEFINE p == w.next
             u == [v EXCEPT !.next = NoPacket, !.wait = 0]
             m == [MakeReady(v, p) EXCEPT !.next = NoPacket, !.wait = 0]
  <2>1. p \in AllPackets
    BY <1>1, <1>10
  <2>2. AdvanceTime(w) = Refill(m)
    BY <1>10 DEF AdvanceTime, v
  <2>3. /\ u \in Workload /\ u.fifo = v.fifo /\ u.next = NoPacket /\ u.ready = v.ready
        /\ u.pending = v.pending /\ u.deferred = v.deferred
    BY <1>5 DEF Workload
  <2>4. m = MakeReady(u, p)
    <3> HIDE DEF p
    <3> DEFINE r == Append(v.ready[p.src], p)
               t == IF v.ready[p.src] = <<>> THEN Append(v.pending, p.src) ELSE v.pending
    <3>1. MakeReady(v, p) = [v EXCEPT !.ready[p.src] = r, !.pending = t]
      BY DEF MakeReady
    <3>2. MakeReady(u, p) = [u EXCEPT !.ready[p.src] = r, !.pending = t]
      BY <2>3 DEF MakeReady
    <3> HIDE DEF r, t
    <3> QED BY <1>5, <3>1, <3>2 DEF Workload
  <2> HIDE DEF u, m
  <2>5. ReadyPackets(u) = ReadyPackets(v) /\ Waiting(v) = Waiting(u) \cup {p}
    BY <1>5, <1>10, <2>3 DEF ReadyPackets, Waiting
  <2>6. HeldPackets(v) = HeldPackets(u) \cup {p}
    BY <2>3, <2>5 DEF HeldPackets
  <2>7. TurnsOK(u) /\ OrderOK(u, c)
    BY <1>7, <2>3, <2>5, <2>6 DEF TurnsOK, OrderOK, WorkloadOK
  <2>8. /\ \A q \in ReadyPackets(u) : q.id < p.id
        /\ \A q \in Range(u.fifo) : p.id < q.id
        /\ p.id <= c
    BY <1>5, <1>7, <1>10, <2>3, <2>5, <2>6 DEF OrderOK, WorkloadOK, Waiting
  <2>9. WorkloadOK(u, c)
    BY <2>3, <2>7 DEF WorkloadOK
  <2> HIDE DEF p
  <2>10. /\ WorkloadOK(m, c) /\ m.fifo = u.fifo /\ m.next = NoPacket /\ Waiting(m) = Waiting(u) \cup {p}
    BY <2>1, <2>3, <2>4, <2>8, <2>9, MakeReadyOK
  <2>11. HeldPackets(m) = HeldPackets(v)
    BY <2>6, <2>10 DEF HeldPackets
  <2>12. /\ WorkloadOK(Refill(m), c) /\ HeldPackets(Refill(m)) = HeldPackets(m)
         /\ Waiting(m) \subseteq Waiting(Refill(m))
    BY <2>10, RefillOK
  <2> QED
    BY <1>6, <1>10, <2>2, <2>5, <2>10, <2>11, <2>12
<1> QED
  BY <1>8, <1>9, <1>10

(* A packet injected is the last in i_fifo. *)
LEMMA InjectOK ==
  ASSUME NEW c \in Nat, NEW w, WorkloadOK(w, c), NEW p \in AllPackets, p.id = c + 1
  PROVE  LET v == [w EXCEPT !.fifo = Append(@, p)]
         IN  /\ WorkloadOK(v, c + 1) /\ Waiting(v) = Waiting(w)
             /\ Range(v.fifo) = Range(w.fifo) \cup {p}
             /\ v.fifo # <<>> /\ v = [w EXCEPT !.fifo = v.fifo]
<1> DEFINE v == [w EXCEPT !.fifo = Append(@, p)]
<1>1. /\ w.fifo \in Seq(AllPackets) /\ w \in Workload /\ TurnsOK(w) /\ OrderOK(w, c)
  BY WorkloadFields DEF WorkloadOK
<1>2. /\ Append(w.fifo, p) \in Seq(AllPackets) /\ Append(w.fifo, p) # <<>>
      /\ Range(Append(w.fifo, p)) = Range(w.fifo) \cup {p}
  BY <1>1, AppendFacts
<1>3. \A q \in HeldPackets(w) : q.id < p.id
  <2> TAKE q \in HeldPackets(w)
  <2>1. q \in AllPackets
    BY <1>1, WaitingPackets
  <2>2. q.id \in Nat /\ q.id <= c
    BY <1>1, <2>1, PacketFacts DEF OrderOK
  <2> QED BY <2>2
<1>4. Rising(Append(w.fifo, p))
  <2>1. \A q \in Range(w.fifo) : q.id < p.id
    BY <1>3 DEF HeldPackets
  <2> QED BY <1>1, <2>1, RisingAppend DEF OrderOK
<1>5. /\ v \in Workload /\ v.fifo = Append(w.fifo, p) /\ v.next = w.next /\ v.ready = w.ready
      /\ v.pending = w.pending /\ v.deferred = w.deferred /\ v = [w EXCEPT !.fifo = v.fifo]
  BY <1>1, <1>2 DEF Workload
<1> HIDE DEF v
<1>6. ReadyPackets(v) = ReadyPackets(w) /\ Waiting(v) = Waiting(w)
      /\ HeldPackets(v) = HeldPackets(w) \cup {p}
  BY <1>2, <1>5 DEF ReadyPackets, Waiting, HeldPackets
<1>7. TurnsOK(v)
  BY <1>1, <1>5 DEF TurnsOK
<1>8. \A q \in HeldPackets(v) : q.id <= c + 1
  <2> TAKE q \in HeldPackets(v)
  <2>1. CASE q \in HeldPackets(w)
    <3>1. q \in AllPackets /\ q.id <= c
      BY <1>1, <2>1, WaitingPackets DEF OrderOK
    <3> QED BY <3>1, PacketFacts
  <2> QED BY <1>6, <2>1
<1>9. \A x \in Waiting(v), q \in Range(v.fifo) : x.id < q.id
  BY <1>1, <1>2, <1>3, <1>5, <1>6 DEF OrderOK, HeldPackets
<1>10. OrderOK(v, c + 1)
  BY <1>1, <1>4, <1>5, <1>6, <1>8, <1>9 DEF OrderOK
<1> QED
  BY <1>2, <1>5, <1>6, <1>7, <1>10 DEF WorkloadOK, v

-----------------------------------------------------------------------------
(* Flits: what a cycle of the network does to the packets under way.       *)

(* A flit and the tail of its packet. *)
LEMMA FlitFacts ==
  ASSUME NEW f \in AllFlits
  PROVE  /\ f.pkt \in AllPackets \cup Copies /\ f.pkt.size \in Nat /\ f.pkt.size >= 1
         /\ f.i \in Nat /\ 1 <= f.i /\ f.i <= f.pkt.size
         /\ f = [pkt |-> f.pkt, i |-> f.i]
         /\ TailOf(f) \in AllFlits /\ TailOf(f).pkt = f.pkt /\ TailOf(f).i = f.pkt.size
         /\ IsTail(f) <=> f = TailOf(f)
         /\ f.pkt.kind # "plain" => f.pkt.size = 1 /\ IsTail(f)
         /\ f.pkt.id \in Nat /\ f.pkt.src \in Nodes
<1>1. PICK p \in AllPackets \cup Copies : f \in Range(FlitsOf(p))
  BY DEF AllFlits
<1>2. /\ p.size \in Nat /\ p.size >= 1 /\ (p.kind # "plain" => p.size = 1) /\ p.id \in Nat
      /\ p.src \in Nodes
  BY PacketFacts, CopyFacts
<1>3. PICK k \in 1 .. p.size : f = [pkt |-> p, i |-> k]
  BY <1>1 DEF FlitsOf, Range
<1>4. p.size \in 1 .. p.size
  BY <1>2
<1>5. [pkt |-> p, i |-> p.size] \in Range(FlitsOf(p))
  BY <1>4 DEF FlitsOf, Range
<1>6. TailOf(f) = [pkt |-> p, i |-> p.size] /\ TailOf(f) \in AllFlits
  BY <1>3, <1>5 DEF TailOf, AllFlits
<1>7. f.pkt = p /\ f.i = k /\ k \in Nat /\ 1 <= k /\ k <= p.size
  BY <1>2, <1>3
<1>8. IsTail(f) <=> f = TailOf(f)
  <2>1. IsTail(f) <=> k = p.size
    BY <1>7 DEF IsTail
  <2>2. f = TailOf(f) <=> k = p.size
    BY <1>3, <1>6
  <2> QED BY <2>1, <2>2
<1>9. p.kind # "plain" => IsTail(f)
  BY <1>2, <1>7 DEF IsTail
<1> QED
  BY <1>2, <1>3, <1>6, <1>7, <1>8, <1>9

(* The flits in the queues of the nodes, and what is left when one is sent. *)
LEMMA QueuedFlits ==
  ASSUME NEW parts \in [Nodes -> Seq(AllFlits)]
  PROVE  /\ Queued(parts) \subseteq AllFlits
         /\ \A n \in Nodes : parts[n] \in Seq(AllFlits) /\ Range(parts[n]) \subseteq Queued(parts)
         /\ \A f \in Queued(parts) : \E n \in Nodes : f \in Range(parts[n])
<1>1. \A n \in Nodes : parts[n] \in Seq(AllFlits) /\ Range(parts[n]) \subseteq AllFlits
  BY RangeType
<1> QED
  BY <1>1 DEF Queued

LEMMA QueueTail ==
  ASSUME NEW n, NEW q \in Seq(AllFlits), q # <<>>, QueueOK(n, q)
  PROVE  /\ QueueOK(n, Tail(q)) /\ Head(q) \in AllFlits /\ Head(q).pkt.src = n
         /\ \A g \in Range(Tail(q)) : g.pkt = Head(q).pkt => Head(q).i < g.i
         /\ Head(q) \notin Range(Tail(q))
<1>1. /\ Len(q) \in Nat /\ Head(q) = q[1] /\ 1 \in DOMAIN q /\ Head(q) \in AllFlits
      /\ DOMAIN Tail(q) = 1 .. Len(q) - 1
      /\ \A i \in DOMAIN Tail(q) : Tail(q)[i] = q[i + 1] /\ i + 1 \in DOMAIN q
      /\ Range(q) = {Head(q)} \cup Range(Tail(q))
  BY TailFacts
<1>2. ASSUME NEW i \in DOMAIN Tail(q), NEW j \in DOMAIN Tail(q), i < j,
             Tail(q)[i].pkt = Tail(q)[j].pkt
      PROVE  Tail(q)[i].i < Tail(q)[j].i
  <2>1. i + 1 < j + 1 /\ i + 1 \in DOMAIN q /\ j + 1 \in DOMAIN q
    BY <1>1, <1>2
  <2>2. q[i + 1].pkt = q[j + 1].pkt
    BY <1>1, <1>2
  <2>3. q[i + 1].i < q[j + 1].i
    BY <2>1, <2>2 DEF QueueOK
  <2> QED BY <1>1, <2>3
<1>3. ASSUME NEW i \in DOMAIN Tail(q), Tail(q)[i].pkt = Head(q).pkt
      PROVE  Head(q).i < Tail(q)[i].i
  <2>1. 1 < i + 1 /\ i + 1 \in DOMAIN q /\ q[1].pkt = q[i + 1].pkt
    BY <1>1, <1>3
  <2>2. q[1].i < q[i + 1].i
    BY <1>1, <2>1 DEF QueueOK
  <2> QED BY <1>1, <2>2
<1>4. \A g \in Range(Tail(q)) : g.pkt = Head(q).pkt => Head(q).i < g.i
  BY <1>3 DEF Range
<1>5. Head(q) \notin Range(Tail(q))
  <2>1. Head(q).i \in Nat
    BY <1>1, FlitFacts
  <2>2. ~(Head(q).i < Head(q).i)
    BY <2>1
  <2> QED BY <1>4, <2>2
<1>6. QueueOK(n, Tail(q))
  BY <1>1, <1>2 DEF QueueOK
<1>7. Head(q).pkt.src = n
  BY <1>1 DEF QueueOK
<1> QED
  BY <1>1, <1>4, <1>5, <1>6, <1>7

(* A flit is in one place. *)
LEMMA NetApart ==
  ASSUME NEW parts, NEW nt, FlitsOK(parts, nt)
  PROVE  nt \cap Queued(parts) = {}
<1> SUFFICES ASSUME NEW f \in nt, f \in Queued(parts)
             PROVE  FALSE
  OBVIOUS
<1>1. f.i < f.i /\ f \in AllFlits
  BY DEF FlitsOK
<1>2. f.i \in Nat
  BY <1>1, FlitFacts
<1> QED
  BY <1>1, <1>2

(* What the network ejects and absorbs is gone, packets by their tails, and*)
(* all the rest stays in order.                                            *)
LEMMA MoveOK ==
  ASSUME NEW parts, NEW nt, NEW ejected, NEW senders, NEW taken, NEW parts3, NEW nt3,
         Moves(parts, nt, ejected, senders, taken, parts3, nt3)
  PROVE  Moved(parts, nt, ejected, taken, parts3, nt3)
<1> DEFINE parts2 == [n \in Nodes |-> IF n \in senders THEN Tail(parts[n]) ELSE parts[n]]
           heads  == {Head(parts[n]) : n \in senders}
           nt2    == (nt \ (ejected \cup taken)) \cup heads
           before == nt \cup Queued(parts)
           after  == nt2 \cup Queued(parts2)
           tails  == {f \in ejected : IsTail(f)}
<1> SUFFICES ASSUME FlitsOK(parts, nt), ejected \in SUBSET nt,
                    \A f \in ejected, g \in nt : g.pkt = f.pkt => f.i <= g.i,
                    senders \in SUBSET {n \in Nodes : parts[n] # <<>>},
                    taken \in SUBSET (nt \ ejected), \A f \in taken : f.pkt.kind = "reduce"
             PROVE  Moved(parts, nt, ejected, taken, parts2, nt2)
  BY DEF Moves
<1>1. /\ parts \in [Nodes -> Seq(AllFlits)] /\ nt \subseteq AllFlits /\ IsFiniteSet(nt)
      /\ \A n \in Nodes : QueueOK(n, parts[n])
      /\ \A f \in nt, g \in Queued(parts) : f.pkt = g.pkt => f.i < g.i
      /\ OnePacketPerId(before) /\ TailsIncluded(before)
  BY DEF FlitsOK
<1>2. Queued(parts) \subseteq AllFlits /\ before \subseteq AllFlits /\ nt \cap Queued(parts) = {}
  BY <1>1, QueuedFlits, NetApart
<1>3. \A n \in senders :
        /\ n \in Nodes /\ QueueOK(n, Tail(parts[n])) /\ Tail(parts[n]) \in Seq(AllFlits)
        /\ Head(parts[n]) \in AllFlits /\ Head(parts[n]).pkt.src = n
        /\ Head(parts[n]) \notin Range(Tail(parts[n]))
        /\ Range(parts[n]) = {Head(parts[n])} \cup Range(Tail(parts[n]))
        /\ \A g \in Range(Tail(parts[n])) : g.pkt = Head(parts[n]).pkt => Head(parts[n]).i < g.i
  <2> TAKE n \in senders
  <2>1. n \in Nodes /\ parts[n] \in Seq(AllFlits) /\ parts[n] # <<>> /\ QueueOK(n, parts[n])
    BY <1>1
  <2>2. /\ Tail(parts[n]) \in Seq(AllFlits)
        /\ Range(parts[n]) = {Head(parts[n])} \cup Range(Tail(parts[n]))
    BY <2>1, TailFacts
  <2> QED BY <2>1, <2>2, QueueTail
<1>4. parts2 \in [Nodes -> Seq(AllFlits)]
  BY <1>1, <1>3
<1>5. \A n \in Nodes : Range(parts2[n]) \subseteq Range(parts[n]) /\ QueueOK(n, parts2[n])
  BY <1>1, <1>3
<1>6. \A n \in Nodes : Range(parts[n]) \subseteq Range(parts2[n]) \cup heads
  BY <1>3
<1>7. Queued(parts) = Queued(parts2) \cup heads
  <2>1. heads \subseteq Queued(parts)
    BY <1>3 DEF Queued
  <2> HIDE DEF parts2, heads
  <2> QED BY <1>5, <1>6, <2>1 DEF Queued
<1>8. after = before \ (ejected \cup taken)
  <2> HIDE DEF parts2, heads
  <2> QED BY <1>2, <1>7
<1>9. \A n \in Nodes : \A f \in Range(parts2[n]) : f.pkt.src = n
  BY <1>5 DEF QueueOK
<1>10. \A f \in nt2, g \in Queued(parts2) : f.pkt = g.pkt => f.i < g.i
  <2> SUFFICES ASSUME NEW f \in nt2, NEW g \in Queued(parts2), f.pkt = g.pkt
               PROVE  f.i < g.i
    OBVIOUS
  <2>1. g \in Queued(parts)
    BY <1>7
  <2>2. CASE f \in nt
    BY <1>1, <2>1, <2>2
  <2>3. CASE f \in heads
    <3>1. PICK n \in senders : f = Head(parts[n])
      BY <2>3
    <3>2. PICK m \in Nodes : g \in Range(parts2[m])
      BY DEF Queued
    <3>3. m = n
      BY <1>3, <1>9, <3>1, <3>2
    <3>4. g \in Range(Tail(parts[n]))
      BY <1>3, <3>2, <3>3
    <3> QED BY <1>3, <3>1, <3>4
  <2> QED BY <2>2, <2>3
<1>11. \A f \in before : f \in AllFlits /\ TailOf(f) \in before
  BY <1>1, <1>2 DEF TailsIncluded
<1>12. \A f \in taken : IsTail(f) /\ f \in before
  BY <1>2, FlitFacts
<1>13. \A f \in after : TailOf(f) \in after
  <2> SUFFICES ASSUME NEW f \in after, TailOf(f) \in ejected \cup taken
               PROVE  FALSE
    BY <1>8, <1>11
  <2>1. f \in before /\ f \notin ejected \cup taken /\ f \in AllFlits
    BY <1>8, <1>11
  <2> DEFINE t == TailOf(f)
  <2>2. /\ t.pkt = f.pkt /\ t.i = f.pkt.size /\ f.i \in Nat /\ f.i <= f.pkt.size
        /\ f.pkt.size \in Nat /\ (f.i = f.pkt.size => f = t)
    <3>1. f.i = f.pkt.size => IsTail(f)
      BY DEF IsTail
    <3> QED BY <2>1, <3>1, FlitFacts
  <2>3. CASE t \in ejected
    <3>1. CASE f \in nt
      <4>1. t.i <= f.i
        BY <2>2, <2>3, <3>1
      <4>2. f.i = f.pkt.size
        BY <2>2, <4>1
      <4> QED BY <2>1, <2>2, <2>3, <4>2
    <3>2. CASE f \in Queued(parts)
      <4>1. t.i < f.i
        BY <1>1, <2>2, <2>3, <3>2
      <4> QED BY <2>2, <4>1
    <3> QED BY <2>1, <3>1, <3>2
  <2>4. CASE t \in taken
    <3>1. f.pkt.kind = "reduce"
      BY <2>2, <2>4
    <3>2. f = t
      BY <2>1, <3>1, FlitFacts
    <3> QED BY <2>1, <2>4, <3>2
  <2> QED BY <2>3, <2>4
<1>14. ASSUME NEW t \in ejected \cup taken, IsTail(t), NEW g \in after
       PROVE  t.pkt.id # g.pkt.id
  <2> SUFFICES ASSUME t.pkt.id = g.pkt.id PROVE FALSE
    OBVIOUS
  <2>1. t \in before /\ g \in before /\ t \in AllFlits /\ g \in AllFlits
    BY <1>8, <1>11
  <2>2. t.pkt = g.pkt
    BY <1>1, <2>1 DEF OnePacketPerId
  <2>3. t = TailOf(t) /\ TailOf(t) = TailOf(g)
    BY <1>14, <2>1, <2>2, FlitFacts DEF TailOf
  <2> QED BY <1>8, <1>13, <2>3
<1>15. ASSUME NEW t \in tails, NEW u \in taken
       PROVE  t.pkt.id # u.pkt.id
  <2> SUFFICES ASSUME t.pkt.id = u.pkt.id PROVE FALSE
    OBVIOUS
  <2>1. t \in before /\ u \in before /\ t \in AllFlits /\ u \in AllFlits
    BY <1>11
  <2>2. t.pkt = u.pkt
    BY <1>1, <2>1 DEF OnePacketPerId
  <2>3. t = TailOf(t) /\ u = TailOf(u) /\ TailOf(t) = TailOf(u)
    BY <1>12, <2>1, <2>2, FlitFacts DEF TailOf
  <2> QED BY <2>3
<1>16. IsFiniteSet(nt2)
  <2>1. IsFiniteSet(nt \ (ejected \cup taken))
    BY <1>1, FS_Subset
  <2>2. IsFiniteSet(senders)
    <3>1. senders \subseteq Nodes /\ IsFiniteSet(Nodes)
      BY RequestAssumption
    <3> QED BY <3>1, FS_Subset
  <2>3. IsFiniteSet(heads)
    <3> DEFINE f == [n \in senders |-> Head(parts[n])]
    <3>1. f \in Surjection(senders, heads)
      BY DEF Surjection
    <3> HIDE DEF f, heads
    <3> QED BY <2>2, <3>1, FS_Surjection
  <2> HIDE DEF heads
  <2> QED BY <2>1, <2>3, FS_Union
<1>17. nt2 \subseteq AllFlits
  BY <1>1, <1>3
<1> HIDE DEF parts2, nt2, heads
<1>18. OnePacketPerId(after) /\ TailsIncluded(after)
  BY <1>1, <1>8, <1>13 DEF OnePacketPerId, TailsIncluded
<1>19. FlitsOK(parts2, nt2)
  BY <1>4, <1>5, <1>10, <1>16, <1>17, <1>18 DEF FlitsOK
<1> HIDE DEF before, after, tails
<1>20. \A f \in before : TailOf(f).pkt = f.pkt /\ IsTail(TailOf(f))
  <2> TAKE f \in before
  <2>1. f \in AllFlits /\ TailOf(f) \in AllFlits /\ TailOf(f).pkt = f.pkt /\ TailOf(f).i = f.pkt.size
    BY <1>11, FlitFacts
  <2> QED BY <2>1 DEF IsTail
<1>21. Ids(after) \cap (Ids(tails) \cup Ids(taken)) = {}
  BY <1>12, <1>14 DEF Ids, tails
<1>22. Ids(tails) \cap Ids(taken) = {}
  BY <1>15 DEF Ids
<1>23. Ids(before) \subseteq Ids(after) \cup Ids(tails) \cup Ids(taken)
  <2> SUFFICES ASSUME NEW f \in before
               PROVE  f.pkt.id \in Ids(after) \cup Ids(tails) \cup Ids(taken)
    BY DEF Ids
  <2>1. TailOf(f) \in before /\ TailOf(f).pkt = f.pkt /\ IsTail(TailOf(f))
    BY <1>11, <1>20
  <2>2. TailOf(f) \in after \cup tails \cup taken
    BY <1>8, <2>1 DEF tails
  <2>3. TailOf(f).pkt.id \in Ids(after) \cup Ids(tails) \cup Ids(taken)
    BY <2>2 DEF Ids
  <2> QED BY <2>1, <2>3
<1>24. after \cup tails \cup taken \subseteq before
  BY <1>8 DEF tails, before
<1>25. Ids(after) \cup Ids(tails) \cup Ids(taken) \subseteq Ids(before)
  BY <1>24 DEF Ids
<1> QED
  BY <1>5, <1>8, <1>19, <1>21, <1>22, <1>23, <1>25 DEF Moved, before, after, tails

(* Copies join the queues of their sources. *)
LEMMA ArriveOK ==
  ASSUME NEW parts, NEW nt, NEW extra, NEW parts3, Arrives(parts, nt, extra, parts3)
  PROVE  /\ FlitsOK(parts3, nt)
         /\ Queued(parts3) = Queued(parts) \cup Queued(extra)
         /\ \A n \in Nodes : Range(parts3[n]) = Range(parts[n]) \cup Range(extra[n])
<1> DEFINE parts2 == [n \in Nodes |-> parts[n] \o extra[n]]
           before == nt \cup Queued(parts)
           after  == nt \cup Queued(parts2)
<1> SUFFICES ASSUME FlitsOK(parts, nt), extra \in [Nodes -> Seq(AllFlits)],
                    \A n \in Nodes : \A f \in Range(extra[n]) :
                      /\ f.pkt \in Copies /\ f.pkt.src = n
                      /\ f.pkt.id \notin Ids(nt \cup Queued(parts)),
                    \A n, m \in Nodes : \A f \in Range(extra[n]), g \in Range(extra[m]) :
                      f.pkt.id = g.pkt.id => f = g,
                    \A n \in Nodes : Distinct(extra[n])
             PROVE  /\ FlitsOK(parts2, nt)
                    /\ Queued(parts2) = Queued(parts) \cup Queued(extra)
                    /\ \A n \in Nodes : Range(parts2[n]) = Range(parts[n]) \cup Range(extra[n])
  BY DEF Arrives
<1>1. /\ parts \in [Nodes -> Seq(AllFlits)] /\ nt \subseteq AllFlits /\ IsFiniteSet(nt)
      /\ \A n \in Nodes : QueueOK(n, parts[n])
      /\ \A f \in nt, g \in Queued(parts) : f.pkt = g.pkt => f.i < g.i
      /\ OnePacketPerId(before) /\ TailsIncluded(before)
  BY DEF FlitsOK
<1>2. /\ before \subseteq AllFlits /\ Queued(extra) \subseteq AllFlits
      /\ \A f \in Queued(extra) : \E n \in Nodes : f \in Range(extra[n])
      /\ \A n \in Nodes : Range(extra[n]) \subseteq Queued(extra)
      /\ \A n \in Nodes : Range(parts[n]) \subseteq Queued(parts)
  BY <1>1, QueuedFlits
<1>3. \A n \in Nodes : parts[n] \in Seq(AllFlits) /\ extra[n] \in Seq(AllFlits)
  BY <1>1
<1>4. \A n \in Nodes :
        /\ parts2[n] \in Seq(AllFlits)
        /\ Range(parts2[n]) = Range(parts[n]) \cup Range(extra[n])
  BY <1>3, ConcatFacts
<1>5. Queued(parts2) = Queued(parts) \cup Queued(extra)
  <2> HIDE DEF parts2
  <2>1. Queued(parts2) \subseteq Queued(parts) \cup Queued(extra)
    <3> SUFFICES ASSUME NEW n \in Nodes, NEW f \in Range(parts2[n])
                 PROVE  f \in Queued(parts) \cup Queued(extra)
      BY DEF Queued
    <3> QED BY <1>2, <1>4
  <2>2. \A n \in Nodes : Range(parts[n]) \subseteq Queued(parts2)
    BY <1>4 DEF Queued
  <2>3. \A n \in Nodes : Range(extra[n]) \subseteq Queued(parts2)
    BY <1>4 DEF Queued
  <2>4. Queued(parts) \subseteq Queued(parts2)
    BY <2>2 DEF Queued
  <2>5. Queued(extra) \subseteq Queued(parts2)
    BY <2>3 DEF Queued
  <2> QED BY <2>1, <2>4, <2>5
<1>6. after = before \cup Queued(extra)
  BY <1>5
<1>7. \A f \in Queued(extra) :
        /\ f.pkt \in Copies /\ f.pkt.id \notin Ids(before) /\ f = TailOf(f)
        /\ ~(f.pkt.id <= MaxPackets)
  <2> TAKE f \in Queued(extra)
  <2>1. f \in AllFlits /\ f.pkt \in Copies /\ f.pkt.id \notin Ids(before)
    BY <1>2
  <2>2. f.pkt.size = 1 /\ f.pkt.id > MaxPackets /\ f.pkt.id \in Nat
    BY <2>1, CopyFacts
  <2>3. f.i = f.pkt.size
    BY <2>1, <2>2, FlitFacts
  <2>4. f = TailOf(f)
    BY <2>1, <2>3, FlitFacts DEF IsTail
  <2>5. ~(f.pkt.id <= MaxPackets)
    BY <2>2, RequestAssumption
  <2> QED BY <2>1, <2>4, <2>5
<1>8. \A f \in Queued(extra), g \in before : f.pkt # g.pkt /\ f.pkt.id # g.pkt.id
  BY <1>7 DEF Ids
<1>9. \A f, g \in Queued(extra) : f.pkt.id = g.pkt.id => f = g
  BY <1>2
<1>10. OnePacketPerId(after) /\ TailsIncluded(after)
  <2> HIDE DEF after, before
  <2> QED BY <1>1, <1>6, <1>7, <1>8, <1>9 DEF OnePacketPerId, TailsIncluded
<1>11. \A f \in nt, g \in Queued(parts2) : f.pkt = g.pkt => f.i < g.i
  <2>1. \A f \in nt, g \in Queued(extra) : f.pkt # g.pkt
    BY <1>8
  <2> QED BY <1>1, <1>5, <2>1
<1>12. ASSUME NEW n \in Nodes
       PROVE  QueueOK(n, parts2[n])
  <2> DEFINE q == parts[n]
             t == extra[n]
  <2>1. /\ Len(q) \in Nat /\ Len(t) \in Nat /\ DOMAIN q = 1 .. Len(q) /\ DOMAIN t = 1 .. Len(t)
        /\ DOMAIN (q \o t) = 1 .. Len(q) + Len(t)
        /\ \A i \in 1 .. Len(q) : (q \o t)[i] = q[i]
        /\ \A i \in 1 .. Len(t) : (q \o t)[Len(q) + i] = t[i]
    BY <1>3, ConcatFacts, LenProperties
  <2>2. QueueOK(n, q)
    BY <1>1
  <2>3. \A i \in 1 .. Len(q) : q[i] \in before
    BY <1>2, <2>1 DEF Range
  <2>4. \A i \in 1 .. Len(t) : t[i] \in Queued(extra) /\ t[i] \in Range(t)
    BY <1>2, <2>1 DEF Range
  <2>5. \A i, j \in 1 .. Len(t) : i < j => t[i].pkt # t[j].pkt
    <3> SUFFICES ASSUME NEW i \in 1 .. Len(t), NEW j \in 1 .. Len(t), i < j, t[i].pkt = t[j].pkt
                 PROVE  FALSE
      OBVIOUS
    <3>1. t[i] = t[j]
      BY <1>9, <2>4
    <3>2. i = j
      BY <2>1, <3>1 DEF Distinct
    <3> QED BY <2>1, <3>2
  <2>6. ASSUME NEW i \in 1 .. Len(q) + Len(t), NEW j \in 1 .. Len(q) + Len(t), i < j,
               (q \o t)[i].pkt = (q \o t)[j].pkt
        PROVE  (q \o t)[i].i < (q \o t)[j].i
    <3>1. CASE j <= Len(q)
      <4>1. i \in 1 .. Len(q) /\ j \in 1 .. Len(q)
        BY <2>1, <2>6, <3>1
      <4>2. q[i].pkt = q[j].pkt /\ q[i].i < q[j].i
        BY <2>1, <2>2, <2>6, <4>1 DEF QueueOK
      <4> QED BY <2>1, <4>1, <4>2
    <3>2. CASE j > Len(q) /\ i <= Len(q)
      <4>1. i \in 1 .. Len(q) /\ j - Len(q) \in 1 .. Len(t) /\ j = Len(q) + (j - Len(q))
        BY <2>1, <3>2
      <4>2. (q \o t)[i] \in before /\ (q \o t)[j] \in Queued(extra)
        BY <2>1, <2>3, <2>4, <4>1
      <4> QED BY <1>8, <2>6, <4>2
    <3>3. CASE j > Len(q) /\ i > Len(q)
      <4>1. /\ i - Len(q) \in 1 .. Len(t) /\ i = Len(q) + (i - Len(q))
            /\ j - Len(q) \in 1 .. Len(t) /\ j = Len(q) + (j - Len(q))
            /\ i - Len(q) < j - Len(q)
        BY <2>1, <2>6, <3>3
      <4>2. (q \o t)[i] = t[i - Len(q)] /\ (q \o t)[j] = t[j - Len(q)]
        BY <2>1, <4>1
      <4> QED BY <2>5, <2>6, <4>1, <4>2
    <3> QED BY <2>1, <3>1, <3>2, <3>3
  <2>7. \A f \in Range(q \o t) : f \in Range(q) \/ f \in Range(t)
    BY <1>4
  <2>8. \A f \in Range(q \o t) : f.pkt.src = n
    BY <2>2, <2>7 DEF QueueOK
  <2>9. \A f \in Range(t) : ~(f.pkt.id <= MaxPackets)
    BY <1>2, <1>7
  <2>10. \A f, g \in Range(q \o t) :
           f.pkt.id <= MaxPackets /\ g.pkt.id <= MaxPackets => f.pkt = g.pkt
    BY <2>2, <2>7, <2>9 DEF QueueOK
  <2> QED
    BY <2>1, <2>6, <2>8, <2>10 DEF QueueOK
<1>13. parts2 \in [Nodes -> Seq(AllFlits)]
  BY <1>4
<1> HIDE DEF parts2
<1>14. FlitsOK(parts2, nt)
  BY <1>1, <1>10, <1>11, <1>12, <1>13 DEF FlitsOK
<1> QED
  BY <1>4, <1>5, <1>14 DEF parts2

(* A source with nothing left to send starts a packet. *)
LEMMA StartOK ==
  ASSUME NEW parts, NEW nt, NEW go, NEW first, NEW parts3, Starts(parts, nt, go, first, parts3)
  PROVE  /\ FlitsOK(parts3, nt)
         /\ Queued(parts) \subseteq Queued(parts3)
         /\ Ids(Queued(parts3)) = Ids(Queued(parts)) \cup {first[n].id : n \in go}
         /\ \A n \in go : \A f \in Range(parts3[n]) : f.pkt = first[n]
<1> DEFINE parts2 == [n \in Nodes |-> IF n \in go THEN FlitsOf(first[n]) ELSE parts[n]]
           before == nt \cup Queued(parts)
           after  == nt \cup Queued(parts2)
           new    == UNION {Range(FlitsOf(first[n])) : n \in go}
<1> SUFFICES ASSUME FlitsOK(parts, nt), go \in SUBSET Nodes,
                    \A n \in go :
                      /\ parts[n] = <<>> /\ first[n] \in AllPackets /\ first[n].src = n
                      /\ first[n].id \notin Ids(nt \cup Queued(parts)),
                    \A n, m \in go : first[n].id = first[m].id => first[n] = first[m]
             PROVE  /\ FlitsOK(parts2, nt)
                    /\ Queued(parts) \subseteq Queued(parts2)
                    /\ Ids(Queued(parts2)) = Ids(Queued(parts)) \cup {first[n].id : n \in go}
                    /\ \A n \in go : \A f \in Range(parts2[n]) : f.pkt = first[n]
  BY DEF Starts
<1>1. /\ parts \in [Nodes -> Seq(AllFlits)] /\ nt \subseteq AllFlits /\ IsFiniteSet(nt)
      /\ \A n \in Nodes : QueueOK(n, parts[n])
      /\ \A f \in nt, g \in Queued(parts) : f.pkt = g.pkt => f.i < g.i
      /\ OnePacketPerId(before) /\ TailsIncluded(before)
  BY DEF FlitsOK
<1>2. ASSUME NEW n \in go
      PROVE  /\ first[n].size \in Nat /\ first[n].size >= 1
             /\ FlitsOf(first[n]) \in Seq(AllFlits)
             /\ DOMAIN FlitsOf(first[n]) = 1 .. first[n].size
             /\ \A k \in 1 .. first[n].size : FlitsOf(first[n])[k] = [pkt |-> first[n], i |-> k]
             /\ \A f \in Range(FlitsOf(first[n])) :
                  f.pkt = first[n] /\ TailOf(f) \in Range(FlitsOf(first[n]))
             /\ \E f \in Range(FlitsOf(first[n])) : f.pkt = first[n]
  <2> DEFINE p == first[n]
  <2>1. p \in AllPackets /\ p.size \in Nat /\ p.size >= 1
    BY PacketFacts
  <2> HIDE DEF p
  <2>2. /\ DOMAIN FlitsOf(p) = 1 .. p.size
        /\ \A k \in 1 .. p.size : FlitsOf(p)[k] = [pkt |-> p, i |-> k]
    BY DEF FlitsOf
  <2>3. Range(FlitsOf(p)) \subseteq AllFlits
    BY <2>1 DEF AllFlits
  <2>4. \A k \in 1 .. p.size : FlitsOf(p)[k] \in AllFlits
    BY <2>2, <2>3 DEF Range
  <2>5. FlitsOf(p) \in Seq(AllFlits)
    <3>1. FlitsOf(p) = [k \in 1 .. p.size |-> FlitsOf(p)[k]]
      BY DEF FlitsOf
    <3>2. FlitsOf(p) \in [1 .. p.size -> AllFlits]
      BY <2>4, <3>1
    <3> QED BY <2>1, <3>2, IsASeq
  <2>6. p.size \in 1 .. p.size
    BY <2>1
  <2>7. FlitsOf(p)[p.size] = [pkt |-> p, i |-> p.size]
    BY <2>2, <2>6
  <2>8. FlitsOf(p)[p.size] \in Range(FlitsOf(p))
    BY <2>2, <2>6 DEF Range
  <2>9. ASSUME NEW f \in Range(FlitsOf(p))
        PROVE  f.pkt = p /\ TailOf(f) \in Range(FlitsOf(p))
    <3>1. PICK k \in 1 .. p.size : f = FlitsOf(p)[k]
      BY <2>2 DEF Range
    <3>2. f.pkt = p
      <4>1. f = [pkt |-> p, i |-> k]
        BY <2>2, <3>1
      <4> QED BY <4>1
    <3>3. TailOf(f) = FlitsOf(p)[p.size]
      BY <2>7, <3>2 DEF TailOf
    <3> QED BY <2>8, <3>2, <3>3
  <2>10. FlitsOf(p)[p.size].pkt = p
    BY <2>7
  <2> QED BY <2>1, <2>2, <2>5, <2>8, <2>9, <2>10 DEF p
<1>3. parts2 \in [Nodes -> Seq(AllFlits)]
  BY <1>1, <1>2
<1>4. \A n \in go : parts[n] = <<>> /\ Range(parts[n]) = {}
  BY DEF Range
<1>5. Queued(parts2) = Queued(parts) \cup new
  <2>1. \A n \in Nodes : Range(parts2[n]) =
          Range(parts[n]) \cup (IF n \in go THEN Range(FlitsOf(first[n])) ELSE {})
    BY <1>4
  <2>2. new \subseteq Queued(parts2)
    BY <2>1 DEF Queued
  <2>3. Queued(parts) \subseteq Queued(parts2)
    <3> HIDE DEF parts2
    <3> QED BY <2>1 DEF Queued
  <2>4. Queued(parts2) \subseteq Queued(parts) \cup new
    <3> SUFFICES ASSUME NEW n \in Nodes
                 PROVE  Range(parts2[n]) \subseteq Queued(parts) \cup new
      BY DEF Queued
    <3> QED BY <2>1 DEF Queued
  <2> QED BY <2>2, <2>3, <2>4
<1>6. \A f \in new : \E n \in go : f \in Range(FlitsOf(first[n])) /\ f.pkt = first[n]
  BY <1>2
<1>7. after = before \cup new
  BY <1>5
<1>8. \A f \in new, g \in before : f.pkt.id # g.pkt.id
  <2> HIDE DEF new, before
  <2> SUFFICES ASSUME NEW f \in new, NEW g \in before
               PROVE  f.pkt.id # g.pkt.id
    OBVIOUS
  <2>1. PICK n \in go : f.pkt = first[n]
    BY <1>6
  <2>2. first[n].id \notin Ids(before)
    BY DEF before
  <2>3. g.pkt.id \in Ids(before)
    BY DEF Ids
  <2> QED BY <2>1, <2>2, <2>3
<1>9. \A f, g \in new : f.pkt.id = g.pkt.id => f.pkt = g.pkt
  <2> HIDE DEF new
  <2> QED BY <1>6
<1>10. \A f \in new : TailOf(f) \in new
  BY <1>2
<1>11. OnePacketPerId(after) /\ TailsIncluded(after)
  <2> HIDE DEF after, before, new
  <2> QED BY <1>1, <1>7, <1>8, <1>9, <1>10 DEF OnePacketPerId, TailsIncluded
<1>12. \A f \in nt, g \in Queued(parts2) : f.pkt = g.pkt => f.i < g.i
  <2>1. \A f \in nt, g \in new : f.pkt # g.pkt
    BY <1>8
  <2> HIDE DEF new, parts2
  <2> QED BY <1>1, <1>5, <2>1
<1>13. ASSUME NEW n \in Nodes
       PROVE  QueueOK(n, parts2[n])
  <2>1. CASE n \notin go
    BY <1>1, <2>1
  <2>2. CASE n \in go
    <3> DEFINE p == first[n]
               q == FlitsOf(p)
    <3>1. /\ p.src = n /\ DOMAIN q = 1 .. p.size /\ p.size \in Nat
          /\ \A k \in 1 .. p.size : q[k] = [pkt |-> p, i |-> k]
          /\ \A f \in Range(q) : f.pkt = p
      BY <1>2, <2>2
    <3>2. parts2[n] = q
      BY <2>2
    <3> HIDE DEF p, q, parts2
    <3>3. \A i, j \in DOMAIN q : i < j => q[i].i < q[j].i
      <4> TAKE i, j \in DOMAIN q
      <4>1. q[i] = [pkt |-> p, i |-> i] /\ q[j] = [pkt |-> p, i |-> j]
        BY <3>1
      <4>2. q[i].i = i /\ q[j].i = j
        BY <4>1
      <4> QED BY <4>2
    <3> QED BY <3>1, <3>2, <3>3 DEF QueueOK
  <2> QED BY <2>1, <2>2
<1>14. Ids(new) = {first[n].id : n \in go}
  <2>1. \A n \in go : first[n].id \in Ids(new)
    BY <1>2 DEF Ids
  <2> HIDE DEF new
  <2>2. \A f \in new : f.pkt.id \in {first[n].id : n \in go}
    BY <1>6
  <2> QED BY <2>1, <2>2 DEF Ids
<1>15. Ids(Queued(parts2)) = Ids(Queued(parts)) \cup Ids(new)
  <2> HIDE DEF parts2, new
  <2> QED BY <1>5 DEF Ids
<1>16. \A n \in go : \A f \in Range(parts2[n]) : f.pkt = first[n]
  BY <1>2
<1> HIDE DEF parts2, new
<1>17. FlitsOK(parts2, nt)
  BY <1>1, <1>3, <1>11, <1>12, <1>13 DEF FlitsOK
<1> QED
  BY <1>5, <1>14, <1>15, <1>16, <1>17 DEF parts2

(* The elements of a finite set as a sequence. *)
LEMMA SetToSeqFacts ==
  ASSUME NEW S, IsFiniteSet(S)
  PROVE  SetToSeq(S) \in Seq(S) /\ Distinct(SetToSeq(S)) /\ Range(SetToSeq(S)) \subseteq S
<1>1. Cardinality(S) \in Nat /\ ExistsBijection(1 .. Cardinality(S), S)
  BY FS_CardinalityType
<1>2. PICK f \in [1 .. Cardinality(S) -> S] : IsInjective(f)
  BY <1>1 DEF ExistsBijection, Bijection, Injection
<1>3. SetToSeq(S) \in [1 .. Cardinality(S) -> S] /\ IsInjective(SetToSeq(S))
  BY <1>2 DEF SetToSeq
<1>4. SetToSeq(S) \in Seq(S)
  BY <1>1, <1>3, IsASeq
<1> QED
  BY <1>3, <1>4, RangeType DEF IsInjective, Distinct

-----------------------------------------------------------------------------
(* The accounts of the packets.                                            *)

(* The ids of flits are ids of packets or copies. *)
LEMMA IdsTypes ==
  ASSUME NEW flits \in SUBSET AllFlits
  PROVE  Ids(flits) \subseteq PacketId
<1> SUFFICES ASSUME NEW f \in flits
             PROVE  f.pkt.id \in PacketId
  BY DEF Ids
<1>1. f.pkt \in AllPackets \cup Copies
  BY FlitFacts
<1>2. MaxPackets \in Nat
  BY RequestAssumption
<1> QED
  BY <1>1, <1>2, PacketFacts, CopyFacts DEF PacketId

(* Ids are added up over sets of flits. *)
LEMMA IdsUnion ==
  ASSUME NEW F, NEW G
  PROVE  /\ Ids(F \cup G) = Ids(F) \cup Ids(G)
         /\ F \subseteq G => Ids(F) \subseteq Ids(G)
<1>1. Ids(F \cup G) \subseteq Ids(F) \cup Ids(G)
  BY DEF Ids
<1>2. Ids(F) \cup Ids(G) \subseteq Ids(F \cup G)
  BY DEF Ids
<1>3. F \subseteq G => Ids(F) \subseteq Ids(G)
  BY DEF Ids
<1> QED
  BY <1>1, <1>2, <1>3

(* What the workload holds is unread or loaded, and not both. *)
LEMMA HeldSplit ==
  ASSUME NEW c \in 0 .. MaxPackets, NEW w, WorkloadOK(w, c)
  PROVE  /\ HeldIds(w) = Unread(w) \cup Loaded(w) /\ Unread(w) \cap Loaded(w) = {}
         /\ HeldIds(w) \subseteq 1 .. c
         /\ Loaded(w) = {} <=> Waiting(w) = {}
         /\ \A p \in Waiting(w) : p \notin Range(w.fifo)
<1>1. /\ w \in Workload
      /\ \A p \in Waiting(w), q \in Range(w.fifo) : p.id < q.id
      /\ \A p \in HeldPackets(w) : p.id <= c
  BY DEF WorkloadOK, OrderOK
<1>2. /\ HeldPackets(w) \subseteq AllPackets
      /\ Loaded(w) = {p.id : p \in Waiting(w)} /\ Unread(w) = {p.id : p \in Range(w.fifo)}
  BY <1>1, WaitingPackets
<1>3. \A p \in HeldPackets(w) : p.id \in Nat /\ p.id \in 1 .. c
  <2> TAKE p \in HeldPackets(w)
  <2>1. p.id \in 1 .. MaxPackets /\ p.id <= c /\ c \in Nat
    BY <1>1, <1>2, PacketFacts, RequestAssumption
  <2> QED BY <2>1, RequestAssumption
<1>4. Waiting(w) \subseteq HeldPackets(w) /\ Range(w.fifo) \subseteq HeldPackets(w)
  BY DEF HeldPackets
<1>5. \A p \in Waiting(w), q \in Range(w.fifo) : p.id # q.id
  BY <1>1, <1>3, <1>4
<1>6. HeldIds(w) = Unread(w) \cup Loaded(w)
  BY <1>2 DEF HeldIds, HeldPackets
<1>7. Unread(w) \cap Loaded(w) = {}
  BY <1>2, <1>5
<1>8. HeldIds(w) \subseteq 1 .. c
  BY <1>3 DEF HeldIds
<1>9. Loaded(w) = {} <=> Waiting(w) = {}
  <2>1. \A p \in Waiting(w) : p.id \in Loaded(w)
    BY <1>2
  <2>2. \A id \in Loaded(w) : \E p \in Waiting(w) : id = p.id
    BY <1>2
  <2> QED BY <2>1, <2>2
<1> QED
  BY <1>5, <1>6, <1>7, <1>8, <1>9

(* A workload is completed exactly when it has read all it was given time  *)
(* for.                                                                    *)
LEMMA CompletedFacts ==
  ASSUME NEW c, NEW w, WorkloadOK(w, c)
  PROVE  WorkloadCompleted(w) <=> Waiting(w) = {}
<1>1. /\ w.pending \in Seq(Nodes) /\ w.deferred \in Seq(Nodes)
      /\ w.ready \in [Nodes -> Seq(AllPackets)] /\ w.next \in AllPackets \cup {NoPacket}
  BY WorkloadFields DEF WorkloadOK
<1>2. \A n \in Nodes : n \in Range(w.pending) \cup Range(w.deferred) <=> w.ready[n] # <<>>
  BY DEF WorkloadOK, TurnsOK
<1>3. Range(w.pending) \subseteq Nodes /\ Range(w.deferred) \subseteq Nodes
  BY <1>1, RangeType
<1>4. ASSUME NEW A, NEW s \in Seq(A)
      PROVE  s = <<>> <=> Range(s) = {}
  <2>1. CASE s = <<>>
    BY <2>1 DEF Range
  <2>2. CASE s # <<>>
    <3>1. 1 \in DOMAIN s
      BY <2>2, TailFacts
    <3> QED BY <2>2, <3>1 DEF Range
  <2> QED BY <2>1, <2>2
<1>5. ReadyPackets(w) = {} <=> \A n \in Nodes : w.ready[n] = <<>>
  <2>1. \A n \in Nodes : w.ready[n] = <<>> <=> Range(w.ready[n]) = {}
    BY <1>1, <1>4
  <2>2. ReadyPackets(w) = {} <=> \A n \in Nodes : Range(w.ready[n]) = {}
    BY DEF ReadyPackets
  <2> QED BY <2>1, <2>2
<1>6. (w.pending = <<>> /\ w.deferred = <<>>) <=> Range(w.pending) \cup Range(w.deferred) = {}
  BY <1>1, <1>4
<1>7. Range(w.pending) \cup Range(w.deferred) = {} <=> \A n \in Nodes : w.ready[n] = <<>>
  BY <1>2, <1>3
<1>8. Waiting(w) = {} <=> ReadyPackets(w) = {} /\ w.next = NoPacket
  BY DEF Waiting
<1> QED
  BY <1>5, <1>6, <1>7, <1>8 DEF WorkloadCompleted

(* The accounts after a cycle: what was started and the copies that came   *)
(* are in flight with what was before, but for what has settled.           *)
LEMMA AccountsMove ==
  ASSUME NEW held, NEW live, NEW gone, NEW done, NEW c,
         NEW go \in SUBSET held, NEW copied, NEW flying, NEW tails,
         Accounts(held, live \cup gone, done, c), live \cap gone = {},
         copied \cap (held \cup live \cup gone \cup done) = {},
         flying \cup tails = live \cup copied \cup go, flying \cap tails = {}
  PROVE  Accounts(held \ go, flying, done \cup tails \cup gone, c)
<1> DEFINE B == live \cup copied \cup go
<1>1. /\ 1 .. c \subseteq held \cup live \cup gone \cup done
      /\ held \cap live = {} /\ held \cap gone = {} /\ held \cap done = {}
      /\ live \cap done = {} /\ gone \cap done = {} /\ live \cap gone = {}
      /\ copied \cap held = {} /\ copied \cap live = {} /\ copied \cap gone = {}
      /\ copied \cap done = {}
  BY DEF Accounts
<1>2. flying \subseteq B /\ tails \subseteq B
  OBVIOUS
<1>3. (held \ go) \cap B = {} /\ B \cap done = {} /\ B \cap gone = {}
  BY <1>1
<1>4. live \cup go \subseteq flying \cup tails
  OBVIOUS
<1> HIDE DEF B
<1>5. 1 .. c \subseteq (held \ go) \cup flying \cup (done \cup tails \cup gone)
  BY <1>1, <1>4
<1>6. (held \ go) \cap flying = {} /\ (held \ go) \cap (done \cup tails \cup gone) = {}
  BY <1>1, <1>2, <1>3
<1>7. flying \cap (done \cup tails \cup gone) = {}
  BY <1>2, <1>3
<1> QED
  BY <1>5, <1>6, <1>7 DEF Accounts

(* Each source has its turn once. *)
LEMMA TurnsOnce ==
  ASSUME NEW c, NEW w, WorkloadOK(w, c)
  PROVE  /\ IsInjective(w.pending \o w.deferred)
         /\ Range(w.pending \o w.deferred) = Range(w.pending) \cup Range(w.deferred)
         /\ Len(w.pending) + Len(w.deferred) <= Cardinality(Nodes)
<1> DEFINE turns == w.pending \o w.deferred
<1>1. w.pending \in Seq(Nodes) /\ w.deferred \in Seq(Nodes)
  BY WorkloadFields DEF WorkloadOK
<1>2. /\ Len(w.pending) \in Nat /\ Len(w.deferred) \in Nat
      /\ turns \in Seq(Nodes) /\ Len(turns) = Len(w.pending) + Len(w.deferred)
      /\ Range(turns) = Range(w.pending) \cup Range(w.deferred)
  BY <1>1, ConcatFacts, LenProperties
<1>3. Distinct(turns)
  BY <1>1, DistinctConcat DEF WorkloadOK, TurnsOK
<1> HIDE DEF turns
<1>4. turns \in [1 .. Len(turns) -> Nodes] /\ DOMAIN turns = 1 .. Len(turns)
  BY <1>2, LenProperties
<1>5. IsInjective(turns)
  BY <1>3 DEF IsInjective, Distinct
<1>6. turns \in Injection(1 .. Len(turns), Nodes)
  BY <1>4, <1>5 DEF Injection
<1>7. Cardinality(1 .. Len(turns)) <= Cardinality(Nodes)
  BY <1>6, FS_Injection, RequestAssumption
<1>8. Len(turns) \in Nat /\ Cardinality(1 .. Len(turns)) = Len(turns)
  <2>1. Len(turns) \in Nat
    BY <1>2, LenProperties
  <2>2. Cardinality(1 .. Len(turns)) = IF 1 > Len(turns) THEN 0 ELSE Len(turns) - 1 + 1
    BY <2>1, FS_Interval
  <2> QED BY <2>1, <2>2
<1> QED
  BY <1>2, <1>5, <1>7, <1>8 DEF turns

(* The copies a cycle has routers send are new. *)
LEMMA CopiesSent ==
  ASSUME NEW nt, NEW copied, NEW c, NEW copying, NEW at, NEW sent, NEW packets3,
         CopiesMade(nt, copied, c, copying, at, sent, packets3)
  PROVE  /\ CopiesOK(packets3, sent, copied \cup Ids(copying), c)
         /\ GenIds(packets3) \subseteq {id + MaxPackets : id \in Ids(copying)}
         /\ Ids(copying) \subseteq 1 .. MaxPackets
<1> DEFINE copies  == {CopyOf(f, at[f]) : f \in copying}
           packets == SetToSeq(copies)
<1> SUFFICES ASSUME nt \in SUBSET AllFlits, IsFiniteSet(nt), OnePacketPerId(nt),
                    copied \in SUBSET (1 .. MaxPackets), c \in 0 .. MaxPackets,
                    copying \in SUBSET nt,
                    \A f \in copying : f.pkt.kind = "broadcast" /\ f.pkt.id \notin copied,
                    at \in [copying -> Nodes], \A id \in sent : Known(id, copied, c)
             PROVE  /\ CopiesOK(packets, sent, copied \cup Ids(copying), c)
                    /\ GenIds(packets) \subseteq {id + MaxPackets : id \in Ids(copying)}
                    /\ Ids(copying) \subseteq 1 .. MaxPackets
  BY DEF CopiesMade
<1>1. MaxPackets \in Nat /\ c \in Nat
  BY RequestAssumption
<1>2. ASSUME NEW f \in copying
      PROVE  /\ f.pkt \in AllPackets /\ f = [pkt |-> f.pkt, i |-> 1]
             /\ f.pkt.id \in 1 .. MaxPackets
             /\ CopyOf(f, at[f]) \in Copies
             /\ CopyOf(f, at[f]).id = f.pkt.id + MaxPackets
  <2>1. f \in AllFlits /\ f.pkt.kind = "broadcast" /\ at[f] \in Nodes
    OBVIOUS
  <2>2. f.pkt \in AllPackets
    BY <2>1, FlitFacts, CopyFacts
  <2>3. f = [pkt |-> f.pkt, i |-> f.i] /\ f.pkt.size = 1 /\ f.i \in Nat /\ 1 <= f.i /\ f.i <= f.pkt.size
    BY <2>1, FlitFacts
  <2>4. f.i = 1
    BY <2>3
  <2>5. f.pkt.id \in 1 .. MaxPackets
    BY <2>2, PacketFacts
  <2>6. CopyOf(f, at[f]) = CopyOf([pkt |-> f.pkt], at[f])
    BY DEF CopyOf
  <2>7. CopyOf(f, at[f]) \in Copies
    BY <2>1, <2>2, <2>6 DEF Copies
  <2>8. CopyOf(f, at[f]).id = f.pkt.id + MaxPackets
    BY DEF CopyOf
  <2> QED BY <2>2, <2>3, <2>4, <2>5, <2>7, <2>8
<1>3. IsFiniteSet(copies)
  <2> DEFINE h == [f \in copying |-> CopyOf(f, at[f])]
  <2>1. IsFiniteSet(copying)
    BY FS_Subset
  <2>2. h \in Surjection(copying, copies)
    BY DEF Surjection
  <2> HIDE DEF h, copies
  <2> QED BY <2>1, <2>2, FS_Surjection
<1>4. copies \subseteq Copies
  BY <1>2
<1>5. ASSUME NEW p \in copies
      PROVE  \E f \in copying : p = CopyOf(f, at[f]) /\ p.id = f.pkt.id + MaxPackets
  BY <1>2
<1>6. ASSUME NEW p \in copies, NEW q \in copies, p.id = q.id
      PROVE  p = q
  <2>1. PICK f \in copying : p = CopyOf(f, at[f]) /\ p.id = f.pkt.id + MaxPackets
    BY <1>5
  <2>2. PICK g \in copying : q = CopyOf(g, at[g]) /\ q.id = g.pkt.id + MaxPackets
    BY <1>5
  <2>3. f.pkt.id \in Nat /\ g.pkt.id \in Nat
    BY <1>2
  <2>4. f.pkt.id = g.pkt.id
    BY <1>1, <1>6, <2>1, <2>2, <2>3
  <2>5. f.pkt = g.pkt
    BY <2>4 DEF OnePacketPerId
  <2>6. f = g
    BY <1>2, <2>5
  <2> QED BY <2>1, <2>2, <2>6
<1> HIDE DEF copies
<1>7. packets \in Seq(copies) /\ Distinct(packets) /\ Range(packets) \subseteq copies
  BY <1>3, SetToSeqFacts
<1> HIDE DEF packets
<1>8. packets \in Seq(Copies)
  BY <1>4, <1>7, LenProperties, ElementOfSeq, IsASeq
<1>9. \A i, j \in DOMAIN packets : packets[i].id = packets[j].id => i = j
  <2> SUFFICES ASSUME NEW i \in DOMAIN packets, NEW j \in DOMAIN packets,
                      packets[i].id = packets[j].id
               PROVE  i = j
    OBVIOUS
  <2>1. packets[i] \in copies /\ packets[j] \in copies
    BY <1>7 DEF Range
  <2>2. packets[i] = packets[j]
    BY <1>6, <2>1
  <2> QED BY <1>7, <2>2 DEF Distinct
<1>10. \A id \in GenIds(packets) : \E o \in Ids(copying) : id = o + MaxPackets
  <2> SUFFICES ASSUME NEW p \in copies
               PROVE  \E o \in Ids(copying) : p.id = o + MaxPackets
    BY <1>7 DEF GenIds
  <2> QED BY <1>5 DEF Ids
<1>11. Ids(copying) \subseteq 1 .. MaxPackets /\ Ids(copying) \cap copied = {}
  BY <1>2 DEF Ids
<1>12. ASSUME NEW id \in GenIds(packets)
       PROVE  /\ id > MaxPackets /\ id - MaxPackets \in Ids(copying)
              /\ ~Known(id, copied, c)
  <2>1. PICK o \in Ids(copying) : id = o + MaxPackets
    BY <1>10
  <2>2. o \in 1 .. MaxPackets /\ o \notin copied
    BY <1>11
  <2>3. id > MaxPackets /\ id - MaxPackets = o /\ ~(id <= c)
    BY <1>1, <2>1, <2>2
  <2> QED BY <2>2, <2>3 DEF Known
<1>13. GenIds(packets) \cap sent = {}
  BY <1>12
<1>14. \A id \in GenIds(packets) \cup sent : Known(id, copied \cup Ids(copying), c)
  BY <1>12 DEF Known
<1>15. copied \cup Ids(copying) \subseteq 1 .. MaxPackets
  BY <1>11
<1>16. CopiesOK(packets, sent, copied \cup Ids(copying), c)
  BY <1>8, <1>9, <1>13, <1>14, <1>15 DEF CopiesOK
<1> QED
  BY <1>10, <1>11, <1>16

(* The packets that are generated, as flits in the queues of their nodes.  *)
LEMMA CopiesFromFacts ==
  ASSUME NEW c, NEW sent, NEW copied, CopiesOK(generated, sent, copied, c)
  PROVE  LET extra == [n \in Nodes |-> CopiesFrom(n)]
         IN  /\ extra \in [Nodes -> Seq(AllFlits)]
             /\ \A n \in Nodes : Distinct(extra[n])
             /\ \A n \in Nodes : \A f \in Range(extra[n]) :
                  /\ f.pkt \in Range(generated) /\ f.pkt \in Copies /\ f.pkt.src = n
                  /\ f = [pkt |-> f.pkt, i |-> 1]
             /\ Ids(Queued(extra)) = GenIds(generated)
<1> DEFINE extra == [n \in Nodes |-> CopiesFrom(n)]
           mine(n) == {p \in Range(generated) : p.src = n}
           ps(n)   == Keep(generated, mine(n))
<1>1. generated \in Seq(Copies) /\ Range(generated) \subseteq Copies
  BY RangeType DEF CopiesOK
<1>2. Distinct(generated)
  BY DEF CopiesOK, Distinct
<1>3. ASSUME NEW n \in Nodes
      PROVE  /\ ps(n) \in Seq(Copies) /\ Range(ps(n)) = mine(n) /\ Distinct(ps(n))
  <2>1. /\ ps(n) \in Seq(Copies) /\ Range(ps(n)) = Range(generated) \cap mine(n)
        /\ Distinct(ps(n))
    BY <1>1, <1>2, KeepFacts
  <2> QED BY <2>1
<1> HIDE DEF ps
<1>4. \A n \in Nodes : CopiesFrom(n) = [k \in DOMAIN ps(n) |-> [pkt |-> ps(n)[k], i |-> 1]]
  BY DEF CopiesFrom, ps
<1>5. \A p \in Copies : [pkt |-> p, i |-> 1] \in AllFlits
  <2> TAKE p \in Copies
  <2>1. p.size = 1
    BY CopyFacts
  <2>2. FlitsOf(p)[1] = [pkt |-> p, i |-> 1] /\ 1 \in DOMAIN FlitsOf(p)
    BY <2>1 DEF FlitsOf
  <2>3. [pkt |-> p, i |-> 1] \in Range(FlitsOf(p))
    BY <2>2 DEF Range
  <2> QED BY <2>3 DEF AllFlits
<1>6. ASSUME NEW n \in Nodes
      PROVE  /\ extra[n] \in Seq(AllFlits) /\ Distinct(extra[n])
             /\ Range(extra[n]) = {[pkt |-> p, i |-> 1] : p \in mine(n)}
  <2>1. /\ Len(ps(n)) \in Nat /\ DOMAIN ps(n) = 1 .. Len(ps(n))
        /\ \A k \in 1 .. Len(ps(n)) : ps(n)[k] \in Copies
    BY <1>3, LenProperties, ElementOfSeq
  <2>2. extra[n] = [k \in 1 .. Len(ps(n)) |-> [pkt |-> ps(n)[k], i |-> 1]]
    BY <1>4, <2>1
  <2> HIDE DEF extra
  <2>3. \A k \in 1 .. Len(ps(n)) : extra[n][k] = [pkt |-> ps(n)[k], i |-> 1]
    BY <2>2
  <2>4. DOMAIN extra[n] = 1 .. Len(ps(n))
    BY <2>2
  <2>5. extra[n] \in [1 .. Len(ps(n)) -> AllFlits]
    BY <1>5, <2>1, <2>2
  <2>6. extra[n] \in Seq(AllFlits)
    BY <2>1, <2>5, IsASeq
  <2>7. Distinct(extra[n])
    <3> SUFFICES ASSUME NEW i \in 1 .. Len(ps(n)), NEW j \in 1 .. Len(ps(n)),
                        extra[n][i] = extra[n][j]
                 PROVE  i = j
      BY <2>4 DEF Distinct
    <3>1. /\ extra[n][i] = [pkt |-> ps(n)[i], i |-> 1]
          /\ extra[n][j] = [pkt |-> ps(n)[j], i |-> 1]
      BY <2>3
    <3>2. [pkt |-> ps(n)[i], i |-> 1] = [pkt |-> ps(n)[j], i |-> 1]
      BY <3>1
    <3>3. ps(n)[i] = ps(n)[j]
      BY <3>2
    <3> QED BY <1>3, <2>1, <3>3 DEF Distinct
  <2>8. Range(extra[n]) = {[pkt |-> p, i |-> 1] : p \in Range(ps(n))}
    BY <2>1, <2>3, <2>4 DEF Range
  <2> QED BY <1>3, <2>6, <2>7, <2>8
<1>7. extra \in [Nodes -> Seq(AllFlits)]
  <2>1. extra = [n \in Nodes |-> extra[n]]
    OBVIOUS
  <2>2. \A n \in Nodes : extra[n] \in Seq(AllFlits)
    BY <1>6
  <2> HIDE DEF extra
  <2> QED BY <2>1, <2>2
<1> HIDE DEF extra
<1>8. \A n \in Nodes : \A f \in Range(extra[n]) :
        /\ f.pkt \in Range(generated) /\ f.pkt \in Copies /\ f.pkt.src = n
        /\ f = [pkt |-> f.pkt, i |-> 1]
  <2> SUFFICES ASSUME NEW n \in Nodes, NEW f \in Range(extra[n])
               PROVE  /\ f.pkt \in Range(generated) /\ f.pkt \in Copies /\ f.pkt.src = n
                      /\ f = [pkt |-> f.pkt, i |-> 1]
    OBVIOUS
  <2>1. PICK p \in mine(n) : f = [pkt |-> p, i |-> 1]
    BY <1>6
  <2> QED BY <1>1, <2>1
<1>9. \A p \in Range(generated) : \E f \in Queued(extra) : f.pkt = p
  <2> TAKE p \in Range(generated)
  <2>1. p.src \in Nodes /\ p \in mine(p.src)
    BY <1>1, CopyFacts
  <2>2. [pkt |-> p, i |-> 1] \in Range(extra[p.src])
    BY <1>6, <2>1
  <2>3. [pkt |-> p, i |-> 1] \in Queued(extra)
    BY <2>1, <2>2 DEF Queued
  <2> QED BY <2>3
<1>10. \A f \in Queued(extra) : f.pkt \in Range(generated)
  BY <1>8 DEF Queued
<1>11. Ids(Queued(extra)) \subseteq GenIds(generated)
  BY <1>10 DEF Ids, GenIds
<1>12. GenIds(generated) \subseteq Ids(Queued(extra))
  BY <1>9 DEF Ids, GenIds
<1> QED
  BY <1>6, <1>7, <1>8, <1>11, <1>12 DEF extra

-----------------------------------------------------------------------------
(* The invariant, operation by operation.                                  *)

(* The workload is in order when it is empty, and so is the simulator.     *)
LEMMA EmptyOK ==
  WorkloadOK(EmptyWorkload, 0) /\ HeldPackets(EmptyWorkload) = {}
<1> DEFINE w == EmptyWorkload
<1>1. /\ w.fifo = <<>> /\ w.pending = <<>> /\ w.deferred = <<>> /\ w.next = NoPacket
      /\ w.ready = [n \in Nodes |-> <<>>] /\ \A n \in Nodes : w.ready[n] = <<>>
  BY DEF EmptyWorkload
<1>2. w \in Workload
  <2>1. <<>> \in Seq(AllPackets) /\ <<>> \in Seq(Nodes)
    OBVIOUS
  <2>2. [n \in Nodes |-> <<>>] \in [Nodes -> Seq(AllPackets)]
    BY <2>1
  <2> QED BY <2>1, <2>2 DEF EmptyWorkload, Workload
<1> HIDE DEF w
<1>3. Range(<<>>) = {}
  BY DEF Range
<1>4. ReadyPackets(w) = {}
  <2>1. \A n \in Nodes : Range(w.ready[n]) = {}
    BY <1>1, <1>3
  <2> QED BY <2>1 DEF ReadyPackets
<1>5. Waiting(w) = {} /\ HeldPackets(w) = {}
  BY <1>1, <1>3, <1>4 DEF Waiting, HeldPackets
<1>6. TurnsOK(w)
  BY <1>1, <1>3 DEF TurnsOK, Distinct
<1>7. OrderOK(w, 0)
  <2>1. Rising(<<>>)
    BY DEF Rising
  <2> QED BY <1>1, <1>3, <1>4, <1>5, <2>1 DEF OrderOK
<1> QED
  BY <1>2, <1>5, <1>6, <1>7 DEF WorkloadOK, w

LEMMA InitInvariant == Init => IInv
<1> SUFFICES ASSUME Init PROVE IInv
  OBVIOUS
<1>1. /\ pc = "driver" /\ ending = FALSE /\ started = FALSE /\ count = 0
      /\ wl = EmptyWorkload /\ partial = [n \in Nodes |-> <<>>]
      /\ net = {} /\ inflight = {} /\ absorbed = {} /\ generated = <<>> /\ clock = 0
      /\ info = {} /\ settled = {} /\ spawned = {} /\ owed = {} /\ returned = "none"
  BY DEF Init
<1>2. MaxPackets \in Nat
  BY RequestAssumption
<1>3. Types
  <2>1. ending \in BOOLEAN /\ started \in BOOLEAN
    BY <1>1, Zenon
  <2>2. count \in 0 .. MaxPackets /\ clock \in Nat
    BY <1>1, <1>2
  <2>3. /\ pc \in {"driver", "stage", "draining", "ended"}
        /\ returned \in {"none", "init", "stage"}
    BY <1>1
  <2> QED BY <1>1, <2>1, <2>2, <2>3 DEF Types
<1>4. Queued(partial) = {} /\ \A n \in Nodes : Range(partial[n]) = {} /\ partial[n] = <<>>
  <2>1. \A n \in Nodes : Range(partial[n]) = {} /\ partial[n] = <<>>
    BY <1>1 DEF Range
  <2> QED BY <2>1 DEF Queued
<1>5. FlitsOK(partial, net)
  <2>1. partial \in [Nodes -> Seq(AllFlits)]
    <3>1. <<>> \in Seq(AllFlits)
      OBVIOUS
    <3> QED BY <1>1, <3>1
  <2>2. net \subseteq AllFlits /\ IsFiniteSet(net)
    BY <1>1, FS_EmptySet
  <2>3. \A n \in Nodes : QueueOK(n, partial[n])
    BY <1>4 DEF QueueOK
  <2>4. OnePacketPerId(net \cup Queued(partial)) /\ TailsIncluded(net \cup Queued(partial))
    BY <1>1, <1>4 DEF OnePacketPerId, TailsIncluded
  <2> QED BY <1>1, <2>1, <2>2, <2>3, <2>4 DEF FlitsOK
<1>6. WorkloadOK(wl, count) /\ HeldPackets(wl) = {}
  BY <1>1, EmptyOK
<1>7. SourcesOK(wl, partial)
  BY <1>6 DEF SourcesOK
<1>8. Ids({}) = {} /\ HeldIds(wl) = {} /\ GenIds(generated) = {}
  BY <1>1, <1>6 DEF Ids, HeldIds, GenIds, Range
<1>9. AbsorbedOK(absorbed, partial, net) /\ InFlightExact
  BY <1>1, <1>4, <1>8 DEF AbsorbedOK, InFlightExact
<1>10. Accounts(HeldIds(wl), Ids(inflight), settled, count)
  BY <1>1, <1>8 DEF Accounts
<1>11. CopiesOK(generated, Ids(inflight) \cup settled, spawned, count)
  <2>1. <<>> \in Seq(Copies)
    OBVIOUS
  <2> QED BY <1>1, <1>8, <2>1 DEF CopiesOK
<1>12. CopiesFollow /\ StageOK /\ StageSettlesOne
  BY <1>1, <1>8 DEF CopiesFollow, StageOK, StageSettlesOne
<1>13. NotStarted
  <2>1. EmptyWorkload = [EmptyWorkload EXCEPT !.fifo = EmptyWorkload.fifo]
    BY DEF EmptyWorkload
  <2> QED BY <1>1, <2>1 DEF NotStarted
<1> QED
  BY <1>3, <1>5, <1>6, <1>7, <1>9, <1>10, <1>11, <1>12, <1>13 DEF IInv

(* What the invariant says of the flits and their ids. *)
LEMMA InvariantFacts ==
  ASSUME IInv
  PROVE  LET live == net \cup Queued(partial)
         IN  /\ inflight = live \cup absorbed /\ live \cap absorbed = {}
             /\ live \subseteq AllFlits /\ inflight \subseteq AllFlits
             /\ Ids(inflight) = Ids(live) \cup Ids(absorbed)
             /\ Ids(live) \cap Ids(absorbed) = {}
             /\ count \in 0 .. MaxPackets /\ MaxPackets \in Nat
             /\ HeldIds(wl) \subseteq 1 .. count
             /\ Unsettled = HeldIds(wl) \cup Ids(inflight) /\ Unsettled \subseteq PacketId
             /\ GenIds(generated) \cap (HeldIds(wl) \cup Ids(inflight) \cup settled) = {}
             /\ \A id \in GenIds(generated) : id > MaxPackets /\ id \in Nat
<1> DEFINE live == net \cup Queued(partial)
<1>1. /\ Types /\ WorkloadOK(wl, count) /\ FlitsOK(partial, net)
      /\ AbsorbedOK(absorbed, partial, net) /\ InFlightExact
      /\ CopiesOK(generated, Ids(inflight) \cup settled, spawned, count)
  BY DEF IInv
<1>2. count \in 0 .. MaxPackets /\ MaxPackets \in Nat
  BY <1>1, RequestAssumption DEF Types
<1>3. live \subseteq AllFlits /\ absorbed \subseteq AllFlits
  BY <1>1, QueuedFlits DEF FlitsOK, AbsorbedOK
<1>4. inflight = live \cup absorbed
  BY <1>1 DEF InFlightExact
<1>5. Ids(live) \cap Ids(absorbed) = {}
  BY <1>1 DEF AbsorbedOK
<1>6. live \cap absorbed = {}
  BY <1>5 DEF Ids
<1> HIDE DEF live
<1>7. Ids(inflight) = Ids(live) \cup Ids(absorbed)
  BY <1>4, IdsUnion
<1>8. inflight \subseteq AllFlits
  BY <1>3, <1>4
<1>9. HeldIds(wl) = Unread(wl) \cup Loaded(wl) /\ HeldIds(wl) \subseteq 1 .. count
  BY <1>1, <1>2, HeldSplit
<1>10. Unsettled = HeldIds(wl) \cup Ids(inflight)
  BY <1>9 DEF Unsettled
<1>11. Unsettled \subseteq PacketId
  <2>1. Ids(inflight) \subseteq PacketId
    BY <1>8, IdsTypes
  <2>2. 1 .. count \subseteq PacketId
    BY <1>2 DEF PacketId
  <2> QED BY <1>9, <1>10, <2>1, <2>2
<1>12. \A id \in GenIds(generated) : id > MaxPackets /\ id \in Nat
  <2>1. Range(generated) \subseteq Copies
    BY <1>1, RangeType DEF CopiesOK
  <2> QED BY <2>1, CopyFacts DEF GenIds
<1>13. GenIds(generated) \cap HeldIds(wl) = {}
  BY <1>2, <1>9, <1>12
<1>14. GenIds(generated) \cap (Ids(inflight) \cup settled) = {}
  BY <1>1 DEF CopiesOK
<1> QED
  BY <1>2, <1>3, <1>4, <1>5, <1>6, <1>7, <1>8, <1>9, <1>10, <1>11, <1>12, <1>13, <1>14 DEF live

(* A step that changes nothing keeps the invariant. *)
LEMMA StutterStep ==
  ASSUME IInv, UNCHANGED vars
  PROVE  IInv'
<1>1. /\ UNCHANGED <<pc, ending, started, count, wl, partial, net, inflight>>
      /\ UNCHANGED <<absorbed, generated, spawned, clock, info, settled, owed, returned>>
  BY DEF vars, driverVars, netVars, simVars, callVars
<1> QED
  BY <1>1 DEF IInv, Types, InFlightExact, CopiesFollow, StageOK, NotStarted, StageSettlesOne,
              Unsettled, Due, Expired

(* Injecting a packet keeps it. *)
LEMMA InjectStep ==
  ASSUME IInv, Inject
  PROVE  IInv'
<1>1. PICK r \in Requests :
        /\ pc = "driver" /\ count < MaxPackets
        /\ wl' = [wl EXCEPT !.fifo = Append(@, Packet(count + 1, r))]
        /\ count' = count + 1
        /\ UNCHANGED <<pc, ending, started, netVars, partial, inflight, clock, settled, callVars>>
  BY DEF Inject
<1>2. /\ UNCHANGED <<pc, ending, started, partial, net, inflight, absorbed, generated>>
      /\ UNCHANGED <<spawned, clock, info, settled, owed, returned>>
  BY <1>1 DEF netVars, callVars
<1>3. count \in 0 .. MaxPackets /\ MaxPackets \in Nat
  BY InvariantFacts
<1>4. count' \in 0 .. MaxPackets /\ count' = count + 1 /\ count' \in 1 .. MaxPackets
  BY <1>1, <1>3
<1> DEFINE p == Packet(count + 1, r)
<1>5. p \in AllPackets /\ p.id = count + 1
  <2>1. p \in AllPackets
    BY <1>4 DEF AllPackets
  <2> QED BY <2>1 DEF Packet
<1> HIDE DEF p
<1>6. WorkloadOK(wl, count)
  BY DEF IInv
<1>7. /\ WorkloadOK(wl', count') /\ Waiting(wl') = Waiting(wl)
      /\ Range(wl'.fifo) = Range(wl.fifo) \cup {p} /\ wl' = [wl EXCEPT !.fifo = wl'.fifo]
  <2> DEFINE v == [wl EXCEPT !.fifo = Append(@, p)]
  <2>1. /\ WorkloadOK(v, count + 1) /\ Waiting(v) = Waiting(wl)
        /\ Range(v.fifo) = Range(wl.fifo) \cup {p} /\ v = [wl EXCEPT !.fifo = v.fifo]
    <3>1. count \in Nat
      BY <1>3
    <3> QED BY <3>1, <1>5, <1>6, InjectOK
  <2>2. wl' = v
    BY <1>1 DEF p
  <2> HIDE DEF v
  <2> QED BY <1>1, <2>1, <2>2
<1>8. HeldPackets(wl') = HeldPackets(wl) \cup {p}
  BY <1>7 DEF HeldPackets
<1>9. HeldIds(wl') = HeldIds(wl) \cup {count + 1}
  BY <1>5, <1>8 DEF HeldIds
<1>10. Types'
  <2>1. Types
    BY DEF IInv
  <2> QED BY <1>2, <1>4, <2>1 DEF Types
<1>11. CopiesOK(generated, Ids(inflight) \cup settled, spawned, count)
  BY DEF IInv
<1>12. \A id \in Ids(inflight) \cup settled : id <= count \/ id > MaxPackets
  BY <1>11 DEF CopiesOK, Known
<1>13. Ids(inflight) \cup settled \subseteq PacketId
  BY InvariantFacts, IdsTypes DEF IInv, Types
<1>14. SourcesOK(wl', partial')
  <2> SUFFICES ASSUME NEW n \in Nodes, NEW f \in Range(partial[n]), NEW q \in HeldPackets(wl'),
                      q.src = n, f.pkt.id <= MaxPackets
               PROVE  f.pkt.id < q.id
    BY <1>2 DEF SourcesOK
  <2>1. CASE q \in HeldPackets(wl)
    BY <2>1 DEF IInv, SourcesOK
  <2>2. CASE q = p
    <3>1. f \in Queued(partial)
      BY DEF Queued
    <3>2. f \in inflight
      BY <3>1, InvariantFacts
    <3>3. f.pkt.id \in Ids(inflight)
      BY <3>2 DEF Ids
    <3>4. f.pkt.id \in Nat
      BY <1>3, <1>13, <3>3 DEF PacketId
    <3>5. f.pkt.id <= count
      BY <1>3, <1>12, <3>3, <3>4
    <3> QED BY <1>3, <1>5, <2>2, <3>4, <3>5
  <2> QED BY <1>8, <2>1, <2>2
<1>15. Accounts(HeldIds(wl'), Ids(inflight'), settled', count')
  <2>1. Accounts(HeldIds(wl), Ids(inflight), settled, count)
    BY DEF IInv
  <2>2. 1 .. count' = (1 .. count) \cup {count + 1}
    BY <1>3, <1>4
  <2>3. count + 1 \notin Ids(inflight) \cup settled
    BY <1>3, <1>4, <1>12
  <2> QED BY <1>2, <1>9, <2>1, <2>2, <2>3 DEF Accounts
<1>16. CopiesOK(generated', Ids(inflight') \cup settled', spawned', count')
  <2>1. \A id \in GenIds(generated) : id > MaxPackets /\ id \in Nat
    BY InvariantFacts
  <2>2. \A id \in GenIds(generated) \cup Ids(inflight) \cup settled : Known(id, spawned, count')
    <3> SUFFICES ASSUME NEW id \in GenIds(generated) \cup (Ids(inflight) \cup settled), id <= count
                 PROVE  id <= count'
      BY <1>11 DEF CopiesOK, Known
    <3>1. id \in Nat
      BY <1>3, <1>13, <2>1 DEF PacketId
    <3> QED BY <1>3, <1>4, <3>1
  <2> QED BY <1>2, <1>11, <2>2 DEF CopiesOK
<1>17. AbsorbedOK(absorbed', partial', net') /\ FlitsOK(partial', net') /\ InFlightExact'
  BY <1>2 DEF IInv, InFlightExact
<1>18. CopiesFollow' /\ StageSettlesOne'
  BY <1>2 DEF IInv, CopiesFollow, StageSettlesOne, Expired
<1>19. StageOK'
  BY <1>1, <1>2 DEF StageOK
<1>20. NotStarted'
  <2> SUFFICES ASSUME ~started PROVE wl' = [EmptyWorkload EXCEPT !.fifo = wl'.fifo]
    BY <1>2 DEF NotStarted, IInv
  <2>1. wl = [EmptyWorkload EXCEPT !.fifo = wl.fifo]
    BY DEF IInv, NotStarted
  <2> QED BY <1>7, <2>1 DEF EmptyWorkload
<1> QED
  BY <1>7, <1>10, <1>14, <1>15, <1>16, <1>17, <1>18, <1>19, <1>20 DEF IInv

(* What a stage starts with is what the driver waits for. *)
LEMMA StageStartOK ==
  ASSUME IInv
  PROVE  /\ WorkloadOK(StartStage(wl), count)
         /\ HeldPackets(StartStage(wl)) = HeldPackets(wl)
         /\ Unsettled # {} => Loaded(StartStage(wl)) \cup Ids(inflight) # {}
         /\ Unread(wl) \ Unread(StartStage(wl)) # {} =>
              Loaded(wl) \cup Ids(inflight) = {} \/ wl.next # NoPacket
<1>1. WorkloadOK(wl, count) /\ count \in Nat /\ count \in 0 .. MaxPackets
  BY InvariantFacts DEF IInv
<1>2. WorkloadCompleted(wl) <=> Waiting(wl) = {}
  BY <1>1, CompletedFacts
<1>3. Loaded(wl) = {} <=> Waiting(wl) = {}
  BY <1>1, HeldSplit
<1>4. CASE ~Completed
  <2>1. StartStage(wl) = wl
    BY <1>4 DEF StartStage
  <2>2. Loaded(wl) # {} \/ inflight # {}
    BY <1>2, <1>3, <1>4 DEF Completed
  <2>3. Loaded(wl) \cup Ids(inflight) # {}
    BY <2>2 DEF Ids
  <2> QED BY <1>1, <2>1, <2>3
<1>5. CASE Completed
  <2>1. StartStage(wl) = Refill(wl) /\ wl.next = NoPacket
    BY <1>5 DEF StartStage, Completed, WorkloadCompleted
  <2>2. Loaded(wl) = {} /\ Ids(inflight) = {}
    BY <1>2, <1>3, <1>5 DEF Completed, Ids
  <2>3. /\ WorkloadOK(Refill(wl), count) /\ HeldPackets(Refill(wl)) = HeldPackets(wl)
        /\ wl.fifo # <<>> => Waiting(Refill(wl)) # {}
    BY <1>1, <2>1, RefillOK
  <2>4. Loaded(Refill(wl)) = {} <=> Waiting(Refill(wl)) = {}
    BY <1>1, <2>3, HeldSplit
  <2>5. wl.fifo = <<>> => Unread(wl) = {}
    BY DEF Unread, Range
  <2>6. Unsettled = Unread(wl)
    BY <2>2 DEF Unsettled
  <2> QED BY <2>1, <2>2, <2>3, <2>4, <2>5, <2>6
<1> QED
  BY <1>4, <1>5

(* A call of run_step keeps it. *)
LEMMA RunStepStep ==
  ASSUME IInv, NEW end \in BOOLEAN, RunStep(end)
  PROVE  IInv'
<1>1. /\ pc = "driver" /\ owed' = Unsettled /\ info' = {}
      /\ UNCHANGED <<count, netVars, partial, inflight, clock, settled>>
      /\ IF ~started
         THEN /\ started' = TRUE /\ wl' = Refill([EmptyWorkload EXCEPT !.fifo = wl.fifo])
              /\ returned' = "init" /\ UNCHANGED <<pc, ending>>
         ELSE /\ pc' = "stage" /\ ending' = end /\ wl' = StartStage(wl)
              /\ returned' = "stage" /\ UNCHANGED started
  BY DEF RunStep
<1>2. UNCHANGED <<count, partial, net, inflight, absorbed, generated, spawned, clock, settled>>
  BY <1>1 DEF netVars
<1>3. /\ Types /\ WorkloadOK(wl, count) /\ count \in Nat /\ count \in 0 .. MaxPackets
      /\ SourcesOK(wl, partial) /\ CopiesFollow
  BY InvariantFacts DEF IInv
<1>4. /\ WorkloadOK(wl', count') /\ HeldPackets(wl') = HeldPackets(wl)
      /\ started' = TRUE /\ ending' \in BOOLEAN /\ (pc' = "driver" \/ pc' = "stage")
      /\ pc' = "driver" => returned' = "init"
      /\ pc' = "stage" => returned' = "stage" /\ wl' = StartStage(wl)
      /\ returned' \in {"none", "init", "stage"}
  <2>1. CASE ~started
    <3>1. /\ started' = TRUE /\ wl' = Refill([EmptyWorkload EXCEPT !.fifo = wl.fifo])
          /\ returned' = "init" /\ pc' = pc /\ ending' = ending
      BY <1>1, <2>1
    <3>2. wl = [EmptyWorkload EXCEPT !.fifo = wl.fifo]
      BY <2>1 DEF IInv, NotStarted
    <3>3. wl' = Refill(wl)
      BY <3>1, <3>2
    <3>4. wl.next = NoPacket
      BY <3>2 DEF EmptyWorkload
    <3>5. WorkloadOK(Refill(wl), count) /\ HeldPackets(Refill(wl)) = HeldPackets(wl)
      BY <1>3, <3>4, RefillOK
    <3>6. ending' \in BOOLEAN
      BY <1>3, <3>1 DEF Types
    <3>7. pc' = "driver" /\ WorkloadOK(wl', count') /\ HeldPackets(wl') = HeldPackets(wl)
      BY <1>1, <1>2, <3>1, <3>3, <3>5
    <3>8. pc' # "stage" /\ returned' \in {"none", "init", "stage"}
      BY <3>1, <3>7
    <3> QED BY <3>1, <3>6, <3>7, <3>8
  <2>2. CASE started
    <3>1. /\ pc' = "stage" /\ ending' = end /\ wl' = StartStage(wl)
          /\ returned' = "stage" /\ started' = started
      BY <1>1, <2>2
    <3>2. WorkloadOK(wl', count') /\ HeldPackets(wl') = HeldPackets(wl)
      BY <1>2, <3>1, StageStartOK
    <3>3. pc' # "driver" /\ returned' \in {"none", "init", "stage"}
      BY <3>1
    <3>4. started' = TRUE /\ ending' \in BOOLEAN
      BY <2>2, <3>1
    <3> QED BY <3>1, <3>2, <3>3, <3>4
  <2> QED BY <2>1, <2>2
<1>5. HeldIds(wl') = HeldIds(wl) /\ Unsettled' = Unsettled
  <2>1. HeldIds(wl') = HeldIds(wl)
    BY <1>4 DEF HeldIds
  <2>2. HeldIds(wl') = Unread(wl') \cup Loaded(wl')
    BY <1>2, <1>3, <1>4, HeldSplit
  <2>3. Unsettled' = HeldIds(wl') \cup Ids(inflight)
    BY <1>2, <2>2 DEF Unsettled
  <2> QED BY <2>1, <2>3, InvariantFacts
<1>6. Types'
  <2>1. owed' \subseteq PacketId /\ info' \subseteq PacketId
    BY <1>1, InvariantFacts
  <2>2. started' \in BOOLEAN
    BY <1>4
  <2>3. pc' \in {"driver", "stage", "draining", "ended"}
    BY <1>4
  <2> QED BY <1>2, <1>3, <1>4, <2>1, <2>2, <2>3 DEF Types
<1>7. SourcesOK(wl', partial')
  BY <1>2, <1>3, <1>4 DEF SourcesOK
<1>8. Accounts(HeldIds(wl'), Ids(inflight'), settled', count')
  BY <1>2, <1>5 DEF IInv
<1>9. /\ AbsorbedOK(absorbed', partial', net') /\ FlitsOK(partial', net') /\ InFlightExact'
      /\ CopiesOK(generated', Ids(inflight') \cup settled', spawned', count')
  BY <1>2 DEF IInv, InFlightExact
<1>10. \A id \in GenIds(generated) : id - MaxPackets \in Ids(inflight) /\ id \in Nat
  BY <1>1, <1>3, InvariantFacts DEF CopiesFollow
<1>11. CopiesFollow'
  BY <1>2, <1>10 DEF CopiesFollow
<1>12. StageOK'
  <2> SUFFICES ASSUME pc' = "stage" PROVE StageOK'
    BY DEF StageOK
  <2>1. returned' = "stage"
    BY <1>4
  <2>2. Unsettled' \subseteq Due'
    BY <1>1, <1>5 DEF Due
  <2>3. GenIds(generated') \subseteq Due'
    <3> SUFFICES ASSUME NEW id \in GenIds(generated) PROVE id \in Due'
      BY <1>2
    <3>1. id - MaxPackets \in Unsettled /\ id = (id - MaxPackets) + MaxPackets
      BY <1>10, InvariantFacts
    <3> QED BY <1>1, <3>1 DEF Due
  <2>4. owed' # {} => Loaded(wl') \cup Ids(inflight') # {}
    BY <1>1, <1>2, <1>4, StageStartOK
  <2> QED BY <2>1, <2>2, <2>3, <2>4 DEF StageOK
<1>13. StageSettlesOne'
  BY <1>4 DEF StageSettlesOne
<1>14. NotStarted'
  BY <1>4 DEF NotStarted
<1> QED
  BY <1>4, <1>6, <1>7, <1>8, <1>9, <1>11, <1>12, <1>13, <1>14 DEF IInv

(* The end of a stage without an ejection keeps it. *)
LEMMA StageEndsStep ==
  ASSUME IInv, StageEnds
  PROVE  IInv'
<1>1. /\ pc = "stage" /\ (Completed \/ Expired)
      /\ info' = {} /\ pc' = IF ending THEN "draining" ELSE "driver"
      /\ UNCHANGED <<ending, started, count, netVars, simVars, owed, returned>>
  BY DEF StageEnds, Return
<1>2. /\ UNCHANGED <<ending, started, count, wl, partial, net, inflight, absorbed, generated>>
      /\ UNCHANGED <<spawned, clock, settled, owed, returned>>
  BY <1>1 DEF netVars, simVars
<1>3. pc' = "draining" \/ pc' = "driver"
  BY <1>1
<1>4. Types'
  <2>1. Types
    BY DEF IInv
  <2> QED BY <1>1, <1>2, <1>3, <2>1 DEF Types
<1>5. StageOK' /\ NotStarted' /\ CopiesFollow' /\ InFlightExact'
  <2>1. NotStarted /\ CopiesFollow /\ InFlightExact
    BY DEF IInv
  <2>2. StageOK'
    BY <1>3 DEF StageOK
  <2>3. NotStarted' /\ InFlightExact'
    BY <1>2, <2>1 DEF NotStarted, InFlightExact
  <2>4. CopiesFollow'
    BY <1>1, <1>2, <2>1 DEF CopiesFollow
  <2> QED BY <2>2, <2>3, <2>4
<1>6. StageSettlesOne'
  <2> SUFFICES ASSUME ~Expired' PROVE StageSettlesOne'
    BY DEF StageSettlesOne
  <2>1. Completed
    BY <1>1, <1>2 DEF Expired
  <2>2. WorkloadOK(wl, count) /\ count \in 0 .. MaxPackets
    BY InvariantFacts DEF IInv
  <2>3. Loaded(wl) = {} /\ Ids(inflight) = {}
    BY <2>1, <2>2, CompletedFacts, HeldSplit DEF Completed, Ids
  <2>4. owed # {} => Due \cap settled # {}
    BY <1>1, <2>3 DEF IInv, StageOK
  <2> QED BY <1>2, <2>4 DEF StageSettlesOne, Due
<1> QED
  BY <1>2, <1>4, <1>5, <1>6 DEF IInv

(* The end of the drain keeps it. *)
LEMMA DrainEndsStep ==
  ASSUME IInv, DrainEnds
  PROVE  IInv'
<1>1. /\ pc' = "ended" /\ pc = "draining"
      /\ UNCHANGED <<ending, started, count, netVars, simVars, callVars>>
  BY DEF DrainEnds
<1>2. /\ UNCHANGED <<ending, started, count, wl, partial, net, inflight, absorbed, generated>>
      /\ UNCHANGED <<spawned, clock, settled, info, owed, returned>>
  BY <1>1 DEF netVars, simVars, callVars
<1>3. Types'
  <2>1. Types
    BY DEF IInv
  <2> QED BY <1>1, <1>2, <2>1 DEF Types
<1>4. StageOK' /\ NotStarted' /\ CopiesFollow' /\ InFlightExact' /\ StageSettlesOne'
  BY <1>1, <1>2 DEF IInv, StageOK, NotStarted, CopiesFollow, InFlightExact, StageSettlesOne
<1> QED
  BY <1>2, <1>3, <1>4 DEF IInv

(* A cycle of the drain keeps it. *)
LEMMA DrainStepStep ==
  ASSUME IInv, DrainStep
  PROVE  IInv'
<1>1. PICK ejected \in SUBSET Ejectable,
           senders \in SUBSET {n \in Nodes : partial[n] # <<>>} :
      \E taken \in SUBSET Absorbable(net \ ejected) :
        /\ Network(partial, ejected, senders, taken, {})
        /\ inflight' = inflight \ ejected
        /\ absorbed' = absorbed \cup taken
        /\ settled' = settled \cup Ids({f \in ejected : IsTail(f)})
  BY DEF DrainStep
<1>2. PICK taken \in SUBSET Absorbable(net \ ejected) :
        /\ Network(partial, ejected, senders, taken, {})
        /\ inflight' = inflight \ ejected
        /\ absorbed' = absorbed \cup taken
        /\ settled' = settled \cup Ids({f \in ejected : IsTail(f)})
  BY <1>1
<1>3. pc = "draining" /\ inflight # {}
      /\ UNCHANGED <<pc, ending, started, count, generated, wl, clock, info, owed, returned>>
  BY DEF DrainStep, driverVars, callVars
<1> DEFINE tails  == {f \in ejected : IsTail(f)}
           live   == net \cup Queued(partial)
           after  == net' \cup Queued(partial')
<1>4. /\ net' = (net \ (ejected \cup taken)) \cup {Head(partial[n]) : n \in senders}
      /\ partial' = [n \in Nodes |-> IF n \in senders THEN Tail(partial[n]) ELSE partial[n]]
      /\ spawned' = spawned
  <2>1. Ids({}) = {}
    BY DEF Ids
  <2> QED BY <1>2, <2>1 DEF Network
<1>5. /\ ejected \subseteq net /\ \A f \in ejected, g \in net : g.pkt = f.pkt => f.i <= g.i
      /\ taken \subseteq net \ ejected /\ \A f \in taken : f.pkt.kind = "reduce"
  BY DEF Ejectable, Absorbable
<1>6. FlitsOK(partial, net) /\ AbsorbedOK(absorbed, partial, net)
  BY DEF IInv
<1>7. /\ FlitsOK(partial', net') /\ after = live \ (ejected \cup taken)
      /\ \A n \in Nodes : Range(partial'[n]) \subseteq Range(partial[n])
      /\ Ids(after) \cap (Ids(tails) \cup Ids(taken)) = {} /\ Ids(tails) \cap Ids(taken) = {}
      /\ Ids(live) \subseteq Ids(after) \cup Ids(tails) \cup Ids(taken)
      /\ Ids(after) \cup Ids(tails) \cup Ids(taken) \subseteq Ids(live)
  <2>1. Moves(partial, net, ejected, senders, taken, partial', net')
    BY <1>4, <1>5, <1>6 DEF Moves
  <2>2. Moved(partial, net, ejected, taken, partial', net')
    BY <2>1, MoveOK
  <2> QED BY <2>2 DEF Moved
<1> HIDE DEF after, tails, live
<1>8. /\ inflight = live \cup absorbed /\ live \cap absorbed = {} /\ live \subseteq AllFlits
      /\ Ids(inflight) = Ids(live) \cup Ids(absorbed) /\ Ids(live) \cap Ids(absorbed) = {}
  BY InvariantFacts DEF live
<1>9. ejected \subseteq live /\ taken \subseteq live \ ejected
  BY <1>5 DEF live
<1>10. inflight' = after \cup taken \cup absorbed
  BY <1>2, <1>7, <1>8, <1>9
<1>11. InFlightExact'
  BY <1>2, <1>10 DEF InFlightExact, after
<1>12. Ids(inflight') = Ids(after) \cup Ids(taken) \cup Ids(absorbed)
  <2>1. Ids(after \cup taken) = Ids(after) \cup Ids(taken)
    BY IdsUnion
  <2>2. Ids((after \cup taken) \cup absorbed) = Ids(after \cup taken) \cup Ids(absorbed)
    BY IdsUnion
  <2> QED BY <1>10, <2>1, <2>2
<1>13. Ids(absorbed') = Ids(absorbed) \cup Ids(taken)
  BY <1>2, IdsUnion
<1>14. AbsorbedOK(absorbed', partial', net')
  <2>1. absorbed' \subseteq AllFlits /\ \A f \in absorbed' : f.pkt.kind = "reduce"
    BY <1>2, <1>5, <1>6, <1>8, <1>9 DEF AbsorbedOK
  <2>2. Ids(absorbed') \cap Ids(after) = {}
    BY <1>7, <1>8, <1>13
  <2> QED BY <2>1, <2>2 DEF AbsorbedOK, after
<1>15. settled' = settled \cup Ids(tails)
  BY <1>2 DEF tails
<1>16. Accounts(HeldIds(wl'), Ids(inflight'), settled', count')
  <2>1. Accounts(HeldIds(wl), Ids(live) \cup Ids(absorbed), settled, count)
    BY <1>8 DEF IInv
  <2> QED BY <1>3, <1>7, <1>8, <1>12, <1>15, <2>1 DEF Accounts
<1>17. Ids(inflight') \cup settled' \subseteq Ids(inflight) \cup settled
  BY <1>7, <1>8, <1>12, <1>15
<1>18. CopiesOK(generated', Ids(inflight') \cup settled', spawned', count')
  <2>1. CopiesOK(generated, Ids(inflight) \cup settled, spawned, count)
    BY DEF IInv
  <2> QED BY <1>3, <1>4, <1>17, <2>1 DEF CopiesOK
<1>19. Types'
  <2>1. Types /\ Ids(inflight) \subseteq PacketId
    BY InvariantFacts, IdsTypes DEF IInv
  <2>2. settled' \subseteq PacketId
    BY <1>17, <2>1 DEF Types
  <2> QED BY <1>3, <2>1, <2>2 DEF Types
<1>20. SourcesOK(wl', partial')
  BY <1>3, <1>7 DEF SourcesOK, IInv
<1>21. StageOK' /\ CopiesFollow' /\ StageSettlesOne'
  BY <1>3 DEF StageOK, CopiesFollow, StageSettlesOne
<1>22. NotStarted'
  BY <1>3 DEF NotStarted, IInv
<1>23. WorkloadOK(wl', count')
  BY <1>3 DEF IInv
<1> QED
  BY <1>7, <1>11, <1>14, <1>16, <1>18, <1>19, <1>20, <1>21, <1>22, <1>23 DEF IInv

(* Before the network moves in a cycle, copies and packets join the queues.*)
LEMMA QueuesFilled ==
  ASSUME IInv
  PROVE  LET arrived == [n \in Nodes |-> partial[n] \o CopiesFrom(n)]
             go      == Starting(wl, arrived)
             parts   == [n \in Nodes |-> IF n \in go THEN FlitsOf(Head(wl.ready[n]))
                                         ELSE arrived[n]]
             heads   == {Head(wl.ready[n]).id : n \in go}
             v       == AdvanceTime(Started(wl, arrived))
         IN  /\ FlitsOK(parts, net) /\ Queued(partial) \subseteq Queued(parts)
             /\ Ids(net \cup Queued(parts)) =
                  Ids(net \cup Queued(partial)) \cup GenIds(generated) \cup heads
             /\ heads \subseteq HeldIds(wl)
             /\ WorkloadOK(v, count) /\ HeldIds(v) = HeldIds(wl) \ heads
             /\ \A p \in Waiting(wl) : p \in Waiting(v) \/ p.id \in heads
             /\ SourcesOK(v, parts)
             /\ wl.next = NoPacket => v.fifo = wl.fifo
<1> DEFINE live    == net \cup Queued(partial)
           extra   == [n \in Nodes |-> CopiesFrom(n)]
           arrived == [n \in Nodes |-> partial[n] \o CopiesFrom(n)]
           go      == Starting(wl, arrived)
           first   == [n \in Nodes |-> Head(wl.ready[n])]
           parts   == [n \in Nodes |-> IF n \in go THEN FlitsOf(Head(wl.ready[n]))
                                       ELSE arrived[n]]
           heads   == {Head(wl.ready[n]).id : n \in go}
           u       == Started(wl, arrived)
           v       == AdvanceTime(u)
<1>1. /\ WorkloadOK(wl, count) /\ FlitsOK(partial, net) /\ SourcesOK(wl, partial)
      /\ CopiesOK(generated, Ids(inflight) \cup settled, spawned, count)
      /\ Accounts(HeldIds(wl), Ids(inflight), settled, count)
      /\ count \in Nat /\ count \in 0 .. MaxPackets
  BY InvariantFacts DEF IInv
<1>2. /\ GenIds(generated) \cap (HeldIds(wl) \cup Ids(inflight)) = {}
      /\ Ids(live) \subseteq Ids(inflight) /\ HeldIds(wl) \cap Ids(inflight) = {}
  BY <1>1, InvariantFacts DEF Accounts
<1>3. /\ extra \in [Nodes -> Seq(AllFlits)] /\ \A n \in Nodes : Distinct(extra[n])
      /\ \A n \in Nodes : \A f \in Range(extra[n]) :
           /\ f.pkt \in Range(generated) /\ f.pkt \in Copies /\ f.pkt.src = n
           /\ f = [pkt |-> f.pkt, i |-> 1]
      /\ Ids(Queued(extra)) = GenIds(generated)
  BY <1>1, CopiesFromFacts
<1>4. \A p, q \in Range(generated) : p.id = q.id => p = q
  BY <1>1 DEF CopiesOK, Range
<1>5. \A p \in Range(generated) : p.id \in GenIds(generated)
  BY DEF GenIds
<1>6. arrived = [n \in Nodes |-> partial[n] \o extra[n]]
  OBVIOUS
<1> HIDE DEF extra, live
<1>7. Arrives(partial, net, extra, arrived)
  <2>1. \A n \in Nodes : \A f \in Range(extra[n]) :
          /\ f.pkt \in Copies /\ f.pkt.src = n
          /\ f.pkt.id \notin Ids(net \cup Queued(partial))
    BY <1>2, <1>3, <1>5 DEF live
  <2>2. ASSUME NEW n \in Nodes, NEW m \in Nodes,
               NEW f \in Range(extra[n]), NEW g \in Range(extra[m]), f.pkt.id = g.pkt.id
        PROVE  f = g
    <3>1. f.pkt = g.pkt
      BY <1>3, <1>4, <2>2
    <3> QED BY <1>3, <3>1
  <2> HIDE DEF arrived
  <2> QED BY <1>1, <1>3, <1>6, <2>1, <2>2 DEF Arrives
<1> HIDE DEF arrived
<1>8. /\ FlitsOK(arrived, net)
      /\ Queued(arrived) = Queued(partial) \cup Queued(extra)
      /\ \A n \in Nodes : Range(arrived[n]) = Range(partial[n]) \cup Range(extra[n])
  BY <1>7, ArriveOK
<1>9. Ids(net \cup Queued(arrived)) = Ids(live) \cup GenIds(generated)
  <2>1. net \cup Queued(arrived) = live \cup Queued(extra)
    BY <1>8 DEF live
  <2> QED BY <1>3, <2>1, IdsUnion
<1>10. /\ WorkloadOK(u, count) /\ u.fifo = wl.fifo /\ u.next = wl.next
       /\ HeldPackets(u) = HeldPackets(wl) \ {Head(wl.ready[n]) : n \in go}
       /\ \A n \in go :
            /\ n \in Nodes /\ wl.ready[n] # <<>> /\ arrived[n] = <<>>
            /\ Head(wl.ready[n]) \in AllPackets /\ Head(wl.ready[n]) \in HeldPackets(wl)
            /\ Head(wl.ready[n]).src = n
            /\ \A p \in HeldPackets(u) : p.src = n => Head(wl.ready[n]).id < p.id
  BY <1>1, StartedOK
<1> HIDE DEF go, u
<1>11. /\ WorkloadOK(v, count) /\ HeldPackets(v) = HeldPackets(u)
       /\ Waiting(u) \subseteq Waiting(v)
       /\ u.next = NoPacket => v.fifo = u.fifo
  BY <1>1, <1>10, AdvanceOK
<1> HIDE DEF v
<1>12. heads \subseteq HeldIds(wl)
  BY <1>10 DEF HeldIds
<1>13. HeldIds(v) = HeldIds(wl) \ heads
  <2>1. HeldIds(v) = {p.id : p \in HeldPackets(u)}
    BY <1>11 DEF HeldIds
  <2>2. \A p \in HeldPackets(u) : p \in HeldPackets(wl) /\ p.id \notin heads
    <3> SUFFICES ASSUME NEW p \in HeldPackets(u), p.id \in heads PROVE FALSE
      BY <1>10
    <3>1. PICK n \in go : p.id = Head(wl.ready[n]).id
      OBVIOUS
    <3>2. p = Head(wl.ready[n])
      BY <1>1, <1>10, <3>1, HeldById
    <3> QED BY <1>10, <3>2
  <2>3. \A p \in HeldPackets(wl) : p.id \notin heads => p \in HeldPackets(u)
    BY <1>10
  <2> HIDE DEF heads
  <2> QED BY <2>1, <2>2, <2>3 DEF HeldIds
<1>14. Starts(arrived, net, go, first, parts)
  <2>1. go \subseteq Nodes /\ \A n \in go : first[n] = Head(wl.ready[n])
    BY <1>10
  <2>2. \A n \in go : first[n].id \notin Ids(net \cup Queued(arrived))
    <3> TAKE n \in go
    <3>1. first[n].id \in HeldIds(wl)
      BY <1>10, <2>1 DEF HeldIds
    <3> QED BY <1>2, <1>9, <3>1
  <2>3. \A n, m \in go : first[n].id = first[m].id => first[n] = first[m]
    BY <1>1, <1>10, <2>1, HeldById
  <2>4. parts = [n \in Nodes |-> IF n \in go THEN FlitsOf(first[n]) ELSE arrived[n]]
    BY <2>1
  <2> HIDE DEF first, parts
  <2> QED BY <1>8, <1>10, <2>1, <2>2, <2>3, <2>4 DEF Starts
<1>15. \A n \in Nodes : n \notin go => parts[n] = arrived[n]
  OBVIOUS
<1> HIDE DEF parts
<1>16. /\ FlitsOK(parts, net) /\ Queued(arrived) \subseteq Queued(parts)
       /\ Ids(Queued(parts)) = Ids(Queued(arrived)) \cup {first[n].id : n \in go}
       /\ \A n \in go : \A f \in Range(parts[n]) : f.pkt = first[n]
  BY <1>14, StartOK
<1>17. {first[n].id : n \in go} = heads /\ \A n \in go : first[n] = Head(wl.ready[n])
  <2>1. \A n \in go : first[n] = Head(wl.ready[n])
    BY <1>10
  <2> HIDE DEF first
  <2> QED BY <2>1
<1> HIDE DEF first, heads
<1>18. Ids(net \cup Queued(parts)) = Ids(live) \cup GenIds(generated) \cup heads
  <2>1. Ids(net \cup Queued(parts)) = Ids(net) \cup Ids(Queued(parts))
    BY IdsUnion
  <2>2. Ids(net \cup Queued(arrived)) = Ids(net) \cup Ids(Queued(arrived))
    BY IdsUnion
  <2> QED BY <1>9, <1>16, <1>17, <2>1, <2>2
<1>19. Queued(partial) \subseteq Queued(parts)
  BY <1>8, <1>16
<1>20. \A p \in Waiting(wl) : p \in Waiting(v) \/ p.id \in heads
  <2> SUFFICES ASSUME NEW p \in Waiting(wl), p \notin Waiting(u) PROVE p.id \in heads
    BY <1>11
  <2>1. p \in HeldPackets(wl) /\ p \notin Range(wl.fifo)
    BY <1>1, HeldSplit DEF HeldPackets
  <2>2. p \notin HeldPackets(u)
    BY <1>10, <2>1 DEF HeldPackets
  <2> QED BY <1>10, <2>1, <2>2 DEF heads
<1>21. SourcesOK(v, parts)
  <2> SUFFICES ASSUME NEW n \in Nodes, NEW f \in Range(parts[n]), NEW p \in HeldPackets(u),
                      p.src = n, f.pkt.id <= MaxPackets
               PROVE  f.pkt.id < p.id
    BY <1>11 DEF SourcesOK
  <2>1. CASE n \in go
    BY <1>10, <1>16, <1>17, <2>1
  <2>2. CASE n \notin go
    <3>1. f \in Range(partial[n]) \/ f \in Range(extra[n])
      BY <1>8, <1>15, <2>2
    <3>2. CASE f \in Range(extra[n])
      <4>1. f.pkt.id > MaxPackets /\ f.pkt.id \in Nat /\ MaxPackets \in Nat
        BY <1>3, <3>2, CopyFacts, RequestAssumption
      <4> QED BY <4>1
    <3>3. CASE f \in Range(partial[n])
      BY <1>1, <1>10, <3>3 DEF SourcesOK
    <3> QED BY <3>1, <3>2, <3>3
  <2> QED BY <2>1, <2>2
<1> QED
  BY <1>10, <1>11, <1>12, <1>13, <1>16, <1>18, <1>19, <1>20, <1>21
     DEF live, arrived, go, parts, heads, u, v

(* A cycle of a stage keeps it. *)
LEMMA StepSimStep ==
  ASSUME IInv, StepSim
  PROVE  IInv'
<1> DEFINE arrived == [n \in Nodes |-> partial[n] \o CopiesFrom(n)]
           go      == Starting(wl, arrived)
           parts   == [n \in Nodes |-> IF n \in go THEN FlitsOf(Head(wl.ready[n]))
                                       ELSE arrived[n]]
           heads   == {Head(wl.ready[n]).id : n \in go}
           v       == AdvanceTime(Started(wl, arrived))
           live    == net \cup Queued(partial)
           before  == net \cup Queued(parts)
           after   == net' \cup Queued(partial')
           gen     == GenIds(generated)
<1>1. /\ pc = "stage" /\ ~Completed
      /\ wl' = v
      /\ clock' = IF TimeLimit >= 0 THEN clock + 1 ELSE clock
      /\ UNCHANGED <<ending, started, count, owed, returned>>
  BY DEF StepSim
<1>2. PICK ejected, senders, taken, copying, at :
      LET tails == {f \in ejected : IsTail(f)} IN
      /\ ejected \in SUBSET Ejectable
      /\ senders \in SUBSET {n \in Nodes : parts[n] # <<>>}
      /\ taken \in SUBSET Absorbable(net \ ejected)
      /\ copying \in SUBSET Copying(net \ ejected) /\ at \in [copying -> Nodes]
      /\ Network(parts, ejected, senders, taken, copying)
      /\ inflight' = (InFlightAfterMerge \cup Queued(parts)) \ ejected
      /\ absorbed' = taken
      /\ generated' = SetToSeq({CopyOf(f, at[f]) : f \in copying})
      /\ settled' = settled \cup Ids(tails) \cup Ids(inflight \ InFlightAfterMerge)
      /\ IF tails # {} THEN Return(Ids(tails)) ELSE UNCHANGED <<pc, info>>
  <2> HIDE DEF arrived
  <2> QED BY DEF StepSim, arrived
<1> DEFINE tails == {f \in ejected : IsTail(f)}
<1>3. /\ FlitsOK(parts, net) /\ Queued(partial) \subseteq Queued(parts)
      /\ Ids(before) = Ids(live) \cup gen \cup heads /\ heads \subseteq HeldIds(wl)
      /\ WorkloadOK(v, count) /\ HeldIds(v) = HeldIds(wl) \ heads
      /\ \A p \in Waiting(wl) : p \in Waiting(v) \/ p.id \in heads
      /\ SourcesOK(v, parts)
  BY QueuesFilled
<1> HIDE DEF v, parts, heads
<1>4. /\ net' = (net \ (ejected \cup taken)) \cup {Head(parts[n]) : n \in senders}
      /\ partial' = [n \in Nodes |-> IF n \in senders THEN Tail(parts[n]) ELSE parts[n]]
      /\ spawned' = spawned \cup Ids(copying)
  BY <1>2 DEF Network
<1>5. /\ inflight' = (InFlightAfterMerge \cup Queued(parts)) \ ejected
      /\ absorbed' = taken
      /\ generated' = SetToSeq({CopyOf(f, at[f]) : f \in copying})
      /\ settled' = settled \cup Ids(tails) \cup Ids(inflight \ InFlightAfterMerge)
      /\ IF tails # {} THEN Return(Ids(tails)) ELSE UNCHANGED <<pc, info>>
      /\ senders \subseteq {n \in Nodes : parts[n] # <<>>} /\ at \in [copying -> Nodes]
  BY <1>2
<1>6. /\ ejected \subseteq net /\ \A f \in ejected, g \in net : g.pkt = f.pkt => f.i <= g.i
      /\ taken \subseteq net \ ejected /\ \A f \in taken : f.pkt.kind = "reduce"
      /\ copying \subseteq net \ ejected
      /\ \A f \in copying : f.pkt.kind = "broadcast" /\ f.pkt.id \notin spawned
  BY <1>2 DEF Ejectable, Absorbable, Copying
<1>7. Moved(parts, net, ejected, taken, partial', net')
  <2>1. Moves(parts, net, ejected, senders, taken, partial', net')
    BY <1>3, <1>4, <1>5, <1>6 DEF Moves
  <2> QED BY <2>1, MoveOK
<1>8. /\ FlitsOK(partial', net') /\ after = before \ (ejected \cup taken)
      /\ \A n \in Nodes : Range(partial'[n]) \subseteq Range(parts[n])
      /\ Ids(after) \cap (Ids(tails) \cup Ids(taken)) = {} /\ Ids(tails) \cap Ids(taken) = {}
      /\ Ids(before) \subseteq Ids(after) \cup Ids(tails) \cup Ids(taken)
      /\ Ids(after) \cup Ids(tails) \cup Ids(taken) \subseteq Ids(before)
  BY <1>7 DEF Moved
<1> HIDE DEF after, tails, live, before, gen
<1>9. /\ inflight = live \cup absorbed /\ live \cap absorbed = {} /\ live \subseteq AllFlits
      /\ Ids(inflight) = Ids(live) \cup Ids(absorbed) /\ Ids(live) \cap Ids(absorbed) = {}
      /\ count \in 0 .. MaxPackets /\ MaxPackets \in Nat /\ HeldIds(wl) \subseteq 1 .. count
      /\ Unsettled = HeldIds(wl) \cup Ids(inflight) /\ Unsettled \subseteq PacketId
      /\ gen \cap (HeldIds(wl) \cup Ids(inflight) \cup settled) = {}
  BY InvariantFacts DEF live, gen
<1>10. InFlightAfterMerge = live /\ inflight \ InFlightAfterMerge = absorbed
  BY <1>9 DEF InFlightAfterMerge
<1>11. before = live \cup Queued(parts) /\ ejected \subseteq before /\ taken \subseteq before \ ejected
  BY <1>3, <1>6 DEF live, before
<1>12. inflight' = after \cup taken /\ inflight' = before \ ejected
  BY <1>5, <1>8, <1>10, <1>11
<1>13. InFlightExact'
  BY <1>5, <1>12 DEF InFlightExact, after
<1>14. Ids(inflight') = Ids(after) \cup Ids(taken)
  BY <1>12, IdsUnion
<1>15. AbsorbedOK(absorbed', partial', net')
  <2>1. net \subseteq AllFlits
    BY <1>3 DEF FlitsOK
  <2> QED BY <1>5, <1>6, <1>8, <2>1 DEF AbsorbedOK, after
<1>16. settled' = settled \cup Ids(tails) \cup Ids(absorbed)
  BY <1>5, <1>10
<1>17. Accounts(HeldIds(wl'), Ids(inflight'), settled', count')
  <2>1. Accounts(HeldIds(wl), Ids(live) \cup Ids(absorbed), settled, count)
    BY <1>9 DEF IInv
  <2>2. Ids(inflight') \cup Ids(tails) = Ids(live) \cup gen \cup heads
    BY <1>3, <1>8, <1>14
  <2>3. Ids(inflight') \cap Ids(tails) = {}
    BY <1>8, <1>14
  <2>4. gen \cap (HeldIds(wl) \cup Ids(live) \cup Ids(absorbed) \cup settled) = {}
    BY <1>9
  <2>5. Accounts(HeldIds(wl) \ heads, Ids(inflight'), settled \cup Ids(tails) \cup Ids(absorbed), count)
    BY <1>3, <1>9, <2>1, <2>2, <2>3, <2>4, AccountsMove
  <2> QED BY <1>1, <1>3, <1>16, <2>5
<1>18. Ids(inflight') \cup settled' \subseteq gen \cup heads \cup Ids(inflight) \cup settled
  BY <1>3, <1>8, <1>9, <1>14, <1>16
<1>19. CopiesOK(generated, Ids(inflight) \cup settled, spawned, count) /\ CopiesFollow
  BY DEF IInv
<1>20. /\ CopiesOK(generated', Ids(inflight') \cup settled', spawned', count')
       /\ GenIds(generated') \subseteq {id + MaxPackets : id \in Ids(copying)}
       /\ Ids(copying) \subseteq 1 .. MaxPackets
  <2>1. net \subseteq AllFlits /\ IsFiniteSet(net) /\ OnePacketPerId(net)
    BY <1>3 DEF FlitsOK, OnePacketPerId
  <2>2. spawned \subseteq 1 .. MaxPackets
    BY <1>19 DEF CopiesOK
  <2>3. \A id \in gen \cup heads \cup Ids(inflight) \cup settled : Known(id, spawned, count)
    <3>1. \A id \in heads : id <= count
      BY <1>3, <1>9
    <3> QED BY <1>19, <3>1 DEF CopiesOK, Known, gen
  <2>4. \A id \in Ids(inflight') \cup settled' : Known(id, spawned, count)
    BY <1>18, <2>3
  <2>5. copying \in SUBSET net
    BY <1>6
  <2> DEFINE sent == Ids(inflight') \cup settled'
  <2>6. CopiesMade(net, spawned, count, copying, at, sent, generated')
    BY <1>5, <1>6, <1>9, <2>1, <2>2, <2>4, <2>5 DEF CopiesMade
  <2> HIDE DEF sent
  <2>7. /\ CopiesOK(generated', sent, spawned \cup Ids(copying), count)
        /\ GenIds(generated') \subseteq {id + MaxPackets : id \in Ids(copying)}
        /\ Ids(copying) \subseteq 1 .. MaxPackets
    BY <2>6, CopiesSent
  <2> QED BY <1>1, <1>4, <2>7 DEF sent
<1>21. Ids(copying) \subseteq Ids(inflight') /\ Ids(copying) \subseteq Ids(live)
  <2>1. copying \subseteq inflight' /\ copying \subseteq live
    BY <1>6, <1>12 DEF live, before
  <2> QED BY <2>1, IdsUnion
<1>22. \A id \in GenIds(generated') : id - MaxPackets \in Ids(copying)
  <2> SUFFICES ASSUME NEW o \in Ids(copying) PROVE (o + MaxPackets) - MaxPackets = o
    BY <1>20
  <2> QED BY <1>9, <1>20
<1>23. CopiesFollow'
  BY <1>21, <1>22 DEF CopiesFollow
<1>24. (pc' = "stage" \/ pc' = "draining" \/ pc' = "driver") /\ info' \subseteq PacketId
       /\ (pc' = "driver" => tails # {})
  <2>1. tails \subseteq AllFlits /\ IInv
    BY <1>3, <1>6 DEF tails, FlitsOK
  <2>2. Ids(tails) \subseteq PacketId /\ info \subseteq PacketId
    BY <2>1, IdsTypes DEF IInv, Types
  <2>3. CASE tails # {}
    BY <1>5, <2>2, <2>3 DEF Return
  <2>4. CASE tails = {}
    BY <1>1, <1>5, <2>2, <2>4
  <2> QED BY <2>3, <2>4
<1>25. Types'
  <2>1. Types
    BY DEF IInv
  <2>2. settled' \subseteq PacketId
    <3>1. absorbed \subseteq AllFlits /\ tails \subseteq AllFlits
      BY <1>3, <1>6 DEF IInv, AbsorbedOK, tails, FlitsOK
    <3> QED BY <1>16, <2>1, <3>1, IdsTypes DEF Types
  <2>3. clock' \in Nat
    BY <1>1, <2>1 DEF Types
  <2> QED BY <1>1, <1>24, <2>1, <2>2, <2>3 DEF Types
<1>26. SourcesOK(wl', partial')
  BY <1>1, <1>3, <1>8 DEF SourcesOK
<1>27. NotStarted'
  <2>1. started
    <3> SUFFICES ASSUME ~started PROVE Completed
      BY <1>1
    <3>1. wl = [EmptyWorkload EXCEPT !.fifo = wl.fifo] /\ inflight = {}
      BY DEF IInv, NotStarted
    <3>2. wl.pending = <<>> /\ wl.deferred = <<>> /\ wl.next = NoPacket
      BY <3>1 DEF EmptyWorkload
    <3> QED BY <3>1, <3>2 DEF Completed, WorkloadCompleted
  <2> QED BY <1>1, <2>1 DEF NotStarted
<1>28. StageOK' /\ StageSettlesOne'
  <2>1. /\ returned = "stage" /\ Unsettled \cup gen \subseteq Due
        /\ owed # {} => Due \cap settled # {} \/ Loaded(wl) \cup Ids(inflight) # {}
    BY <1>1 DEF IInv, StageOK, gen
  <2>2. Due' = Due /\ owed' = owed /\ returned' = "stage"
    BY <1>1, <2>1 DEF Due
  <2>3. Ids(before) \subseteq Due /\ Ids(absorbed) \subseteq Due
    BY <1>3, <1>9, <2>1
  <2>4. WorkloadOK(wl, count) /\ WorkloadOK(wl', count)
    BY <1>1, <1>3 DEF IInv
  <2>5. Unsettled' = HeldIds(wl') \cup Ids(inflight')
    <3>1. HeldIds(wl') = Unread(wl') \cup Loaded(wl')
      BY <1>9, <2>4, HeldSplit
    <3> QED BY <3>1 DEF Unsettled
  <2>6. Unsettled' \subseteq Due
    BY <1>1, <1>3, <1>8, <1>9, <1>14, <2>1, <2>3, <2>5
  <2>7. GenIds(generated') \subseteq Due
    <3> SUFFICES ASSUME NEW o \in Ids(copying) PROVE o + MaxPackets \in Due
      BY <1>20
    <3>1. o \in Due /\ o \in 1 .. MaxPackets
      BY <1>9, <1>20, <1>21, <2>1
    <3>2. \A id \in owed : id + MaxPackets # o
      <4>1. owed \subseteq PacketId
        BY DEF IInv, Types
      <4> QED BY <1>9, <3>1, <4>1 DEF PacketId
    <3>3. o \in owed
      BY <3>1, <3>2 DEF Due
    <3> QED BY <3>3 DEF Due
  <2>8. Ids(tails) \subseteq Due /\ Ids(tails) \subseteq settled'
    BY <1>8, <1>16, <2>3
  <2>9. Ids(before) # {} => Due \cap settled' # {} \/ Ids(inflight') # {}
    BY <1>8, <1>14, <2>8
  <2>10. ASSUME owed # {}
         PROVE  Due \cap settled' # {} \/ Loaded(wl') \cup Ids(inflight') # {}
    <3>1. CASE Due \cap settled # {}
      BY <1>16, <3>1
    <3>2. CASE Ids(absorbed) # {}
      BY <1>16, <2>3, <3>2
    <3>3. CASE Ids(live) # {}
      BY <1>3, <2>9, <3>3
    <3>4. CASE Loaded(wl) # {}
      <4>1. PICK p \in Waiting(wl) : TRUE
        BY <1>9, <2>4, <3>4, HeldSplit
      <4>2. p.id \in heads => Ids(before) # {}
        BY <1>3
      <4>3. p \in Waiting(wl') => Loaded(wl') # {}
        BY <1>9, <2>4, HeldSplit
      <4> QED BY <1>1, <1>3, <2>9, <4>2, <4>3
    <3> QED BY <1>9, <2>1, <2>10, <3>1, <3>2, <3>3, <3>4
  <2>11. pc' = "driver" => Due \cap settled' # {}
    <3>1. tails # {} => Ids(tails) # {}
      BY DEF Ids
    <3> QED BY <1>24, <2>8, <3>1
  <2>12. StageOK'
    BY <2>2, <2>6, <2>7, <2>10 DEF StageOK
  <2>13. StageSettlesOne'
    BY <2>2, <2>11 DEF StageSettlesOne, Due
  <2> QED BY <2>12, <2>13
<1>29. WorkloadOK(wl', count')
  BY <1>1, <1>3
<1> QED
  BY <1>8, <1>13, <1>15, <1>17, <1>20, <1>23, <1>25, <1>26, <1>27, <1>28, <1>29 DEF IInv

-----------------------------------------------------------------------------
(* What follows from the invariant.                                        *)

(* The order in which a source sends the packets injected at it.           *)
OfSource(p, n) == p.src = n /\ p.id <= MaxPackets

Ordered(s, n) ==
  \A i, j \in DOMAIN s :
    i < j /\ OfSource(s[i], n) /\ OfSource(s[j], n) => s[i].id <= s[j].id

(* Sequences in order, the first before the second. *)
LEMMA OrderedConcat ==
  ASSUME NEW A, NEW s \in Seq(A), NEW t \in Seq(A), NEW n, Ordered(s, n), Ordered(t, n),
         \A p \in Range(s), q \in Range(t) : OfSource(p, n) /\ OfSource(q, n) => p.id <= q.id
  PROVE  /\ Ordered(s \o t, n) /\ s \o t \in Seq(A)
         /\ Range(s \o t) = Range(s) \cup Range(t)
<1>1. /\ Len(s) \in Nat /\ Len(t) \in Nat /\ DOMAIN s = 1 .. Len(s) /\ DOMAIN t = 1 .. Len(t)
      /\ DOMAIN (s \o t) = 1 .. Len(s) + Len(t)
      /\ \A i \in 1 .. Len(s) : (s \o t)[i] = s[i]
      /\ \A i \in 1 .. Len(t) : (s \o t)[Len(s) + i] = t[i]
      /\ s \o t \in Seq(A) /\ Range(s \o t) = Range(s) \cup Range(t)
  BY ConcatFacts, LenProperties
<1>2. ASSUME NEW i \in 1 .. Len(s) + Len(t), NEW j \in 1 .. Len(s) + Len(t), i < j,
             OfSource((s \o t)[i], n), OfSource((s \o t)[j], n)
      PROVE  (s \o t)[i].id <= (s \o t)[j].id
  <2>1. CASE j <= Len(s)
    <3>1. i \in 1 .. Len(s) /\ j \in 1 .. Len(s)
      BY <1>1, <1>2, <2>1
    <3>2. (s \o t)[i] = s[i] /\ (s \o t)[j] = s[j]
      BY <1>1, <3>1
    <3> QED BY <1>1, <1>2, <3>1, <3>2 DEF Ordered
  <2>2. CASE j > Len(s) /\ i <= Len(s)
    <3>1. i \in 1 .. Len(s) /\ j - Len(s) \in 1 .. Len(t) /\ j = Len(s) + (j - Len(s))
      BY <1>1, <2>2
    <3>2. (s \o t)[i] = s[i] /\ (s \o t)[j] = t[j - Len(s)]
      BY <1>1, <3>1
    <3>3. s[i] \in Range(s) /\ t[j - Len(s)] \in Range(t)
      BY <1>1, <3>1 DEF Range
    <3> QED BY <1>2, <3>2, <3>3
  <2>3. CASE j > Len(s) /\ i > Len(s)
    <3>1. /\ i - Len(s) \in 1 .. Len(t) /\ i = Len(s) + (i - Len(s))
          /\ j - Len(s) \in 1 .. Len(t) /\ j = Len(s) + (j - Len(s))
          /\ i - Len(s) < j - Len(s)
      BY <1>1, <1>2, <2>3
    <3>2. (s \o t)[i] = t[i - Len(s)] /\ (s \o t)[j] = t[j - Len(s)]
      BY <1>1, <3>1
    <3> QED BY <1>1, <1>2, <3>1, <3>2 DEF Ordered
  <2> QED BY <1>1, <1>2, <2>1, <2>2, <2>3
<1> QED
  BY <1>1, <1>2 DEF Ordered

(* What a source has still to send is in order. *)
LEMMA SourcesInOrder ==
  ASSUME IInv
  PROVE  SourceOrder
<1> SUFFICES ASSUME NEW n \in Nodes PROVE Ordered(LineOf(n), n)
  BY DEF SourceOrder, Ordered, OfSource
<1> DEFINE P == AllPackets \cup Copies
           a == [k \in DOMAIN partial[n] |-> partial[n][k].pkt]
           b == wl.ready[n]
           c == IF wl.next = NoPacket THEN <<>> ELSE <<wl.next>>
           d == wl.fifo
<1>1. /\ WorkloadOK(wl, count) /\ SourcesOK(wl, partial) /\ QueueOK(n, partial[n])
      /\ partial[n] \in Seq(AllFlits)
  BY DEF IInv, FlitsOK
<1>2. /\ b \in Seq(AllPackets) /\ d \in Seq(AllPackets)
      /\ wl.next \in AllPackets \cup {NoPacket} /\ HeldPackets(wl) \subseteq AllPackets
  BY <1>1, WorkloadFields, WaitingPackets DEF WorkloadOK
<1>3. /\ Rising(d) /\ Rising(b)
      /\ \A p \in Waiting(wl), q \in Range(d) : p.id < q.id
      /\ wl.next # NoPacket => \A p \in ReadyPackets(wl) : p.id < wl.next.id
  BY <1>1 DEF WorkloadOK, OrderOK
<1>4. /\ Range(b) \subseteq Waiting(wl) /\ Range(b) \subseteq ReadyPackets(wl)
      /\ Waiting(wl) \subseteq HeldPackets(wl) /\ Range(d) \subseteq HeldPackets(wl)
      /\ wl.next # NoPacket => wl.next \in Waiting(wl)
  BY DEF HeldPackets, Waiting, ReadyPackets
<1>5. \A p \in P : p.id \in Nat
  BY PacketFacts, CopyFacts
<1>6. a \in Seq(P) /\ Ordered(a, n)
      /\ \A p \in Range(a) : OfSource(p, n) => \A q \in HeldPackets(wl) : q.src = n => p.id < q.id
  <2>1. /\ Len(partial[n]) \in Nat /\ DOMAIN partial[n] = 1 .. Len(partial[n])
        /\ \A k \in 1 .. Len(partial[n]) : partial[n][k] \in AllFlits
    BY <1>1, LenProperties, ElementOfSeq
  <2>2. \A k \in 1 .. Len(partial[n]) : a[k] = partial[n][k].pkt /\ a[k] \in P
    BY <2>1, FlitFacts
  <2>3. DOMAIN a = 1 .. Len(partial[n]) /\ a = [k \in 1 .. Len(partial[n]) |-> a[k]]
    BY <2>1
  <2> HIDE DEF a, P
  <2>4. a \in Seq(P)
    <3>1. a \in [1 .. Len(partial[n]) -> P]
      BY <2>2, <2>3
    <3> QED BY <2>1, <3>1, IsASeq
  <2>5. \A k \in 1 .. Len(partial[n]) : partial[n][k] \in Range(partial[n])
    BY <2>1 DEF Range
  <2>6. ASSUME NEW i \in DOMAIN a, NEW j \in DOMAIN a, OfSource(a[i], n), OfSource(a[j], n)
        PROVE  a[i].id <= a[j].id
    <3>1. a[i] = a[j]
      BY <1>1, <2>2, <2>3, <2>5, <2>6 DEF QueueOK, OfSource
    <3>2. a[i] \in P
      BY <2>2, <2>3
    <3>3. a[i].id \in Nat /\ a[j].id = a[i].id
      BY <1>5, <3>1, <3>2
    <3> QED BY <3>3
  <2>7. Ordered(a, n)
    BY <2>6 DEF Ordered
  <2>8. ASSUME NEW p \in Range(a), OfSource(p, n), NEW q \in HeldPackets(wl), q.src = n
        PROVE  p.id < q.id
    <3>1. PICK k \in 1 .. Len(partial[n]) : p = partial[n][k].pkt
      BY <2>2, <2>3 DEF Range
    <3> QED BY <1>1, <2>5, <2>8, <3>1 DEF SourcesOK, OfSource
  <2> QED BY <2>4, <2>7, <2>8
<1>7. ASSUME NEW s \in Seq(AllPackets), Rising(s)
      PROVE  Ordered(s, n) /\ s \in Seq(P)
  <2>1. /\ DOMAIN s = 1 .. Len(s) /\ Len(s) \in Nat
        /\ \A i \in DOMAIN s : s[i] \in AllPackets /\ s[i] \in P /\ s[i].id \in Nat
    BY <1>5, LenProperties, ElementOfSeq
  <2>2. s = [k \in 1 .. Len(s) |-> s[k]]
    BY <2>1
  <2> HIDE DEF P
  <2>3. s \in [1 .. Len(s) -> P]
    BY <2>1, <2>2
  <2>4. s \in Seq(P)
    BY <2>1, <2>3, IsASeq
  <2>5. Ordered(s, n)
    BY <1>7, <2>1 DEF Rising, Ordered
  <2> QED BY <2>4, <2>5
<1>8. c \in Seq(P) /\ Ordered(c, n) /\ \A p \in Range(c) : wl.next # NoPacket /\ p = wl.next
  <2>1. CASE wl.next = NoPacket
    BY <2>1 DEF Ordered, Range
  <2>2. CASE wl.next # NoPacket
    <3>1. c = <<wl.next>> /\ wl.next \in P
      BY <1>2, <2>2
    <3> QED BY <2>2, <3>1 DEF Ordered, Range
  <2> QED BY <2>1, <2>2
<1>9. \A p \in HeldPackets(wl) : p \in P /\ p.id \in Nat
  BY <1>2, <1>5
<1>10. \A p \in P, q \in P : p.id < q.id => p.id <= q.id
  BY <1>5
<1>11. Range(a) \subseteq P
  BY <1>6, RangeType
<1>12. LineOf(n) = ((a \o b) \o c) \o d
  BY DEF LineOf
<1> HIDE DEF a, b, c, d, P
<1>13. Ordered(a \o b, n) /\ a \o b \in Seq(P) /\ Range(a \o b) = Range(a) \cup Range(b)
  <2>1. b \in Seq(P) /\ Ordered(b, n)
    BY <1>2, <1>3, <1>7
  <2>2. \A p \in Range(a), q \in Range(b) : OfSource(p, n) /\ OfSource(q, n) => p.id <= q.id
    BY <1>4, <1>6, <1>9, <1>10, <1>11 DEF OfSource
  <2> QED BY <1>6, <2>1, <2>2, OrderedConcat
<1>14. /\ Ordered((a \o b) \o c, n) /\ (a \o b) \o c \in Seq(P)
       /\ Range((a \o b) \o c) = Range(a) \cup Range(b) \cup Range(c)
  <2>1. \A p \in Range(a), q \in Range(c) : OfSource(p, n) /\ OfSource(q, n) => p.id <= q.id
    BY <1>4, <1>6, <1>8, <1>9, <1>10, <1>11 DEF OfSource
  <2>2. \A p \in Range(b), q \in Range(c) : p.id <= q.id
    BY <1>3, <1>4, <1>8, <1>9, <1>10
  <2>3. \A p \in Range(a \o b), q \in Range(c) : OfSource(p, n) /\ OfSource(q, n) => p.id <= q.id
    BY <1>13, <2>1, <2>2
  <2> DEFINE s == a \o b
  <2> HIDE DEF s
  <2>4. s \in Seq(P) /\ Ordered(s, n) /\ Range(s) = Range(a) \cup Range(b)
    BY <1>13 DEF s
  <2>5. \A p \in Range(s), q \in Range(c) : OfSource(p, n) /\ OfSource(q, n) => p.id <= q.id
    BY <2>3 DEF s
  <2>6. Ordered(s \o c, n) /\ s \o c \in Seq(P) /\ Range(s \o c) = Range(s) \cup Range(c)
    BY <1>8, <2>4, <2>5, OrderedConcat
  <2> QED BY <2>4, <2>6 DEF s
<1>15. Ordered(((a \o b) \o c) \o d, n)
  <2>1. d \in Seq(P) /\ Ordered(d, n)
    BY <1>2, <1>3, <1>7
  <2>2. \A p \in Range(a), q \in Range(d) : OfSource(p, n) /\ OfSource(q, n) => p.id <= q.id
    BY <1>4, <1>6, <1>9, <1>10, <1>11 DEF OfSource
  <2>3. \A p \in Range(b) \cup Range(c), q \in Range(d) : p.id <= q.id
    BY <1>3, <1>4, <1>8, <1>9, <1>10
  <2>4. \A p \in Range((a \o b) \o c), q \in Range(d) :
          OfSource(p, n) /\ OfSource(q, n) => p.id <= q.id
    BY <1>14, <2>2, <2>3
  <2> QED BY <1>14, <2>1, <2>4, OrderedConcat
<1> QED
  BY <1>12, <1>15

(* The books balance wherever the invariant holds. *)
LEMMA InvariantBalances ==
  ASSUME IInv
  PROVE  /\ TypeOK /\ NoPacketLost /\ PendingIffReady /\ SourceOrder /\ InFlightExact
         /\ StageSettlesOne
<1>1. /\ Types /\ WorkloadOK(wl, count) /\ FlitsOK(partial, net)
      /\ AbsorbedOK(absorbed, partial, net) /\ InFlightExact
      /\ Accounts(HeldIds(wl), Ids(inflight), settled, count)
      /\ CopiesOK(generated, Ids(inflight) \cup settled, spawned, count)
      /\ StageSettlesOne
  BY DEF IInv
<1>2. inflight \subseteq AllFlits /\ MaxPackets \in Nat /\ count \in 0 .. MaxPackets
  BY InvariantFacts
<1>3. TypeOK
  <2>1. wl \in Workload /\ Len(wl.pending) + Len(wl.deferred) <= Cardinality(Nodes)
    BY <1>1, TurnsOnce DEF WorkloadOK
  <2>2. partial \in [Nodes -> Seq(AllFlits)] /\ net \subseteq AllFlits
    BY <1>1 DEF FlitsOK
  <2>3. absorbed \subseteq AllFlits /\ generated \in Seq(Copies)
    BY <1>1 DEF AbsorbedOK, CopiesOK
  <2>4. spawned \subseteq PacketId
    BY <1>1, <1>2 DEF CopiesOK, PacketId
  <2> QED BY <1>1, <1>2, <2>1, <2>2, <2>3, <2>4 DEF TypeOK, Types
<1>4. NoPacketLost
  <2>1. /\ HeldIds(wl) = Unread(wl) \cup Loaded(wl) /\ Unread(wl) \cap Loaded(wl) = {}
    BY <1>1, <1>2, HeldSplit
  <2> DEFINE places == <<Unread(wl), Loaded(wl), Ids(inflight), settled>>
  <2>2. /\ DOMAIN places = 1 .. 4 /\ places[1] = Unread(wl) /\ places[2] = Loaded(wl)
        /\ places[3] = Ids(inflight) /\ places[4] = settled
    OBVIOUS
  <2> HIDE DEF places
  <2>3. UNION Range(places) = Unread(wl) \cup Loaded(wl) \cup Ids(inflight) \cup settled
    <3>1. \A i \in DOMAIN places : i = 1 \/ i = 2 \/ i = 3 \/ i = 4
      BY <2>2
    <3>2. Range(places) = {places[1], places[2], places[3], places[4]}
      BY <2>2, <3>1 DEF Range
    <3> QED BY <2>2, <3>2
  <2>4. 1 .. count \subseteq UNION Range(places)
    BY <1>1, <2>1, <2>3 DEF Accounts
  <2>5. /\ places[1] \cap places[2] = {} /\ places[1] \cap places[3] = {}
        /\ places[1] \cap places[4] = {} /\ places[2] \cap places[3] = {}
        /\ places[2] \cap places[4] = {} /\ places[3] \cap places[4] = {}
    BY <1>1, <2>1, <2>2 DEF Accounts
  <2>6. ASSUME NEW i \in 1 .. 4, NEW j \in 1 .. 4, i < j
        PROVE  places[i] \cap places[j] = {}
    <3>1. i = 1 \/ i = 2 \/ i = 3
      BY <2>6
    <3>2. j = 2 \/ j = 3 \/ j = 4
      BY <2>6
    <3> QED BY <2>5, <2>6, <3>1, <3>2
  <2>7. \A i, j \in DOMAIN places : i # j => places[i] \cap places[j] = {}
    <3> SUFFICES ASSUME NEW i \in 1 .. 4, NEW j \in 1 .. 4, i # j
                 PROVE  places[i] \cap places[j] = {}
      BY <2>2
    <3>1. i < j \/ j < i
      OBVIOUS
    <3>2. places[i] \cap places[j] = places[j] \cap places[i]
      OBVIOUS
    <3> QED BY <2>6, <3>1, <3>2
  <2> QED BY <2>4, <2>7 DEF NoPacketLost, places
<1>5. PendingIffReady
  <2>1. /\ IsInjective(wl.pending \o wl.deferred)
        /\ Range(wl.pending \o wl.deferred) = Range(wl.pending) \cup Range(wl.deferred)
    BY <1>1, TurnsOnce
  <2>2. \A n \in Nodes : n \in Range(wl.pending) \cup Range(wl.deferred) <=> wl.ready[n] # <<>>
    BY <1>1 DEF WorkloadOK, TurnsOK
  <2> QED BY <2>1, <2>2 DEF PendingIffReady
<1> QED
  BY <1>1, <1>3, <1>4, <1>5, SourcesInOrder

(* i_fifo is read when the simulator is idle, or for the next packet.      *)
LEMMA ReadIdleStep ==
  ASSUME IInv, [Next]_vars
  PROVE  Unread(wl) \ Unread(wl') # {} =>
           Loaded(wl) \cup Ids(inflight) = {} \/ wl.next # NoPacket
<1>1. WorkloadOK(wl, count) /\ count \in 0 .. MaxPackets /\ count \in Nat /\ MaxPackets \in Nat
  BY InvariantFacts DEF IInv
<1>2. CASE wl' = wl
  BY <1>2
<1>3. CASE Inject
  <2>1. PICK r \in Requests : wl' = [wl EXCEPT !.fifo = Append(@, Packet(count + 1, r))]
    BY <1>3 DEF Inject
  <2> DEFINE p == Packet(count + 1, r)
  <2>2. p \in AllPackets
    <3>1. count < MaxPackets
      BY <1>3 DEF Inject
    <3>2. count + 1 \in 1 .. MaxPackets
      BY <1>1, <3>1
    <3> QED BY <3>2 DEF AllPackets
  <2>3. wl \in Workload /\ wl.fifo \in Seq(AllPackets)
    BY <1>1, WorkloadFields DEF WorkloadOK
  <2> HIDE DEF p
  <2>4. wl'.fifo = Append(wl.fifo, p)
    BY <2>1, <2>3 DEF Workload, p
  <2>5. Range(wl'.fifo) = Range(wl.fifo) \cup {p}
    BY <2>2, <2>3, <2>4, AppendFacts
  <2> QED BY <2>5 DEF Unread
<1>4. ASSUME NEW end \in BOOLEAN, RunStep(end)
      PROVE  Unread(wl) \ Unread(wl') # {} =>
               Loaded(wl) \cup Ids(inflight) = {} \/ wl.next # NoPacket
  <2>1. CASE started
    <3>1. wl' = StartStage(wl)
      BY <1>4, <2>1 DEF RunStep
    <3> QED BY <3>1, StageStartOK
  <2>2. CASE ~started
    <3>1. wl = [EmptyWorkload EXCEPT !.fifo = wl.fifo] /\ inflight = {}
      BY <2>2 DEF IInv, NotStarted
    <3>2. WorkloadCompleted(wl)
      BY <3>1 DEF WorkloadCompleted, EmptyWorkload
    <3>3. Loaded(wl) = {} /\ Ids(inflight) = {}
      BY <1>1, <3>1, <3>2, CompletedFacts, HeldSplit DEF Ids
    <3> QED BY <3>3
  <2> QED BY <2>1, <2>2
<1>5. CASE StepSim
  <2>1. wl' = AdvanceTime(Started(wl, [n \in Nodes |-> partial[n] \o CopiesFrom(n)]))
    BY <1>5 DEF StepSim
  <2>2. wl.next = NoPacket => wl'.fifo = wl.fifo
    BY <2>1, QueuesFilled
  <2> QED BY <2>2 DEF Unread
<1>6. CASE StageEnds \/ DrainStep \/ DrainEnds \/ Ended \/ UNCHANGED vars
  <2>1. wl' = wl
    BY <1>6 DEF StageEnds, DrainStep, DrainEnds, Ended, vars, simVars
  <2> QED BY <1>2, <2>1
<1> QED
  BY <1>3, <1>4, <1>5, <1>6 DEF Next

-----------------------------------------------------------------------------
(* Theorems                                                                *)

(* The invariant holds throughout. *)
THEOREM InvariantHolds == Spec => []IInv
<1>1. Init => IInv
  BY InitInvariant
<1>2. IInv /\ [Next]_vars => IInv'
  <2> SUFFICES ASSUME IInv, [Next]_vars PROVE IInv'
    OBVIOUS
  <2>1. CASE Inject
    BY <2>1, InjectStep
  <2>2. ASSUME NEW end \in BOOLEAN, RunStep(end)
        PROVE  IInv'
    BY <2>2, RunStepStep
  <2>3. CASE StepSim
    BY <2>3, StepSimStep
  <2>4. CASE StageEnds
    BY <2>4, StageEndsStep
  <2>5. CASE DrainStep
    BY <2>5, DrainStepStep
  <2>6. CASE DrainEnds
    BY <2>6, DrainEndsStep
  <2>7. CASE UNCHANGED vars
    BY <2>7, StutterStep
  <2>8. CASE Ended
    BY <2>7, <2>8 DEF Ended
  <2> QED
    BY <2>1, <2>2, <2>3, <2>4, <2>5, <2>6, <2>7, <2>8 DEF Next
<1> QED
  BY <1>1, <1>2, PTL DEF Spec

(* However run_step and inject alternate, and whatever the delays: the     *)
(* workload, the manager and the network keep their types, and the queue   *)
(* of sources never holds more of them than there are.                     *)
THEOREM TypesHold == Spec => []TypeOK
<1>1. IInv => TypeOK
  BY InvariantBalances
<1> QED
  BY <1>1, InvariantHolds, PTL

(* Each injected packet is unread, loaded, in flight or settled, and it is *)
(* in one of these places only: the simulator loses none and repeats none. *)
THEOREM PacketsKept == Spec => []NoPacketLost
<1>1. IInv => NoPacketLost
  BY InvariantBalances
<1> QED
  BY <1>1, InvariantHolds, PTL

(* A node waits for its turn once, exactly while it has ready packets, so  *)
(* that _Inject neither skips a node nor pops an empty queue.              *)
THEOREM TurnsKept == Spec => []PendingIffReady
<1>1. IInv => PendingIffReady
  BY InvariantBalances
<1> QED
  BY <1>1, InvariantHolds, PTL

(* The packets of a source are sent in the order of their injection.       *)
THEOREM SourcesKeepOrder == Spec => []SourceOrder
<1>1. IInv => SourceOrder
  BY InvariantBalances
<1> QED
  BY <1>1, InvariantHolds, PTL

(* What the manager counts as in flight is in a queue, in the network or   *)
(* absorbed since it last looked.                                          *)
THEOREM CountsExact == Spec => []InFlightExact
<1>1. IInv => InFlightExact
  BY InvariantBalances
<1> QED
  BY <1>1, InvariantHolds, PTL

(* Until the simulated time is over a stage settles a packet the driver    *)
(* waits for, if it waits for one, and all the rest agrees too.            *)
THEOREM BooksAlwaysBalance == Spec => []BooksBalance
<1>1. IInv => BooksBalance
  BY InvariantBalances DEF BooksBalance
<1> QED
  BY <1>1, InvariantHolds, PTL

(* Unless a packet that had to wait for its time has been waited for,      *)
(* i_fifo is read only when all that was read before has settled.          *)
THEOREM ReadOnlyWhenIdle == Spec => ReadsWhenIdle
<1>1. IInv /\ [Next]_vars =>
        [Unread(wl) \ Unread(wl') # {} =>
           Loaded(wl) \cup Ids(inflight) = {} \/ wl.next # NoPacket]_vars
  BY ReadIdleStep
<1> QED
  BY <1>1, InvariantHolds, PTL DEF Spec, ReadsWhenIdle
=============================================================================
