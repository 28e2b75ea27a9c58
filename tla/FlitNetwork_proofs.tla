------------------------- MODULE FlitNetwork_proofs -------------------------
(***************************************************************************)
(* Proofs about FlitNetwork, for every topology, packet set, buffer size   *)
(* and number of virtual channels.                                         *)
(***************************************************************************)
EXTENDS FlitNetwork, SequenceTheorems, TLAPS

BufferStates == [inUse : BOOLEAN, tailSent : BOOLEAN, occ : Nat]
Regs         == [acc : Int, iter : Int, iterOp : OpCodes]

-----------------------------------------------------------------------------
(* What the operations of BufferState do. *)
LEMMA TakeBufferType ==
  ASSUME NEW b \in BufferStates
  PROVE  /\ TakeBuffer(b) \in BufferStates
         /\ TakeBuffer(b).inUse /\ ~TakeBuffer(b).tailSent
         /\ TakeBuffer(b).occ = b.occ
  BY DEF TakeBuffer, BufferStates

LEMMA SendingFlitType ==
  ASSUME NEW b \in BufferStates, NEW f
  PROVE  /\ SendingFlit(b, f) \in BufferStates
         /\ SendingFlit(b, f).occ = b.occ + 1
         /\ WaitForTailCredit \/ ~IsTail(f) => (SendingFlit(b, f).inUse <=> b.inUse)
         /\ ~IsTail(f) => (SendingFlit(b, f).tailSent <=> b.tailSent)
  BY NetworkAssumption DEF SendingFlit, BufferStates

LEMMA ProcessCreditType ==
  ASSUME NEW b \in BufferStates, b.occ > 0
  PROVE  /\ ProcessCredit(b) \in BufferStates
         /\ ProcessCredit(b).occ = b.occ - 1
         /\ ProcessCredit(b).tailSent <=> b.tailSent
         /\ ~b.tailSent => (ProcessCredit(b).inUse <=> b.inUse)
         /\ WaitForTailCredit /\ b.inUse /\ ~ProcessCredit(b).inUse => b.occ = 1
<1> DEFINE kept == b.inUse /\ ~(WaitForTailCredit /\ b.occ = 1 /\ b.tailSent)
<1>1. kept \in BOOLEAN
  OBVIOUS
<1>2. ProcessCredit(b) = [inUse |-> kept, tailSent |-> b.tailSent, occ |-> b.occ - 1]
  BY DEF ProcessCredit, BufferStates
<1>3. b.occ - 1 \in Nat /\ b.tailSent \in BOOLEAN
  BY DEF BufferStates
<1> HIDE DEF kept
<1>4. /\ ProcessCredit(b) \in BufferStates
      /\ ProcessCredit(b).occ = b.occ - 1
      /\ ProcessCredit(b).tailSent <=> b.tailSent
      /\ ProcessCredit(b).inUse <=> kept
  BY <1>1, <1>2, <1>3 DEF BufferStates
<1> QED
  BY <1>4 DEF kept

LEMMA ApplyType ==
  ASSUME NEW c \in OpCodes, NEW a \in Int, NEW b \in Int
  PROVE  Apply(c, a, b) \in Int
  BY DEF Apply, OpCodes

LEMMA PacketRecordOf ==
  ASSUME NEW p \in PacketIds
  PROVE  Packets[p] \in PacketRecords
  BY PacketAssumption, ElementOfSeq, LenProperties DEF PacketIds

(* What a router makes of a flit and of its registers. *)
LEMMA ComputeType ==
  ASSUME TypeOK, NEW r \in Routers, NEW f \in Flits
  PROVE  /\ Compute(r, f).data \in Int
         /\ Compute(r, f).reg \in Regs
<1> DEFINE p == Packets[f.pkt]
<1>0. p \in PacketRecords /\ f.data \in Int
  BY PacketRecordOf DEF Flits
<1>1. p.type \in Types /\ f.data \in Int
  BY <1>0 DEF PacketRecords
<1>2. regs[r] \in Regs
  BY DEF TypeOK, Regs
<1>3. CASE ~Computes(r, f) \/ p.type = "normal"
  BY <1>1, <1>2, <1>3 DEF Compute
<1>4. CASE Computes(r, f) /\ p.type # "normal"
  <2> DEFINE op == p.ops[r]
  <2>1. op \in Op
    BY <1>0, <1>4 DEF Computes, PacketRecords
  <2>2. op.code \in OpCodes /\ op.iter \in BOOLEAN /\ op.write \in BOOLEAN
    BY <2>1 DEF Op
  <2> HIDE DEF op
  <2>3. /\ Scalar(regs[r], op, f).data \in Int
        /\ Scalar(regs[r], op, f).reg \in Regs
    BY <1>1, <1>2, <2>2, ApplyType DEF Scalar, Regs
  <2>4. /\ Reduce(regs[r], op, f).data \in Int
        /\ Reduce(regs[r], op, f).reg \in Regs
    <3> DEFINE acc == Apply(op.code, regs[r].acc, f.data)
    <3>1. acc \in Int
      BY <1>1, <1>2, <2>2, ApplyType DEF Regs
    <3> HIDE DEF acc
    <3>2. [acc |-> acc, iter |-> regs[r].iter - 1, iterOp |-> regs[r].iterOp] \in Regs
      BY <1>2, <3>1 DEF Regs
    <3>3. (IF regs[r].iter = 1 THEN acc ELSE f.data) \in Int
      BY <1>1, <3>1
    <3>4. CASE regs[r].iter > 0
      BY <3>2, <3>3, <3>4 DEF Reduce, acc
    <3>5. CASE ~(regs[r].iter > 0)
      BY <1>1, <1>2, <3>5 DEF Reduce
    <3> QED
      BY <3>4, <3>5
  <2>5. /\ Cover(regs[r], op, f).data \in Int
        /\ Cover(regs[r], op, f).reg \in Regs
    BY <1>1, <1>2, <2>2 DEF Cover, Regs
  <2>6. /\ Read(regs[r], op, f).data \in Int
        /\ Read(regs[r], op, f).reg \in Regs
    BY <1>1, <1>2, <2>2 DEF Read, Regs
  <2> QED
    BY <1>1, <1>4, <2>3, <2>4, <2>5, <2>6 DEF Compute, Types, op
<1> QED
  BY <1>3, <1>4

-----------------------------------------------------------------------------
(* The inductive invariant. A packet being injected has flits left, an     *)
(* active VC sends to a slot that a router drives, and the owner of a slot *)
(* keeps it in use. Occupancy stays within the buffer, and a slot that is  *)
(* free has none.                                                          *)
InjectionInPacket ==
  \A l \in InjectLinks : sent[l] < Len(Backlog[l]) =>
    pos[l] < Packets[Backlog[l][sent[l] + 1]].len

ActiveSendsOut ==
  \A s \in InputLinks \X VCs : state[s] = "active" => out[s] \in OutputLinks \X VCs

OccupancyBounded == \A s \in Slots : bs[s].occ <= BufSize

FreeIsEmpty ==
  WaitForTailCredit => \A s \in Slots : ~bs[s].inUse => bs[s].occ = 0

IInv ==
  /\ TypeOK
  /\ CreditsConserved
  /\ InjectionInPacket
  /\ ActiveSendsOut
  /\ SenderOwnsVC
  /\ OccupancyBounded
  /\ FreeIsEmpty

-----------------------------------------------------------------------------
(* Slots are pairs, and a slot of an injection link is no output slot. *)
LEMMA SlotFacts ==
  /\ \A l \in Links, v \in VCs : <<l, v>> \in Slots
  /\ InputLinks \X VCs \subseteq Slots /\ OutputLinks \X VCs \subseteq Slots
  /\ \A l \in InjectLinks, v \in VCs : <<l, v>> \notin OutputLinks \X VCs
  /\ InjectLinks \subseteq Links /\ EjectLinks \subseteq Links
  /\ InputLinks \subseteq Links /\ OutputLinks \subseteq Links
  BY DEF Slots, InjectLinks, EjectLinks, InputLinks, OutputLinks

LEMMA SlotTypes ==
  ASSUME TypeOK, NEW s \in Slots
  PROVE  /\ bs[s] \in BufferStates /\ bs[s].occ \in Nat
         /\ xbar[s] \in Seq(Flits) /\ wire[s] \in Seq(Flits) /\ buf[s] \in Seq(Flits)
         /\ credits[s] \in Nat /\ absorbed[s] \in Nat
         /\ Len(xbar[s]) \in Nat /\ Len(wire[s]) \in Nat /\ Len(buf[s]) \in Nat
  BY LenProperties DEF TypeOK, BufferStates

(* The flits of a slot, place by place, kept apart from their sequences.   *)
InXbar(s) == Len(xbar[s])
OnWire(s) == Len(wire[s])
InBuf(s)  == Len(buf[s])

LEMMA Counts ==
  ASSUME TypeOK, CreditsConserved, NEW s \in Slots
  PROVE  /\ InXbar(s) \in Nat /\ OnWire(s) \in Nat /\ InBuf(s) \in Nat
         /\ bs[s].occ \in Nat /\ credits[s] \in Nat /\ absorbed[s] \in Nat
         /\ bs[s].occ = InXbar(s) + OnWire(s) + InBuf(s) + credits[s] + absorbed[s]
<1>1. /\ InXbar(s) \in Nat /\ OnWire(s) \in Nat /\ InBuf(s) \in Nat
      /\ bs[s].occ \in Nat /\ credits[s] \in Nat /\ absorbed[s] \in Nat
  BY SlotTypes DEF InXbar, OnWire, InBuf
<1>2. bs[s].occ = InXbar(s) + OnWire(s) + InBuf(s) + credits[s] + absorbed[s]
  BY DEF CreditsConserved, InXbar, OnWire, InBuf
<1> QED
  BY <1>1, <1>2

LEMMA HeadOfFlits ==
  ASSUME NEW q \in Seq(Flits), q # <<>>
  PROVE  /\ Head(q) \in Flits /\ Tail(q) \in Seq(Flits)
         /\ Len(q) \in Nat \ {0} /\ Len(Tail(q)) = Len(q) - 1
  BY HeadTailProperties, LenProperties, EmptySeq

LEMMA AppendFlit ==
  ASSUME NEW q \in Seq(Flits), NEW f \in Flits
  PROVE  Append(q, f) \in Seq(Flits) /\ Len(Append(q, f)) = Len(q) + 1
  BY AppendProperties

LEMMA NextPacketType ==
  ASSUME TypeOK, NEW l \in InjectLinks, sent[l] < Len(Backlog[l])
  PROVE  NextPacket(l) \in PacketIds
<1>1. Backlog[l] \in Seq(PacketIds) /\ sent[l] \in Nat
  BY PacketAssumption DEF TypeOK
<1>2. sent[l] + 1 \in 1 .. Len(Backlog[l])
  BY <1>1, LenProperties
<1> QED
  BY <1>1, <1>2, ElementOfSeq DEF NextPacket

LEMMA InitIInv == Init => IInv
<1> SUFFICES ASSUME Init PROVE IInv
  OBVIOUS
<1>1. TypeOK
  <2>1. FreeVC \in BufferStates /\ NoRegs \in Regs
    BY DEF FreeVC, BufferStates, NoRegs, Regs, OpCodes
  <2>2. \A l \in InjectLinks : 0 <= Len(Backlog[l])
    BY PacketAssumption, LenProperties
  <2>3. <<>> \in Seq(Flits)
    BY EmptySeq
  <2> QED
    BY <2>1, <2>2, <2>3 DEF Init, TypeOK, BufferStates, Regs
<1>2. CreditsConserved
  <2>1. Len(<<>>) = 0
    BY EmptySeq
  <2> QED
    BY <2>1 DEF Init, CreditsConserved, FreeVC
<1>3. InjectionInPacket
  <2> SUFFICES ASSUME NEW l \in InjectLinks, sent[l] < Len(Backlog[l])
               PROVE  pos[l] < Packets[Backlog[l][sent[l] + 1]].len
    BY DEF InjectionInPacket
  <2>1. Backlog[l][sent[l] + 1] \in PacketIds
    BY NextPacketType, <1>1 DEF NextPacket
  <2> QED
    BY <2>1, PacketRecordOf DEF Init, PacketRecords
<1>4. ActiveSendsOut /\ SenderOwnsVC
  <2>1. \A s \in InputLinks \X VCs : state[s] # "active"
    BY SlotFacts DEF Init
  <2> QED
    BY <2>1 DEF Init, ActiveSendsOut, SenderOwnsVC
<1>5. OccupancyBounded /\ FreeIsEmpty
  BY NetworkAssumption DEF Init, OccupancyBounded, FreeIsEmpty, FreeVC
<1> QED
  BY <1>1, <1>2, <1>3, <1>4, <1>5 DEF IInv

-----------------------------------------------------------------------------
(* InjectFlit: the account of the slot grows by the flit put on the wire,  *)
(* and the VC was free for a head or is the packet's own.                  *)
LEMMA InjectFlitStep ==
  ASSUME IInv, NEW l \in InjectLinks, NEW v \in VCs, InjectFlit(l, v)
  PROVE  IInv'
<1> DEFINE s == <<l, v>>
           f == [pkt |-> NextPacket(l), i |-> pos[l] + 1, data |-> Packets[NextPacket(l)].data]
           b == IF IsHead(f) THEN TakeBuffer(bs[s]) ELSE bs[s]
<1>1. TypeOK
  BY DEF IInv
<1>2. s \in Slots /\ s \notin OutputLinks \X VCs
  BY SlotFacts
<1>3. NextPacket(l) \in PacketIds /\ Packets[NextPacket(l)] \in PacketRecords
  BY <1>1, NextPacketType, PacketRecordOf DEF InjectFlit
<1>4. /\ pos[l] \in Nat /\ sent[l] \in Nat /\ sent[l] < Len(Backlog[l])
      /\ pos[l] < Packets[NextPacket(l)].len
      /\ Packets[NextPacket(l)].len \in Nat
  BY <1>1, <1>3 DEF InjectFlit, TypeOK, IInv, InjectionInPacket, NextPacket, PacketRecords
<1>5. f \in Flits
  BY <1>3, <1>4 DEF Flits, PacketRecords
<1>6. /\ IsTail(f) <=> pos[l] + 1 = Packets[NextPacket(l)].len
      /\ IsHead(f) <=> pos[l] = 0
  BY <1>4 DEF IsTail, IsHead
<1>7. /\ bs[s] \in BufferStates
      /\ b \in BufferStates /\ b.occ = bs[s].occ
      /\ IsHead(f) => b.inUse /\ ~b.tailSent
      /\ ~IsHead(f) => b = bs[s] /\ v \in srcVC[l]
      /\ ~IsFull(bs[s])
  BY <1>1, <1>2, SlotTypes, TakeBufferType DEF InjectFlit
<1>8. /\ bs' = [bs EXCEPT ![s] = SendingFlit(b, f)]
      /\ wire' = [wire EXCEPT ![s] = Append(wire[s], f)]
      /\ sent' = [sent EXCEPT ![l] = IF IsTail(f) THEN sent[l] + 1 ELSE sent[l]]
      /\ pos' = [pos EXCEPT ![l] = IF IsTail(f) THEN 0 ELSE pos[l] + 1]
      /\ srcVC' = [srcVC EXCEPT ![l] = IF IsTail(f) THEN {} ELSE {v}]
      /\ UNCHANGED <<xbar, credits, buf, state, out, regs, absorbed, merged, ejected>>
  BY <1>1, <1>2 DEF InjectFlit, TypeOK, inVars, compVars
<1>9. b.inUse /\ ~b.tailSent
  BY <1>7 DEF IInv, SenderOwnsVC
<1> HIDE DEF f, b
<1>10. /\ SendingFlit(b, f) \in BufferStates
       /\ SendingFlit(b, f).occ = bs[s].occ + 1
       /\ WaitForTailCredit \/ ~IsTail(f) => SendingFlit(b, f).inUse
       /\ ~IsTail(f) => ~SendingFlit(b, f).tailSent
  BY <1>7, <1>9, SendingFlitType
<1>11. /\ bs'[s] = SendingFlit(b, f)
       /\ \A t \in Slots : t # s => bs'[t] = bs[t] /\ wire'[t] = wire[t]
       /\ wire'[s] = Append(wire[s], f)
  BY <1>1, <1>2, <1>8 DEF TypeOK
<1> HIDE DEF s
<1>12. TypeOK'
  <2>1. Append(wire[s], f) \in Seq(Flits)
    BY <1>1, <1>2, <1>5, SlotTypes, AppendFlit
  <2>2. bs' \in [Slots -> BufferStates] /\ wire' \in [Slots -> Seq(Flits)]
    BY <1>1, <1>2, <1>8, <1>10, <2>1 DEF TypeOK, BufferStates
  <2>3. /\ sent' \in [InjectLinks -> Nat] /\ \A m \in InjectLinks : sent'[m] <= Len(Backlog[m])
        /\ pos' \in [InjectLinks -> Nat]
        /\ srcVC' \in [InjectLinks -> SUBSET VCs]
    <3>1. Len(Backlog[l]) \in Nat
      BY PacketAssumption, LenProperties
    <3> QED
      BY <1>1, <1>4, <1>8, <3>1 DEF TypeOK
  <2> QED
    BY <1>1, <1>8, <2>2, <2>3 DEF TypeOK, BufferStates
<1>13. CreditsConserved'
  <2> SUFFICES ASSUME NEW t \in Slots
               PROVE  bs'[t].occ = InXbar(t)' + OnWire(t)' + InBuf(t)'
                                     + credits'[t] + absorbed'[t]
    BY DEF CreditsConserved, InXbar, OnWire, InBuf
  <2>1. /\ InXbar(t) \in Nat /\ OnWire(t) \in Nat /\ InBuf(t) \in Nat
        /\ bs[t].occ \in Nat /\ credits[t] \in Nat /\ absorbed[t] \in Nat
        /\ bs[t].occ = InXbar(t) + OnWire(t) + InBuf(t) + credits[t] + absorbed[t]
    BY Counts DEF IInv
  <2>2. CASE t = s
    <3>1. OnWire(t)' = OnWire(t) + 1
      BY <1>1, <1>2, <1>5, <1>11, <2>2, SlotTypes, AppendFlit DEF OnWire
    <3>2. bs'[t].occ = bs[t].occ + 1
      BY <1>10, <1>11, <2>2
    <3>3. /\ InXbar(t)' = InXbar(t) /\ InBuf(t)' = InBuf(t)
          /\ credits' = credits /\ absorbed' = absorbed
      BY <1>8 DEF InXbar, InBuf
    <3> QED
      BY <2>1, <3>1, <3>2, <3>3
  <2>3. CASE t # s
    <3>1. /\ InXbar(t)' = InXbar(t) /\ OnWire(t)' = OnWire(t) /\ InBuf(t)' = InBuf(t)
          /\ bs'[t] = bs[t] /\ credits' = credits /\ absorbed' = absorbed
      BY <1>8, <1>11, <2>3 DEF InXbar, OnWire, InBuf
    <3> QED
      BY <2>1, <3>1
  <2> QED
    BY <2>2, <2>3
<1>14. InjectionInPacket'
  <2> SUFFICES ASSUME NEW m \in InjectLinks, sent'[m] < Len(Backlog[m])
               PROVE  pos'[m] < Packets[Backlog[m][sent'[m] + 1]].len
    BY DEF InjectionInPacket
  <2>1. CASE m = l /\ ~IsTail(f)
    BY <1>1, <1>4, <1>6, <1>8, <2>1 DEF TypeOK, NextPacket
  <2>2. CASE m = l /\ IsTail(f)
    <3>1. NextPacket(m)' \in PacketIds
      <4>1. Backlog[m] \in Seq(PacketIds) /\ sent'[m] \in Nat
        BY <1>12, PacketAssumption DEF TypeOK
      <4>2. sent'[m] + 1 \in 1 .. Len(Backlog[m])
        BY <4>1, LenProperties
      <4> QED
        BY <4>1, <4>2, ElementOfSeq DEF NextPacket
    <3>2. pos'[m] = 0
      BY <1>1, <1>8, <2>2 DEF TypeOK
    <3> QED
      BY <3>1, <3>2, PacketRecordOf DEF PacketRecords, NextPacket
  <2>3. CASE m # l
    BY <1>1, <1>8, <2>3 DEF TypeOK, IInv, InjectionInPacket
  <2> QED
    BY <2>1, <2>2, <2>3
<1>15. ActiveSendsOut'
  BY <1>8 DEF IInv, ActiveSendsOut
<1>16. SenderOwnsVC'
  <2>1. \A x \in InputLinks \X VCs : state'[x] = "active" =>
          /\ bs'[out'[x]].inUse /\ ~bs'[out'[x]].tailSent
          /\ \A t \in InputLinks \X VCs :
               state'[t] = "active" /\ out'[t] = out'[x] => t = x
    <3>1. \A x \in InputLinks \X VCs : state[x] = "active" => out[x] \in Slots /\ out[x] # s
      BY <1>2, SlotFacts DEF IInv, ActiveSendsOut
    <3> QED
      BY <1>8, <1>11, <3>1 DEF IInv, SenderOwnsVC
  <2>2. ASSUME NEW m \in InjectLinks, NEW w \in srcVC'[m]
        PROVE  bs'[<<m, w>>].inUse /\ ~bs'[<<m, w>>].tailSent
    <3>1. CASE m = l
      <4>1. srcVC'[l] = IF IsTail(f) THEN {} ELSE {v}
        BY <1>1, <1>8 DEF TypeOK
      <4>2. w = v /\ ~IsTail(f)
        BY <2>2, <3>1, <4>1
      <4> QED
        BY <1>10, <1>11, <3>1, <4>2 DEF s
    <3>2. CASE m # l
      <4>1. w \in srcVC[m] /\ w \in VCs
        BY <1>1, <1>8, <2>2, <3>2 DEF TypeOK
      <4>2. <<m, w>> \in Slots /\ <<m, w>> # s
        BY <3>2, <4>1, SlotFacts DEF s
      <4> QED
        BY <1>11, <4>1, <4>2 DEF IInv, SenderOwnsVC
    <3> QED
      BY <3>1, <3>2
  <2> QED
    BY <2>1, <2>2 DEF SenderOwnsVC
<1>17. OccupancyBounded'
  <2>1. bs[s].occ < BufSize
    BY <1>1, <1>2, <1>7, SlotTypes, NetworkAssumption DEF IsFull
  <2>2. bs'[s].occ <= BufSize
    BY <1>1, <1>2, <1>10, <1>11, <2>1, SlotTypes, NetworkAssumption
  <2> QED
    BY <1>11, <2>2 DEF IInv, OccupancyBounded
<1>18. FreeIsEmpty'
  BY <1>10, <1>11 DEF IInv, FreeIsEmpty
<1> QED
  BY <1>12, <1>13, <1>14, <1>15, <1>16, <1>17, <1>18 DEF IInv

-----------------------------------------------------------------------------
(* Eject turns a flit on the wire into a credit, ReceiveCredit takes the   *)
(* credit off the account. A VC that is freed has no flit and no credit.   *)
LEMMA EjectStep ==
  ASSUME IInv, NEW l \in EjectLinks, NEW v \in VCs, Eject(l, v)
  PROVE  IInv'
<1> DEFINE s == <<l, v>>
           f == Head(wire[s])
<1>1. TypeOK /\ s \in Slots
  BY SlotFacts DEF IInv
<1>2. /\ wire' = [wire EXCEPT ![s] = Tail(wire[s])]
      /\ credits' = [credits EXCEPT ![s] = credits[s] + 1]
      /\ ejected' = [ejected EXCEPT ![f.pkt] = Append(ejected[f.pkt], f)]
      /\ UNCHANGED <<sent, pos, srcVC, bs, xbar, buf, state, out, regs, absorbed, merged>>
      /\ wire[s] # <<>>
  BY <1>1 DEF Eject, srcVars, inVars, compVars
<1>3. f \in Flits /\ Tail(wire[s]) \in Seq(Flits) /\ Len(Tail(wire[s])) = Len(wire[s]) - 1
  BY <1>1, <1>2, SlotTypes, HeadOfFlits
<1>4. f.pkt \in PacketIds
  BY <1>3 DEF Flits
<1> HIDE DEF s, f
<1>5. TypeOK'
  <2>1. Append(ejected[f.pkt], f) \in Seq(Flits)
    BY <1>1, <1>3, <1>4, AppendFlit DEF TypeOK
  <2>2. ejected' \in [PacketIds -> Seq(Flits)]
    BY <1>1, <1>2, <2>1 DEF TypeOK
  <2>3. wire' \in [Slots -> Seq(Flits)] /\ credits' \in [Slots -> Nat]
    BY <1>1, <1>2, <1>3 DEF TypeOK
  <2> QED
    BY <1>1, <1>2, <2>2, <2>3 DEF TypeOK
<1>6. CreditsConserved'
  <2> SUFFICES ASSUME NEW t \in Slots
               PROVE  bs'[t].occ = InXbar(t)' + OnWire(t)' + InBuf(t)'
                                     + credits'[t] + absorbed'[t]
    BY DEF CreditsConserved, InXbar, OnWire, InBuf
  <2>1. /\ InXbar(t) \in Nat /\ OnWire(t) \in Nat /\ InBuf(t) \in Nat
        /\ bs[t].occ \in Nat /\ credits[t] \in Nat /\ absorbed[t] \in Nat
        /\ bs[t].occ = InXbar(t) + OnWire(t) + InBuf(t) + credits[t] + absorbed[t]
    BY Counts DEF IInv
  <2>2. /\ InXbar(t)' = InXbar(t) /\ InBuf(t)' = InBuf(t)
        /\ bs' = bs /\ absorbed' = absorbed
    BY <1>2 DEF InXbar, InBuf
  <2>3. CASE t = s
    <3>1. OnWire(t)' = OnWire(t) - 1 /\ credits'[t] = credits[t] + 1
      BY <1>1, <1>2, <1>3, <2>3 DEF TypeOK, OnWire
    <3> QED
      BY <2>1, <2>2, <3>1
  <2>4. CASE t # s
    <3>1. OnWire(t)' = OnWire(t) /\ credits'[t] = credits[t]
      BY <1>1, <1>2, <2>4 DEF TypeOK, OnWire
    <3> QED
      BY <2>1, <2>2, <3>1
  <2> QED
    BY <2>3, <2>4
<1>7. InjectionInPacket' /\ ActiveSendsOut' /\ SenderOwnsVC' /\ OccupancyBounded' /\ FreeIsEmpty'
  BY <1>2 DEF IInv, InjectionInPacket, ActiveSendsOut, SenderOwnsVC, OccupancyBounded,
              FreeIsEmpty
<1> QED
  BY <1>5, <1>6, <1>7 DEF IInv

LEMMA ReceiveCreditStep ==
  ASSUME IInv, NEW s \in Slots, ReceiveCredit(s)
  PROVE  IInv'
<1>1. TypeOK
  BY DEF IInv
<1>2. /\ credits' = [credits EXCEPT ![s] = credits[s] - 1]
      /\ bs' = [bs EXCEPT ![s] = ProcessCredit(bs[s])]
      /\ UNCHANGED <<sent, pos, srcVC, xbar, wire, buf, state, out, regs, absorbed, merged, ejected>>
      /\ credits[s] > 0
  BY <1>1 DEF ReceiveCredit, srcVars, inVars, compVars
<1>3. bs[s] \in BufferStates /\ bs[s].occ \in Nat /\ credits[s] \in Nat
  BY <1>1, SlotTypes
<1>4. bs[s].occ > 0
  <2>1. /\ InXbar(s) \in Nat /\ OnWire(s) \in Nat /\ InBuf(s) \in Nat
        /\ bs[s].occ \in Nat /\ credits[s] \in Nat /\ absorbed[s] \in Nat
        /\ bs[s].occ = InXbar(s) + OnWire(s) + InBuf(s) + credits[s] + absorbed[s]
    BY Counts DEF IInv
  <2> QED
    BY <1>2, <2>1
<1>5. /\ ProcessCredit(bs[s]) \in BufferStates
      /\ ProcessCredit(bs[s]).occ = bs[s].occ - 1
      /\ ProcessCredit(bs[s]).tailSent <=> bs[s].tailSent
      /\ ~bs[s].tailSent => (ProcessCredit(bs[s]).inUse <=> bs[s].inUse)
      /\ WaitForTailCredit /\ bs[s].inUse /\ ~ProcessCredit(bs[s]).inUse => bs[s].occ = 1
  BY <1>3, <1>4, ProcessCreditType
<1>6. /\ bs'[s] = ProcessCredit(bs[s]) /\ credits'[s] = credits[s] - 1
      /\ \A t \in Slots : t # s => bs'[t] = bs[t] /\ credits'[t] = credits[t]
  BY <1>1, <1>2 DEF TypeOK
<1>7. TypeOK'
  <2>1. credits[s] - 1 \in Nat
    BY <1>2, <1>3
  <2>2. bs' \in [Slots -> BufferStates]
    BY <1>1, <1>2, <1>5 DEF TypeOK, BufferStates
  <2> QED
    BY <1>1, <1>2, <2>1, <2>2 DEF TypeOK, BufferStates
<1>8. CreditsConserved'
  <2> SUFFICES ASSUME NEW t \in Slots
               PROVE  bs'[t].occ = InXbar(t)' + OnWire(t)' + InBuf(t)'
                                     + credits'[t] + absorbed'[t]
    BY DEF CreditsConserved, InXbar, OnWire, InBuf
  <2>1. /\ InXbar(t) \in Nat /\ OnWire(t) \in Nat /\ InBuf(t) \in Nat
        /\ bs[t].occ \in Nat /\ credits[t] \in Nat /\ absorbed[t] \in Nat
        /\ bs[t].occ = InXbar(t) + OnWire(t) + InBuf(t) + credits[t] + absorbed[t]
    BY Counts DEF IInv
  <2>2. /\ InXbar(t)' = InXbar(t) /\ OnWire(t)' = OnWire(t) /\ InBuf(t)' = InBuf(t)
        /\ absorbed' = absorbed
    BY <1>2 DEF InXbar, OnWire, InBuf
  <2>3. CASE t = s
    <3>1. bs'[t].occ = bs[t].occ - 1 /\ credits'[t] = credits[t] - 1
      BY <1>5, <1>6, <2>3
    <3> QED
      BY <2>1, <2>2, <3>1
  <2>4. CASE t # s
    BY <1>6, <2>1, <2>2, <2>4
  <2> QED
    BY <2>3, <2>4
<1>9. InjectionInPacket' /\ ActiveSendsOut'
  BY <1>2 DEF IInv, InjectionInPacket, ActiveSendsOut
<1>10. \A t \in Slots : bs[t].inUse /\ ~bs[t].tailSent => bs'[t].inUse /\ ~bs'[t].tailSent
  BY <1>5, <1>6
<1>11. SenderOwnsVC'
  <2>1. \A x \in InputLinks \X VCs : state[x] = "active" => out[x] \in Slots
    BY SlotFacts DEF IInv, ActiveSendsOut
  <2>2. \A m \in InjectLinks : \A w \in srcVC[m] : <<m, w>> \in Slots
    BY <1>1, SlotFacts DEF TypeOK
  <2> QED
    BY <1>2, <1>10, <2>1, <2>2 DEF IInv, SenderOwnsVC
<1>12. OccupancyBounded'
  <2>1. bs[s].occ <= BufSize
    BY DEF IInv, OccupancyBounded
  <2>2. bs'[s].occ <= BufSize
    BY <1>3, <1>5, <1>6, <2>1, NetworkAssumption
  <2> QED
    BY <1>6, <2>2 DEF IInv, OccupancyBounded
<1>13. FreeIsEmpty'
  <2> SUFFICES ASSUME WaitForTailCredit, NEW t \in Slots, ~bs'[t].inUse
               PROVE  bs'[t].occ = 0
    BY DEF FreeIsEmpty
  <2>1. CASE t = s
    <3>1. bs[s].inUse
      BY <1>3, <1>4 DEF IInv, FreeIsEmpty
    <3>2. bs[s].occ = 1
      BY <1>5, <1>6, <2>1, <3>1
    <3> QED
      BY <1>5, <1>6, <2>1, <3>2
  <2>2. CASE t # s
    BY <1>6, <2>2 DEF IInv, FreeIsEmpty
  <2> QED
    BY <2>1, <2>2
<1> QED
  BY <1>7, <1>8, <1>9, <1>11, <1>12, <1>13 DEF IInv

-----------------------------------------------------------------------------
(* ReceiveFlit moves a flit from the wire to the buffer and may wake a VC, *)
(* but never makes one active.                                             *)
LEMMA ReceiveFlitStep ==
  ASSUME IInv, NEW l \in InputLinks, NEW v \in VCs, ReceiveFlit(l, v)
  PROVE  IInv'
<1> DEFINE s == <<l, v>>
           f == Head(wire[s])
           next == IF state[s] = "idle" THEN "vc_alloc" ELSE state[s]
<1>1. TypeOK /\ s \in Slots
  BY SlotFacts DEF IInv
<1>2. /\ wire' = [wire EXCEPT ![s] = Tail(wire[s])]
      /\ buf' = [buf EXCEPT ![s] = Append(buf[s], f)]
      /\ state' = [state EXCEPT ![s] = next]
      /\ UNCHANGED <<sent, pos, srcVC, bs, xbar, credits, out, regs, absorbed, merged, ejected>>
      /\ wire[s] # <<>>
  BY <1>1 DEF ReceiveFlit, TypeOK, srcVars, compVars
<1>3. /\ f \in Flits /\ Tail(wire[s]) \in Seq(Flits) /\ Len(Tail(wire[s])) = Len(wire[s]) - 1
      /\ Append(buf[s], f) \in Seq(Flits) /\ Len(Append(buf[s], f)) = Len(buf[s]) + 1
  BY <1>1, <1>2, SlotTypes, HeadOfFlits, AppendFlit
<1>4. next \in {"idle", "vc_alloc", "active"} /\ (next = "active" => state[s] = "active")
  BY <1>1 DEF TypeOK
<1> HIDE DEF s, f, next
<1>5. TypeOK'
  <2>1. wire' \in [Slots -> Seq(Flits)] /\ buf' \in [Slots -> Seq(Flits)]
    BY <1>1, <1>2, <1>3 DEF TypeOK
  <2>2. state' \in [Slots -> {"idle", "vc_alloc", "active"}]
    BY <1>1, <1>2, <1>4 DEF TypeOK
  <2> QED
    BY <1>1, <1>2, <2>1, <2>2 DEF TypeOK
<1>6. CreditsConserved'
  <2> SUFFICES ASSUME NEW t \in Slots
               PROVE  bs'[t].occ = InXbar(t)' + OnWire(t)' + InBuf(t)'
                                     + credits'[t] + absorbed'[t]
    BY DEF CreditsConserved, InXbar, OnWire, InBuf
  <2>1. /\ InXbar(t) \in Nat /\ OnWire(t) \in Nat /\ InBuf(t) \in Nat
        /\ bs[t].occ \in Nat /\ credits[t] \in Nat /\ absorbed[t] \in Nat
        /\ bs[t].occ = InXbar(t) + OnWire(t) + InBuf(t) + credits[t] + absorbed[t]
    BY Counts DEF IInv
  <2>2. /\ InXbar(t)' = InXbar(t) /\ bs' = bs
        /\ credits' = credits /\ absorbed' = absorbed
    BY <1>2 DEF InXbar
  <2>3. CASE t = s
    <3>1. OnWire(t)' = OnWire(t) - 1 /\ InBuf(t)' = InBuf(t) + 1
      BY <1>1, <1>2, <1>3, <2>3 DEF TypeOK, OnWire, InBuf
    <3> QED
      BY <2>1, <2>2, <3>1
  <2>4. CASE t # s
    <3>1. OnWire(t)' = OnWire(t) /\ InBuf(t)' = InBuf(t)
      BY <1>1, <1>2, <2>4 DEF TypeOK, OnWire, InBuf
    <3> QED
      BY <2>1, <2>2, <3>1
  <2> QED
    BY <2>3, <2>4
<1>7. \A x \in InputLinks \X VCs : state'[x] = "active" => state[x] = "active"
  BY <1>1, <1>2, <1>4, SlotFacts DEF TypeOK
<1>8. ActiveSendsOut' /\ SenderOwnsVC'
  BY <1>2, <1>7 DEF IInv, ActiveSendsOut, SenderOwnsVC
<1>9. InjectionInPacket' /\ OccupancyBounded' /\ FreeIsEmpty'
  BY <1>2 DEF IInv, InjectionInPacket, OccupancyBounded, FreeIsEmpty
<1> QED
  BY <1>5, <1>6, <1>8, <1>9 DEF IInv

-----------------------------------------------------------------------------
(* AllocateVC takes a slot nobody owns, because owned slots are in use. *)
LEMMA AllocateVCStep ==
  ASSUME IInv, NEW l \in InputLinks, NEW v \in VCs, NEW w \in VCs, AllocateVC(l, v, w)
  PROVE  IInv'
<1> DEFINE s == <<l, v>>
           o == <<NextLink(s), w>>
<1>1. TypeOK /\ s \in Slots /\ s \in InputLinks \X VCs
  BY SlotFacts DEF IInv
<1>2. /\ bs' = [bs EXCEPT ![o] = TakeBuffer(bs[o])]
      /\ out' = [out EXCEPT ![s] = o]
      /\ state' = [state EXCEPT ![s] = "active"]
      /\ UNCHANGED <<sent, pos, srcVC, xbar, wire, credits, buf, regs, absorbed, merged, ejected>>
      /\ buf[s] # <<>> /\ ~bs[o].inUse
  BY <1>1 DEF AllocateVC, TypeOK, srcVars, compVars, IsAvailable
<1>3. o \in OutputLinks \X VCs /\ o \in Slots
  <2>1. Head(buf[s]) \in Flits
    BY <1>1, <1>2, SlotTypes, HeadOfFlits
  <2>2. Packets[Head(buf[s]).pkt] \in PacketRecords
    BY <2>1, PacketRecordOf DEF Flits
  <2>3. Sink[l] \in Routers
    BY DEF InputLinks, EjectLinks
  <2>4. NextLink(s) \in OutputLinks
    BY <2>2, <2>3 DEF NextLink, PacketRecords
  <2> QED
    BY <2>4, SlotFacts
<1>4. bs[o] \in BufferStates
  BY <1>1, <1>3, SlotTypes
<1> HIDE DEF s, o
<1>5. /\ TakeBuffer(bs[o]) \in BufferStates
      /\ TakeBuffer(bs[o]).inUse /\ ~TakeBuffer(bs[o]).tailSent
      /\ TakeBuffer(bs[o]).occ = bs[o].occ
  BY <1>4, TakeBufferType
<1>6. /\ bs'[o] = TakeBuffer(bs[o])
      /\ \A t \in Slots : t # o => bs'[t] = bs[t]
      /\ out'[s] = o /\ state'[s] = "active"
      /\ \A t \in Slots : t # s => out'[t] = out[t] /\ state'[t] = state[t]
  BY <1>1, <1>2, <1>3 DEF TypeOK
<1>7. TypeOK'
  <2>1. bs' \in [Slots -> BufferStates]
    BY <1>1, <1>2, <1>5 DEF TypeOK, BufferStates
  <2>2. out' \in [Slots -> Slots] /\ state' \in [Slots -> {"idle", "vc_alloc", "active"}]
    BY <1>1, <1>2, <1>3 DEF TypeOK
  <2> QED
    BY <1>1, <1>2, <2>1, <2>2 DEF TypeOK, BufferStates
<1>8. \A t \in Slots : bs'[t].occ = bs[t].occ
  BY <1>5, <1>6
<1>9. CreditsConserved'
  <2> SUFFICES ASSUME NEW t \in Slots
               PROVE  bs'[t].occ = InXbar(t)' + OnWire(t)' + InBuf(t)'
                                     + credits'[t] + absorbed'[t]
    BY DEF CreditsConserved, InXbar, OnWire, InBuf
  <2>1. /\ InXbar(t) \in Nat /\ OnWire(t) \in Nat /\ InBuf(t) \in Nat
        /\ bs[t].occ \in Nat /\ credits[t] \in Nat /\ absorbed[t] \in Nat
        /\ bs[t].occ = InXbar(t) + OnWire(t) + InBuf(t) + credits[t] + absorbed[t]
    BY Counts DEF IInv
  <2>2. /\ InXbar(t)' = InXbar(t) /\ OnWire(t)' = OnWire(t) /\ InBuf(t)' = InBuf(t)
        /\ credits' = credits /\ absorbed' = absorbed
    BY <1>2 DEF InXbar, OnWire, InBuf
  <2> QED
    BY <1>8, <2>1, <2>2
<1>10. InjectionInPacket'
  BY <1>2 DEF IInv, InjectionInPacket
<1>11. \A x \in InputLinks \X VCs : x # s /\ state'[x] = "active" =>
         /\ state[x] = "active" /\ out'[x] = out[x]
         /\ out[x] \in OutputLinks \X VCs /\ out[x] \in Slots
         /\ bs[out[x]].inUse /\ ~bs[out[x]].tailSent
         /\ out[x] # o
  BY <1>2, <1>6, SlotFacts DEF IInv, ActiveSendsOut, SenderOwnsVC
<1>12. ActiveSendsOut'
  BY <1>3, <1>6, <1>11 DEF ActiveSendsOut
<1>13. SenderOwnsVC'
  <2>1. ASSUME NEW x \in InputLinks \X VCs, state'[x] = "active"
        PROVE  bs'[out'[x]].inUse /\ ~bs'[out'[x]].tailSent
    BY <1>5, <1>6, <1>11, <2>1
  <2>2. ASSUME NEW x \in InputLinks \X VCs, NEW t \in InputLinks \X VCs,
               state'[x] = "active", state'[t] = "active", out'[t] = out'[x]
        PROVE  t = x
    BY <1>6, <1>11, <2>2 DEF IInv, SenderOwnsVC
  <2>3. ASSUME NEW m \in InjectLinks, NEW u \in srcVC'[m]
        PROVE  bs'[<<m, u>>].inUse /\ ~bs'[<<m, u>>].tailSent
    <3>1. u \in VCs /\ u \in srcVC[m]
      BY <1>1, <1>2, <2>3 DEF TypeOK
    <3>2. <<m, u>> \in Slots /\ <<m, u>> # o
      BY <1>3, <3>1, SlotFacts
    <3> QED
      BY <1>6, <3>1, <3>2 DEF IInv, SenderOwnsVC
  <2> QED
    BY <2>1, <2>2, <2>3 DEF SenderOwnsVC
<1>14. OccupancyBounded'
  BY <1>8 DEF IInv, OccupancyBounded
<1>15. FreeIsEmpty'
  BY <1>5, <1>6 DEF IInv, FreeIsEmpty
<1> QED
  BY <1>7, <1>9, <1>10, <1>12, <1>13, <1>14, <1>15 DEF IInv

-----------------------------------------------------------------------------
(* AllocateSwitch moves a flit from a buffer to the crossbar: the account  *)
(* of the slot it leaves for grows, a credit starts back for the one it    *)
(* leaves, and its sender gives up the VC with the tail.                   *)
LEMMA AllocateSwitchStep ==
  ASSUME IInv, NEW l \in InputLinks, NEW v \in VCs, AllocateSwitch(l, v)
  PROVE  IInv'
<1> DEFINE s == <<l, v>>
           o == out[s]
           f == Head(buf[s])
           next == StateAfter(f, Tail(buf[s]))
<1>1. TypeOK /\ s \in Slots /\ s \in InputLinks \X VCs
  BY SlotFacts DEF IInv
<1>2. /\ buf' = [buf EXCEPT ![s] = Tail(buf[s])]
      /\ bs' = [bs EXCEPT ![o] = SendingFlit(bs[o], f)]
      /\ xbar' = [xbar EXCEPT ![o] = Append(xbar[o], f)]
      /\ credits' = [credits EXCEPT ![s] = credits[s] + 1]
      /\ state' = [state EXCEPT ![s] = next]
      /\ out' = [out EXCEPT ![s] = IF IsTail(f) THEN s ELSE out[s]]
      /\ UNCHANGED <<sent, pos, srcVC, wire, regs, absorbed, merged, ejected>>
      /\ buf[s] # <<>> /\ state[s] = "active" /\ ~IsFull(bs[o])
  BY <1>1 DEF AllocateSwitch, TypeOK, srcVars, compVars
<1>3. o \in OutputLinks \X VCs /\ o \in Slots
  BY <1>1, <1>2, SlotFacts DEF IInv, ActiveSendsOut
<1>4. /\ bs[o] \in BufferStates /\ bs[o].occ \in Nat
      /\ bs[o].inUse /\ ~bs[o].tailSent
  BY <1>1, <1>2, <1>3, SlotTypes DEF IInv, SenderOwnsVC
<1>5. /\ f \in Flits /\ Tail(buf[s]) \in Seq(Flits) /\ Len(Tail(buf[s])) = Len(buf[s]) - 1
      /\ Append(xbar[o], f) \in Seq(Flits) /\ Len(Append(xbar[o], f)) = Len(xbar[o]) + 1
  BY <1>1, <1>2, <1>3, SlotTypes, HeadOfFlits, AppendFlit
<1>6. next \in {"idle", "vc_alloc", "active"} /\ (next = "active" => ~IsTail(f))
  BY DEF StateAfter
<1> HIDE DEF s, f, o, next
<1>7. /\ SendingFlit(bs[o], f) \in BufferStates
      /\ SendingFlit(bs[o], f).occ = bs[o].occ + 1
      /\ WaitForTailCredit \/ ~IsTail(f) => SendingFlit(bs[o], f).inUse
      /\ ~IsTail(f) => ~SendingFlit(bs[o], f).tailSent
  BY <1>4, SendingFlitType
<1>8. /\ bs'[o] = SendingFlit(bs[o], f)
      /\ \A t \in Slots : t # o => bs'[t] = bs[t]
      /\ state'[s] = next
      /\ out'[s] = IF IsTail(f) THEN s ELSE o
      /\ \A t \in Slots : t # s => out'[t] = out[t] /\ state'[t] = state[t]
  BY <1>1, <1>2, <1>3 DEF TypeOK, o
<1>9. TypeOK'
  <2>1. bs' \in [Slots -> BufferStates]
    BY <1>1, <1>2, <1>7 DEF TypeOK, BufferStates
  <2>2. buf' \in [Slots -> Seq(Flits)] /\ xbar' \in [Slots -> Seq(Flits)]
    BY <1>1, <1>2, <1>5 DEF TypeOK
  <2>3. state' \in [Slots -> {"idle", "vc_alloc", "active"}]
    BY <1>1, <1>2, <1>6 DEF TypeOK
  <2>4. out' \in [Slots -> Slots]
    <3>1. (IF IsTail(f) THEN s ELSE out[s]) \in Slots
      BY <1>1 DEF TypeOK
    <3> QED
      BY <1>1, <1>2, <3>1 DEF TypeOK
  <2>5. credits' \in [Slots -> Nat]
    BY <1>1, <1>2 DEF TypeOK
  <2> QED
    BY <1>1, <1>2, <2>1, <2>2, <2>3, <2>4, <2>5 DEF TypeOK, BufferStates
<1>10. CreditsConserved'
  <2> SUFFICES ASSUME NEW t \in Slots
               PROVE  bs'[t].occ = InXbar(t)' + OnWire(t)' + InBuf(t)'
                                     + credits'[t] + absorbed'[t]
    BY DEF CreditsConserved, InXbar, OnWire, InBuf
  <2>1. /\ InXbar(t) \in Nat /\ OnWire(t) \in Nat /\ InBuf(t) \in Nat
        /\ bs[t].occ \in Nat /\ credits[t] \in Nat /\ absorbed[t] \in Nat
        /\ bs[t].occ = InXbar(t) + OnWire(t) + InBuf(t) + credits[t] + absorbed[t]
    BY Counts DEF IInv
  <2>2. OnWire(t)' = OnWire(t) /\ absorbed' = absorbed
    BY <1>2 DEF OnWire
  <2>3. bs'[t].occ = bs[t].occ + (IF t = o THEN 1 ELSE 0)
    <3>1. CASE t = o
      BY <1>7, <1>8, <3>1
    <3>2. CASE t # o
      BY <1>8, <2>1, <3>2
    <3> QED
      BY <3>1, <3>2
  <2>4. InXbar(t)' = InXbar(t) + (IF t = o THEN 1 ELSE 0)
    <3>1. CASE t = o
      BY <1>1, <1>2, <1>5, <3>1 DEF TypeOK, InXbar
    <3>2. CASE t # o
      <4>1. InXbar(t)' = InXbar(t)
        BY <1>1, <1>2, <3>2 DEF TypeOK, InXbar
      <4> QED
        BY <2>1, <3>2, <4>1
    <3> QED
      BY <3>1, <3>2
  <2>5. CASE t = s
    <3>1. InBuf(t)' = InBuf(t) - 1 /\ credits'[t] = credits[t] + 1
      BY <1>1, <1>2, <1>5, <2>5 DEF TypeOK, InBuf
    <3> QED
      BY <2>1, <2>2, <2>3, <2>4, <3>1
  <2>6. CASE t # s
    <3>1. InBuf(t)' = InBuf(t) /\ credits'[t] = credits[t]
      BY <1>1, <1>2, <2>6 DEF TypeOK, InBuf
    <3> QED
      BY <2>1, <2>2, <2>3, <2>4, <3>1
  <2> QED
    BY <2>5, <2>6
<1>11. InjectionInPacket'
  BY <1>2 DEF IInv, InjectionInPacket
<1>12. \A x \in InputLinks \X VCs : state'[x] = "active" =>
         state[x] = "active" /\ out'[x] = out[x] /\ out[x] \in Slots
  BY <1>1, <1>2, <1>6, <1>8, SlotFacts DEF IInv, ActiveSendsOut, o
<1>13. ActiveSendsOut'
  BY <1>12 DEF IInv, ActiveSendsOut
<1>14. SenderOwnsVC'
  <2>1. ASSUME NEW x \in InputLinks \X VCs, state'[x] = "active"
        PROVE  bs'[out'[x]].inUse /\ ~bs'[out'[x]].tailSent
    <3>1. CASE x = s
      <4>1. ~IsTail(f)
        BY <1>6, <1>8, <2>1, <3>1
      <4> QED
        BY <1>7, <1>8, <3>1, <4>1
    <3>2. CASE x # s
      <4>1. out[x] # o
        BY <1>1, <1>2, <1>12, <2>1, <3>2 DEF IInv, SenderOwnsVC, o
      <4> QED
        BY <1>8, <1>12, <2>1, <4>1 DEF IInv, SenderOwnsVC
    <3> QED
      BY <3>1, <3>2
  <2>2. ASSUME NEW x \in InputLinks \X VCs, NEW t \in InputLinks \X VCs,
               state'[x] = "active", state'[t] = "active", out'[t] = out'[x]
        PROVE  t = x
    BY <1>12, <2>2 DEF IInv, SenderOwnsVC
  <2>3. ASSUME NEW m \in InjectLinks, NEW u \in srcVC'[m]
        PROVE  bs'[<<m, u>>].inUse /\ ~bs'[<<m, u>>].tailSent
    <3>1. u \in VCs /\ u \in srcVC[m]
      BY <1>1, <1>2, <2>3 DEF TypeOK
    <3>2. <<m, u>> \in Slots /\ <<m, u>> # o
      BY <1>3, <3>1, SlotFacts
    <3> QED
      BY <1>8, <3>1, <3>2 DEF IInv, SenderOwnsVC
  <2> QED
    BY <2>1, <2>2, <2>3 DEF SenderOwnsVC
<1>15. OccupancyBounded'
  <2>1. bs[o].occ < BufSize
    BY <1>2, <1>4, NetworkAssumption DEF IsFull
  <2>2. bs'[o].occ <= BufSize
    BY <1>4, <1>7, <1>8, <2>1, NetworkAssumption
  <2> QED
    BY <1>8, <2>2 DEF IInv, OccupancyBounded
<1>16. FreeIsEmpty'
  BY <1>7, <1>8 DEF IInv, FreeIsEmpty
<1> QED
  BY <1>9, <1>10, <1>11, <1>13, <1>14, <1>15, <1>16 DEF IInv

-----------------------------------------------------------------------------
(* TraverseSwitch moves a flit from the crossbar to the wire, or to the    *)
(* absorbed ones.                                                          *)
LEMMA TraverseSwitchStep ==
  ASSUME IInv, NEW l \in OutputLinks, NEW v \in VCs, TraverseSwitch(l, v)
  PROVE  IInv'
<1> DEFINE s == <<l, v>>
           r == Source[l]
           f == Head(xbar[s])
           c == Compute(r, f)
           g == [f EXCEPT !.data = c.data]
<1>1. TypeOK /\ s \in Slots /\ r \in Routers
  BY SlotFacts DEF IInv, OutputLinks, InjectLinks
<1>2. /\ xbar' = [xbar EXCEPT ![s] = Tail(xbar[s])]
      /\ regs' = [regs EXCEPT ![r] = c.reg]
      /\ \/ /\ wire' = [wire EXCEPT ![s] = Append(wire[s], g)]
            /\ UNCHANGED <<absorbed, merged>>
         \/ /\ absorbed' = [absorbed EXCEPT ![s] = absorbed[s] + 1]
            /\ merged' = [merged EXCEPT ![f.pkt] = merged[f.pkt] + 1]
            /\ UNCHANGED wire
      /\ UNCHANGED <<sent, pos, srcVC, bs, credits, buf, state, out, ejected>>
      /\ xbar[s] # <<>>
  <2>1. f.pkt \in PacketIds
    BY <1>1, SlotTypes, HeadOfFlits DEF TraverseSwitch, Flits
  <2> QED
    BY <1>1, <2>1 DEF TraverseSwitch, TypeOK, srcVars, inVars
<1>3. f \in Flits /\ Tail(xbar[s]) \in Seq(Flits) /\ Len(Tail(xbar[s])) = Len(xbar[s]) - 1
  BY <1>1, <1>2, SlotTypes, HeadOfFlits
<1>4. c.data \in Int /\ c.reg \in Regs
  BY <1>1, <1>3, ComputeType
<1> HIDE DEF c
<1>5. g \in Flits /\ f.pkt \in PacketIds
  BY <1>3, <1>4 DEF Flits
<1> HIDE DEF s, r, f, g
<1>6. Append(wire[s], g) \in Seq(Flits) /\ Len(Append(wire[s], g)) = Len(wire[s]) + 1
  BY <1>1, <1>5, SlotTypes, AppendFlit
<1>7. TypeOK'
  <2>1. xbar' \in [Slots -> Seq(Flits)]
    BY <1>1, <1>2, <1>3 DEF TypeOK
  <2>2. wire' \in [Slots -> Seq(Flits)]
    BY <1>1, <1>2, <1>6 DEF TypeOK
  <2>3. absorbed' \in [Slots -> Nat] /\ merged' \in [PacketIds -> Nat]
    <3>1. absorbed[s] + 1 \in Nat /\ merged[f.pkt] + 1 \in Nat
      BY <1>1, <1>5 DEF TypeOK
    <3>2. absorbed \in [Slots -> Nat] /\ merged \in [PacketIds -> Nat]
      BY <1>1 DEF TypeOK
    <3> QED
      BY <1>2, <3>1, <3>2
  <2>4. regs' \in [Routers -> Regs]
    BY <1>1, <1>2, <1>4 DEF TypeOK, Regs
  <2> QED
    BY <1>1, <1>2, <2>1, <2>2, <2>3, <2>4 DEF TypeOK, Regs
<1>8. CreditsConserved'
  <2> SUFFICES ASSUME NEW t \in Slots
               PROVE  bs'[t].occ = InXbar(t)' + OnWire(t)' + InBuf(t)'
                                     + credits'[t] + absorbed'[t]
    BY DEF CreditsConserved, InXbar, OnWire, InBuf
  <2>1. /\ InXbar(t) \in Nat /\ OnWire(t) \in Nat /\ InBuf(t) \in Nat
        /\ bs[t].occ \in Nat /\ credits[t] \in Nat /\ absorbed[t] \in Nat
        /\ bs[t].occ = InXbar(t) + OnWire(t) + InBuf(t) + credits[t] + absorbed[t]
    BY Counts DEF IInv
  <2>2. InBuf(t)' = InBuf(t) /\ bs' = bs /\ credits' = credits
    BY <1>2 DEF InBuf
  <2>3. CASE t = s
    <3>1. InXbar(t)' = InXbar(t) - 1
      BY <1>1, <1>2, <1>3, <2>3 DEF TypeOK, InXbar
    <3>2. CASE /\ wire' = [wire EXCEPT ![s] = Append(wire[s], g)]
               /\ UNCHANGED <<absorbed, merged>>
      <4>1. OnWire(t)' = OnWire(t) + 1 /\ absorbed'[t] = absorbed[t]
        BY <1>1, <1>6, <2>3, <3>2 DEF TypeOK, OnWire
      <4> QED
        BY <2>1, <2>2, <3>1, <4>1
    <3>3. CASE /\ absorbed' = [absorbed EXCEPT ![s] = absorbed[s] + 1]
               /\ UNCHANGED wire
      <4>1. OnWire(t)' = OnWire(t) /\ absorbed'[t] = absorbed[t] + 1
        BY <1>1, <2>3, <3>3 DEF TypeOK, OnWire
      <4> QED
        BY <2>1, <2>2, <3>1, <4>1
    <3> QED
      BY <1>2, <3>2, <3>3
  <2>4. CASE t # s
    <3>1. InXbar(t)' = InXbar(t) /\ OnWire(t)' = OnWire(t) /\ absorbed'[t] = absorbed[t]
      BY <1>1, <1>2, <2>4 DEF TypeOK, InXbar, OnWire
    <3> QED
      BY <2>1, <2>2, <3>1
  <2> QED
    BY <2>3, <2>4
<1>9. InjectionInPacket' /\ ActiveSendsOut' /\ SenderOwnsVC' /\ OccupancyBounded' /\ FreeIsEmpty'
  BY <1>2 DEF IInv, InjectionInPacket, ActiveSendsOut, SenderOwnsVC, OccupancyBounded,
              FreeIsEmpty
<1> QED
  BY <1>7, <1>8, <1>9 DEF IInv

-----------------------------------------------------------------------------
LEMMA StutterStep ==
  ASSUME IInv, UNCHANGED vars
  PROVE  IInv'
<1> USE DEF vars, srcVars, linkVars, inVars, compVars
<1>1. TypeOK' /\ CreditsConserved'
  BY DEF IInv, TypeOK, CreditsConserved
<1>2. InjectionInPacket' /\ ActiveSendsOut' /\ SenderOwnsVC' /\ OccupancyBounded' /\ FreeIsEmpty'
  BY DEF IInv, InjectionInPacket, ActiveSendsOut, SenderOwnsVC, OccupancyBounded, FreeIsEmpty
<1> QED
  BY <1>1, <1>2 DEF IInv

(* Flow control keeps its accounts and its owners in every network: the    *)
(* invariant all theorems below follow from.                               *)
THEOREM InductiveInvariant == Spec => []IInv
<1>1. Init => IInv
  BY InitIInv
<1>2. IInv /\ [Next]_vars => IInv'
  <2> SUFFICES ASSUME IInv, [Next]_vars
               PROVE  IInv'
    OBVIOUS
  <2>1. ASSUME NEW v \in VCs, NEW l \in InjectLinks, InjectFlit(l, v)
        PROVE  IInv'
    BY <2>1, InjectFlitStep
  <2>2. ASSUME NEW v \in VCs, NEW l \in EjectLinks, Eject(l, v)
        PROVE  IInv'
    BY <2>2, EjectStep
  <2>3. ASSUME NEW v \in VCs, NEW l \in InputLinks, ReceiveFlit(l, v)
        PROVE  IInv'
    BY <2>3, ReceiveFlitStep
  <2>4. ASSUME NEW v \in VCs, NEW l \in InputLinks, AllocateSwitch(l, v)
        PROVE  IInv'
    BY <2>4, AllocateSwitchStep
  <2>5. ASSUME NEW v \in VCs, NEW l \in InputLinks, NEW w \in VCs, AllocateVC(l, v, w)
        PROVE  IInv'
    BY <2>5, AllocateVCStep
  <2>6. ASSUME NEW v \in VCs, NEW l \in OutputLinks, TraverseSwitch(l, v)
        PROVE  IInv'
    BY <2>6, TraverseSwitchStep
  <2>7. ASSUME NEW s \in Slots, ReceiveCredit(s)
        PROVE  IInv'
    BY <2>7, ReceiveCreditStep
  <2>8. CASE UNCHANGED vars
    BY <2>8, StutterStep
  <2> QED
    BY <2>1, <2>2, <2>3, <2>4, <2>5, <2>6, <2>7, <2>8 DEF Next, Drained
<1> QED
  BY <1>1, <1>2, PTL DEF Spec

(* The variables keep their types; in particular no credit counter and no  *)
(* occupancy goes below zero, which ProcessCredit reports as an error.     *)
THEOREM TypeCorrect == Spec => []TypeOK
<1>1. IInv => TypeOK
  BY DEF IInv
<1> QED
  BY <1>1, InductiveInvariant, PTL

(* The sender's count of a VC equals what the network holds for it. *)
THEOREM CreditsAreConserved == Spec => []CreditsConserved
<1>1. IInv => CreditsConserved
  BY DEF IInv
<1> QED
  BY <1>1, InductiveInvariant, PTL

(* Neither the sender's count nor the receiver's buffer ever exceeds       *)
(* vc_buf_size, so no router reports a buffer overflow.                    *)
THEOREM NoOverflow == Spec => []BuffersNeverOverflow
<1>1. IInv => BuffersNeverOverflow
  <2> SUFFICES ASSUME IInv, NEW s \in Slots
               PROVE  bs[s].occ <= BufSize /\ Len(buf[s]) <= BufSize
    BY DEF BuffersNeverOverflow
  <2>1. bs[s].occ <= BufSize
    BY DEF IInv, OccupancyBounded
  <2>2. /\ InXbar(s) \in Nat /\ OnWire(s) \in Nat /\ InBuf(s) \in Nat
        /\ bs[s].occ \in Nat /\ credits[s] \in Nat /\ absorbed[s] \in Nat
        /\ bs[s].occ = InXbar(s) + OnWire(s) + InBuf(s) + credits[s] + absorbed[s]
    BY Counts DEF IInv
  <2>3. InBuf(s) <= BufSize
    BY <2>1, <2>2, NetworkAssumption
  <2> QED
    BY <2>1, <2>3 DEF InBuf
<1> QED
  BY <1>1, InductiveInvariant, PTL

(* A packet that is being sent owns its VC alone. *)
THEOREM PacketsOwnTheirVC == Spec => []SenderOwnsVC
<1>1. IInv => SenderOwnsVC
  BY DEF IInv
<1> QED
  BY <1>1, InductiveInvariant, PTL

(* With wait_for_tail_credit a VC is reallocated only after its tail and   *)
(* all its credits have left it: no credit ever arrives for an idle VC.    *)
THEOREM TailLeavesFirst == Spec => []ReuseAfterTailLeft
<1>1. IInv => ReuseAfterTailLeft
  <2> SUFFICES ASSUME IInv, WaitForTailCredit, NEW s \in Slots, ~bs[s].inUse
               PROVE  xbar[s] = <<>> /\ wire[s] = <<>> /\ buf[s] = <<>> /\ credits[s] = 0
    BY DEF ReuseAfterTailLeft
  <2>1. bs[s].occ = 0
    BY DEF IInv, FreeIsEmpty
  <2>2. /\ InXbar(s) \in Nat /\ OnWire(s) \in Nat /\ InBuf(s) \in Nat
        /\ bs[s].occ \in Nat /\ credits[s] \in Nat /\ absorbed[s] \in Nat
        /\ bs[s].occ = InXbar(s) + OnWire(s) + InBuf(s) + credits[s] + absorbed[s]
    BY Counts DEF IInv
  <2>3. InXbar(s) = 0 /\ OnWire(s) = 0 /\ InBuf(s) = 0 /\ credits[s] = 0
    <3>1. \A o, x, w, b, c, a \in Nat :
            o = x + w + b + c + a /\ o = 0 => x = 0 /\ w = 0 /\ b = 0 /\ c = 0
      OBVIOUS
    <3> QED
      BY <2>1, <2>2, <3>1
  <2>4. xbar[s] \in Seq(Flits) /\ wire[s] \in Seq(Flits) /\ buf[s] \in Seq(Flits)
    BY SlotTypes DEF IInv
  <2> QED
    BY <2>3, <2>4, EmptySeq DEF InXbar, OnWire, InBuf
<1> QED
  BY <1>1, InductiveInvariant, PTL

-----------------------------------------------------------------------------
(* Packets stay whole on the virtual channels: they lie one behind the     *)
(* other on every VC, each VC is in the state its front needs, and the     *)
(* flits of a packet come out in order, wherever the packet stretches over *)
(* several routers.                                                        *)

(* The name of a flit, whatever data it carries, and of the flit after it. *)
Cursors   == [pkt : Nat, i : Nat \ {0}]
NameOf(f) == [pkt |-> f.pkt, i |-> f.i]
After(f)  == [pkt |-> f.pkt, i |-> f.i + 1]

(* due is the flit that must leave a VC next, as a set, and empty when the *)
(* VC is between packets.                                                  *)
Dues == {D \in SUBSET Cursors : \A c, d \in D : c = d}

-----------------------------------------------------------------------------
(* A sequence q of flits on a VC from which due leaves next. *)
Follows(f, g) == IF IsTail(f) THEN IsHead(g) ELSE g.pkt = f.pkt /\ g.i = f.i + 1

Contiguous(q) == \A k \in 1 .. Len(q) - 1 : Follows(q[k], q[k + 1])

FrontFits(q, due) ==
  Len(q) > 0 => IF due = {} THEN IsHead(q[1]) ELSE due = {NameOf(q[1])}

InLine(q, due) == Contiguous(q) /\ FrontFits(q, due)

(* A head may be put behind q; the flit named x, not a head, may be.       *)
Closed(q, due)    == IF Len(q) = 0 THEN due = {} ELSE IsTail(q[Len(q)])
Awaits(q, due, x) ==
  IF Len(q) = 0 THEN due = {x} ELSE ~IsTail(q[Len(q)]) /\ x = After(q[Len(q)])

Admits(q, due, x) == IF x.i = 1 THEN Closed(q, due) ELSE Awaits(q, due, x)

(* What a change of q and due must not disturb. *)
Keeps(q, due, r, next) ==
  /\ InLine(r, next)
  /\ Closed(q, due) => Closed(r, next)
  /\ \A x \in Cursors : Admits(q, due, x) => Admits(r, next, x)

(* The ways in which the flits of a VC change. *)
Appended(q, r, f) ==
  /\ Len(r) = Len(q) + 1 /\ r[Len(r)] = f
  /\ \A k \in 1 .. Len(q) : r[k] = q[k]

Removed(q, r, j) ==
  /\ j \in 1 .. Len(q) /\ Len(r) = Len(q) - 1
  /\ \A k \in 1 .. Len(r) : r[k] = IF k < j THEN q[k] ELSE q[k + 1]

SameNames(q, r) ==
  /\ Len(r) = Len(q)
  /\ \A k \in 1 .. Len(q) : NameOf(r[k]) = NameOf(q[k])

-----------------------------------------------------------------------------
LEMMA FlitFacts ==
  ASSUME NEW f \in Flits
  PROVE  /\ f.pkt \in Nat /\ f.pkt \in PacketIds /\ f.i \in Nat \ {0}
         /\ f.i <= Packets[f.pkt].len /\ Packets[f.pkt].len \in Nat
         /\ NameOf(f) \in Cursors /\ NameOf(f).i = f.i /\ NameOf(f).pkt = f.pkt
         /\ After(f) \in Cursors /\ After(f).i = f.i + 1 /\ After(f).pkt = f.pkt
         /\ {NameOf(f)} \in Dues /\ {After(f)} \in Dues /\ {} \in Dues
<1>1. f.pkt \in PacketIds /\ f.i \in Nat \ {0} /\ f.i <= Packets[f.pkt].len
  BY DEF Flits
<1>2. PacketIds \subseteq Nat
  BY PacketAssumption, LenProperties DEF PacketIds
<1>3. Packets[f.pkt].len \in Nat
  BY <1>1, PacketRecordOf DEF PacketRecords
<1>4. NameOf(f) \in Cursors /\ After(f) \in Cursors
  <2>1. f.i + 1 \in Nat \ {0}
    BY <1>1
  <2> QED
    BY <1>1, <1>2, <2>1 DEF NameOf, After, Cursors
<1>5. /\ NameOf(f).i = f.i /\ NameOf(f).pkt = f.pkt
      /\ After(f).i = f.i + 1 /\ After(f).pkt = f.pkt
  BY DEF NameOf, After
<1>6. {NameOf(f)} \in Dues /\ {After(f)} \in Dues /\ {} \in Dues
  BY <1>4 DEF Dues
<1> QED
  BY <1>1, <1>2, <1>3, <1>4, <1>5, <1>6

LEMMA FlitsOf ==
  ASSUME NEW q \in Seq(Flits)
  PROVE  Len(q) \in Nat /\ \A k \in 1 .. Len(q) : q[k] \in Flits
  BY LenProperties, ElementOfSeq

(* A flit that may come is put behind the others. *)
LEMMA AppendKeeps ==
  ASSUME NEW q \in Seq(Flits), NEW r \in Seq(Flits), NEW f \in Flits, NEW due \in Dues,
         Appended(q, r, f), InLine(q, due), Admits(q, due, NameOf(f))
  PROVE  /\ InLine(r, due)
         /\ IsTail(f) => Closed(r, due)
         /\ ~IsTail(f) => Admits(r, due, After(f))
<1>1. /\ Len(q) \in Nat /\ \A k \in 1 .. Len(q) : q[k] \in Flits
      /\ Len(r) = Len(q) + 1 /\ r[Len(r)] = f
      /\ \A k \in 1 .. Len(q) : r[k] = q[k]
  BY FlitsOf DEF Appended
<1>2. Contiguous(r)
  <2> SUFFICES ASSUME NEW k \in 1 .. Len(r) - 1
               PROVE  Follows(r[k], r[k + 1])
    BY DEF Contiguous
  <2>1. CASE k < Len(q)
    BY <1>1, <2>1 DEF InLine, Contiguous
  <2>2. CASE k = Len(q)
    <3>1. r[k] = q[Len(q)] /\ r[k + 1] = f /\ Len(q) > 0
      BY <1>1, <2>2
    <3>2. Follows(q[Len(q)], f)
      <4>1. q[Len(q)] \in Flits
        BY <1>1, <3>1
      <4>2. /\ After(q[Len(q)]).pkt = q[Len(q)].pkt
            /\ After(q[Len(q)]).i = q[Len(q)].i + 1 /\ q[Len(q)].i \in Nat \ {0}
            /\ NameOf(f).pkt = f.pkt /\ NameOf(f).i = f.i
        BY <4>1, FlitFacts
      <4>3. CASE f.i = 1
        BY <3>1, <4>2, <4>3 DEF Admits, Closed, Follows, IsHead
      <4>4. CASE f.i # 1
        BY <3>1, <4>2, <4>4 DEF Admits, Awaits, Follows
      <4> QED
        BY <4>3, <4>4
    <3> QED
      BY <3>1, <3>2
  <2> QED
    BY <1>1, <2>1, <2>2
<1>3. FrontFits(r, due)
  <2>1. CASE Len(q) > 0
    BY <1>1, <2>1 DEF InLine, FrontFits
  <2>2. CASE Len(q) = 0
    <3>1. r[1] = f
      BY <1>1, <2>2
    <3>2. f.i = 1 => due = {}
      BY <2>2, FlitFacts DEF Admits, Closed
    <3>3. f.i # 1 => due = {NameOf(f)}
      BY <2>2, FlitFacts DEF Admits, Awaits
    <3> QED
      BY <3>1, <3>2, <3>3 DEF FrontFits, IsHead
  <2> QED
    BY <1>1, <2>1, <2>2
<1>4. IsTail(f) => Closed(r, due)
  BY <1>1 DEF Closed
<1>5. ~IsTail(f) => Admits(r, due, After(f))
  <2>1. After(f).i # 1
    <3>1. After(f).i = f.i + 1 /\ f.i \in Nat \ {0}
      BY FlitFacts
    <3> QED
      BY <3>1
  <2> QED
    BY <1>1, <2>1 DEF Admits, Awaits
<1> QED
  BY <1>2, <1>3, <1>4, <1>5 DEF InLine

(* The front leaves; the flit after it is due, or the VC is between packets. *)
LEMMA PopKeeps ==
  ASSUME NEW q \in Seq(Flits), NEW r \in Seq(Flits), NEW due \in Dues, NEW next \in Dues,
         Removed(q, r, 1), InLine(q, due),
         next = IF IsTail(q[1]) THEN {} ELSE {After(q[1])}
  PROVE  Keeps(q, due, r, next)
<1>1. /\ Len(q) \in Nat /\ Len(q) > 0 /\ \A k \in 1 .. Len(q) : q[k] \in Flits
      /\ Len(r) = Len(q) - 1 /\ \A k \in 1 .. Len(r) : r[k] = q[k + 1]
  BY FlitsOf DEF Removed
<1>2. Contiguous(r)
  BY <1>1 DEF InLine, Contiguous
<1>3. FrontFits(r, next)
  <2> SUFFICES ASSUME Len(r) > 0
               PROVE  IF next = {} THEN IsHead(r[1]) ELSE next = {NameOf(r[1])}
    BY DEF FrontFits
  <2>1. r[1] = q[2] /\ Follows(q[1], q[2]) /\ q[1] \in Flits /\ q[2] \in Flits
    BY <1>1 DEF InLine, Contiguous
  <2>2. CASE IsTail(q[1])
    BY <2>1, <2>2 DEF Follows
  <2>3. CASE ~IsTail(q[1])
    <3>1. NameOf(q[2]) = After(q[1])
      BY <2>1, <2>3 DEF Follows, NameOf, After
    <3> QED
      BY <2>1, <2>3, <3>1
  <2> QED
    BY <2>2, <2>3
<1>4. Len(r) > 0 => r[Len(r)] = q[Len(q)]
  BY <1>1
<1>5. Len(r) = 0 => Len(q) = 1
  BY <1>1
<1>6. Closed(q, due) => Closed(r, next)
  BY <1>1, <1>4, <1>5 DEF Closed
<1>7. ASSUME NEW x \in Cursors, Admits(q, due, x)
      PROVE  Admits(r, next, x)
  <2>1. CASE x.i = 1
    BY <1>6, <1>7, <2>1 DEF Admits
  <2>2. CASE x.i # 1
    BY <1>1, <1>4, <1>5, <1>7, <2>2 DEF Admits, Awaits
  <2> QED
    BY <2>1, <2>2
<1> QED
  BY <1>2, <1>3, <1>6, <1>7 DEF Keeps, InLine

(* A packet of a single flit is taken out of the middle. *)
LEMMA RemoveKeeps ==
  ASSUME NEW q \in Seq(Flits), NEW r \in Seq(Flits), NEW due \in Dues, NEW j,
         Removed(q, r, j), InLine(q, due), IsHead(q[j]), IsTail(q[j]),
         due # {} => j > 1
  PROVE  Keeps(q, due, r, due)
<1>1. /\ Len(q) \in Nat /\ Len(q) > 0 /\ \A k \in 1 .. Len(q) : q[k] \in Flits
      /\ Len(r) = Len(q) - 1 /\ j \in 1 .. Len(q) /\ j \in Nat
      /\ \A k \in 1 .. Len(r) : r[k] = IF k < j THEN q[k] ELSE q[k + 1]
  BY FlitsOf DEF Removed
<1>2. \A k \in 1 .. Len(q) - 1 : Follows(q[k], q[k + 1])
  BY DEF InLine, Contiguous
<1>3. j > 1 => IsTail(q[j - 1])
  <2> SUFFICES ASSUME j > 1 PROVE IsTail(q[j - 1])
    OBVIOUS
  <2>1. Follows(q[j - 1], q[j]) /\ q[j - 1] \in Flits /\ q[j] \in Flits
    BY <1>1, <1>2
  <2>2. q[j].i = 1 /\ q[j - 1].i \in Nat \ {0}
    BY <2>1, FlitFacts DEF IsHead
  <2> QED
    BY <2>1, <2>2 DEF Follows
<1>4. j < Len(q) => IsHead(q[j + 1])
  BY <1>1, <1>2 DEF Follows
<1>5. Contiguous(r)
  <2> SUFFICES ASSUME NEW k \in 1 .. Len(r) - 1
               PROVE  Follows(r[k], r[k + 1])
    BY DEF Contiguous
  <2>1. CASE k + 1 < j
    BY <1>1, <1>2, <2>1
  <2>2. CASE k + 1 = j
    <3>1. r[k] = q[j - 1] /\ r[k + 1] = q[j + 1] /\ j > 1 /\ j < Len(q)
      BY <1>1, <2>2
    <3> QED
      BY <1>3, <1>4, <3>1 DEF Follows
  <2>3. CASE k >= j
    BY <1>1, <1>2, <2>3
  <2> QED
    BY <1>1, <2>1, <2>2, <2>3
<1>6. FrontFits(r, due)
  <2>1. CASE j > 1
    BY <1>1, <2>1 DEF InLine, FrontFits
  <2>2. CASE j = 1
    BY <1>1, <1>4, <2>2 DEF FrontFits
  <2> QED
    BY <1>1, <2>1, <2>2
<1>7. /\ Len(r) > 0 /\ j < Len(q) => r[Len(r)] = q[Len(q)]
      /\ Len(r) > 0 /\ j = Len(q) => r[Len(r)] = q[j - 1] /\ j > 1
      /\ Len(r) = 0 => Len(q) = 1 /\ j = 1 /\ due = {}
  BY <1>1
<1>8. Closed(r, due) \/ ~IsTail(q[Len(q)])
  BY <1>1, <1>3, <1>7 DEF Closed
<1>9. Closed(q, due) => Closed(r, due)
  BY <1>1, <1>8 DEF Closed
<1>10. ASSUME NEW x \in Cursors, Admits(q, due, x)
       PROVE  Admits(r, due, x)
  <2>1. CASE x.i = 1
    BY <1>9, <1>10, <2>1 DEF Admits
  <2>2. CASE x.i # 1
    <3>1. ~IsTail(q[Len(q)]) /\ x = After(q[Len(q)])
      BY <1>1, <1>10, <2>2 DEF Admits, Awaits
    <3>2. j < Len(q) /\ Len(r) > 0
      BY <1>1, <3>1
    <3> QED
      BY <1>7, <2>2, <3>1, <3>2 DEF Admits, Awaits
  <2> QED
    BY <2>1, <2>2
<1> QED
  BY <1>5, <1>6, <1>9, <1>10 DEF Keeps, InLine

(* Only the data of flits changes. *)
LEMMA NamesKeep ==
  ASSUME NEW q \in Seq(Flits), NEW r \in Seq(Flits), NEW due \in Dues,
         SameNames(q, r), InLine(q, due)
  PROVE  Keeps(q, due, r, due)
<1>1. /\ Len(q) \in Nat /\ Len(r) = Len(q)
      /\ \A k \in 1 .. Len(q) : q[k] \in Flits /\ r[k] \in Flits
  BY FlitsOf DEF SameNames
<1>2. \A k \in 1 .. Len(q) : /\ NameOf(r[k]) = NameOf(q[k]) /\ After(r[k]) = After(q[k])
                             /\ r[k].pkt = q[k].pkt /\ r[k].i = q[k].i
  <2> TAKE k \in 1 .. Len(q)
  <2>1. NameOf(r[k]) = NameOf(q[k])
    BY DEF SameNames
  <2>2. r[k].pkt = q[k].pkt /\ r[k].i = q[k].i
    BY <1>1, <2>1, FlitFacts
  <2> QED
    BY <2>1, <2>2 DEF After
<1>3. \A k \in 1 .. Len(q) : (IsHead(r[k]) <=> IsHead(q[k])) /\ (IsTail(r[k]) <=> IsTail(q[k]))
  BY <1>2 DEF IsHead, IsTail
<1>4. Contiguous(r)
  <2> SUFFICES ASSUME NEW k \in 1 .. Len(q) - 1
               PROVE  Follows(r[k], r[k + 1])
    BY <1>1 DEF Contiguous
  <2>1. k \in 1 .. Len(q) /\ k + 1 \in 1 .. Len(q) /\ Follows(q[k], q[k + 1])
    BY <1>1 DEF InLine, Contiguous
  <2> QED
    BY <1>2, <1>3, <2>1 DEF Follows
<1>5. FrontFits(r, due)
  <2>1. Len(q) > 0 => 1 \in 1 .. Len(q)
    BY <1>1
  <2> QED
    BY <1>1, <1>2, <1>3, <2>1 DEF InLine, FrontFits
<1>6. Len(q) > 0 => Len(q) \in 1 .. Len(q)
  BY <1>1
<1>7. Closed(q, due) => Closed(r, due)
  BY <1>1, <1>3, <1>6 DEF Closed
<1>8. ASSUME NEW x \in Cursors, Admits(q, due, x)
      PROVE  Admits(r, due, x)
  <2>1. CASE x.i = 1
    BY <1>7, <1>8, <2>1 DEF Admits
  <2>2. CASE x.i # 1
    BY <1>1, <1>2, <1>3, <1>6, <1>8, <2>2 DEF Admits, Awaits
  <2> QED
    BY <2>1, <2>2
<1> QED
  BY <1>4, <1>5, <1>7, <1>8 DEF Keeps, InLine

(* A packet at the front becomes due. *)
LEMMA StartKeeps ==
  ASSUME NEW q \in Seq(Flits), InLine(q, {}), Len(q) > 0
  PROVE  Keeps(q, {}, q, {NameOf(q[1])})
<1>1. InLine(q, {NameOf(q[1])})
  BY DEF InLine, FrontFits
<1>2. Closed(q, {}) => Closed(q, {NameOf(q[1])})
  BY DEF Closed
<1>3. \A x \in Cursors : Admits(q, {}, x) => Admits(q, {NameOf(q[1])}, x)
  BY DEF Admits, Awaits, Closed
<1> QED
  BY <1>1, <1>2, <1>3 DEF Keeps

-----------------------------------------------------------------------------
(* OnVC, place by place: m flits in the buffer b, n on the wire w behind   *)
(* them, and o in the crossbar x.                                          *)
Joined(q, b, w, x, m, n, o) ==
  /\ m \in Nat /\ n \in Nat /\ o \in Nat
  /\ Len(b) = m /\ Len(w) = n /\ Len(x) = o /\ Len(q) = m + n + o
  /\ \A k \in 1 .. m : q[k] = b[k]
  /\ \A k \in m + 1 .. m + n : q[k] = w[k - m]
  /\ \A k \in m + n + 1 .. m + n + o : q[k] = x[k - m - n]

LEMMA PlacesOf ==
  ASSUME NEW b \in Seq(Flits), NEW w \in Seq(Flits), NEW x \in Seq(Flits)
  PROVE  /\ b \o w \o x \in Seq(Flits)
         /\ Joined(b \o w \o x, b, w, x, Len(b), Len(w), Len(x))
<1> DEFINE m == Len(b)
           n == Len(w)
           o == Len(x)
<1>1. m \in Nat /\ n \in Nat /\ o \in Nat
  BY LenProperties
<1> DEFINE bw == b \o w
<1>2. /\ bw \in Seq(Flits) /\ Len(bw) = m + n
      /\ \A k \in 1 .. m + n : bw[k] = IF k <= m THEN b[k] ELSE w[k - m]
  BY ConcatProperties
<1> HIDE DEF bw
<1> DEFINE q == bw \o x
<1>3. /\ q \in Seq(Flits) /\ Len(q) = Len(bw) + o
      /\ \A k \in 1 .. Len(bw) + o : q[k] = IF k <= Len(bw) THEN bw[k] ELSE x[k - Len(bw)]
  <2>1. bw \in Seq(Flits)
    BY <1>2
  <2> QED
    BY ONLY <2>1, x \in Seq(Flits), ConcatProperties
<1>4. Len(b) = m /\ Len(w) = n /\ Len(x) = o
  OBVIOUS
<1> HIDE DEF q, m, n, o
<1>5. /\ Len(q) = m + n + o
      /\ \A k \in 1 .. m + n + o : q[k] = IF k <= m + n THEN bw[k] ELSE x[k - (m + n)]
  BY <1>2, <1>3
<1>6. \A k \in 1 .. m : q[k] = b[k]
  BY <1>1, <1>2, <1>5
<1>7. ASSUME NEW k \in m + 1 .. m + n
      PROVE  q[k] = w[k - m]
  <2>1. k \in 1 .. m + n /\ k \in 1 .. m + n + o /\ ~(k <= m) /\ k <= m + n
    BY <1>1
  <2> QED
    BY <1>2, <1>5, <2>1
<1>8. ASSUME NEW k \in m + n + 1 .. m + n + o
      PROVE  q[k] = x[k - m - n]
  <2>1. k \in 1 .. m + n + o /\ ~(k <= m + n) /\ k - (m + n) = k - m - n
    BY <1>1
  <2> QED
    BY <1>5, <2>1
<1>9. q \in Seq(Flits) /\ Joined(q, b, w, x, m, n, o)
  BY <1>1, <1>3, <1>4, <1>5, <1>6, <1>7, <1>8 DEF Joined
<1> QED
  BY <1>9 DEF q, bw, m, n, o

(* A sequence without its head, and one with a flit more. *)
Without(q, t, n) ==
  /\ n \in Nat /\ Len(q) = n + 1 /\ Len(t) = n
  /\ \A k \in 1 .. n : t[k] = q[k + 1]

LEMMA TailOf ==
  ASSUME NEW q \in Seq(Flits), q # <<>>
  PROVE  /\ Tail(q) \in Seq(Flits) /\ Head(q) = q[1] /\ q[1] \in Flits
         /\ Without(q, Tail(q), Len(Tail(q)))
<1>1. /\ Tail(q) \in Seq(Flits) /\ Head(q) = q[1]
      /\ Len(q) \in Nat \ {0} /\ Len(Tail(q)) = Len(q) - 1
      /\ \A k \in 1 .. Len(q) - 1 : Tail(q)[k] = q[k + 1]
  BY HeadTailProperties, LenProperties, EmptySeq
<1>2. q[1] \in Flits
  BY <1>1, ElementOfSeq
<1> QED
  BY <1>1, <1>2 DEF Without

LEMMA AppendOf ==
  ASSUME NEW q \in Seq(Flits), NEW f \in Flits
  PROVE  Append(q, f) \in Seq(Flits) /\ Appended(q, Append(q, f), f)
<1>1. /\ Append(q, f) \in Seq(Flits) /\ Len(Append(q, f)) = Len(q) + 1
      /\ Append(q, f)[Len(q) + 1] = f
      /\ \A k \in 1 .. Len(q) : Append(q, f)[k] = q[k]
  BY AppendProperties
<1> QED
  BY <1>1 DEF Appended

(* A flit moves from the wire to the buffer. *)
LEMMA JoinedReceived ==
  ASSUME NEW q, NEW r, NEW b, NEW w, NEW x, NEW c, NEW t, NEW m, NEW n, NEW o,
         Joined(q, b, w, x, m, n + 1, o), Joined(r, c, t, x, m + 1, n, o),
         Appended(b, c, w[1]), Without(w, t, n)
  PROVE  SameNames(q, r)
<1>1. /\ m \in Nat /\ n \in Nat /\ o \in Nat /\ Len(b) = m /\ Len(c) = m + 1
      /\ Len(q) = m + n + 1 + o /\ Len(r) = m + n + 1 + o
      /\ c[m + 1] = w[1] /\ \A k \in 1 .. m : c[k] = b[k]
      /\ \A k \in 1 .. n : t[k] = w[k + 1]
  BY DEF Joined, Appended, Without
<1>2. ASSUME NEW k \in 1 .. m + n + 1 + o
      PROVE  r[k] = q[k]
  <2>1. CASE k <= m
    <3>1. k \in 1 .. m /\ k \in 1 .. m + 1
      BY <1>1, <2>1
    <3>2. q[k] = b[k] /\ r[k] = c[k]
      BY <3>1 DEF Joined
    <3> QED
      BY <1>1, <3>1, <3>2
  <2>2. CASE k = m + 1
    <3>1. k \in 1 .. m + 1 /\ k \in m + 1 .. m + (n + 1) /\ k - m = 1
      BY <1>1, <2>2
    <3>2. q[k] = w[k - m] /\ r[k] = c[k]
      BY <3>1 DEF Joined
    <3> QED
      BY <1>1, <2>2, <3>1, <3>2
  <2>3. CASE k > m + 1 /\ k <= m + 1 + n
    <3>1. /\ k \in m + 1 .. m + (n + 1) /\ k \in (m + 1) + 1 .. (m + 1) + n
          /\ k - (m + 1) \in 1 .. n /\ (k - (m + 1)) + 1 = k - m
      BY <1>1, <2>3
    <3>2. q[k] = w[k - m] /\ r[k] = t[k - (m + 1)]
      BY <3>1 DEF Joined
    <3> QED
      BY <1>1, <3>1, <3>2
  <2>4. CASE k > m + 1 + n
    <3>1. /\ k \in m + (n + 1) + 1 .. m + (n + 1) + o
          /\ k \in (m + 1) + n + 1 .. (m + 1) + n + o
          /\ k - (m + 1) - n = k - m - (n + 1)
      BY <1>1, <2>4
    <3>2. q[k] = x[k - m - (n + 1)] /\ r[k] = x[k - (m + 1) - n]
      BY <3>1 DEF Joined
    <3> QED
      BY <3>1, <3>2
  <2> QED
    BY <1>1, <2>1, <2>2, <2>3, <2>4
<1> QED
  BY <1>1, <1>2 DEF SameNames

(* A flit moves from the crossbar to the wire, with new data. *)
LEMMA JoinedSent ==
  ASSUME NEW q, NEW r, NEW b, NEW w, NEW x, NEW c, NEW t, NEW m, NEW n, NEW o, NEW g,
         Joined(q, b, w, x, m, n, o + 1), Joined(r, b, c, t, m, n + 1, o),
         Appended(w, c, g), NameOf(g) = NameOf(x[1]), Without(x, t, o)
  PROVE  SameNames(q, r)
<1>1. /\ m \in Nat /\ n \in Nat /\ o \in Nat /\ Len(w) = n /\ Len(c) = n + 1
      /\ Len(q) = m + n + 1 + o /\ Len(r) = m + n + 1 + o
      /\ c[n + 1] = g /\ \A k \in 1 .. n : c[k] = w[k]
      /\ \A k \in 1 .. o : t[k] = x[k + 1]
  BY DEF Joined, Appended, Without
<1>2. ASSUME NEW k \in 1 .. m + n + 1 + o
      PROVE  NameOf(r[k]) = NameOf(q[k])
  <2>1. CASE k <= m
    <3>1. k \in 1 .. m
      BY <1>1, <2>1
    <3>2. q[k] = b[k] /\ r[k] = b[k]
      BY <3>1 DEF Joined
    <3> QED
      BY <3>2
  <2>2. CASE k > m /\ k <= m + n
    <3>1. k \in m + 1 .. m + n /\ k \in m + 1 .. m + (n + 1) /\ k - m \in 1 .. n
      BY <1>1, <2>2
    <3>2. q[k] = w[k - m] /\ r[k] = c[k - m]
      BY <3>1 DEF Joined
    <3> QED
      BY <1>1, <3>1, <3>2
  <2>3. CASE k = m + n + 1
    <3>1. /\ k \in m + 1 .. m + (n + 1) /\ k - m = n + 1
          /\ k \in m + n + 1 .. m + n + (o + 1) /\ k - m - n = 1
      BY <1>1, <2>3
    <3>2. q[k] = x[k - m - n] /\ r[k] = c[k - m]
      BY <3>1 DEF Joined
    <3> QED
      BY <1>1, <3>1, <3>2
  <2>4. CASE k > m + n + 1
    <3>1. /\ k \in m + n + 1 .. m + n + (o + 1)
          /\ k \in m + (n + 1) + 1 .. m + (n + 1) + o
          /\ k - m - (n + 1) \in 1 .. o /\ (k - m - (n + 1)) + 1 = k - m - n
      BY <1>1, <2>4
    <3>2. q[k] = x[k - m - n] /\ r[k] = t[k - m - (n + 1)]
      BY <3>1 DEF Joined
    <3> QED
      BY <1>1, <3>1, <3>2
  <2> QED
    BY <1>1, <2>1, <2>2, <2>3, <2>4
<1> QED
  BY <1>1, <1>2 DEF SameNames

(* A flit is taken out of the crossbar. *)
LEMMA JoinedAbsorbed ==
  ASSUME NEW q, NEW r, NEW b, NEW w, NEW x, NEW t, NEW m, NEW n, NEW o,
         Joined(q, b, w, x, m, n, o + 1), Joined(r, b, w, t, m, n, o), Without(x, t, o)
  PROVE  Removed(q, r, m + n + 1) /\ q[m + n + 1] = x[1]
<1>1. /\ m \in Nat /\ n \in Nat /\ o \in Nat
      /\ Len(q) = m + n + 1 + o /\ Len(r) = m + n + o
      /\ \A k \in 1 .. o : t[k] = x[k + 1]
  BY DEF Joined, Without
<1>2. ASSUME NEW k \in 1 .. m + n + o
      PROVE  r[k] = IF k < m + n + 1 THEN q[k] ELSE q[k + 1]
  <2>1. CASE k <= m
    <3>1. k \in 1 .. m /\ k < m + n + 1
      BY <1>1, <2>1
    <3>2. q[k] = b[k] /\ r[k] = b[k]
      BY <3>1 DEF Joined
    <3> QED
      BY <3>1, <3>2
  <2>2. CASE k > m /\ k <= m + n
    <3>1. k \in m + 1 .. m + n /\ k < m + n + 1
      BY <1>1, <2>2
    <3>2. q[k] = w[k - m] /\ r[k] = w[k - m]
      BY <3>1 DEF Joined
    <3> QED
      BY <3>1, <3>2
  <2>3. CASE k > m + n
    <3>1. /\ k \in m + n + 1 .. m + n + o /\ ~(k < m + n + 1)
          /\ k + 1 \in m + n + 1 .. m + n + (o + 1)
          /\ k - m - n \in 1 .. o /\ (k - m - n) + 1 = (k + 1) - m - n
      BY <1>1, <2>3
    <3>2. q[k + 1] = x[(k + 1) - m - n] /\ r[k] = t[k - m - n]
      BY <3>1 DEF Joined
    <3> QED
      BY <1>1, <3>1, <3>2
  <2> QED
    BY <1>1, <2>1, <2>2, <2>3
<1>3. q[m + n + 1] = x[1]
  <2>1. m + n + 1 \in m + n + 1 .. m + n + (o + 1) /\ (m + n + 1) - m - n = 1
    BY <1>1
  <2>2. q[m + n + 1] = x[(m + n + 1) - m - n]
    BY <2>1 DEF Joined
  <2> QED
    BY <2>1, <2>2
<1>4. m + n + 1 \in 1 .. Len(q) /\ Len(r) = Len(q) - 1
  BY <1>1
<1> QED
  BY <1>1, <1>2, <1>3, <1>4 DEF Removed

(* The front leaves the buffer, or the wire when nothing is buffered. *)
LEMMA JoinedPoppedBuffer ==
  ASSUME NEW q, NEW r, NEW b, NEW w, NEW x, NEW t, NEW m, NEW n, NEW o,
         Joined(q, b, w, x, m + 1, n, o), Joined(r, t, w, x, m, n, o), Without(b, t, m)
  PROVE  Removed(q, r, 1) /\ q[1] = b[1]
<1>1. /\ m \in Nat /\ n \in Nat /\ o \in Nat
      /\ Len(q) = m + n + 1 + o /\ Len(r) = m + n + o
      /\ \A k \in 1 .. m : t[k] = b[k + 1]
  BY DEF Joined, Without
<1>2. ASSUME NEW k \in 1 .. m + n + o
      PROVE  r[k] = q[k + 1]
  <2>1. CASE k <= m
    <3>1. k \in 1 .. m /\ k + 1 \in 1 .. m + 1
      BY <1>1, <2>1
    <3>2. q[k + 1] = b[k + 1] /\ r[k] = t[k]
      BY <3>1 DEF Joined
    <3> QED
      BY <1>1, <3>1, <3>2
  <2>2. CASE k > m /\ k <= m + n
    <3>1. /\ k \in m + 1 .. m + n /\ k + 1 \in (m + 1) + 1 .. (m + 1) + n
          /\ (k + 1) - (m + 1) = k - m
      BY <1>1, <2>2
    <3>2. q[k + 1] = w[(k + 1) - (m + 1)] /\ r[k] = w[k - m]
      BY <3>1 DEF Joined
    <3> QED
      BY <3>1, <3>2
  <2>3. CASE k > m + n
    <3>1. /\ k \in m + n + 1 .. m + n + o
          /\ k + 1 \in (m + 1) + n + 1 .. (m + 1) + n + o
          /\ (k + 1) - (m + 1) - n = k - m - n
      BY <1>1, <2>3
    <3>2. q[k + 1] = x[(k + 1) - (m + 1) - n] /\ r[k] = x[k - m - n]
      BY <3>1 DEF Joined
    <3> QED
      BY <3>1, <3>2
  <2> QED
    BY <1>1, <2>1, <2>2, <2>3
<1>3. q[1] = b[1]
  <2>1. 1 \in 1 .. m + 1
    BY <1>1
  <2> QED
    BY <2>1 DEF Joined
<1>4. 1 \in 1 .. Len(q) /\ Len(r) = Len(q) - 1
  BY <1>1
<1> QED
  BY <1>1, <1>2, <1>3, <1>4 DEF Removed

LEMMA JoinedPoppedWire ==
  ASSUME NEW q, NEW r, NEW b, NEW w, NEW x, NEW t, NEW n, NEW o,
         Joined(q, b, w, x, 0, n + 1, o), Joined(r, b, t, x, 0, n, o), Without(w, t, n)
  PROVE  Removed(q, r, 1) /\ q[1] = w[1]
<1>1. /\ n \in Nat /\ o \in Nat
      /\ Len(q) = n + 1 + o /\ Len(r) = n + o
      /\ \A k \in 1 .. n : t[k] = w[k + 1]
  BY DEF Joined, Without
<1>2. ASSUME NEW k \in 1 .. n + o
      PROVE  r[k] = q[k + 1]
  <2>1. CASE k <= n
    <3>1. /\ k \in 0 + 1 .. 0 + n /\ k + 1 \in 0 + 1 .. 0 + (n + 1) /\ k \in 1 .. n
          /\ k - 0 = k /\ (k + 1) - 0 = k + 1
      BY <1>1, <2>1
    <3>2. q[k + 1] = w[(k + 1) - 0] /\ r[k] = t[k - 0]
      BY <3>1 DEF Joined
    <3> QED
      BY <1>1, <3>1, <3>2
  <2>2. CASE k > n
    <3>1. /\ k \in 0 + n + 1 .. 0 + n + o
          /\ k + 1 \in 0 + (n + 1) + 1 .. 0 + (n + 1) + o
          /\ (k + 1) - 0 - (n + 1) = k - 0 - n
      BY <1>1, <2>2
    <3>2. q[k + 1] = x[(k + 1) - 0 - (n + 1)] /\ r[k] = x[k - 0 - n]
      BY <3>1 DEF Joined
    <3> QED
      BY <3>1, <3>2
  <2> QED
    BY <1>1, <2>1, <2>2
<1>3. q[1] = w[1]
  <2>1. 1 \in 0 + 1 .. 0 + (n + 1) /\ 1 - 0 = 1
    BY <1>1
  <2>2. q[1] = w[1 - 0]
    BY <2>1 DEF Joined
  <2> QED
    BY <2>1, <2>2
<1>4. 1 \in 1 .. Len(q) /\ Len(r) = Len(q) - 1
  BY <1>1
<1> QED
  BY <1>1, <1>2, <1>3, <1>4 DEF Removed

(* A flit enters the crossbar, or the wire when the crossbar is empty. *)
LEMMA JoinedCrossbar ==
  ASSUME NEW q, NEW r, NEW b, NEW w, NEW x, NEW c, NEW m, NEW n, NEW o, NEW f,
         Joined(q, b, w, x, m, n, o), Joined(r, b, w, c, m, n, o + 1), Appended(x, c, f)
  PROVE  Appended(q, r, f)
<1>1. /\ m \in Nat /\ n \in Nat /\ o \in Nat
      /\ Len(x) = o /\ Len(q) = m + n + o /\ Len(r) = m + n + o + 1
      /\ Len(c) = o + 1 /\ c[o + 1] = f /\ \A k \in 1 .. o : c[k] = x[k]
  BY DEF Joined, Appended
<1>2. ASSUME NEW k \in 1 .. m + n + o
      PROVE  r[k] = q[k]
  <2>1. CASE k <= m
    <3>1. k \in 1 .. m
      BY <1>1, <2>1
    <3> QED
      BY <3>1 DEF Joined
  <2>2. CASE k > m /\ k <= m + n
    <3>1. k \in m + 1 .. m + n
      BY <1>1, <2>2
    <3>2. q[k] = w[k - m] /\ r[k] = w[k - m]
      BY <3>1 DEF Joined
    <3> QED
      BY <3>2
  <2>3. CASE k > m + n
    <3>1. /\ k \in m + n + 1 .. m + n + o /\ k \in m + n + 1 .. m + n + (o + 1)
          /\ k - m - n \in 1 .. o
      BY <1>1, <2>3
    <3>2. q[k] = x[k - m - n] /\ r[k] = c[k - m - n]
      BY <3>1 DEF Joined
    <3> QED
      BY <1>1, <3>1, <3>2
  <2> QED
    BY <1>1, <2>1, <2>2, <2>3
<1>3. r[Len(r)] = f
  <2>1. m + n + o + 1 \in m + n + 1 .. m + n + (o + 1) /\ (m + n + o + 1) - m - n = o + 1
    BY <1>1
  <2>2. r[m + n + o + 1] = c[(m + n + o + 1) - m - n]
    BY <2>1 DEF Joined
  <2> QED
    BY <1>1, <2>1, <2>2
<1> QED
  BY <1>1, <1>2, <1>3 DEF Appended

LEMMA JoinedWire ==
  ASSUME NEW q, NEW r, NEW b, NEW w, NEW x, NEW c, NEW m, NEW n, NEW f,
         Joined(q, b, w, x, m, n, 0), Joined(r, b, c, x, m, n + 1, 0), Appended(w, c, f)
  PROVE  Appended(q, r, f)
<1>1. /\ m \in Nat /\ n \in Nat
      /\ Len(w) = n /\ Len(q) = m + n /\ Len(r) = m + n + 1
      /\ Len(c) = n + 1 /\ c[n + 1] = f /\ \A k \in 1 .. n : c[k] = w[k]
  BY DEF Joined, Appended
<1>2. ASSUME NEW k \in 1 .. m + n
      PROVE  r[k] = q[k]
  <2>1. CASE k <= m
    <3>1. k \in 1 .. m
      BY <1>1, <2>1
    <3> QED
      BY <3>1 DEF Joined
  <2>2. CASE k > m
    <3>1. k \in m + 1 .. m + n /\ k \in m + 1 .. m + (n + 1) /\ k - m \in 1 .. n
      BY <1>1, <2>2
    <3>2. q[k] = w[k - m] /\ r[k] = c[k - m]
      BY <3>1 DEF Joined
    <3> QED
      BY <1>1, <3>1, <3>2
  <2> QED
    BY <1>1, <2>1, <2>2
<1>3. r[Len(r)] = f
  <2>1. m + n + 1 \in m + 1 .. m + (n + 1) /\ (m + n + 1) - m = n + 1
    BY <1>1
  <2>2. r[m + n + 1] = c[(m + n + 1) - m]
    BY <2>1 DEF Joined
  <2> QED
    BY <1>1, <2>1, <2>2
<1> QED
  BY <1>1, <1>2, <1>3 DEF Appended

(* The same of the sequences of the model. *)
LEMMA ReceivedSame ==
  ASSUME NEW b \in Seq(Flits), NEW w \in Seq(Flits), NEW x \in Seq(Flits), w # <<>>
  PROVE  SameNames(b \o w \o x, Append(b, Head(w)) \o Tail(w) \o x)
<1> DEFINE c == Append(b, Head(w))
           t == Tail(w)
           q == b \o w \o x
           r == c \o t \o x
<1>1. t \in Seq(Flits) /\ Head(w) = w[1] /\ w[1] \in Flits /\ Without(w, t, Len(t))
  BY TailOf
<1>2. c \in Seq(Flits) /\ Appended(b, c, w[1])
  BY <1>1, AppendOf
<1> HIDE DEF c, t
<1>3. Joined(q, b, w, x, Len(b), Len(w), Len(x)) /\ Joined(r, c, t, x, Len(c), Len(t), Len(x))
  BY <1>1, <1>2, PlacesOf
<1>4. Len(w) = Len(t) + 1 /\ Len(c) = Len(b) + 1
  BY <1>1, <1>2 DEF Without, Appended
<1> HIDE DEF q, r
<1>5. Joined(q, b, w, x, Len(b), Len(t) + 1, Len(x)) /\ Joined(r, c, t, x, Len(b) + 1, Len(t), Len(x))
  BY <1>3, <1>4
<1>6. SameNames(q, r)
  BY <1>1, <1>2, <1>5, JoinedReceived
<1> QED
  BY <1>6 DEF q, r, c, t

LEMMA SentSame ==
  ASSUME NEW b \in Seq(Flits), NEW w \in Seq(Flits), NEW x \in Seq(Flits), x # <<>>,
         NEW g \in Flits, NameOf(g) = NameOf(Head(x))
  PROVE  SameNames(b \o w \o x, b \o Append(w, g) \o Tail(x))
<1> DEFINE c == Append(w, g)
           t == Tail(x)
           q == b \o w \o x
           r == b \o c \o t
<1>1. t \in Seq(Flits) /\ Head(x) = x[1] /\ Without(x, t, Len(t))
  BY TailOf
<1>2. c \in Seq(Flits) /\ Appended(w, c, g)
  BY AppendOf
<1> HIDE DEF c, t
<1>3. Joined(q, b, w, x, Len(b), Len(w), Len(x)) /\ Joined(r, b, c, t, Len(b), Len(c), Len(t))
  BY <1>1, <1>2, PlacesOf
<1>4. Len(x) = Len(t) + 1 /\ Len(c) = Len(w) + 1
  BY <1>1, <1>2 DEF Without, Appended
<1> HIDE DEF q, r
<1>5. Joined(q, b, w, x, Len(b), Len(w), Len(t) + 1) /\ Joined(r, b, c, t, Len(b), Len(w) + 1, Len(t))
  BY <1>3, <1>4
<1>6. SameNames(q, r)
  BY <1>1, <1>2, <1>5, JoinedSent
<1> QED
  BY <1>6 DEF q, r, c, t

LEMMA AbsorbedOne ==
  ASSUME NEW b \in Seq(Flits), NEW w \in Seq(Flits), NEW x \in Seq(Flits), x # <<>>
  PROVE  /\ Removed(b \o w \o x, b \o w \o Tail(x), Len(b) + Len(w) + 1)
         /\ (b \o w \o x)[Len(b) + Len(w) + 1] = Head(x)
<1> DEFINE t == Tail(x)
           q == b \o w \o x
           r == b \o w \o t
<1>1. t \in Seq(Flits) /\ Head(x) = x[1] /\ Without(x, t, Len(t))
  BY TailOf
<1> HIDE DEF t
<1>3. Joined(q, b, w, x, Len(b), Len(w), Len(x)) /\ Joined(r, b, w, t, Len(b), Len(w), Len(t))
  BY <1>1, PlacesOf
<1>4. Len(x) = Len(t) + 1
  BY <1>1 DEF Without
<1> HIDE DEF q, r
<1> DEFINE m == Len(b)
           n == Len(w)
           o == Len(t)
<1>5. Joined(q, b, w, x, m, n, o + 1) /\ Joined(r, b, w, t, m, n, o) /\ Without(x, t, o)
  BY <1>1, <1>3, <1>4
<1> HIDE DEF m, n, o
<1>6. Removed(q, r, m + n + 1) /\ q[m + n + 1] = x[1]
  BY <1>5, JoinedAbsorbed
<1> QED
  BY <1>1, <1>6 DEF q, r, t, m, n

LEMMA PoppedFromBuffer ==
  ASSUME NEW b \in Seq(Flits), NEW w \in Seq(Flits), NEW x \in Seq(Flits), b # <<>>
  PROVE  /\ Removed(b \o w \o x, Tail(b) \o w \o x, 1)
         /\ (b \o w \o x)[1] = Head(b)
<1> DEFINE t == Tail(b)
           q == b \o w \o x
           r == t \o w \o x
<1>1. t \in Seq(Flits) /\ Head(b) = b[1] /\ Without(b, t, Len(t))
  BY TailOf
<1> HIDE DEF t
<1>3. Joined(q, b, w, x, Len(b), Len(w), Len(x)) /\ Joined(r, t, w, x, Len(t), Len(w), Len(x))
  BY <1>1, PlacesOf
<1>4. Len(b) = Len(t) + 1
  BY <1>1 DEF Without
<1> HIDE DEF q, r
<1>5. Joined(q, b, w, x, Len(t) + 1, Len(w), Len(x))
  BY <1>3, <1>4
<1>6. Removed(q, r, 1) /\ q[1] = b[1]
  BY <1>1, <1>3, <1>5, JoinedPoppedBuffer
<1> QED
  BY <1>1, <1>6 DEF q, r, t

LEMMA PoppedFromWire ==
  ASSUME NEW b \in Seq(Flits), NEW w \in Seq(Flits), NEW x \in Seq(Flits), b = <<>>, w # <<>>
  PROVE  /\ Removed(b \o w \o x, b \o Tail(w) \o x, 1)
         /\ (b \o w \o x)[1] = Head(w)
<1> DEFINE t == Tail(w)
           q == b \o w \o x
           r == b \o t \o x
<1>1. t \in Seq(Flits) /\ Head(w) = w[1] /\ Without(w, t, Len(t))
  BY TailOf
<1> HIDE DEF t
<1>3. Joined(q, b, w, x, Len(b), Len(w), Len(x)) /\ Joined(r, b, t, x, Len(b), Len(t), Len(x))
  BY <1>1, PlacesOf
<1>4. Len(w) = Len(t) + 1 /\ Len(b) = 0
  BY <1>1, EmptySeq DEF Without
<1> HIDE DEF q, r
<1>5. Joined(q, b, w, x, 0, Len(t) + 1, Len(x)) /\ Joined(r, b, t, x, 0, Len(t), Len(x))
  BY <1>3, <1>4
<1>6. Removed(q, r, 1) /\ q[1] = w[1]
  BY <1>1, <1>5, JoinedPoppedWire
<1> QED
  BY <1>1, <1>6 DEF q, r, t

LEMMA AppendedToCrossbar ==
  ASSUME NEW b \in Seq(Flits), NEW w \in Seq(Flits), NEW x \in Seq(Flits), NEW f \in Flits
  PROVE  Appended(b \o w \o x, b \o w \o Append(x, f), f)
<1> DEFINE c == Append(x, f)
           q == b \o w \o x
           r == b \o w \o c
<1>1. c \in Seq(Flits) /\ Appended(x, c, f)
  BY AppendOf
<1> HIDE DEF c
<1>3. Joined(q, b, w, x, Len(b), Len(w), Len(x)) /\ Joined(r, b, w, c, Len(b), Len(w), Len(c))
  BY <1>1, PlacesOf
<1>4. Len(c) = Len(x) + 1
  BY <1>1 DEF Appended
<1> HIDE DEF q, r
<1>5. Joined(r, b, w, c, Len(b), Len(w), Len(x) + 1)
  BY <1>3, <1>4
<1>6. Appended(q, r, f)
  BY <1>1, <1>3, <1>5, JoinedCrossbar
<1> QED
  BY <1>6 DEF q, r, c

LEMMA AppendedToWire ==
  ASSUME NEW b \in Seq(Flits), NEW w \in Seq(Flits), NEW x \in Seq(Flits), x = <<>>,
         NEW f \in Flits
  PROVE  Appended(b \o w \o x, b \o Append(w, f) \o x, f)
<1> DEFINE c == Append(w, f)
           q == b \o w \o x
           r == b \o c \o x
<1>1. c \in Seq(Flits) /\ Appended(w, c, f)
  BY AppendOf
<1> HIDE DEF c
<1>3. Joined(q, b, w, x, Len(b), Len(w), Len(x)) /\ Joined(r, b, c, x, Len(b), Len(c), Len(x))
  BY <1>1, PlacesOf
<1>4. Len(c) = Len(w) + 1 /\ Len(x) = 0
  BY <1>1, EmptySeq DEF Appended
<1> HIDE DEF q, r
<1>5. Joined(q, b, w, x, Len(b), Len(w), 0) /\ Joined(r, b, c, x, Len(b), Len(w) + 1, 0)
  BY <1>3, <1>4
<1>6. Appended(q, r, f)
  BY <1>1, <1>5, JoinedWire
<1> QED
  BY <1>6 DEF q, r, c

-----------------------------------------------------------------------------
(* Heads on a VC: a packet has at most one. *)
HasHead(q, p) == \E k \in 1 .. Len(q) : q[k].pkt = p /\ IsHead(q[k])
OneHead(q, p) ==
  \A j, k \in 1 .. Len(q) :
    q[j].pkt = p /\ IsHead(q[j]) /\ q[k].pkt = p /\ IsHead(q[k]) => j = k

HeadsLeft(q, r) ==
  \A p \in PacketIds : /\ OneHead(q, p) => OneHead(r, p)
                       /\ HasHead(r, p) => HasHead(q, p)

LEMMA HeadsSame ==
  ASSUME NEW q \in Seq(Flits), NEW r \in Seq(Flits), SameNames(q, r)
  PROVE  HeadsLeft(q, r)
<1>1. /\ Len(r) = Len(q) /\ \A k \in 1 .. Len(q) : q[k] \in Flits /\ r[k] \in Flits
  BY FlitsOf DEF SameNames
<1>2. \A k \in 1 .. Len(q) : r[k].pkt = q[k].pkt /\ r[k].i = q[k].i
  <2> TAKE k \in 1 .. Len(q)
  <2>1. NameOf(r[k]) = NameOf(q[k])
    BY DEF SameNames
  <2> QED
    BY <1>1, <2>1, FlitFacts
<1> QED
  BY <1>1, <1>2 DEF HeadsLeft, OneHead, HasHead, IsHead

LEMMA HeadsRemoved ==
  ASSUME NEW q \in Seq(Flits), NEW r \in Seq(Flits), NEW j, Removed(q, r, j)
  PROVE  /\ HeadsLeft(q, r)
         /\ IsHead(q[j]) /\ OneHead(q, q[j].pkt) => ~HasHead(r, q[j].pkt)
<1>1. /\ Len(q) \in Nat /\ j \in 1 .. Len(q) /\ j \in Nat /\ Len(r) = Len(q) - 1
      /\ \A k \in 1 .. Len(r) : r[k] = IF k < j THEN q[k] ELSE q[k + 1]
  BY FlitsOf DEF Removed
<1> DEFINE at(k) == IF k < j THEN k ELSE k + 1
<1>2. \A k \in 1 .. Len(r) : at(k) \in 1 .. Len(q) /\ at(k) # j /\ r[k] = q[at(k)]
  BY <1>1
<1>3. \A k, m \in 1 .. Len(r) : at(k) = at(m) => k = m
  BY <1>1
<1> HIDE DEF at
<1>4. \A p : OneHead(q, p) => OneHead(r, p)
  BY <1>2, <1>3 DEF OneHead
<1>5. \A p : HasHead(r, p) => HasHead(q, p)
  BY <1>2 DEF HasHead
<1>6. IsHead(q[j]) /\ OneHead(q, q[j].pkt) => ~HasHead(r, q[j].pkt)
  BY <1>1, <1>2 DEF OneHead, HasHead
<1> QED
  BY <1>4, <1>5, <1>6 DEF HeadsLeft

LEMMA HeadsAppended ==
  ASSUME NEW q \in Seq(Flits), NEW r \in Seq(Flits), NEW f, Appended(q, r, f),
         NEW p
  PROVE  /\ HasHead(r, p) => HasHead(q, p) \/ (IsHead(f) /\ f.pkt = p)
         /\ OneHead(q, p) /\ ~(IsHead(f) /\ f.pkt = p /\ HasHead(q, p)) => OneHead(r, p)
<1>1. /\ Len(q) \in Nat /\ Len(r) = Len(q) + 1 /\ r[Len(q) + 1] = f
      /\ \A k \in 1 .. Len(q) : r[k] = q[k]
  BY FlitsOf DEF Appended
<1>2. \A k \in 1 .. Len(r) : k \in 1 .. Len(q) \/ k = Len(q) + 1
  BY <1>1
<1>3. HasHead(r, p) => HasHead(q, p) \/ (IsHead(f) /\ f.pkt = p)
  BY <1>1, <1>2 DEF HasHead
<1>4. OneHead(q, p) /\ ~(IsHead(f) /\ f.pkt = p /\ HasHead(q, p)) => OneHead(r, p)
  <2> SUFFICES ASSUME OneHead(q, p), ~(IsHead(f) /\ f.pkt = p /\ HasHead(q, p)),
                      NEW j \in 1 .. Len(r), NEW k \in 1 .. Len(r),
                      r[j].pkt = p, IsHead(r[j]), r[k].pkt = p, IsHead(r[k])
               PROVE  j = k
    BY DEF OneHead
  <2>1. CASE j \in 1 .. Len(q) /\ k \in 1 .. Len(q)
    BY <1>1, <2>1 DEF OneHead
  <2>2. CASE j = Len(q) + 1 /\ k = Len(q) + 1
    BY <2>2
  <2>3. CASE j \in 1 .. Len(q) /\ k = Len(q) + 1
    BY <1>1, <2>3 DEF HasHead
  <2>4. CASE j = Len(q) + 1 /\ k \in 1 .. Len(q)
    BY <1>1, <2>4 DEF HasHead
  <2> QED
    BY <1>2, <2>1, <2>2, <2>3, <2>4
<1> QED
  BY <1>3, <1>4

-----------------------------------------------------------------------------
(* A VC with what its senders still owe it: come holds the flit they send  *)
(* next, when they are in a packet.                                        *)
SlotInv(q, due, come) ==
  /\ InLine(q, due)
  /\ \A x \in come : Admits(q, due, x)
  /\ come = {} => Closed(q, due)

LEMMA SlotKept ==
  ASSUME NEW q, NEW r, NEW due, NEW next, NEW come \in SUBSET Cursors,
         SlotInv(q, due, come), Keeps(q, due, r, next)
  PROVE  SlotInv(r, next, come)
  BY DEF SlotInv, Keeps

LEMMA SlotTaken ==
  ASSUME NEW q, NEW due, NEW x \in Cursors, SlotInv(q, due, {}), x.i = 1
  PROVE  SlotInv(q, due, {x})
  BY DEF SlotInv, Admits

LEMMA SlotFed ==
  ASSUME NEW q \in Seq(Flits), NEW r \in Seq(Flits), NEW f \in Flits, NEW due \in Dues, NEW come,
         SlotInv(q, due, come), Appended(q, r, f),
         NameOf(f) \in come \/ (come = {} /\ IsHead(f))
  PROVE  SlotInv(r, due, IF IsTail(f) THEN {} ELSE {After(f)})
<1>1. Admits(q, due, NameOf(f))
  <2>1. CASE NameOf(f) \in come
    BY <2>1 DEF SlotInv
  <2>2. CASE come = {} /\ IsHead(f)
    BY <2>2, FlitFacts DEF SlotInv, Admits, IsHead
  <2> QED
    BY <2>1, <2>2
<1>2. InLine(q, due)
  BY DEF SlotInv
<1>3. /\ InLine(r, due)
      /\ IsTail(f) => Closed(r, due)
      /\ ~IsTail(f) => Admits(r, due, After(f))
  BY <1>1, <1>2, AppendKeeps
<1> QED
  BY <1>3 DEF SlotInv

-----------------------------------------------------------------------------
(* The inductive invariant. due says, for every slot, which flit leaves it *)
(* next: at a router's input and at a terminal alike.                      *)
InSlots == InputLinks \X VCs
EjSlots == EjectLinks \X VCs

Feeds(t, s) == state[t] = "active" /\ out[t] = s
NextFlit(l) == [pkt |-> NextPacket(l), i |-> pos[l] + 1]
Injects(l, s) == l = s[1] /\ s[2] \in srcVC[l]

Coming(due, s) ==
  {x \in Cursors : \/ \E t \in InSlots : Feeds(t, s) /\ x \in due[t]
                   \/ \E l \in InjectLinks : Injects(l, s) /\ x = NextFlit(l)}

Flowing(due) == \A s \in Slots : SlotInv(OnVC(s), due[s], Coming(due, s))

(* A router's VC is active exactly when a flit of a packet is due.         *)
StateFits(due, s) ==
  /\ state[s] = "idle" => buf[s] = <<>>
  /\ state[s] = "vc_alloc" => buf[s] # <<>>
  /\ state[s] = "active" <=> due[s] # {}
  /\ \A x \in due[s] : /\ x.pkt \in PacketIds
                       /\ x.i = 1 => buf[s] # <<>>
                       /\ out[s][1] = Packets[x.pkt].path[Sink[s[1]]]
  /\ state[s] # "active" => out[s] = s

StatesFit(due) == \A s \in InSlots : StateFits(due, s)

(* An injection link sends on one VC as long as a packet lasts, past no    *)
(* crossbar.                                                               *)
SourceFits(l) ==
  /\ srcVC[l] = {} <=> pos[l] = 0
  /\ srcVC[l] # {} => sent[l] < Len(Backlog[l])
  /\ \A v, w \in srcVC[l] : v = w

SourcesFit ==
  /\ \A l \in InjectLinks : SourceFits(l)
  /\ \A s \in Slots : s[1] \in InjectLinks => xbar[s] = <<>>

(* A terminal has taken the flits of a packet up to the one due, and no    *)
(* two of its VCs take the same packet.                                    *)
EjectFits(due, s) ==
  /\ buf[s] = <<>>
  /\ \A x \in due[s] : x.i > 1 /\ x.pkt \in PacketIds /\ Len(ejected[x.pkt]) = x.i - 1

EjectsFit(due) ==
  /\ \A s \in EjSlots : EjectFits(due, s)
  /\ \A s, t \in EjSlots : \A x \in due[s], y \in due[t] : x.pkt = y.pkt => s = t

(* A packet's head is on one VC at most, and nothing of the packet has     *)
(* left while it is there or has not been sent.                            *)
Unbegun(p) ==
  \E l \in InjectLinks : \E k \in 1 .. Len(Backlog[l]) :
    Backlog[l][k] = p /\ k > sent[l] /\ (k = sent[l] + 1 => pos[l] = 0)

HeadFits(p) ==
  /\ \A s \in Slots : OneHead(OnVC(s), p)
  /\ \A s, t \in Slots : HasHead(OnVC(s), p) /\ HasHead(OnVC(t), p) => s = t
  /\ \A s \in Slots : HasHead(OnVC(s), p) => ejected[p] = <<>>
  /\ Unbegun(p) => ejected[p] = <<>> /\ \A s \in Slots : ~HasHead(OnVC(s), p)

HeadsFit == \A p \in PacketIds : HeadFits(p)

Wormhole(due) ==
  /\ Flowing(due)
  /\ StatesFit(due)
  /\ SourcesFit
  /\ EjectsFit(due)
  /\ HeadsFit
  /\ EjectedInOrder

WormInv == IInv /\ \E due \in [Slots -> Dues] : Wormhole(due)

-----------------------------------------------------------------------------
LEMMA OnVCType ==
  ASSUME TypeOK, NEW s \in Slots
  PROVE  /\ buf[s] \in Seq(Flits) /\ wire[s] \in Seq(Flits) /\ xbar[s] \in Seq(Flits)
         /\ OnVC(s) \in Seq(Flits)
         /\ Joined(OnVC(s), buf[s], wire[s], xbar[s], Len(buf[s]), Len(wire[s]), Len(xbar[s]))
<1>1. buf[s] \in Seq(Flits) /\ wire[s] \in Seq(Flits) /\ xbar[s] \in Seq(Flits)
  BY SlotTypes
<1> QED
  BY <1>1, PlacesOf DEF OnVC

(* The front of a VC is the front of its buffer, or of the wire. *)
LEMMA FrontOf ==
  ASSUME TypeOK, NEW s \in Slots
  PROVE  /\ Len(OnVC(s)) \in Nat
         /\ buf[s] # <<>> => Len(OnVC(s)) > 0 /\ OnVC(s)[1] = Head(buf[s])
         /\ buf[s] = <<>> /\ wire[s] # <<>> => Len(OnVC(s)) > 0 /\ OnVC(s)[1] = Head(wire[s])
         /\ Len(OnVC(s)) > 0 => OnVC(s)[1] \in Flits
<1>1. /\ buf[s] \in Seq(Flits) /\ wire[s] \in Seq(Flits) /\ xbar[s] \in Seq(Flits)
      /\ OnVC(s) \in Seq(Flits)
  BY OnVCType
<1>3. ASSUME buf[s] # <<>>
      PROVE  Len(OnVC(s)) > 0 /\ OnVC(s)[1] = Head(buf[s])
  <2>1. /\ Removed(OnVC(s), Tail(buf[s]) \o wire[s] \o xbar[s], 1)
        /\ OnVC(s)[1] = Head(buf[s])
    BY <1>1, <1>3, PoppedFromBuffer DEF OnVC
  <2> QED
    BY <1>1, <2>1, FlitsOf DEF Removed
<1>4. ASSUME buf[s] = <<>>, wire[s] # <<>>
      PROVE  Len(OnVC(s)) > 0 /\ OnVC(s)[1] = Head(wire[s])
  <2>1. /\ Removed(OnVC(s), buf[s] \o Tail(wire[s]) \o xbar[s], 1)
        /\ OnVC(s)[1] = Head(wire[s])
    BY <1>1, <1>4, PoppedFromWire DEF OnVC
  <2> QED
    BY <1>1, <2>1, FlitsOf DEF Removed
<1>5. Len(OnVC(s)) \in Nat /\ \A k \in 1 .. Len(OnVC(s)) : OnVC(s)[k] \in Flits
  BY <1>1, FlitsOf
<1> QED
  BY <1>3, <1>4, <1>5

LEMMA NextFlitType ==
  ASSUME TypeOK, NEW l \in InjectLinks, sent[l] < Len(Backlog[l])
  PROVE  /\ NextFlit(l) \in Cursors
         /\ NextFlit(l).pkt = NextPacket(l) /\ NextFlit(l).i = pos[l] + 1
<1>1. NextPacket(l) \in PacketIds /\ PacketIds \subseteq Nat
  BY NextPacketType, PacketAssumption, LenProperties DEF PacketIds
<1>2. pos[l] \in Nat
  BY DEF TypeOK
<1>3. pos[l] + 1 \in Nat \ {0}
  BY <1>2
<1> QED
  BY <1>1, <1>3 DEF NextFlit, Cursors

(* When a slot is fed, something is coming.                                *)
LEMMA ComingType ==
  ASSUME NEW due, NEW s
  PROVE  Coming(due, s) \in SUBSET Cursors
  BY DEF Coming

(* Nobody feeds a slot that is available. *)
LEMMA AvailableUnfed ==
  ASSUME IInv, NEW due, NEW s \in Slots, ~bs[s].inUse
  PROVE  /\ Coming(due, s) = {}
         /\ \A t \in InSlots : ~Feeds(t, s)
         /\ \A l \in InjectLinks : ~Injects(l, s)
<1>1. \A t \in InSlots : ~Feeds(t, s)
  BY DEF IInv, SenderOwnsVC, Feeds, InSlots
<1>2. \A l \in InjectLinks : ~Injects(l, s)
  <2>1. \A l \in InjectLinks : l = s[1] => s = <<l, s[2]>>
    BY DEF Slots
  <2> QED
    BY <2>1 DEF IInv, SenderOwnsVC, Injects
<1> QED
  BY <1>1, <1>2 DEF Coming

(* A router never feeds a slot of an injection link, a source only those,  *)
(* and no two inputs feed the same slot.                                   *)
LEMMA OneFeeder ==
  ASSUME IInv, NEW s \in Slots
  PROVE  /\ s[1] \in InjectLinks => \A t \in InSlots : ~Feeds(t, s)
         /\ s[1] \notin InjectLinks => \A l \in InjectLinks : ~Injects(l, s)
         /\ \A t, u \in InSlots : Feeds(t, s) /\ Feeds(u, s) => t = u
<1>1. \A t \in InSlots : Feeds(t, s) => s \in OutputLinks \X VCs
  BY DEF IInv, ActiveSendsOut, Feeds, InSlots
<1>2. s \in OutputLinks \X VCs => s[1] \notin InjectLinks
  BY DEF OutputLinks
<1>3. \A t, u \in InSlots : Feeds(t, s) /\ Feeds(u, s) => t = u
  BY DEF IInv, SenderOwnsVC, Feeds, InSlots
<1> QED
  BY <1>1, <1>2, <1>3 DEF Injects

-----------------------------------------------------------------------------
(* Steps that leave the senders alone. *)
LEMMA ComingSame ==
  ASSUME NEW due, NEW next, NEW s,
         UNCHANGED <<sent, pos, srcVC>>,
         \A t \in InSlots : Feeds(t, s)' <=> Feeds(t, s),
         \A t \in InSlots : Feeds(t, s) => next[t] = due[t]
  PROVE  Coming(next, s)' = Coming(due, s)
<1>1. \A l \in InjectLinks : NextFlit(l)' = NextFlit(l) /\ (Injects(l, s)' <=> Injects(l, s))
  BY DEF NextFlit, NextPacket, Injects
<1> QED
  BY <1>1 DEF Coming

LEMMA HeadsStay ==
  ASSUME HeadsFit, UNCHANGED <<sent, pos, ejected>>,
         \A s \in Slots : HeadsLeft(OnVC(s), OnVC(s)')
  PROVE  HeadsFit'
<1> SUFFICES ASSUME NEW p \in PacketIds
             PROVE  HeadFits(p)'
  BY DEF HeadsFit
<1>1. HeadFits(p)
  BY DEF HeadsFit
<1>2. \A s \in Slots : /\ OneHead(OnVC(s)', p)
                       /\ HasHead(OnVC(s)', p) => HasHead(OnVC(s), p)
  BY <1>1 DEF HeadFits, HeadsLeft
<1>3. Unbegun(p)' <=> Unbegun(p)
  BY DEF Unbegun
<1>4. \A s, t \in Slots : HasHead(OnVC(s)', p) /\ HasHead(OnVC(t)', p) => s = t
  BY <1>1, <1>2 DEF HeadFits
<1>5. \A s \in Slots : HasHead(OnVC(s)', p) => ejected'[p] = <<>>
  BY <1>1, <1>2 DEF HeadFits
<1>6. Unbegun(p)' => ejected'[p] = <<>> /\ \A s \in Slots : ~HasHead(OnVC(s)', p)
  BY <1>1, <1>2, <1>3 DEF HeadFits
<1>7. \A s \in Slots : OneHead(OnVC(s)', p)
  BY <1>2
<1> QED
  BY <1>4, <1>5, <1>6, <1>7 DEF HeadFits

LEMMA HeadsUnmoved ==
  ASSUME NEW q PROVE HeadsLeft(q, q)
  BY DEF HeadsLeft

LEMMA KeepsSame ==
  ASSUME NEW q, NEW due, InLine(q, due)
  PROVE  Keeps(q, due, q, due)
  BY DEF Keeps

LEMMA FlowKept ==
  ASSUME NEW due, NEW next, Flowing(due), UNCHANGED <<sent, pos, srcVC>>,
         \A t \in InSlots, s \in Slots : Feeds(t, s)' <=> Feeds(t, s),
         \A t \in InSlots : next[t] = due[t],
         \A s \in Slots : Keeps(OnVC(s), due[s], OnVC(s)', next[s])
  PROVE  Flowing(next)'
<1> SUFFICES ASSUME NEW s \in Slots
             PROVE  SlotInv(OnVC(s)', next[s], Coming(next, s)')
  BY DEF Flowing
<1>1. Coming(next, s)' = Coming(due, s)
  BY ComingSame
<1>2. SlotInv(OnVC(s), due[s], Coming(due, s)) /\ Coming(due, s) \in SUBSET Cursors
  BY ComingType DEF Flowing
<1> QED
  BY <1>1, <1>2, SlotKept

LEMMA DueTypes ==
  ASSUME NEW due \in [Slots -> Dues], NEW s \in Slots
  PROVE  due[s] \in Dues /\ \A x \in due[s] : x \in Cursors /\ due[s] = {x}
  BY DEF Dues

LEMMA FlowLine ==
  ASSUME NEW due, Flowing(due), NEW s \in Slots
  PROVE  InLine(OnVC(s), due[s])
  BY DEF Flowing, SlotInv

-----------------------------------------------------------------------------
LEMMA ReceiveCreditWorm ==
  ASSUME IInv, NEW due \in [Slots -> Dues], Wormhole(due), NEW s \in Slots, ReceiveCredit(s)
  PROVE  Wormhole(due)'
<1>1. UNCHANGED <<sent, pos, srcVC, xbar, wire, buf, state, out, ejected>>
  BY DEF ReceiveCredit, srcVars, inVars
<1>2. \A u \in Slots : OnVC(u)' = OnVC(u)
  BY <1>1 DEF OnVC
<1>3. Flowing(due)'
  <2>1. \A t \in InSlots, u \in Slots : Feeds(t, u)' <=> Feeds(t, u)
    BY <1>1 DEF Feeds
  <2>2. \A u \in Slots : Keeps(OnVC(u), due[u], OnVC(u)', due[u])
    BY <1>2, KeepsSame, FlowLine DEF Wormhole
  <2> QED
    BY <1>1, <2>1, <2>2, FlowKept DEF Wormhole
<1>4. StatesFit(due)' /\ SourcesFit' /\ EjectsFit(due)' /\ EjectedInOrder'
  BY <1>1 DEF Wormhole, StatesFit, StateFits, SourcesFit, SourceFits, EjectsFit, EjectFits,
              EjectedInOrder
<1>5. HeadsFit'
  <2>1. \A u \in Slots : HeadsLeft(OnVC(u), OnVC(u)')
    BY <1>2, HeadsUnmoved
  <2> QED
    BY <1>1, <2>1, HeadsStay DEF Wormhole
<1> QED
  BY <1>3, <1>4, <1>5 DEF Wormhole

LEMMA ReceiveFlitWorm ==
  ASSUME IInv, IInv', NEW due \in [Slots -> Dues], Wormhole(due),
         NEW l \in InputLinks, NEW v \in VCs, ReceiveFlit(l, v)
  PROVE  Wormhole(due)'
<1> DEFINE s == <<l, v>>
<1>1. TypeOK /\ TypeOK' /\ s \in Slots /\ s \in InSlots /\ s \notin EjSlots
  BY SlotFacts DEF IInv, InSlots, EjSlots, InputLinks
<1>2. /\ wire' = [wire EXCEPT ![s] = Tail(wire[s])]
      /\ buf' = [buf EXCEPT ![s] = Append(buf[s], Head(wire[s]))]
      /\ state' = [state EXCEPT ![s] = IF state[s] = "idle" THEN "vc_alloc" ELSE state[s]]
      /\ UNCHANGED <<sent, pos, srcVC, xbar, out, ejected>>
      /\ wire[s] # <<>>
  BY <1>1 DEF ReceiveFlit, TypeOK, srcVars
<1> HIDE DEF s
<1>3. /\ wire'[s] = Tail(wire[s]) /\ buf'[s] = Append(buf[s], Head(wire[s]))
      /\ \A u \in Slots : u # s => wire'[u] = wire[u] /\ buf'[u] = buf[u] /\ state'[u] = state[u]
      /\ state'[s] = IF state[s] = "idle" THEN "vc_alloc" ELSE state[s]
      /\ state[s] \in {"idle", "vc_alloc", "active"}
  BY <1>1, <1>2 DEF TypeOK
<1>4. \A u \in Slots : u # s => OnVC(u)' = OnVC(u)
  BY <1>2, <1>3 DEF OnVC
<1>5. SameNames(OnVC(s), OnVC(s)') /\ OnVC(s) \in Seq(Flits) /\ OnVC(s)' \in Seq(Flits)
  <2>1. /\ buf[s] \in Seq(Flits) /\ wire[s] \in Seq(Flits) /\ xbar[s] \in Seq(Flits)
        /\ OnVC(s) \in Seq(Flits)
    BY <1>1, OnVCType
  <2>2. /\ buf'[s] \in Seq(Flits) /\ wire'[s] \in Seq(Flits) /\ xbar'[s] \in Seq(Flits)
    BY <1>1 DEF TypeOK
  <2>3. OnVC(s)' \in Seq(Flits)
    BY <2>2, PlacesOf DEF OnVC
  <2>4. SameNames(OnVC(s), OnVC(s)')
    BY <1>2, <1>3, <2>1, ReceivedSame DEF OnVC
  <2> QED
    BY <2>1, <2>3, <2>4
<1>6. \A t \in InSlots, u \in Slots : Feeds(t, u)' <=> Feeds(t, u)
  <2>1. InSlots \subseteq Slots
    BY SlotFacts DEF InSlots
  <2> QED
    BY <1>2, <1>3, <2>1 DEF Feeds
<1>7. Flowing(due)'
  <2>1. ASSUME NEW u \in Slots
        PROVE  Keeps(OnVC(u), due[u], OnVC(u)', due[u])
    <3>1. InLine(OnVC(u), due[u]) /\ due[u] \in Dues
      BY FlowLine DEF Wormhole
    <3>2. CASE u # s
      BY <1>4, <3>1, <3>2, KeepsSame
    <3>3. CASE u = s
      BY <1>5, <3>1, <3>3, NamesKeep
    <3> QED
      BY <3>2, <3>3
  <2> QED
    BY <1>2, <1>6, <2>1, FlowKept DEF Wormhole
<1>8. HeadsFit'
  <2>1. \A u \in Slots : HeadsLeft(OnVC(u), OnVC(u)')
    BY <1>4, <1>5, HeadsUnmoved, HeadsSame
  <2> QED
    BY <1>2, <2>1, HeadsStay DEF Wormhole
<1>9. StatesFit(due)'
  <2> SUFFICES ASSUME NEW u \in InSlots
               PROVE  StateFits(due, u)'
    BY DEF StatesFit
  <2>1. StateFits(due, u) /\ u \in Slots
    BY SlotFacts DEF Wormhole, StatesFit, InSlots
  <2>2. CASE u # s
    BY <1>2, <1>3, <2>1, <2>2 DEF StateFits
  <2>3. CASE u = s
    <3>1. buf'[s] # <<>>
      <4>1. buf[s] \in Seq(Flits) /\ Head(wire[s]) \in Flits
        BY <1>1, <1>2, SlotTypes, HeadOfFlits
      <4> QED
        BY <1>3, <4>1, AppendProperties
    <3>2. state'[s] # "idle" /\ (state'[s] = "active" <=> state[s] = "active") /\ out' = out
      BY <1>2, <1>3
    <3> QED
      BY <2>1, <2>3, <3>1, <3>2 DEF StateFits
  <2> QED
    BY <2>2, <2>3
<1>10. EjectsFit(due)'
  <2>1. \A u \in EjSlots : u # s /\ u \in Slots
    BY <1>1, SlotFacts DEF EjSlots, Slots
  <2> QED
    BY <1>2, <1>3, <2>1 DEF Wormhole, EjectsFit, EjectFits
<1>11. SourcesFit' /\ EjectedInOrder'
  BY <1>2 DEF Wormhole, SourcesFit, SourceFits, EjectedInOrder
<1> QED
  BY <1>7, <1>8, <1>9, <1>10, <1>11 DEF Wormhole

-----------------------------------------------------------------------------
(* A flit that is not sent on is a reduce flit, so all of its packet.      *)
LEMMA AbsorbedAlone ==
  ASSUME NEW r \in Routers, NEW f \in Flits, ~Compute(r, f).send
  PROVE  IsHead(f) /\ IsTail(f)
<1> DEFINE p == Packets[f.pkt]
<1>1. /\ f.pkt \in PacketIds /\ f.i \in Nat \ {0} /\ f.i <= p.len
      /\ p \in PacketRecords
  BY PacketRecordOf DEF Flits
<1>2. p.type \in Types
  BY <1>1 DEF PacketRecords
<1>3. p.type = "reduce"
  BY <1>2 DEF Compute, Types, Scalar, Cover, Read
<1>4. p.len = 1
  BY <1>1, <1>3, WorkloadAssumption
<1> QED
  BY <1>1, <1>4 DEF IsHead, IsTail

LEMMA TraverseSwitchWorm ==
  ASSUME IInv, IInv', NEW due \in [Slots -> Dues], Wormhole(due),
         NEW l \in OutputLinks, NEW v \in VCs, TraverseSwitch(l, v)
  PROVE  Wormhole(due)'
<1> DEFINE s == <<l, v>>
           r == Source[l]
           f == Head(xbar[s])
           c == Compute(r, f)
           g == [f EXCEPT !.data = c.data]
<1>1. TypeOK /\ TypeOK' /\ s \in Slots /\ s[1] = l /\ l \notin InjectLinks /\ r \in Routers
  BY SlotFacts DEF IInv, OutputLinks, InjectLinks
<1>2. /\ xbar' = [xbar EXCEPT ![s] = Tail(xbar[s])]
      /\ \/ wire' = [wire EXCEPT ![s] = Append(wire[s], g)]
         \/ ~c.send /\ wire' = wire
      /\ UNCHANGED <<sent, pos, srcVC, buf, state, out, ejected>>
      /\ xbar[s] # <<>>
  BY <1>1 DEF TraverseSwitch, srcVars, inVars
<1>3. f \in Flits /\ xbar[s] \in Seq(Flits) /\ wire[s] \in Seq(Flits) /\ buf[s] \in Seq(Flits)
  BY <1>1, <1>2, SlotTypes, HeadOfFlits
<1>4. NameOf(g) = NameOf(f) /\ g \in Flits
  <2>1. c.data \in Int
    BY <1>1, <1>3, ComputeType
  <2> HIDE DEF c, f
  <2>2. g.pkt = f.pkt /\ g.i = f.i
    BY <1>3 DEF Flits
  <2>3. g \in Flits
    BY <1>3, <2>1 DEF Flits
  <2> HIDE DEF g
  <2> QED
    BY <2>2, <2>3 DEF NameOf
<1>5. ~c.send => IsHead(f) /\ IsTail(f)
  BY <1>1, <1>3, AbsorbedAlone
<1> HIDE DEF s, c, g, r
<1>6. /\ xbar'[s] = Tail(xbar[s])
      /\ wire'[s] = Append(wire[s], g) \/ (~c.send /\ wire'[s] = wire[s])
      /\ \A u \in Slots : u # s => wire'[u] = wire[u] /\ xbar'[u] = xbar[u]
  BY <1>1, <1>2 DEF TypeOK
<1>7. \A u \in Slots : u # s => OnVC(u)' = OnVC(u)
  BY <1>2, <1>6 DEF OnVC
<1>8. OnVC(s) \in Seq(Flits) /\ OnVC(s)' \in Seq(Flits)
  <2>1. /\ buf'[s] \in Seq(Flits) /\ wire'[s] \in Seq(Flits) /\ xbar'[s] \in Seq(Flits)
    BY <1>1 DEF TypeOK
  <2> QED
    BY <1>3, <2>1, PlacesOf DEF OnVC
<1>9. InLine(OnVC(s), due[s]) /\ due[s] \in Dues
  BY <1>1, FlowLine DEF Wormhole
<1>10. /\ Keeps(OnVC(s), due[s], OnVC(s)', due[s])
       /\ HeadsLeft(OnVC(s), OnVC(s)')
  <2>1. CASE wire'[s] = Append(wire[s], g)
    <3>1. SameNames(OnVC(s), OnVC(s)')
      BY <1>2, <1>3, <1>4, <1>6, <2>1, SentSame DEF OnVC
    <3> QED
      BY <1>8, <1>9, <3>1, NamesKeep, HeadsSame
  <2>2. CASE ~c.send /\ wire'[s] = wire[s]
    <3> DEFINE j == Len(buf[s]) + Len(wire[s]) + 1
    <3>1. Removed(OnVC(s), OnVC(s)', j) /\ OnVC(s)[j] = f
      BY <1>2, <1>3, <1>6, <2>2, AbsorbedOne DEF OnVC
    <3>2. due[s] # {} => j > 1
      <4> SUFFICES ASSUME NEW x \in due[s], buf[s] = <<>>, ~(j > 1)
                   PROVE  FALSE
        <5> DEFINE m == Len(buf[s])
                   n == Len(wire[s])
        <5>1. buf[s] = <<>> \/ m \in Nat \ {0}
          BY <1>3, HeadOfFlits
        <5>2. n \in Nat /\ m \in Nat
          BY <1>3, LenProperties
        <5> HIDE DEF m, n
        <5>3. m + n + 1 > 1 \/ m = 0
          BY <5>2
        <5> QED
          BY <5>1, <5>3 DEF m, n
      <4>1. j \in Nat /\ j = 1
        <5>1. Len(wire[s]) \in Nat /\ Len(buf[s]) \in Nat
          BY <1>3, LenProperties
        <5> QED
          BY <5>1
      <4>2. Len(OnVC(s)) > 0 /\ OnVC(s)[1] = f
        BY <3>1, <4>1, <1>8, FlitsOf DEF Removed
      <4>3. due[s] = {NameOf(f)}
        BY <1>9, <4>2 DEF InLine, FrontFits
      <4>4. x.i = 1
        BY <1>3, <1>5, <2>2, <4>3, FlitFacts DEF IsHead
      <4>5. s \in InSlots \/ s \in EjSlots
        BY <1>1 DEF Slots, InSlots, EjSlots, InputLinks
      <4>6. CASE s \in InSlots
        BY <4>4, <4>6 DEF Wormhole, StatesFit, StateFits
      <4>7. CASE s \in EjSlots
        <5>1. x.i > 1
          BY <4>7 DEF Wormhole, EjectsFit, EjectFits
        <5> QED
          BY <4>4, <5>1
      <4> QED
        BY <4>5, <4>6, <4>7
    <3> HIDE DEF j
    <3>3. IsHead(OnVC(s)[j]) /\ IsTail(OnVC(s)[j])
      BY <1>5, <2>2, <3>1
    <3> QED
      BY <1>8, <1>9, <3>1, <3>2, <3>3, RemoveKeeps, HeadsRemoved
  <2> QED
    BY <1>6, <2>1, <2>2
<1>11. Flowing(due)'
  <2>1. \A t \in InSlots, u \in Slots : Feeds(t, u)' <=> Feeds(t, u)
    BY <1>2 DEF Feeds
  <2>2. ASSUME NEW u \in Slots
        PROVE  Keeps(OnVC(u), due[u], OnVC(u)', due[u])
    BY <1>7, <1>10, KeepsSame, FlowLine DEF Wormhole
  <2> QED
    BY <1>2, <2>1, <2>2, FlowKept DEF Wormhole
<1>12. HeadsFit'
  <2>1. \A u \in Slots : HeadsLeft(OnVC(u), OnVC(u)')
    BY <1>7, <1>10, HeadsUnmoved
  <2> QED
    BY <1>2, <2>1, HeadsStay DEF Wormhole
<1>13. StatesFit(due)' /\ EjectsFit(due)' /\ EjectedInOrder'
  BY <1>2 DEF Wormhole, StatesFit, StateFits, EjectsFit, EjectFits, EjectedInOrder
<1>14. SourcesFit'
  <2>1. \A u \in Slots : u[1] \in InjectLinks => xbar'[u] = <<>>
    BY <1>1, <1>6 DEF Wormhole, SourcesFit
  <2> QED
    BY <1>2, <2>1 DEF Wormhole, SourcesFit, SourceFits
<1> QED
  BY <1>11, <1>12, <1>13, <1>14 DEF Wormhole

-----------------------------------------------------------------------------
(* A terminal takes a flit: the one due, or a head when none is.           *)
EjectedNow(q, f, due, next) ==
  /\ Len(q) > 0 /\ q[1] = f
  /\ next = IF IsTail(f) THEN {} ELSE {After(f)}
  /\ due = {} => IsHead(f)
  /\ due # {} => due = {NameOf(f)}

LEMMA EjectWorm ==
  ASSUME IInv, IInv', NEW due \in [Slots -> Dues], Wormhole(due),
         NEW l \in EjectLinks, NEW v \in VCs, Eject(l, v)
  PROVE  \E next \in [Slots -> Dues] : Wormhole(next)'
<1> DEFINE s == <<l, v>>
           f == Head(wire[s])
           d == IF IsTail(f) THEN {} ELSE {After(f)}
<1>1. /\ TypeOK /\ TypeOK' /\ s \in Slots /\ s \in EjSlots /\ s \notin InSlots
  BY SlotFacts DEF IInv, EjSlots, InSlots, InputLinks
<1>2. /\ wire' = [wire EXCEPT ![s] = Tail(wire[s])]
      /\ ejected' = [ejected EXCEPT ![f.pkt] = Append(ejected[f.pkt], f)]
      /\ UNCHANGED <<sent, pos, srcVC, xbar, buf, state, out>>
      /\ wire[s] # <<>>
  BY <1>1 DEF Eject, srcVars, inVars
<1>3. /\ xbar[s] \in Seq(Flits) /\ wire[s] \in Seq(Flits) /\ buf[s] \in Seq(Flits)
      /\ buf[s] = <<>>
  BY <1>1, SlotTypes DEF Wormhole, EjectsFit, EjectFits
<1>4. f \in Flits /\ f.pkt \in PacketIds /\ f.i \in Nat \ {0}
  BY <1>2, <1>3, HeadOfFlits, FlitFacts
<1>5. PICK next \in [Slots -> Dues] :
        d \in Dues /\ next[s] = d /\ \A u \in Slots : u # s => next[u] = due[u]
  <2>1. d \in Dues
    BY <1>4, FlitFacts
  <2> HIDE DEF d
  <2>2. [due EXCEPT ![s] = d] \in [Slots -> Dues]
    BY <1>1, <2>1
  <2> QED
    BY <1>1, <2>1, <2>2
<1> HIDE DEF s, d, f
<1>6. /\ wire'[s] = Tail(wire[s])
      /\ \A u \in Slots : u # s => wire'[u] = wire[u]
      /\ ejected[f.pkt] \in Seq(Flits)
      /\ ejected'[f.pkt] = Append(ejected[f.pkt], f)
      /\ \A p \in PacketIds : p # f.pkt => ejected'[p] = ejected[p]
  BY <1>1, <1>2, <1>4 DEF TypeOK
<1>7. \A u \in Slots : u # s => OnVC(u)' = OnVC(u)
  BY <1>2, <1>6 DEF OnVC
<1>8. OnVC(s) \in Seq(Flits) /\ OnVC(s)' \in Seq(Flits)
  <2>1. /\ buf'[s] \in Seq(Flits) /\ wire'[s] \in Seq(Flits) /\ xbar'[s] \in Seq(Flits)
    BY <1>1 DEF TypeOK
  <2> QED
    BY <1>3, <2>1, PlacesOf DEF OnVC
<1>9. InLine(OnVC(s), due[s]) /\ due[s] \in Dues
  BY <1>1, FlowLine DEF Wormhole
<1>10. Removed(OnVC(s), OnVC(s)', 1) /\ OnVC(s)[1] = f
  BY <1>2, <1>3, <1>6, PoppedFromWire DEF OnVC, f
<1>11. EjectedNow(OnVC(s), f, due[s], d)
  <2>1. Len(OnVC(s)) > 0
    BY <1>8, <1>10, FlitsOf DEF Removed
  <2> QED
    BY <1>9, <1>10, <2>1 DEF EjectedNow, d, InLine, FrontFits
<1>12. Keeps(OnVC(s), due[s], OnVC(s)', d)
  <2>1. d = IF IsTail(OnVC(s)[1]) THEN {} ELSE {After(OnVC(s)[1])}
    BY <1>10 DEF d
  <2> QED
    BY <1>5, <1>8, <1>9, <1>10, <2>1, PopKeeps
<1>13. Flowing(next)'
  <2>1. \A t \in InSlots, u \in Slots : Feeds(t, u)' <=> Feeds(t, u)
    BY <1>2 DEF Feeds
  <2>2. ASSUME NEW u \in Slots
        PROVE  Keeps(OnVC(u), due[u], OnVC(u)', next[u])
    BY <1>5, <1>7, <1>12, KeepsSame, FlowLine DEF Wormhole
  <2>3. \A t \in InSlots : next[t] = due[t]
    BY <1>1, <1>5, SlotFacts DEF InSlots
  <2> QED
    BY <1>2, <2>1, <2>2, <2>3, FlowKept DEF Wormhole
<1>14. StatesFit(next)' /\ SourcesFit'
  <2>1. \A t \in InSlots : next[t] = due[t]
    BY <1>1, <1>5, SlotFacts DEF InSlots
  <2> QED
    BY <1>2, <2>1 DEF Wormhole, StatesFit, StateFits, SourcesFit, SourceFits
(* The flit is the next of its packet. *)
<1>15. Len(ejected[f.pkt]) = f.i - 1
  <2>1. CASE IsHead(f)
    <3>1. HasHead(OnVC(s), f.pkt)
      <4>1. 1 \in 1 .. Len(OnVC(s)) /\ OnVC(s)[1] = f
        BY <1>8, <1>10, FlitsOf DEF Removed
      <4> QED
        BY <2>1, <4>1 DEF HasHead
    <3>2. ejected[f.pkt] = <<>>
      BY <1>1, <1>4, <3>1 DEF Wormhole, HeadsFit, HeadFits
    <3> QED
      BY <2>1, <3>2, EmptySeq DEF IsHead
  <2>2. CASE ~IsHead(f)
    <3>1. NameOf(f) \in due[s]
      BY <1>11, <2>2 DEF EjectedNow
    <3>2. Len(ejected[NameOf(f).pkt]) = NameOf(f).i - 1
      BY <1>1, <3>1 DEF Wormhole, EjectsFit, EjectFits
    <3> QED
      BY <3>2 DEF NameOf
  <2> QED
    BY <2>1, <2>2
<1>16. Len(ejected'[f.pkt]) = f.i /\ ejected'[f.pkt] # <<>>
  <2>1. Len(ejected'[f.pkt]) = Len(ejected[f.pkt]) + 1
    BY <1>4, <1>6, AppendProperties
  <2>2. Len(ejected'[f.pkt]) = f.i
    BY <1>4, <1>15, <2>1
  <2>3. ejected'[f.pkt] # <<>>
    BY <1>4, <2>2, EmptySeq
  <2> QED
    BY <2>2, <2>3
<1>17. EjectedInOrder'
  <2> SUFFICES ASSUME NEW p \in PacketIds, NEW k \in 1 .. Len(ejected'[p])
               PROVE  ejected'[p][k].i = k
    BY DEF EjectedInOrder
  <2>1. CASE p # f.pkt
    BY <1>6, <2>1 DEF Wormhole, EjectedInOrder
  <2>2. CASE p = f.pkt
    <3>1. /\ Len(ejected[f.pkt]) \in Nat
          /\ Append(ejected[f.pkt], f)[Len(ejected[f.pkt]) + 1] = f
          /\ \A j \in 1 .. Len(ejected[f.pkt]) : Append(ejected[f.pkt], f)[j] = ejected[f.pkt][j]
      BY <1>4, <1>6, AppendProperties, LenProperties
    <3>2. \A j \in 1 .. Len(ejected[f.pkt]) : ejected[f.pkt][j].i = j
      BY <1>4 DEF Wormhole, EjectedInOrder
    <3>3. k \in 1 .. Len(ejected[f.pkt]) \/ k = Len(ejected[f.pkt]) + 1
      BY <1>4, <1>15, <1>16, <2>2
    <3>4. CASE k \in 1 .. Len(ejected[f.pkt])
      BY <1>6, <2>2, <3>1, <3>2, <3>4
    <3>5. CASE k = Len(ejected[f.pkt]) + 1
      <4>1. ejected'[p][k] = f
        BY <1>6, <2>2, <3>1, <3>5
      <4> QED
        BY <1>4, <1>15, <3>5, <4>1
    <3> QED
      BY <3>3, <3>4, <3>5
  <2> QED
    BY <2>1, <2>2
(* No other VC of a terminal is in the middle of the same packet. *)
<1>18. \A u \in EjSlots : u # s => \A x \in due[u] : x.pkt # f.pkt
  <2> SUFFICES ASSUME NEW u \in EjSlots, u # s, NEW x \in due[u], x.pkt = f.pkt
               PROVE  FALSE
    OBVIOUS
  <2>1. CASE IsHead(f)
    <3>1. Len(ejected[x.pkt]) = x.i - 1 /\ x.i > 1 /\ u \in Slots
      BY SlotFacts DEF Wormhole, EjectsFit, EjectFits, EjSlots, Slots
    <3>2. x.i \in Nat
      BY <3>1, DueTypes DEF Cursors
    <3> QED
      BY <1>15, <2>1, <3>1, <3>2 DEF IsHead
  <2>2. CASE ~IsHead(f)
    <3>1. NameOf(f) \in due[s] /\ NameOf(f).pkt = f.pkt
      BY <1>11, <2>2 DEF EjectedNow, NameOf
    <3> QED
      BY <1>1, <3>1 DEF Wormhole, EjectsFit
  <2> QED
    BY <2>1, <2>2
<1>19. EjectsFit(next)'
  <2>1. \A u \in EjSlots : u # s => next[u] = due[u]
    BY <1>5, SlotFacts DEF EjSlots, Slots
  <2>2. \A x \in next[s] : x.i > 1 /\ x.pkt = f.pkt /\ x.i = f.i + 1
    <3>1. After(f).i = f.i + 1 /\ After(f).pkt = f.pkt
      BY DEF After
    <3> QED
      BY <1>4, <1>5, <3>1 DEF d
  <2>3. ASSUME NEW u \in EjSlots
        PROVE  EjectFits(next, u)'
    <3>1. CASE u = s
      BY <1>2, <1>3, <1>4, <1>16, <2>2, <3>1 DEF EjectFits
    <3>2. CASE u # s
      <4>1. EjectFits(due, u)
        BY DEF Wormhole, EjectsFit
      <4>2. \A x \in due[u] : x.pkt \in PacketIds => ejected'[x.pkt] = ejected[x.pkt]
        BY <1>6, <1>18, <3>2
      <4> QED
        BY <1>2, <2>1, <3>2, <4>1, <4>2 DEF EjectFits
    <3> QED
      BY <3>1, <3>2
  <2>4. ASSUME NEW t \in EjSlots, NEW u \in EjSlots, NEW x \in next[t], NEW y \in next[u],
               x.pkt = y.pkt
        PROVE  t = u
    <3>1. CASE t # s /\ u # s
      BY <2>1, <2>4, <3>1 DEF Wormhole, EjectsFit
    <3>2. CASE t = s /\ u # s
      BY <1>18, <2>1, <2>2, <2>4, <3>2
    <3>3. CASE t # s /\ u = s
      BY <1>18, <2>1, <2>2, <2>4, <3>3
    <3> QED
      BY <3>1, <3>2, <3>3
  <2> QED
    BY <2>3, <2>4 DEF EjectsFit
<1>20. HeadsFit'
  <2> SUFFICES ASSUME NEW p \in PacketIds
               PROVE  HeadFits(p)'
    BY DEF HeadsFit
  <2>1. HeadFits(p)
    BY DEF Wormhole, HeadsFit
  <2>2. \A u \in Slots : HeadsLeft(OnVC(u), OnVC(u)')
    BY <1>7, <1>8, <1>10, HeadsUnmoved, HeadsRemoved
  <2>3. \A u \in Slots : OneHead(OnVC(u)', p) /\ (HasHead(OnVC(u)', p) => HasHead(OnVC(u), p))
    BY <2>1, <2>2 DEF HeadFits, HeadsLeft
  <2>4. Unbegun(p)' <=> Unbegun(p)
    BY <1>2 DEF Unbegun
  <2>5. \A t, u \in Slots : HasHead(OnVC(t)', p) /\ HasHead(OnVC(u)', p) => t = u
    BY <2>1, <2>3 DEF HeadFits
  <2>6. CASE p # f.pkt
    <3>1. ejected'[p] = ejected[p]
      BY <1>6, <2>6
    <3>2. \A u \in Slots : HasHead(OnVC(u)', p) => ejected'[p] = <<>>
      BY <2>1, <2>3, <3>1 DEF HeadFits
    <3>3. Unbegun(p)' => ejected'[p] = <<>> /\ \A u \in Slots : ~HasHead(OnVC(u)', p)
      BY <2>1, <2>3, <2>4, <3>1 DEF HeadFits
    <3> QED
      BY <2>3, <2>5, <3>2, <3>3 DEF HeadFits
  <2>7. CASE p = f.pkt
    <3>1. CASE IsHead(f)
      <4>1. HasHead(OnVC(s), p)
        <5>1. 1 \in 1 .. Len(OnVC(s)) /\ OnVC(s)[1] = f
          BY <1>8, <1>10, FlitsOf DEF Removed
        <5> QED
          BY <2>7, <3>1, <5>1 DEF HasHead
      <4>2. ~HasHead(OnVC(s)', p)
        BY <1>1, <1>8, <1>10, <2>1, <2>7, <3>1, HeadsRemoved DEF HeadFits
      <4>3. \A u \in Slots : ~HasHead(OnVC(u)', p)
        BY <1>1, <2>1, <2>3, <4>1, <4>2 DEF HeadFits
      <4>4. ~Unbegun(p)'
        BY <1>1, <2>1, <2>4, <4>1 DEF HeadFits
      <4> QED
        BY <2>3, <4>3, <4>4 DEF HeadFits
    <3>2. CASE ~IsHead(f)
      <4>1. ejected[p] # <<>>
        <5>1. Len(ejected[p]) # 0
          BY <1>4, <1>15, <2>7, <3>2 DEF IsHead
        <5> QED
          BY <5>1, EmptySeq
      <4>2. (\A u \in Slots : ~HasHead(OnVC(u)', p)) /\ ~Unbegun(p)'
        BY <2>1, <2>3, <2>4, <4>1 DEF HeadFits
      <4> QED
        BY <2>3, <4>2 DEF HeadFits
    <3> QED
      BY <3>1, <3>2
  <2> QED
    BY <2>6, <2>7
<1>21. Wormhole(next)'
  BY <1>13, <1>14, <1>17, <1>19, <1>20 DEF Wormhole
<1> QED
  BY <1>5, <1>21

-----------------------------------------------------------------------------
(* The output of a router never leads back to the slot it comes from.      *)
LEMMA NoLoop ==
  ASSUME NEW s \in InSlots, NEW p \in PacketIds, NEW o,
         o[1] = Packets[p].path[Sink[s[1]]]
  PROVE  o # s
<1>1. s[1] \in Links /\ Sink[s[1]] \in Routers
  BY DEF InSlots, InputLinks, EjectLinks
<1>2. Source[o[1]] = Sink[s[1]]
  BY <1>1, PacketAssumption
<1> QED
  BY <1>1, <1>2, WorkloadAssumption

(* The head at the front of a VC becomes due; the VC it is sent to was fed *)
(* by nobody.                                                              *)
LEMMA AllocateVCWorm ==
  ASSUME IInv, IInv', NEW due \in [Slots -> Dues], Wormhole(due),
         NEW l \in InputLinks, NEW v \in VCs, NEW w \in VCs, AllocateVC(l, v, w)
  PROVE  \E next \in [Slots -> Dues] : Wormhole(next)'
<1> DEFINE s == <<l, v>>
<1>a. PICK o : o = <<NextLink(s), w>>
  OBVIOUS
<1>b. PICK f : f = Head(buf[s])
  OBVIOUS
<1>1. TypeOK /\ s \in Slots /\ s \in InSlots /\ s \notin EjSlots /\ s[1] = l
  BY SlotFacts DEF IInv, EjSlots, InSlots, InputLinks
<1>2. /\ out' = [out EXCEPT ![s] = o]
      /\ state' = [state EXCEPT ![s] = "active"]
      /\ UNCHANGED <<sent, pos, srcVC, xbar, wire, buf, ejected>>
      /\ state[s] = "vc_alloc" /\ buf[s] # <<>> /\ ~bs[o].inUse
  BY <1>1, <1>a DEF AllocateVC, srcVars, TypeOK, IsAvailable
<1>3. /\ f \in Flits /\ f.pkt \in PacketIds /\ {NameOf(f)} \in Dues
      /\ Len(OnVC(s)) > 0 /\ OnVC(s)[1] = f /\ OnVC(s) \in Seq(Flits)
  BY <1>1, <1>2, <1>b, FrontOf, FlitFacts, OnVCType
<1>4. o \in Slots /\ o[1] = NextLink(s) /\ NextLink(s) = Packets[f.pkt].path[Sink[l]]
  <2>1. o = out'[s]
    BY <1>1, <1>2 DEF TypeOK
  <2>2. o \in Slots
    BY <1>1, <2>1 DEF IInv, TypeOK
  <2> QED
    BY <1>1, <1>a, <1>b, <2>2 DEF NextLink
<1> HIDE DEF s
<1>5. o # s
  BY <1>1, <1>3, <1>4, NoLoop
<1>6. PICK next \in [Slots -> Dues] :
        next[s] = {NameOf(f)} /\ \A u \in Slots : u # s => next[u] = due[u]
  <2>1. [due EXCEPT ![s] = {NameOf(f)}] \in [Slots -> Dues]
    BY <1>1, <1>3
  <2> QED
    BY <1>1, <2>1
<1>7. \A u \in Slots : OnVC(u)' = OnVC(u)
  BY <1>2 DEF OnVC
<1>8. /\ state'[s] = "active" /\ out'[s] = o
      /\ \A u \in Slots : u # s => state'[u] = state[u] /\ out'[u] = out[u]
  BY <1>1, <1>2 DEF TypeOK
<1>9. due[s] = {}
  BY <1>1, <1>2 DEF Wormhole, StatesFit, StateFits
<1>10. IsHead(f) /\ NameOf(f).i = 1 /\ NameOf(f) \in Cursors
  <2>1. IsHead(f)
    BY <1>1, <1>3, <1>9, FlowLine DEF Wormhole, InLine, FrontFits
  <2> QED
    BY <1>3, <2>1, FlitFacts DEF IsHead
<1>11. /\ Coming(due, o) = {}
       /\ \A t \in InSlots : ~Feeds(t, o)
       /\ \A m \in InjectLinks : ~Injects(m, o)
  BY <1>2, <1>4, AvailableUnfed
<1>12. InSlots \subseteq Slots
  BY SlotFacts DEF InSlots
<1>13. \A t \in InSlots, u \in Slots :
         Feeds(t, u)' <=> IF t = s THEN u = o ELSE Feeds(t, u)
  BY <1>8, <1>12 DEF Feeds
<1>14. \A u \in Slots : ~Feeds(s, u)
  BY <1>2 DEF Feeds
<1>15. Flowing(next)'
  <2> SUFFICES ASSUME NEW u \in Slots
               PROVE  SlotInv(OnVC(u)', next[u], Coming(next, u)')
    BY DEF Flowing
  <2>1. SlotInv(OnVC(u), due[u], Coming(due, u)) /\ Coming(due, u) \in SUBSET Cursors
    BY ComingType DEF Wormhole, Flowing
  <2>2. CASE u = o
    <3>1. \A m \in InjectLinks : ~Injects(m, o)'
      BY <1>2, <1>11 DEF Injects
    <3>2. \A t \in InSlots : Feeds(t, o)' <=> t = s
      BY <1>4, <1>11, <1>13
    <3>3. Coming(next, o)' = {NameOf(f)}
      BY <1>1, <1>6, <1>10, <3>1, <3>2 DEF Coming
    <3>4. SlotInv(OnVC(o), due[o], {NameOf(f)})
      BY <1>10, <1>11, <2>1, <2>2, SlotTaken
    <3> QED
      BY <1>4, <1>5, <1>6, <1>7, <2>2, <3>3, <3>4
  <2>3. CASE u # o
    <3>1. \A t \in InSlots : Feeds(t, u)' <=> Feeds(t, u)
      BY <1>13, <1>14, <2>3
    <3>2. \A t \in InSlots : Feeds(t, u) => next[t] = due[t]
      BY <1>6, <1>12, <1>14
    <3>3. Coming(next, u)' = Coming(due, u)
      BY <1>2, <3>1, <3>2, ComingSame
    <3>4. Keeps(OnVC(u), due[u], OnVC(u), next[u])
      <4>1. CASE u # s
        BY <1>6, <4>1, KeepsSame, FlowLine DEF Wormhole
      <4>2. CASE u = s
        <5>1. InLine(OnVC(s), {})
          BY <1>1, <1>9, FlowLine DEF Wormhole
        <5> QED
          BY <1>3, <1>6, <1>9, <4>2, <5>1, StartKeeps
      <4> QED
        BY <4>1, <4>2
    <3> QED
      BY <1>7, <2>1, <3>3, <3>4, SlotKept
  <2> QED
    BY <2>2, <2>3
<1>16. StatesFit(next)'
  <2> SUFFICES ASSUME NEW u \in InSlots
               PROVE  StateFits(next, u)'
    BY DEF StatesFit
  <2>1. StateFits(due, u) /\ u \in Slots
    BY <1>12 DEF Wormhole, StatesFit
  <2>2. CASE u # s
    BY <1>2, <1>6, <1>8, <2>1, <2>2 DEF StateFits
  <2>3. CASE u = s
    <3>1. \A x \in next[s] : x.pkt = f.pkt /\ x.pkt \in PacketIds
      BY <1>6, FlitFacts, <1>3 DEF NameOf
    <3> QED
      BY <1>1, <1>2, <1>4, <1>6, <1>8, <2>3, <3>1 DEF StateFits
  <2> QED
    BY <2>2, <2>3
<1>17. SourcesFit' /\ EjectedInOrder'
  BY <1>2 DEF Wormhole, SourcesFit, SourceFits, EjectedInOrder
<1>18. EjectsFit(next)'
  <2>1. \A u \in EjSlots : next[u] = due[u]
    BY <1>1, <1>6, SlotFacts DEF EjSlots, Slots
  <2> QED
    BY <1>2, <2>1 DEF Wormhole, EjectsFit, EjectFits
<1>19. HeadsFit'
  <2>1. \A u \in Slots : HeadsLeft(OnVC(u), OnVC(u)')
    BY <1>7, HeadsUnmoved
  <2> QED
    BY <1>2, <2>1, HeadsStay DEF Wormhole
<1>20. Wormhole(next)'
  BY <1>15, <1>16, <1>17, <1>18, <1>19 DEF Wormhole
<1> QED
  BY <1>6, <1>20

-----------------------------------------------------------------------------
(* The flit due crosses to the VC its packet feeds. *)
LEMMA AllocateSwitchWorm ==
  ASSUME IInv, IInv', NEW due \in [Slots -> Dues], Wormhole(due),
         NEW l \in InputLinks, NEW v \in VCs, AllocateSwitch(l, v)
  PROVE  \E next \in [Slots -> Dues] : Wormhole(next)'
<1> DEFINE s == <<l, v>>
<1>a. PICK o : o = out[s]
  OBVIOUS
<1>b. PICK f : f = Head(buf[s])
  OBVIOUS
<1> DEFINE d == IF IsTail(f) THEN {} ELSE {After(f)}
<1>1. TypeOK /\ TypeOK' /\ s \in Slots /\ s \in InSlots /\ s \notin EjSlots /\ s[1] = l
  BY SlotFacts DEF IInv, EjSlots, InSlots, InputLinks
<1>2. /\ buf' = [buf EXCEPT ![s] = Tail(buf[s])]
      /\ xbar' = [xbar EXCEPT ![o] = Append(xbar[o], f)]
      /\ state' = [state EXCEPT ![s] = StateAfter(f, Tail(buf[s]))]
      /\ out' = [out EXCEPT ![s] = IF IsTail(f) THEN s ELSE o]
      /\ UNCHANGED <<sent, pos, srcVC, wire, ejected>>
      /\ state[s] = "active" /\ buf[s] # <<>>
  BY <1>1, <1>a, <1>b DEF AllocateSwitch, srcVars, TypeOK
<1>3. /\ f \in Flits /\ f.pkt \in PacketIds /\ f.i \in Nat \ {0} /\ d \in Dues
      /\ Len(OnVC(s)) > 0 /\ OnVC(s)[1] = f /\ OnVC(s) \in Seq(Flits)
  BY <1>1, <1>2, <1>b, FrontOf, FlitFacts, OnVCType
<1>4. o \in Slots /\ o \in OutputLinks \X VCs
  BY <1>1, <1>2, <1>a, SlotFacts DEF IInv, ActiveSendsOut, InSlots
<1> HIDE DEF s, d
<1>5. due[s] = {NameOf(f)}
  <2>1. due[s] # {}
    BY <1>1, <1>2 DEF Wormhole, StatesFit, StateFits
  <2> QED
    BY <1>1, <1>3, <2>1, FlowLine DEF Wormhole, InLine, FrontFits
<1>6. o[1] = Packets[f.pkt].path[Sink[s[1]]] /\ o # s
  <2>1. NameOf(f) \in due[s] /\ NameOf(f).pkt = f.pkt
    BY <1>5 DEF NameOf
  <2>2. o[1] = Packets[f.pkt].path[Sink[s[1]]]
    BY <1>1, <1>a, <2>1 DEF Wormhole, StatesFit, StateFits
  <2> QED
    BY <1>1, <1>3, <2>2, NoLoop
<1>7. PICK next \in [Slots -> Dues] :
        next[s] = d /\ \A u \in Slots : u # s => next[u] = due[u]
  <2>1. [due EXCEPT ![s] = d] \in [Slots -> Dues]
    BY <1>1, <1>3
  <2> QED
    BY <1>1, <2>1
<1>8. /\ buf'[s] = Tail(buf[s]) /\ \A u \in Slots : u # s => buf'[u] = buf[u]
      /\ xbar'[o] = Append(xbar[o], f) /\ \A u \in Slots : u # o => xbar'[u] = xbar[u]
      /\ state'[s] = StateAfter(f, Tail(buf[s])) /\ out'[s] = IF IsTail(f) THEN s ELSE o
      /\ \A u \in Slots : u # s => state'[u] = state[u] /\ out'[u] = out[u]
  BY <1>1, <1>2, <1>4 DEF TypeOK
<1>9. \A u \in Slots : u # s /\ u # o => OnVC(u)' = OnVC(u)
  BY <1>2, <1>8 DEF OnVC
<1>10. \A u \in Slots : OnVC(u) \in Seq(Flits) /\ OnVC(u)' \in Seq(Flits)
  <2> TAKE u \in Slots
  <2>1. /\ buf'[u] \in Seq(Flits) /\ wire'[u] \in Seq(Flits) /\ xbar'[u] \in Seq(Flits)
    BY <1>1 DEF TypeOK
  <2>2. OnVC(u)' \in Seq(Flits)
    BY <2>1, PlacesOf DEF OnVC
  <2> QED
    BY <1>1, <2>2, OnVCType
<1>11. Removed(OnVC(s), OnVC(s)', 1)
  <2>1. buf[s] \in Seq(Flits) /\ wire[s] \in Seq(Flits) /\ xbar[s] \in Seq(Flits)
    BY <1>1, OnVCType
  <2>2. xbar'[s] = xbar[s] /\ wire' = wire /\ buf'[s] = Tail(buf[s])
    BY <1>1, <1>2, <1>6, <1>8
  <2> QED
    BY <1>2, <2>1, <2>2, PoppedFromBuffer DEF OnVC
<1>12. Appended(OnVC(o), OnVC(o)', f)
  <2>1. buf[o] \in Seq(Flits) /\ wire[o] \in Seq(Flits) /\ xbar[o] \in Seq(Flits)
    BY <1>1, <1>4, OnVCType
  <2>2. xbar'[o] = Append(xbar[o], f) /\ wire' = wire /\ buf'[o] = buf[o]
    BY <1>2, <1>4, <1>6, <1>8
  <2> QED
    BY <1>3, <2>1, <2>2, AppendedToCrossbar DEF OnVC
<1>13. InSlots \subseteq Slots
  BY SlotFacts DEF InSlots
<1>14. state'[s] = "active" <=> ~IsTail(f)
  BY <1>8 DEF StateAfter
<1>15. \A t \in InSlots, u \in Slots :
         Feeds(t, u)' <=> IF t = s THEN u = o /\ ~IsTail(f) ELSE Feeds(t, u)
  BY <1>8, <1>13, <1>14 DEF Feeds
<1>16. \A u \in Slots : Feeds(s, u) <=> u = o
  BY <1>2, <1>a DEF Feeds
<1>17. /\ \A t \in InSlots : Feeds(t, o) => t = s
       /\ \A m \in InjectLinks : ~Injects(m, o)
  <2>1. o[1] \notin InjectLinks
    BY <1>4 DEF OutputLinks
  <2> QED
    BY <1>1, <1>4, <1>16, <2>1, OneFeeder
<1>18. Flowing(next)'
  <2> SUFFICES ASSUME NEW u \in Slots
               PROVE  SlotInv(OnVC(u)', next[u], Coming(next, u)')
    BY DEF Flowing
  <2>1. SlotInv(OnVC(u), due[u], Coming(due, u)) /\ Coming(due, u) \in SUBSET Cursors
    BY ComingType DEF Wormhole, Flowing
  <2>2. CASE u = o
    <3>1. \A m \in InjectLinks : ~Injects(m, o)'
      BY <1>2, <1>17 DEF Injects
    <3>2. \A t \in InSlots : Feeds(t, o)' <=> t = s /\ ~IsTail(f)
      BY <1>4, <1>15, <1>17
    <3>3. d \in SUBSET Cursors
      BY <1>3 DEF Dues
    <3>4. Coming(next, o)' = d
      <4>1. \A x : x \in Coming(next, o)' <=> x \in Cursors /\ ~IsTail(f) /\ x \in next[s]
        BY <1>1, <3>1, <3>2 DEF Coming
      <4>2. \A x : x \in d => ~IsTail(f)
        BY DEF d
      <4> QED
        BY <1>7, <3>3, <4>1, <4>2
    <3>5. NameOf(f) \in Coming(due, o)
      BY <1>1, <1>3, <1>4, <1>5, <1>16, FlitFacts DEF Coming
    <3>6. SlotInv(OnVC(o)', due[o], IF IsTail(f) THEN {} ELSE {After(f)})
      BY <1>3, <1>4, <1>10, <1>12, <2>1, <2>2, <3>5, SlotFed
    <3> QED
      BY <1>4, <1>6, <1>7, <2>2, <3>4, <3>6 DEF d
  <2>3. CASE u # o
    <3>1. \A t \in InSlots : Feeds(t, u)' <=> Feeds(t, u)
      BY <1>15, <1>16, <2>3
    <3>2. \A t \in InSlots : Feeds(t, u) => next[t] = due[t]
      BY <1>7, <1>13, <1>16, <2>3
    <3>3. Coming(next, u)' = Coming(due, u)
      BY <1>2, <3>1, <3>2, ComingSame
    <3>4. Keeps(OnVC(u), due[u], OnVC(u)', next[u])
      <4>1. CASE u # s
        BY <1>7, <1>9, <2>3, <4>1, KeepsSame, FlowLine DEF Wormhole
      <4>2. CASE u = s
        <5>1. InLine(OnVC(s), due[s]) /\ due[s] \in Dues
          BY <1>1, FlowLine DEF Wormhole
        <5>2. d = IF IsTail(OnVC(s)[1]) THEN {} ELSE {After(OnVC(s)[1])}
          BY <1>3 DEF d
        <5>3. Keeps(OnVC(s), due[s], OnVC(s)', d)
          BY <1>1, <1>3, <1>10, <1>11, <5>1, <5>2, PopKeeps
        <5> QED
          BY <1>7, <4>2, <5>3
      <4> QED
        BY <4>1, <4>2
    <3> QED
      BY <2>1, <3>3, <3>4, SlotKept
  <2> QED
    BY <2>2, <2>3
<1>19. StatesFit(next)'
  <2> SUFFICES ASSUME NEW u \in InSlots
               PROVE  StateFits(next, u)'
    BY DEF StatesFit
  <2>1. StateFits(due, u) /\ u \in Slots
    BY <1>13 DEF Wormhole, StatesFit
  <2>2. CASE u # s
    BY <1>2, <1>7, <1>8, <2>1, <2>2 DEF StateFits
  <2>3. CASE u = s /\ ~IsTail(f)
    <3>1. /\ next[s] = {After(f)} /\ After(f).pkt = f.pkt /\ After(f).i = f.i + 1
          /\ f.pkt \in PacketIds
      BY <1>3, <1>7, <2>3, FlitFacts DEF d, After
    <3>2. After(f).i # 1
      BY <1>3, <3>1
    <3>3. out'[s] = o
      BY <1>8, <2>3
    <3> QED
      BY <1>6, <1>14, <2>3, <3>1, <3>2, <3>3 DEF StateFits
  <2>4. CASE u = s /\ IsTail(f)
    <3>1. next[s] = {} /\ out'[s] = s
      BY <1>7, <1>8, <2>4 DEF d
    <3>2. state'[s] = IF buf'[s] = <<>> THEN "idle" ELSE "vc_alloc"
      BY <1>8, <2>4 DEF StateAfter
    <3> QED
      BY <2>4, <3>1, <3>2 DEF StateFits
  <2> QED
    BY <2>2, <2>3, <2>4
<1>20. SourcesFit' /\ EjectedInOrder'
  <2>1. \A u \in Slots : u[1] \in InjectLinks => xbar'[u] = <<>>
    <3>1. o[1] \notin InjectLinks
      BY <1>4 DEF OutputLinks
    <3> QED
      BY <1>8, <3>1 DEF Wormhole, SourcesFit
  <2> QED
    BY <1>2, <2>1 DEF Wormhole, SourcesFit, SourceFits, EjectedInOrder
<1>21. EjectsFit(next)'
  <2>1. \A u \in EjSlots : next[u] = due[u] /\ buf'[u] = buf[u]
    BY <1>1, <1>7, <1>8, SlotFacts DEF EjSlots, Slots
  <2> QED
    BY <1>2, <2>1 DEF Wormhole, EjectsFit, EjectFits
<1>22. HeadsFit'
  <2> SUFFICES ASSUME NEW p \in PacketIds
               PROVE  HeadFits(p)'
    BY DEF HeadsFit
  <2>1. HeadFits(p)
    BY DEF Wormhole, HeadsFit
  <2>2. HeadsLeft(OnVC(s), OnVC(s)')
        /\ (IsHead(f) /\ OneHead(OnVC(s), f.pkt) => ~HasHead(OnVC(s)', f.pkt))
    BY <1>1, <1>3, <1>10, <1>11, HeadsRemoved
  <2>3. /\ HasHead(OnVC(o)', p) => HasHead(OnVC(o), p) \/ (IsHead(f) /\ f.pkt = p)
        /\ OneHead(OnVC(o), p) /\ ~(IsHead(f) /\ f.pkt = p /\ HasHead(OnVC(o), p))
             => OneHead(OnVC(o)', p)
    BY <1>4, <1>10, <1>12, HeadsAppended
  <2>4. Unbegun(p)' <=> Unbegun(p)
    BY <1>2 DEF Unbegun
  <2>5. ejected' = ejected
    BY <1>2
  <2>6. CASE IsHead(f) /\ f.pkt = p
    <3>1. HasHead(OnVC(s), p)
      <4>1. 1 \in 1 .. Len(OnVC(s))
        BY <1>1, <1>10, <1>3, FlitsOf
      <4> QED
        BY <1>3, <2>6, <4>1 DEF HasHead
    <3>2. \A u \in Slots : u # s => ~HasHead(OnVC(u), p)
      BY <1>1, <2>1, <3>1 DEF HeadFits
    <3>3. ~HasHead(OnVC(s)', p) /\ OneHead(OnVC(s)', p) /\ OneHead(OnVC(o)', p)
      BY <1>1, <1>4, <1>6, <2>1, <2>2, <2>3, <2>6, <3>2 DEF HeadFits, HeadsLeft
    <3>4. \A u \in Slots : u # o => ~HasHead(OnVC(u)', p)
      BY <1>9, <3>2, <3>3
    <3>5. \A u \in Slots : OneHead(OnVC(u)', p)
      BY <1>9, <2>1, <3>3 DEF HeadFits
    <3>6. ejected[p] = <<>> /\ ~Unbegun(p)'
      BY <1>1, <2>1, <2>4, <3>1 DEF HeadFits
    <3> QED
      BY <2>5, <3>4, <3>5, <3>6 DEF HeadFits
  <2>7. CASE ~(IsHead(f) /\ f.pkt = p)
    <3>1. \A u \in Slots : OneHead(OnVC(u)', p) /\ (HasHead(OnVC(u)', p) => HasHead(OnVC(u), p))
      BY <1>4, <1>9, <2>1, <2>2, <2>3, <2>7 DEF HeadFits, HeadsLeft
    <3>2. \A t, u \in Slots : HasHead(OnVC(t)', p) /\ HasHead(OnVC(u)', p) => t = u
      BY <2>1, <3>1 DEF HeadFits
    <3>3. \A u \in Slots : HasHead(OnVC(u)', p) => ejected'[p] = <<>>
      BY <2>1, <2>5, <3>1 DEF HeadFits
    <3>4. Unbegun(p)' => ejected'[p] = <<>> /\ \A u \in Slots : ~HasHead(OnVC(u)', p)
      BY <2>1, <2>4, <2>5, <3>1 DEF HeadFits
    <3> QED
      BY <3>1, <3>2, <3>3, <3>4 DEF HeadFits
  <2> QED
    BY <2>6, <2>7
<1>23. Wormhole(next)'
  BY <1>18, <1>19, <1>20, <1>21, <1>22 DEF Wormhole
<1> QED
  BY <1>7, <1>23

-----------------------------------------------------------------------------
(* A source puts the next flit of its packet, or the head of a packet that *)
(* nothing of the network has seen, on its link.                           *)
LEMMA UnbegunStays ==
  ASSUME TypeOK, NEW l \in InjectLinks, NEW f \in Flits, NEW p,
         f.pkt = NextPacket(l), f.i = pos[l] + 1, sent[l] < Len(Backlog[l]),
         sent' = [sent EXCEPT ![l] = IF IsTail(f) THEN sent[l] + 1 ELSE sent[l]],
         pos' = [pos EXCEPT ![l] = IF IsTail(f) THEN 0 ELSE pos[l] + 1]
  PROVE  /\ Unbegun(p)' => Unbegun(p) /\ p # f.pkt
         /\ IsHead(f) => Unbegun(f.pkt)
<1>1. /\ sent \in [InjectLinks -> Nat] /\ pos \in [InjectLinks -> Nat]
      /\ sent[l] \in Nat /\ pos[l] \in Nat /\ Len(Backlog[l]) \in Nat
  BY PacketAssumption, LenProperties DEF TypeOK
<1>2. sent[l] + 1 \in 1 .. Len(Backlog[l]) /\ Backlog[l][sent[l] + 1] = f.pkt
  BY <1>1 DEF NextPacket
<1>3. IsHead(f) => Unbegun(f.pkt)
  <2> SUFFICES ASSUME IsHead(f) PROVE Unbegun(f.pkt)
    OBVIOUS
  <2>1. pos[l] = 0
    BY <1>1 DEF IsHead
  <2>2. sent[l] + 1 > sent[l]
    BY <1>1
  <2> QED
    BY <1>2, <2>1, <2>2 DEF Unbegun
<1>4. ASSUME Unbegun(p)'
      PROVE  Unbegun(p) /\ p # f.pkt
  <2>1. PICK m \in InjectLinks : \E k \in 1 .. Len(Backlog[m]) :
          Backlog[m][k] = p /\ k > sent'[m] /\ (k = sent'[m] + 1 => pos'[m] = 0)
    BY <1>4 DEF Unbegun
  <2>2. PICK k \in 1 .. Len(Backlog[m]) :
          Backlog[m][k] = p /\ k > sent'[m] /\ (k = sent'[m] + 1 => pos'[m] = 0)
    BY <2>1
  <2>3. k \in Nat /\ sent[m] \in Nat
    <3>1. Len(Backlog[m]) \in Nat
      BY PacketAssumption, LenProperties
    <3> QED
      BY <1>1, <3>1
  <2>4. CASE m # l
    <3>1. sent'[m] = sent[m] /\ pos'[m] = pos[m]
      BY <1>1, <2>4
    <3>2. Unbegun(p)
      BY <2>2, <3>1 DEF Unbegun
    <3>3. p # f.pkt
      BY <1>2, <2>2, <2>4, WorkloadAssumption
    <3> QED
      BY <3>2, <3>3
  <2>5. CASE m = l /\ ~IsTail(f)
    <3>1. sent'[m] = sent[m] /\ pos'[m] = pos[l] + 1 /\ pos'[m] # 0
      BY <1>1, <2>5
    <3>2. k > sent[m] /\ k # sent[m] + 1
      BY <2>2, <3>1
    <3>3. Unbegun(p)
      BY <2>2, <3>2 DEF Unbegun
    <3>4. p # f.pkt
      BY <1>2, <2>2, <2>5, <3>2, WorkloadAssumption
    <3> QED
      BY <3>3, <3>4
  <2>6. CASE m = l /\ IsTail(f)
    <3>1. sent'[m] = sent[m] + 1
      BY <1>1, <2>6
    <3>2. k > sent[m] /\ k # sent[m] + 1
      BY <2>2, <2>3, <3>1
    <3>3. Unbegun(p)
      BY <2>2, <3>2 DEF Unbegun
    <3>4. p # f.pkt
      BY <1>2, <2>2, <2>6, <3>2, WorkloadAssumption
    <3> QED
      BY <3>3, <3>4
  <2> QED
    BY <2>4, <2>5, <2>6
<1> QED
  BY <1>3, <1>4

LEMMA InjectFlitWorm ==
  ASSUME IInv, IInv', NEW due \in [Slots -> Dues], Wormhole(due),
         NEW l \in InjectLinks, NEW v \in VCs, InjectFlit(l, v)
  PROVE  Wormhole(due)'
<1> DEFINE s == <<l, v>>
<1>a. PICK f : f = [pkt |-> NextPacket(l), i |-> pos[l] + 1, data |-> Packets[NextPacket(l)].data]
  OBVIOUS
<1>1. /\ TypeOK /\ TypeOK' /\ s \in Slots /\ s[1] = l /\ s[2] = v
      /\ s = <<l, v>>
  BY SlotFacts DEF IInv
<1>2. NextPacket(l) \in PacketIds /\ Packets[NextPacket(l)] \in PacketRecords
  BY <1>1, NextPacketType, PacketRecordOf DEF InjectFlit
<1>3. /\ pos[l] \in Nat /\ sent[l] \in Nat /\ sent[l] < Len(Backlog[l])
      /\ pos[l] < Packets[NextPacket(l)].len
      /\ Packets[NextPacket(l)].len \in Nat
  BY <1>1, <1>2 DEF InjectFlit, TypeOK, IInv, InjectionInPacket, NextPacket, PacketRecords
<1>4. f \in Flits /\ f.pkt = NextPacket(l) /\ f.i = pos[l] + 1 /\ NameOf(f) = NextFlit(l)
  BY <1>a, <1>2, <1>3 DEF Flits, PacketRecords, NameOf, NextFlit
<1>5. /\ IsHead(f) <=> pos[l] = 0
      /\ IF IsHead(f) THEN ~bs[s].inUse ELSE v \in srcVC[l]
      /\ wire' = [wire EXCEPT ![s] = Append(wire[s], f)]
      /\ sent' = [sent EXCEPT ![l] = IF IsTail(f) THEN sent[l] + 1 ELSE sent[l]]
      /\ pos' = [pos EXCEPT ![l] = IF IsTail(f) THEN 0 ELSE pos[l] + 1]
      /\ srcVC' = [srcVC EXCEPT ![l] = IF IsTail(f) THEN {} ELSE {v}]
      /\ UNCHANGED <<xbar, buf, state, out, ejected>>
  BY <1>a, <1>1, <1>3, <1>4 DEF InjectFlit, TypeOK, inVars, IsAvailable, IsHead
<1> HIDE DEF s
<1>6. /\ wire'[s] = Append(wire[s], f)
      /\ \A u \in Slots : u # s => wire'[u] = wire[u]
      /\ srcVC'[l] = (IF IsTail(f) THEN {} ELSE {v})
      /\ pos'[l] = (IF IsTail(f) THEN 0 ELSE pos[l] + 1)
      /\ sent'[l] = (IF IsTail(f) THEN sent[l] + 1 ELSE sent[l])
      /\ \A m \in InjectLinks : m # l =>
           srcVC'[m] = srcVC[m] /\ pos'[m] = pos[m] /\ sent'[m] = sent[m]
  BY <1>1, <1>5 DEF TypeOK
<1>7. \A u \in Slots : u # s => OnVC(u)' = OnVC(u)
  BY <1>5, <1>6 DEF OnVC
<1>8. \A u \in Slots : OnVC(u) \in Seq(Flits) /\ OnVC(u)' \in Seq(Flits)
  <2> TAKE u \in Slots
  <2>1. /\ buf'[u] \in Seq(Flits) /\ wire'[u] \in Seq(Flits) /\ xbar'[u] \in Seq(Flits)
    BY <1>1 DEF TypeOK
  <2>2. OnVC(u)' \in Seq(Flits)
    BY <2>1, PlacesOf DEF OnVC
  <2> QED
    BY <1>1, <2>2, OnVCType
<1>9. Appended(OnVC(s), OnVC(s)', f)
  <2>1. buf[s] \in Seq(Flits) /\ wire[s] \in Seq(Flits) /\ xbar[s] \in Seq(Flits)
    BY <1>1, OnVCType
  <2>2. xbar[s] = <<>>
    BY <1>1 DEF Wormhole, SourcesFit
  <2> QED
    BY <1>4, <1>5, <1>6, <2>1, <2>2, AppendedToWire DEF OnVC
<1>10. SourceFits(l)
  BY DEF Wormhole, SourcesFit
<1>11. srcVC[l] = IF IsHead(f) THEN {} ELSE {v}
  <2>1. CASE IsHead(f)
    BY <1>5, <1>10, <2>1 DEF SourceFits
  <2>2. CASE ~IsHead(f)
    BY <1>5, <1>10, <2>2 DEF SourceFits
  <2> QED
    BY <2>1, <2>2
<1>12. \A t \in InSlots : \A u : Feeds(t, u)' <=> Feeds(t, u)
  BY <1>5 DEF Feeds
<1>13. \A t \in InSlots : ~Feeds(t, s)
  BY <1>1, OneFeeder
<1>14. /\ IsHead(f) => Coming(due, s) = {}
       /\ ~IsHead(f) => NameOf(f) \in Coming(due, s)
  <2>1. CASE IsHead(f)
    <3>1. ~bs[s].inUse
      BY <1>5, <2>1
    <3>2. Coming(due, s) = {}
      BY <1>1, <3>1, AvailableUnfed
    <3> QED
      BY <2>1, <3>2
  <2>2. CASE ~IsHead(f)
    <3>1. Injects(l, s) /\ NameOf(f) = NextFlit(l) /\ NameOf(f) \in Cursors
      BY <1>1, <1>4, <1>5, <2>2, FlitFacts DEF Injects
    <3>2. NameOf(f) \in Coming(due, s)
      BY <3>1 DEF Coming
    <3> QED
      BY <2>2, <3>2
  <2> QED
    BY <2>1, <2>2
<1>15. \A m \in InjectLinks : Injects(m, s)' <=> m = l /\ ~IsTail(f)
  BY <1>1, <1>6 DEF Injects
<1>16. Coming(due, s)' = IF IsTail(f) THEN {} ELSE {After(f)}
  <2>1. ~IsTail(f) => NextFlit(l)' = After(f)
    <3> SUFFICES ASSUME ~IsTail(f) PROVE NextFlit(l)' = After(f)
      OBVIOUS
    <3>1. sent'[l] = sent[l] /\ pos'[l] = f.i
      BY <1>4, <1>6
    <3> QED
      BY <1>4, <3>1 DEF NextFlit, NextPacket, After
  <2>2. After(f) \in Cursors
    BY <1>4, FlitFacts
  <2> QED
    BY <1>12, <1>13, <1>15, <2>1, <2>2 DEF Coming
<1>17. Flowing(due)'
  <2> SUFFICES ASSUME NEW u \in Slots
               PROVE  SlotInv(OnVC(u)', due[u], Coming(due, u)')
    BY DEF Flowing
  <2>1. SlotInv(OnVC(u), due[u], Coming(due, u)) /\ due[u] \in Dues
    BY DEF Wormhole, Flowing
  <2>2. CASE u = s
    <3>1. NameOf(f) \in Coming(due, s) \/ (Coming(due, s) = {} /\ IsHead(f))
      BY <1>14
    <3>2. SlotInv(OnVC(s)', due[s], IF IsTail(f) THEN {} ELSE {After(f)})
      BY <1>1, <1>4, <1>8, <1>9, <2>1, <2>2, <3>1, SlotFed
    <3> QED
      BY <1>16, <2>2, <3>2
  <2>3. CASE u # s
    <3>1. \A m \in InjectLinks : /\ (Injects(m, u)' <=> Injects(m, u))
                                /\ (Injects(m, u) => NextFlit(m)' = NextFlit(m))
      <4> SUFFICES ASSUME NEW m \in InjectLinks
                   PROVE  /\ (Injects(m, u)' <=> Injects(m, u))
                          /\ (Injects(m, u) => NextFlit(m)' = NextFlit(m))
        OBVIOUS
      <4>1. CASE m # l
        BY <1>6, <4>1 DEF Injects, NextFlit, NextPacket
      <4>2. CASE m = l
        <5>1. u[1] = l => u[2] # v
          BY <1>1, <2>3 DEF Slots
        <5> QED
          BY <1>6, <1>11, <4>2, <5>1 DEF Injects
      <4> QED
        BY <4>1, <4>2
    <3>2. Coming(due, u)' = Coming(due, u)
      <4>1. ASSUME NEW x \in Cursors
            PROVE  (x \in Coming(due, u))' <=> x \in Coming(due, u)
        <5>1. (\E t \in InSlots : Feeds(t, u)' /\ x \in due[t])
                <=> (\E t \in InSlots : Feeds(t, u) /\ x \in due[t])
          BY <1>12
        <5>2. (\E m \in InjectLinks : Injects(m, u)' /\ x = NextFlit(m)')
                <=> (\E m \in InjectLinks : Injects(m, u) /\ x = NextFlit(m))
          BY <3>1
        <5> QED
          BY <5>1, <5>2 DEF Coming
      <4> QED
        BY <4>1 DEF Coming
    <3> QED
      BY <1>7, <2>1, <2>3, <3>2
  <2> QED
    BY <2>2, <2>3
<1>18. StatesFit(due)' /\ EjectsFit(due)' /\ EjectedInOrder'
  BY <1>5 DEF Wormhole, StatesFit, StateFits, EjectsFit, EjectFits, EjectedInOrder
<1>19. SourcesFit'
  <2>1. ASSUME NEW m \in InjectLinks
        PROVE  SourceFits(m)'
    <3>1. CASE m # l
      BY <1>6, <3>1 DEF Wormhole, SourcesFit, SourceFits
    <3>2. CASE m = l
      <4>1. CASE IsTail(f)
        <5>1. srcVC'[l] = {} /\ pos'[l] = 0
          BY <1>6, <4>1
        <5> QED
          BY <3>2, <5>1 DEF SourceFits
      <4>2. CASE ~IsTail(f)
        <5>1. srcVC'[l] = {v} /\ pos'[l] = pos[l] + 1 /\ sent'[l] = sent[l]
          BY <1>6, <4>2
        <5>2. pos'[l] # 0 /\ sent'[l] < Len(Backlog[l])
          BY <1>3, <5>1
        <5> QED
          BY <3>2, <5>1, <5>2 DEF SourceFits
      <4> QED
        BY <4>1, <4>2
    <3> QED
      BY <3>1, <3>2
  <2>2. \A u \in Slots : u[1] \in InjectLinks => xbar'[u] = <<>>
    BY <1>5 DEF Wormhole, SourcesFit
  <2> QED
    BY <2>1, <2>2 DEF SourcesFit
<1>20. HeadsFit'
  <2> SUFFICES ASSUME NEW p \in PacketIds
               PROVE  HeadFits(p)'
    BY DEF HeadsFit
  <2>1. HeadFits(p)
    BY DEF Wormhole, HeadsFit
  <2>2. /\ HasHead(OnVC(s)', p) => HasHead(OnVC(s), p) \/ (IsHead(f) /\ f.pkt = p)
        /\ OneHead(OnVC(s), p) /\ ~(IsHead(f) /\ f.pkt = p /\ HasHead(OnVC(s), p))
             => OneHead(OnVC(s)', p)
    BY <1>1, <1>8, <1>9, HeadsAppended
  <2>3. /\ Unbegun(p)' => Unbegun(p) /\ p # f.pkt
        /\ IsHead(f) => Unbegun(f.pkt)
    BY <1>1, <1>3, <1>4, <1>5, UnbegunStays
  <2>4. ejected' = ejected
    BY <1>5
  <2>5. CASE IsHead(f) /\ f.pkt = p
    <3>1. ejected[p] = <<>> /\ \A u \in Slots : ~HasHead(OnVC(u), p)
      BY <2>1, <2>3, <2>5 DEF HeadFits
    <3>2. \A u \in Slots : OneHead(OnVC(u)', p)
      BY <1>1, <1>7, <2>1, <2>2, <3>1 DEF HeadFits
    <3>3. \A u \in Slots : u # s => ~HasHead(OnVC(u)', p)
      BY <1>7, <3>1
    <3>4. ~Unbegun(p)'
      BY <2>3, <2>5
    <3> QED
      BY <2>4, <3>1, <3>2, <3>3, <3>4 DEF HeadFits
  <2>6. CASE ~(IsHead(f) /\ f.pkt = p)
    <3>1. \A u \in Slots : OneHead(OnVC(u)', p) /\ (HasHead(OnVC(u)', p) => HasHead(OnVC(u), p))
      BY <1>1, <1>7, <2>1, <2>2, <2>6 DEF HeadFits
    <3>2. \A t, u \in Slots : HasHead(OnVC(t)', p) /\ HasHead(OnVC(u)', p) => t = u
      BY <2>1, <3>1 DEF HeadFits
    <3>3. \A u \in Slots : HasHead(OnVC(u)', p) => ejected'[p] = <<>>
      BY <2>1, <2>4, <3>1 DEF HeadFits
    <3>4. Unbegun(p)' => ejected'[p] = <<>> /\ \A u \in Slots : ~HasHead(OnVC(u)', p)
      BY <2>1, <2>3, <2>4, <3>1 DEF HeadFits
    <3> QED
      BY <3>1, <3>2, <3>3, <3>4 DEF HeadFits
  <2> QED
    BY <2>5, <2>6
<1> QED
  BY <1>17, <1>18, <1>19, <1>20 DEF Wormhole

-----------------------------------------------------------------------------
LEMMA InitWorm == Init => WormInv
<1> SUFFICES ASSUME Init PROVE WormInv
  OBVIOUS
<1>1. IInv /\ TypeOK
  BY InitIInv DEF IInv
<1>2. PICK due \in [Slots -> Dues] : \A s \in Slots : due[s] = {}
  <2>1. {} \in Dues
    BY DEF Dues
  <2>2. [s \in Slots |-> {}] \in [Slots -> Dues]
    BY <2>1
  <2> QED
    BY <2>2
<1>3. ASSUME NEW s \in Slots
      PROVE  Len(OnVC(s)) = 0
  <2>1. Joined(OnVC(s), buf[s], wire[s], xbar[s], Len(buf[s]), Len(wire[s]), Len(xbar[s]))
    BY <1>1, OnVCType
  <2>2. Len(buf[s]) = 0 /\ Len(wire[s]) = 0 /\ Len(xbar[s]) = 0
    BY EmptySeq DEF Init
  <2> QED
    BY <2>1, <2>2 DEF Joined
<1>4. InSlots \subseteq Slots /\ EjSlots \subseteq Slots
  BY SlotFacts DEF InSlots, EjSlots, Slots
<1>5. Flowing(due)
  <2> SUFFICES ASSUME NEW s \in Slots
               PROVE  SlotInv(OnVC(s), due[s], Coming(due, s))
    BY DEF Flowing
  <2>1. InLine(OnVC(s), {}) /\ Closed(OnVC(s), {})
    BY <1>3 DEF InLine, Contiguous, FrontFits, Closed
  <2>2. \A t \in InSlots : ~Feeds(t, s)
    BY <1>4 DEF Feeds, Init
  <2>3. \A l \in InjectLinks : ~Injects(l, s)
    BY DEF Injects, Init
  <2>4. Coming(due, s) = {}
    BY <2>2, <2>3 DEF Coming
  <2> QED
    BY <1>2, <2>1, <2>4 DEF SlotInv
<1>6. StatesFit(due) /\ EjectsFit(due)
  BY <1>2, <1>4 DEF StatesFit, StateFits, EjectsFit, EjectFits, Init
<1>7. SourcesFit
  BY DEF SourcesFit, SourceFits, Init
<1>8. HeadsFit
  <2>1. \A p \in PacketIds, s \in Slots : OneHead(OnVC(s), p) /\ ~HasHead(OnVC(s), p)
    BY <1>3 DEF OneHead, HasHead
  <2> QED
    BY <2>1 DEF HeadsFit, HeadFits, Init
<1>9. EjectedInOrder
  <2>1. \A p \in PacketIds : Len(ejected[p]) = 0
    BY EmptySeq DEF Init
  <2> QED
    BY <2>1 DEF EjectedInOrder
<1>10. Wormhole(due)
  BY <1>5, <1>6, <1>7, <1>8, <1>9 DEF Wormhole
<1> QED
  BY <1>1, <1>2, <1>10 DEF WormInv

LEMMA StutterWorm ==
  ASSUME IInv, NEW due \in [Slots -> Dues], Wormhole(due), UNCHANGED vars
  PROVE  Wormhole(due)'
<1>1. UNCHANGED <<sent, pos, srcVC, xbar, wire, buf, state, out, ejected>>
  BY DEF vars, srcVars, linkVars, inVars
<1>2. \A u \in Slots : OnVC(u)' = OnVC(u)
  BY <1>1 DEF OnVC
<1>3. Flowing(due)'
  <2>1. \A t \in InSlots, u \in Slots : Feeds(t, u)' <=> Feeds(t, u)
    BY <1>1 DEF Feeds
  <2>2. \A u \in Slots : Keeps(OnVC(u), due[u], OnVC(u)', due[u])
    BY <1>2, KeepsSame, FlowLine DEF Wormhole
  <2> QED
    BY <1>1, <2>1, <2>2, FlowKept DEF Wormhole
<1>4. StatesFit(due)' /\ SourcesFit' /\ EjectsFit(due)' /\ EjectedInOrder'
  BY <1>1 DEF Wormhole, StatesFit, StateFits, SourcesFit, SourceFits, EjectsFit, EjectFits,
              EjectedInOrder
<1>5. HeadsFit'
  <2>1. \A u \in Slots : HeadsLeft(OnVC(u), OnVC(u)')
    BY <1>2, HeadsUnmoved
  <2> QED
    BY <1>1, <2>1, HeadsStay DEF Wormhole
<1> QED
  BY <1>3, <1>4, <1>5 DEF Wormhole

(* Every packet stays whole in every network: behind a flit comes the next *)
(* of its packet or a head, on every VC and along the VCs it has taken.    *)
THEOREM WormholeInvariant == Spec => []WormInv
<1>1. Init => WormInv
  BY InitWorm
<1>2. WormInv /\ IInv' /\ [Next]_vars => WormInv'
  <2> SUFFICES ASSUME WormInv, IInv', [Next]_vars
               PROVE  WormInv'
    OBVIOUS
  <2>0. PICK due \in [Slots -> Dues] : IInv /\ Wormhole(due)
    BY DEF WormInv
  <2> DEFINE Goal == \E next \in [Slots -> Dues] : Wormhole(next)'
  <2>1. ASSUME NEW v \in VCs, NEW l \in InjectLinks, InjectFlit(l, v)
        PROVE  Goal
    BY <2>0, <2>1, InjectFlitWorm
  <2>2. ASSUME NEW v \in VCs, NEW l \in EjectLinks, Eject(l, v)
        PROVE  Goal
    BY <2>0, <2>2, EjectWorm
  <2>3. ASSUME NEW v \in VCs, NEW l \in InputLinks, ReceiveFlit(l, v)
        PROVE  Goal
    BY <2>0, <2>3, ReceiveFlitWorm
  <2>4. ASSUME NEW v \in VCs, NEW l \in InputLinks, AllocateSwitch(l, v)
        PROVE  Goal
    BY <2>0, <2>4, AllocateSwitchWorm
  <2>5. ASSUME NEW v \in VCs, NEW l \in InputLinks, NEW w \in VCs, AllocateVC(l, v, w)
        PROVE  Goal
    BY <2>0, <2>5, AllocateVCWorm
  <2>6. ASSUME NEW v \in VCs, NEW l \in OutputLinks, TraverseSwitch(l, v)
        PROVE  Goal
    BY <2>0, <2>6, TraverseSwitchWorm
  <2>7. ASSUME NEW s \in Slots, ReceiveCredit(s)
        PROVE  Goal
    BY <2>0, <2>7, ReceiveCreditWorm
  <2>8. ASSUME UNCHANGED vars
        PROVE  Goal
    BY <2>0, <2>8, StutterWorm
  <2> HIDE DEF Goal
  <2>9. Goal
    BY <2>1, <2>2, <2>3, <2>4, <2>5, <2>6, <2>7, <2>8 DEF Next, Drained
  <2> QED
    BY <2>9 DEF Goal, WormInv
<1> QED
  BY <1>1, <1>2, InductiveInvariant, PTL DEF Spec

-----------------------------------------------------------------------------
(* Flits of different packets never mix on a virtual channel. *)
THEOREM PacketsStayWhole == Spec => []PacketsContiguous
<1>1. WormInv => PacketsContiguous
  <2> SUFFICES ASSUME NEW due \in [Slots -> Dues], Wormhole(due), NEW s \in Slots
               PROVE  Contiguous(OnVC(s))
    BY DEF WormInv, PacketsContiguous, Contiguous, Follows
  <2> QED
    BY FlowLine DEF Wormhole, InLine
<1> QED
  BY <1>1, WormholeInvariant, PTL

(* The assertions of _InputQueuing, _VCAllocUpdate and _SWAllocUpdate on   *)
(* the state of a VC and the flit at its front hold.                       *)
THEOREM StatesMatch == Spec => []StateMatchesFront
<1>1. WormInv => StateMatchesFront
  <2> SUFFICES ASSUME IInv, NEW due \in [Slots -> Dues], Wormhole(due), NEW s \in InSlots
               PROVE  /\ state[s] = "idle" /\ wire[s] # <<>> => IsHead(Head(wire[s]))
                      /\ state[s] = "idle" <=> buf[s] = <<>> /\ out[s] = s
                      /\ state[s] = "vc_alloc" => buf[s] # <<>> /\ IsHead(Head(buf[s]))
                      /\ state[s] = "active" /\ buf[s] # <<>> => out[s][1] = NextLink(s)
    BY DEF WormInv, StateMatchesFront, IdleReceivesHead, InSlots
  <2>1. /\ TypeOK /\ s \in Slots /\ StateFits(due, s) /\ InLine(OnVC(s), due[s])
        /\ state[s] \in {"idle", "vc_alloc", "active"}
    BY FlowLine, SlotFacts DEF IInv, InSlots, Wormhole, StatesFit, TypeOK
  <2>2. state[s] # "active" /\ Len(OnVC(s)) > 0 => IsHead(OnVC(s)[1])
    BY <2>1 DEF StateFits, InLine, FrontFits
  <2>3. state[s] = "idle" /\ wire[s] # <<>> => IsHead(Head(wire[s]))
    BY <2>1, <2>2, FrontOf DEF StateFits
  <2>4. state[s] = "vc_alloc" => buf[s] # <<>> /\ IsHead(Head(buf[s]))
    BY <2>1, <2>2, FrontOf DEF StateFits
  <2>5. state[s] = "active" => out[s] # s
    <3> SUFFICES ASSUME state[s] = "active" PROVE out[s] # s
      OBVIOUS
    <3>1. PICK x \in due[s] : /\ x.pkt \in PacketIds
                             /\ out[s][1] = Packets[x.pkt].path[Sink[s[1]]]
      BY <2>1 DEF StateFits
    <3>2. PICK p \in PacketIds : out[s][1] = Packets[p].path[Sink[s[1]]]
      BY <3>1
    <3> QED
      BY <3>2, NoLoop
  <2>6. state[s] = "idle" <=> buf[s] = <<>> /\ out[s] = s
    BY <2>1, <2>5 DEF StateFits
  <2>7. ASSUME state[s] = "active", buf[s] # <<>>
        PROVE  out[s][1] = NextLink(s)
    <3>1. due[s] = {NameOf(Head(buf[s]))}
      BY <2>1, <2>7, FrontOf DEF StateFits, InLine, FrontFits
    <3> QED
      BY <2>1, <3>1 DEF StateFits, NextLink, NameOf
  <2> QED
    BY <2>3, <2>4, <2>6, <2>7
<1> QED
  BY <1>1, WormholeInvariant, PTL

(* Terminals receive the flits of every packet in order and none twice.    *)
THEOREM PacketsArriveInOrder == Spec => []EjectedInOrder
<1>1. WormInv => EjectedInOrder
  BY DEF WormInv, Wormhole
<1> QED
  BY <1>1, WormholeInvariant, PTL

(* What the assertions of Buffer, VC, BufferState and IQRouter say of a VC *)
(* holds of every VC of every network.                                     *)
THEOREM ChannelsStaySound == Spec => []ChannelsSound
<1>1. ASSUME TypeOK, BuffersNeverOverflow, ReuseAfterTailLeft,
             PacketsContiguous, StateMatchesFront, EjectedInOrder
      PROVE  ChannelsSound
  BY <1>1 DEF ChannelsSound
<1> QED
  BY <1>1, TypeCorrect, NoOverflow, TailLeavesFirst, PacketsStayWhole, StatesMatch,
     PacketsArriveInOrder, PTL
=============================================================================
