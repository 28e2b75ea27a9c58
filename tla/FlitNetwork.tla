---------------------------- MODULE FlitNetwork ----------------------------
(***************************************************************************)
(* The network of CompAir's modified BookSim2: input-queued routers        *)
(* (IQRouter) with virtual channels and credit-based flow control, the     *)
(* traffic manager (SimulateTrafficManager) that injects and ejects flits, *)
(* and the computation CompAir adds to switch traversal, which may absorb  *)
(* a flit into the registers of a router.                                  *)
(*                                                                         *)
(* A link is a physical channel with the credits that flow back over it;   *)
(* its sender keeps a BufferState per VC, its receiver a VC buffer. Every  *)
(* phase of a router's cycle is an action, so that flits and credits of    *)
(* different links take any time and any order a cycle count could give.   *)
(***************************************************************************)
EXTENDS Integers, Sequences, FiniteSets

CONSTANTS
  Routers,            \* the routers, each with its compute registers
  Links,              \* the channels: injection, between routers, ejection
  Source,             \* Source[l]: the router or terminal that sends on l
  Sink,               \* Sink[l]: the router or terminal that receives from l
  VCs,                \* num_vcs, as the set of virtual channels of a link
  BufSize,            \* vc_buf_size
  WaitForTailCredit,  \* wait_for_tail_credit
  Packets,            \* the packets of the workload, a sequence of records
  Backlog             \* Backlog[l]: the packets queued at injection link l

InjectLinks == {l \in Links : Source[l] \notin Routers}
EjectLinks  == {l \in Links : Sink[l] \notin Routers}
InputLinks  == Links \ EjectLinks    \* the links some router reads
OutputLinks == Links \ InjectLinks   \* the links some router drives
Slots       == Links \X VCs
PacketIds   == DOMAIN Packets

OpCodes == {"add", "sub", "mul"}
Op      == [code : OpCodes, iter : BOOLEAN, write : BOOLEAN]
Types   == {"normal", "scalar", "reduce", "cover", "read"}

(* path gives the link the routing function picks at each router, ops the *)
(* operation of each router that computes on the packet. A packet of stage *)
(* n is injected once the packets of the stages before n have left: the    *)
(* driver scripts run the simulator between their calls of inject.         *)
PacketRecords ==
  [len : Nat \ {0}, type : Types, data : Int, stage : Nat,
   path : [Routers -> OutputLinks], ops : UNION {[R -> Op] : R \in SUBSET Routers}]

ASSUME NetworkAssumption ==
  /\ DOMAIN Source = Links /\ DOMAIN Sink = Links
  /\ InjectLinks \cap EjectLinks = {}
  /\ BufSize \in Nat \ {0}
  /\ WaitForTailCredit \in BOOLEAN

ASSUME PacketAssumption ==
  /\ Packets \in Seq(PacketRecords)
  /\ Backlog \in [InjectLinks -> Seq(PacketIds)]
  /\ \A p \in PacketIds, r \in Routers : Source[Packets[p].path[r]] = r

(* No channel leads back to where it starts, a workload queues a packet    *)
(* once, and a packet that is reduced has a single flit, as the kernels'   *)
(* do: the assertion of _InputQueuing stops the program on a longer one.   *)
ASSUME WorkloadAssumption ==
  /\ \A l \in Links : Source[l] # Sink[l]
  /\ \A l, m \in InjectLinks : \A j \in 1 .. Len(Backlog[l]), k \in 1 .. Len(Backlog[m]) :
       Backlog[l][j] = Backlog[m][k] => l = m /\ j = k
  /\ \A p \in PacketIds : Packets[p].type = "reduce" => Packets[p].len = 1

(* The flits of a packet are numbered; each carries ca_info.data. *)
Flits     == {f \in [pkt : PacketIds, i : Nat \ {0}, data : Int] :
                f.i <= Packets[f.pkt].len}
IsHead(f) == f.i = 1
IsTail(f) == f.i = Packets[f.pkt].len

VARIABLES
  sent,      \* per injection link, the packets of its backlog all sent
  pos,       \* per injection link, the flits sent of the packet after those
  srcVC,     \* per injection link, the VC its packet was given, if any
  bs,        \* BufferState: the sender's account of each slot
  xbar,      \* per output slot, flits in the crossbar (_crossbar_flits)
  wire,      \* per slot, flits in the output buffer or on the channel
  buf,       \* per slot, the receiver's VC buffer
  credits,   \* per slot, credits on their way back to the sender
  state,     \* per slot, the state of the receiver's VC
  out,       \* per slot, the slot an active VC sends to, else itself
  regs,      \* per router, _acc_data_reg, _acc_iter_tag_reg, _acc_iter_op_reg
  absorbed,  \* per slot, flits sent to it that a router absorbed
  merged,    \* per packet, the flits absorbed (reduced_flits)
  ejected    \* per packet, the flits ejected, in order

srcVars  == <<sent, pos, srcVC>>
linkVars == <<bs, xbar, wire, credits>>
inVars   == <<buf, state, out>>
compVars == <<regs, absorbed, merged>>
vars     == <<srcVars, linkVars, inVars, compVars, ejected>>

-----------------------------------------------------------------------------
(* BufferState, per VC: in use by a packet, its tail sent, flits out. *)
FreeVC == [inUse |-> FALSE, tailSent |-> FALSE, occ |-> 0]

IsAvailable(b) == ~b.inUse

IsFull(b)      == b.occ >= BufSize

(* FAULT: the tail of the last packet is not forgotten. *)
TakeBufferKeepsTail(b) == [b EXCEPT !.inUse = TRUE]

TakeBuffer(b) == [b EXCEPT !.inUse = TRUE, !.tailSent = FALSE]

(* FAULT: packets are counted, not flits. *)
SendingPacket(b, f) ==
  [inUse    |-> b.inUse /\ (WaitForTailCredit \/ ~IsTail(f)),
   tailSent |-> b.tailSent \/ IsTail(f),
   occ      |-> IF IsTail(f) THEN b.occ + 1 ELSE b.occ]

SendingFlit(b, f) ==
  [inUse    |-> b.inUse /\ (WaitForTailCredit \/ ~IsTail(f)),
   tailSent |-> b.tailSent \/ IsTail(f),
   occ      |-> b.occ + 1]

(* FAULT: the VC stays in use. *)
ProcessCreditKeepsVC(b) == [b EXCEPT !.occ = b.occ - 1]

ProcessCredit(b) ==
  [inUse    |-> b.inUse /\ ~(WaitForTailCredit /\ b.occ = 1 /\ b.tailSent),
   tailSent |-> b.tailSent,
   occ      |-> b.occ - 1]

(* FAULT: the buffer alone decides, not the tail. *)
StateByOccupancy(f, rest) == IF rest = <<>> THEN "idle" ELSE "active"

(* The state a VC is left in when f leaves it with rest behind f. *)
StateAfter(f, rest) ==
  IF ~IsTail(f) THEN "active" ELSE IF rest = <<>> THEN "idle" ELSE "vc_alloc"

-----------------------------------------------------------------------------
(* The computation of a router with registers reg on a flit of a type. *)
Apply(code, a, b) ==
  CASE code = "add" -> a + b
    [] code = "sub" -> a - b
    [] code = "mul" -> a * b

NoRegs == [acc |-> 0, iter |-> 0, iterOp |-> "add"]

Scalar(reg, op, f) ==
  LET data == Apply(op.code, f.data, reg.acc)
      acc  == IF op.write THEN data ELSE reg.acc
  IN  [data |-> data, send |-> TRUE,
       reg  |-> [reg EXCEPT !.acc = IF op.iter THEN Apply(reg.iterOp, acc, reg.iter)
                                               ELSE acc]]

(* FAULT: the last operand is sent on in place of the sum. *)
ReduceSendsOperand(reg, op, f) ==
  IF reg.iter > 0
  THEN [data |-> f.data, send |-> reg.iter = 1,
        reg  |-> [reg EXCEPT !.acc = Apply(op.code, @, f.data), !.iter = @ - 1]]
  ELSE [data |-> f.data, send |-> FALSE, reg |-> reg]

Reduce(reg, op, f) ==
  LET acc == Apply(op.code, reg.acc, f.data) IN
  IF reg.iter > 0
  THEN [data |-> IF reg.iter = 1 THEN acc ELSE f.data, send |-> reg.iter = 1,
        reg  |-> [acc |-> acc, iter |-> reg.iter - 1, iterOp |-> reg.iterOp]]
  ELSE [data |-> f.data, send |-> FALSE, reg |-> reg]

Cover(reg, op, f) ==
  [data |-> f.data, send |-> TRUE,
   reg  |-> IF op.iter THEN [reg EXCEPT !.iter = f.data, !.iterOp = op.code]
                       ELSE [reg EXCEPT !.acc = f.data]]

Read(reg, op, f) ==
  [data |-> IF op.iter THEN reg.iter ELSE reg.acc, send |-> TRUE, reg |-> reg]

Computes(r, f) == r \in DOMAIN Packets[f.pkt].ops

Compute(r, f) ==
  LET reg == regs[r]
      op  == Packets[f.pkt].ops[r]
  IN  CASE ~Computes(r, f) \/ Packets[f.pkt].type = "normal" ->
             [data |-> f.data, send |-> TRUE, reg |-> reg]
        [] OTHER ->
             CASE Packets[f.pkt].type = "scalar" -> Scalar(reg, op, f)
               [] Packets[f.pkt].type = "reduce" -> Reduce(reg, op, f)
               [] Packets[f.pkt].type = "cover"  -> Cover(reg, op, f)
               [] Packets[f.pkt].type = "read"   -> Read(reg, op, f)

-----------------------------------------------------------------------------
Init ==
  /\ sent = [l \in InjectLinks |-> 0]
  /\ pos = [l \in InjectLinks |-> 0]
  /\ srcVC = [l \in InjectLinks |-> {}]
  /\ bs = [s \in Slots |-> FreeVC]
  /\ xbar = [s \in Slots |-> <<>>]
  /\ wire = [s \in Slots |-> <<>>]
  /\ buf = [s \in Slots |-> <<>>]
  /\ credits = [s \in Slots |-> 0]
  /\ state = [s \in Slots |-> "idle"]
  /\ out = [s \in Slots |-> s]
  /\ regs = [r \in Routers |-> NoRegs]
  /\ absorbed = [s \in Slots |-> 0]
  /\ merged = [p \in PacketIds |-> 0]
  /\ ejected = [p \in PacketIds |-> <<>>]

-----------------------------------------------------------------------------
(* The traffic manager. *)
Settled(p) == Len(ejected[p]) + merged[p] = Packets[p].len

MayInject(p) ==
  \A q \in PacketIds : Packets[q].stage < Packets[p].stage => Settled(q)

NextPacket(l) == Backlog[l][sent[l] + 1]

InjectFlit(l, v) ==
  LET s == <<l, v>>
      f == [pkt |-> NextPacket(l), i |-> pos[l] + 1, data |-> Packets[NextPacket(l)].data]
  IN
  /\ sent[l] < Len(Backlog[l])
  /\ ~IsFull(bs[s])
  /\ IF IsHead(f) THEN MayInject(f.pkt) /\ IsAvailable(bs[s]) ELSE v \in srcVC[l]
  /\ bs' = [bs EXCEPT ![s] = SendingFlit(IF IsHead(f) THEN TakeBuffer(@) ELSE @, f)]
  /\ wire' = [wire EXCEPT ![s] = Append(@, f)]
  /\ sent' = [sent EXCEPT ![l] = IF IsTail(f) THEN @ + 1 ELSE @]
  /\ pos' = [pos EXCEPT ![l] = IF IsTail(f) THEN 0 ELSE @ + 1]
  /\ srcVC' = [srcVC EXCEPT ![l] = IF IsTail(f) THEN {} ELSE {v}]
  /\ UNCHANGED <<xbar, credits, inVars, compVars, ejected>>

(* A terminal takes a flit and returns its credit in the same step. *)
Eject(l, v) ==
  LET s == <<l, v>> IN
  /\ wire[s] # <<>>
  /\ ejected' = [ejected EXCEPT ![Head(wire[s]).pkt] = Append(@, Head(wire[s]))]
  /\ wire' = [wire EXCEPT ![s] = Tail(@)]
  /\ credits' = [credits EXCEPT ![s] = @ + 1]
  /\ UNCHANGED <<srcVars, bs, xbar, inVars, compVars>>

(* A sender, router or terminal, processes a credit. *)
ReceiveCredit(s) ==
  /\ credits[s] > 0
  /\ credits' = [credits EXCEPT ![s] = @ - 1]
  /\ bs' = [bs EXCEPT ![s] = ProcessCredit(@)]
  /\ UNCHANGED <<srcVars, xbar, wire, inVars, compVars, ejected>>

-----------------------------------------------------------------------------
(* The phases of an IQRouter's cycle, for the VC v of one of its inputs l. *)
ReceiveFlit(l, v) ==
  LET s == <<l, v>> IN
  /\ wire[s] # <<>>
  /\ wire' = [wire EXCEPT ![s] = Tail(@)]
  /\ buf' = [buf EXCEPT ![s] = Append(@, Head(wire[s]))]
  /\ state' = [state EXCEPT ![s] = IF @ = "idle" THEN "vc_alloc" ELSE @]
  /\ UNCHANGED <<srcVars, bs, xbar, credits, out, compVars, ejected>>

NextLink(s) == Packets[Head(buf[s]).pkt].path[Sink[s[1]]]

AllocateVC(l, v, w) ==
  LET s == <<l, v>>
      o == <<NextLink(s), w>>
  IN
  /\ state[s] = "vc_alloc" /\ buf[s] # <<>>
  /\ IsAvailable(bs[o])
  /\ bs' = [bs EXCEPT ![o] = TakeBuffer(@)]
  /\ out' = [out EXCEPT ![s] = o]
  /\ state' = [state EXCEPT ![s] = "active"]
  /\ UNCHANGED <<srcVars, xbar, wire, credits, buf, compVars, ejected>>

AllocateSwitch(l, v) ==
  LET s == <<l, v>>
      o == out[s]
      f == Head(buf[s])
  IN
  /\ state[s] = "active" /\ buf[s] # <<>>
  /\ ~IsFull(bs[o])
  /\ buf' = [buf EXCEPT ![s] = Tail(@)]
  /\ bs' = [bs EXCEPT ![o] = SendingFlit(@, f)]
  /\ xbar' = [xbar EXCEPT ![o] = Append(@, f)]
  /\ credits' = [credits EXCEPT ![s] = @ + 1]
  /\ state' = [state EXCEPT ![s] = StateAfter(f, Tail(buf[s]))]
  /\ out' = [out EXCEPT ![s] = IF IsTail(f) THEN s ELSE @]
  /\ UNCHANGED <<srcVars, wire, compVars, ejected>>

(* Switch traversal at the router that drives link l. *)
TraverseSwitch(l, v) ==
  LET s == <<l, v>>
      r == Source[l]
      f == Head(xbar[s])
      c == Compute(r, f)
  IN
  /\ xbar[s] # <<>>
  /\ xbar' = [xbar EXCEPT ![s] = Tail(@)]
  /\ regs' = [regs EXCEPT ![r] = c.reg]
  /\ IF c.send
     THEN /\ wire' = [wire EXCEPT ![s] = Append(@, [f EXCEPT !.data = c.data])]
          /\ UNCHANGED <<absorbed, merged>>
     ELSE /\ absorbed' = [absorbed EXCEPT ![s] = @ + 1]
          /\ merged' = [merged EXCEPT ![f.pkt] = @ + 1]
          /\ UNCHANGED wire
  /\ UNCHANGED <<srcVars, bs, credits, inVars, ejected>>

(* Nothing left to send and nothing in the network. *)
Drained ==
  /\ \A l \in InjectLinks : sent[l] = Len(Backlog[l])
  /\ \A s \in Slots : xbar[s] = <<>> /\ wire[s] = <<>> /\ buf[s] = <<>> /\ credits[s] = 0
  /\ UNCHANGED vars

Next ==
  \/ \E v \in VCs :
       \/ \E l \in InjectLinks : InjectFlit(l, v)
       \/ \E l \in EjectLinks : Eject(l, v)
       \/ \E l \in InputLinks : ReceiveFlit(l, v) \/ AllocateSwitch(l, v)
       \/ \E l \in InputLinks, w \in VCs : AllocateVC(l, v, w)
       \/ \E l \in OutputLinks : TraverseSwitch(l, v)
  \/ \E s \in Slots : ReceiveCredit(s)
  \/ Drained

Spec == Init /\ [][Next]_vars

(* Every cycle steps every channel and router, so whatever can move does.  *)
(* Allocators may pass over a VC for others, but a workload is finite: the *)
(* VCs it loses to run out, and no stronger fairness is needed.            *)
Fairness ==
  /\ \A l \in InjectLinks, v \in VCs : WF_vars(InjectFlit(l, v))
  /\ \A l \in EjectLinks, v \in VCs : WF_vars(Eject(l, v))
  /\ \A l \in InputLinks, v \in VCs :
       /\ WF_vars(ReceiveFlit(l, v))
       /\ WF_vars(\E w \in VCs : AllocateVC(l, v, w))
       /\ WF_vars(AllocateSwitch(l, v))
  /\ \A l \in OutputLinks, v \in VCs : WF_vars(TraverseSwitch(l, v))
  /\ \A s \in Slots : WF_vars(ReceiveCredit(s))

FairSpec == Spec /\ Fairness

-----------------------------------------------------------------------------
(* Properties *)

(* The variables keep their types. *)
TypeOK ==
  /\ sent \in [InjectLinks -> Nat] /\ \A l \in InjectLinks : sent[l] <= Len(Backlog[l])
  /\ pos \in [InjectLinks -> Nat]
  /\ srcVC \in [InjectLinks -> SUBSET VCs]
  /\ bs \in [Slots -> [inUse : BOOLEAN, tailSent : BOOLEAN, occ : Nat]]
  /\ xbar \in [Slots -> Seq(Flits)]
  /\ wire \in [Slots -> Seq(Flits)]
  /\ buf \in [Slots -> Seq(Flits)]
  /\ credits \in [Slots -> Nat]
  /\ state \in [Slots -> {"idle", "vc_alloc", "active"}]
  /\ out \in [Slots -> Slots]
  /\ regs \in [Routers -> [acc : Int, iter : Int, iterOp : OpCodes]]
  /\ absorbed \in [Slots -> Nat]
  /\ merged \in [PacketIds -> Nat]
  /\ ejected \in [PacketIds -> Seq(Flits)]

(* What a sender counts as occupied is exactly what is on its way, in the  *)
(* receiver's buffer, coming back as credits, or gone into a register.     *)
CreditsConserved ==
  \A s \in Slots :
    bs[s].occ = Len(xbar[s]) + Len(wire[s]) + Len(buf[s]) + credits[s] + absorbed[s]

(* No sender overruns its allowance, so that Buffer::AddFlit never reports *)
(* a flit buffer overflow.                                                 *)
BuffersNeverOverflow ==
  \A s \in Slots : bs[s].occ <= BufSize /\ Len(buf[s]) <= BufSize

(* With wait_for_tail_credit a virtual channel is not reallocated until    *)
(* the tail flit has left it, and ProcessCredit never reports a credit for *)
(* an idle VC: a VC that is not in use has no flit and no credit anywhere. *)
ReuseAfterTailLeft ==
  WaitForTailCredit =>
    \A s \in Slots : ~bs[s].inUse =>
      xbar[s] = <<>> /\ wire[s] = <<>> /\ buf[s] = <<>> /\ credits[s] = 0

(* A packet that is being sent owns the VC it is sent to: the VC is in use,*)
(* its tail has not been sent, and no other sender writes to it. Then      *)
(* TakeBuffer never reports a buffer taken while in use.                   *)
SenderOwnsVC ==
  /\ \A s \in InputLinks \X VCs : state[s] = "active" =>
       /\ bs[out[s]].inUse /\ ~bs[out[s]].tailSent
       /\ \A t \in InputLinks \X VCs :
            state[t] = "active" /\ out[t] = out[s] => t = s
  /\ \A l \in InjectLinks : \A v \in srcVC[l] :
       bs[<<l, v>>].inUse /\ ~bs[<<l, v>>].tailSent

(* Packets do not interleave on a VC: behind a flit comes the next flit of *)
(* its packet, behind a tail a head (VC::AddFlit's expected packet id).    *)
OnVC(s) == buf[s] \o wire[s] \o xbar[s]

PacketsContiguous ==
  \A s \in Slots : \A k \in 1 .. Len(OnVC(s)) - 1 :
    LET f == OnVC(s)[k]
        g == OnVC(s)[k + 1]
    IN  IF IsTail(f) THEN IsHead(g) ELSE g.pkt = f.pkt /\ g.i = f.i + 1

(* A VC that is idle receives the head of a packet: the assertion of       *)
(* _InputQueuing on the flit that wakes an input VC.                       *)
IdleReceivesHead ==
  \A s \in InputLinks \X VCs :
    state[s] = "idle" /\ wire[s] # <<>> => IsHead(Head(wire[s]))

(* A VC's state agrees with the flit at its front: what the assertions of  *)
(* _InputQueuing, _VCAllocUpdate and _SWAllocUpdate say.                   *)
StateMatchesFront ==
  /\ IdleReceivesHead
  /\ \A s \in InputLinks \X VCs :
       /\ state[s] = "idle" <=> buf[s] = <<>> /\ out[s] = s
       /\ state[s] = "vc_alloc" => buf[s] # <<>> /\ IsHead(Head(buf[s]))
       /\ state[s] = "active" /\ buf[s] # <<>> => out[s][1] = NextLink(s)

(* The flits of a packet are ejected in order and none twice. *)
EjectedInOrder ==
  \A p \in PacketIds : \A k \in 1 .. Len(ejected[p]) :
    ejected[p][k].i = k

(* A reduce flit finds the counter of its reduction set and not yet run    *)
(* out: otherwise _SwitchUpdate stops at an assertion or loses the flit.   *)
ReduceFindsCounter ==
  \A s \in OutputLinks \X VCs :
    LET f == Head(xbar[s])
        r == Source[s[1]]
    IN  xbar[s] # <<>> /\ Packets[f.pkt].type = "reduce" /\ Computes(r, f) =>
          regs[r].iterOp = "sub" /\ regs[r].iter > 0

(* Every packet is ejected, or absorbed by the routers that reduce it. *)
EverythingSettles == <>[](\A p \in PacketIds : Settled(p))

(* What the assertions of Buffer, VC, BufferState and IQRouter say of a VC,*)
(* taken together: it never overflows, is reused only when it is empty,    *)
(* holds packets one behind the other, and is in the state its front needs;*)
(* and the flits of a packet come out in order.                            *)
ChannelsSound ==
  /\ TypeOK
  /\ BuffersNeverOverflow
  /\ ReuseAfterTailLeft
  /\ PacketsContiguous
  /\ StateMatchesFront
  /\ EjectedInOrder
=============================================================================
