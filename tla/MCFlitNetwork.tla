--------------------------- MODULE MCFlitNetwork ---------------------------
(* Two routers in a row, a terminal at each: t1 -> r1 -> r2 -> t2, with t2 *)
(* injecting at r2 as well, so that two inputs of r2 compete for its       *)
(* output to t2.                                                           *)
EXTENDS FlitNetwork, TLC

MCRouters == {"r1", "r2"}
MCLinks   == {"t1r1", "r1r2", "t2r2", "r2t2"}
MCSource  == [l \in MCLinks |->
                CASE l = "t1r1" -> "t1" [] l = "t2r2" -> "t2"
                  [] l = "r1r2" -> "r1" [] l = "r2t2" -> "r2"]
MCSink    == [l \in MCLinks |->
                CASE l = "t1r1" -> "r1" [] l = "r2t2" -> "t2" [] OTHER -> "r2"]
CONSTANTS v1, v2
MCVCs     == {v1, v2}
MCSymmetry == Permutations(MCVCs)

ToT2   == [r1 |-> "r1r2", r2 |-> "r2t2"]
NoOps  == [r \in {} |-> 0]
At(r, code, iter) == [x \in {r} |-> [code |-> code, iter |-> iter, write |-> TRUE]]
Pkt(len, type, data, stage, ops) ==
  [len |-> len, type |-> type, data |-> data, stage |-> stage, path |-> ToT2, ops |-> ops]

(* Flow control alone: two packets from t1, the first longer than a buffer,*)
(* and a packet from t2.                                                   *)
Plain(len)   == Pkt(len, "normal", 0, 0, NoOps)
FlowPackets  == <<Plain(3), Plain(1), Plain(1)>>
FlowBacklog  == [t1r1 |-> <<1, 2>>, t2r2 |-> <<3>>]

(* A reduction at r2 as example/reduce.py runs it: a cover packet sets the *)
(* counter to the number of operands, then the operands arrive from t1 and *)
(* t2. A plain packet and a packet that reads the register follow.         *)
SetCounter(n, stage)    == Pkt(1, "cover", n, stage, At("r2", "sub", TRUE))
Operand(d, stage)       == Pkt(1, "reduce", d, stage, At("r2", "add", FALSE))
ReadRegister(d, stage)  == Pkt(1, "read", d, stage, At("r2", "add", FALSE))
AddRegister(d, stage)   == Pkt(1, "scalar", d, stage, At("r2", "add", FALSE))
ReducePackets == <<SetCounter(2, 1), Operand(1, 2), Operand(2, 2),
                   ReadRegister(0, 3), AddRegister(4, 3)>>
ReduceBacklog == [t1r1 |-> <<2, 4>>, t2r2 |-> <<1, 3, 5>>]

IsReduce(p) == Packets[p].type = "reduce"
Delivered   == {p \in PacketIds : IsReduce(p) /\ ejected[p] # <<>>}

(* A reduction of two operands finds its counter set, delivers one result, *)
(* the sum of both, and leaves it in the register for packets that read it.*)
ReductionResult ==
  /\ ReduceFindsCounter
  /\ \A p \in Delivered : ejected[p][1].data = 3 /\ Delivered = {p}
  /\ ejected[4] # <<>> => ejected[4][1].data \in {3, 7}
  /\ ejected[5] # <<>> => ejected[5][1].data = 7

(* Two reductions one after the other, with as many VCs as reductions. *)
TwicePackets == <<SetCounter(2, 1), Operand(1, 2), Operand(2, 2),
                  SetCounter(2, 3), Operand(1, 4), Operand(2, 4)>>
TwiceBacklog == [t1r1 |-> <<2, 5>>, t2r2 |-> <<1, 3, 4, 6>>]

(* reduce_comp_air returns the result of the reduction it performs: every  *)
(* reduction delivers a result to its destination. Not so for TwicePackets:*)
(* the slots that absorbed operands took are never given back.             *)
ReductionsDeliver == <>(Cardinality(Delivered) = 2)
=============================================================================
