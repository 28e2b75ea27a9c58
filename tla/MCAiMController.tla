-------------------------- MODULE MCAiMController --------------------------
(* A small instance of the DMA with real controllers: two channels of two  *)
(* banks and every trace of one line of each set of MCLines.  In channel 0 *)
(* conventional requests contend for a bank, are activated in two banks at *)
(* once and have their rows closed by the commands of an all-bank request; *)
(* the copies of one instruction drain at different times in the two       *)
(* channels, and one instruction has more copies than a buffer has room for*)
EXTENDS AiMController

Bank(op, channels, bank, row) ==
  [op |-> op, channels |-> channels, opsize |-> 1, bank |-> bank, row |-> row]
All(op, channels, opsize, row) ==
  [op |-> op, channels |-> channels, opsize |-> opsize, row |-> row]
Reg(op, channels, opsize) == [op |-> op, channels |-> channels, opsize |-> opsize]

Read == Bank("RD_SBK", {1}, "b1", "r1")
MAC  == All("MAC_ABK", {1}, 2, "r2")

(* What each line of the trace may hold. *)
MCLines ==
  << {Read, Bank("W_MEM", {0}, "b1", "r2"), MAC},
     {Bank("W_MEM", {0}, "b2", "r1"), Reg("RD_MAC", {0, 1}, 1), Reg("EWADD", {}, 1)},
     {Read, MAC, All("WR_ABK", {1}, 1, "r1"), Reg("RD_MAC", {0}, 4), Reg("SYNC", {}, 1)},
     {Reg("EOC", {}, 1)} >>

MCInstrs == UNION ToSet(MCLines)

OnScript ==
  \A r \in (ToSet(queue) \cup {frontReq}) \ {NoRequest} : r.ins \in MCLines[r.id + 1]

MCNext ==
  \/ SysFrontendTick /\ OnScript'
  \/ SysFlush
  \/ SysDecode
  \/ \E ch \in Channels : ControllerTick(ch)
  \/ SysTerminated

MCSpec == SysInit /\ [][MCNext]_sysVars /\ SysFairness
=============================================================================
