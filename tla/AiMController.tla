--------------------------- MODULE AiMController ---------------------------
(***************************************************************************)
(* The AiM DRAM controllers behind the DMA, one per channel: admission     *)
(* (send), the buffers, the scheduler's choice, the prerequisite commands  *)
(* of GDDR6, the register-mode switch (TMOD), and the completion of what   *)
(* was issued (serve_completed_reqs).                                      *)
(*                                                                         *)
(* Time is abstract: a command is ready, and an issued request departs, at *)
(* a moment TLC chooses, within what Ready keeps of the timing: which      *)
(* command is ready before an activated request's own.                     *)
(* The priority buffer is left out: the refresh manager, its only client,  *)
(* loops over get_level_size("rank") = -1 ranks and never sends anything.  *)
(***************************************************************************)
EXTENDS AiMDMA, SequencesExt

CONSTANTS
  Banks,     \* the banks of a channel
  Rows,      \* the rows of a bank
  Closed,    \* the state of a bank with no open row
  BufMax,    \* ReqBuffer::max_size
  WrHigh,    \* m_wr_high_watermark * max_size, rounded down
  WrLow      \* m_wr_low_watermark * max_size, rounded up

(* What opens a row: an access to one bank, and one to all banks. *)
BankOps    == ConventionalOps \cup {"COPY_BKGB", "COPY_GBBK", "MAC_SBK"}
AllBankOps == {"MAC_ABK", "AF", "EWMUL", "WR_ABK"}

ASSUME ControllerAssumption ==
  /\ Closed \notin Rows
  /\ BufMax \in Nat \ {0} /\ WrHigh \in Nat /\ WrLow \in Nat
  /\ IsFiniteSet(Banks) /\ Cardinality(Banks) <= BufMax

(* The rows of an instruction and, where it names one, its bank.           *)
ASSUME AddressAssumption ==
  \A ins \in Instrs :
    /\ ins.op \in BankOps => ins.bank \in Banks /\ ins.row \in Rows
    /\ ins.op \in AllBankOps => ins.row \in Rows

VARIABLES
  active,         \* m_active_buffer: conventional requests whose row was activated
  readBuf,        \* m_read_buffer
  writeBuf,       \* m_write_buffer
  aimBuf,         \* m_aim_buffer, in order
  pendingReads,   \* pending_reads, in order of issue
  pendingWrites,  \* pending_writes
  writeMode,      \* m_is_write_mode
  regRW,          \* is_reg_RW_mode
  openRow         \* the row state of each bank

buffers  == <<active, readBuf, writeBuf, aimBuf>>
ctrlVars == <<buffers, pendingReads, pendingWrites, writeMode, regRW, openRow>>
sysVars  == <<vars, ctrlVars>>

-----------------------------------------------------------------------------
(* The DRAM commands. *)
RegisterOps == {"WR_GB", "WR_BIAS", "RD_MAC", "RD_AF"}   \* require_reg_RW_mod
ReadOps     == {"RD_SBK", "R_MEM"} \cup BlockingOps      \* Request::is_reader

IsAiM(c)     == c.ins.op \in AiMOps
IsRead(c)    == c.ins.op \in {"RD_SBK", "R_MEM"}
IsWrite(c)   == c.ins.op \in {"WR_SBK", "W_MEM"}
IsBarrier(c) == c.ins.op \in BroadcastOps

(* get_preq_command: what must be issued before (or as) the final command, *)
(* "COL" standing for the final command itself.                            *)
Preq(open, ins) ==
  IF ins.op \in BankOps
  THEN CASE open[ins.bank] = Closed  -> "ACT"
         [] open[ins.bank] = ins.row -> "COL"
         [] OTHER                    -> "PRE"
  ELSE IF ins.op \in AllBankOps
  THEN CASE \E b \in Banks : open[b] \notin {Closed, ins.row} -> "PREA"
         [] \A b \in Banks : open[b] = ins.row                -> "COL"
         [] OTHER                                             -> "ACT16"
  ELSE "COL"

(* issue_command: what a command does to the row state of the channel. *)
AfterCommand(open, cmd, ins) ==
  CASE cmd = "ACT"                          -> [open EXCEPT ![ins.bank] = ins.row]
    [] cmd = "PRE"                          -> [open EXCEPT ![ins.bank] = Closed]
    [] cmd = "ACT16"                        -> [b \in Banks |-> ins.row]
    [] cmd = "PREA"                         -> [b \in Banks |-> Closed]
    [] cmd = "COL" /\ ins.op = "WR_ABK"     -> [b \in Banks |-> Closed]
    [] OTHER                                -> open

IsClosing(cmd, ins) == cmd \in {"PRE", "PREA"} \/ (cmd = "COL" /\ ins.op = "WR_ABK")

-----------------------------------------------------------------------------
(* AiMDRAMController::send for the copies todo of one host request, in     *)
(* order. No trace line sets the addr of a memory request, so the address  *)
(* a read is compared with is always the write's.                          *)
Addr(c) == -1

Forwarded(ch, c) == IsRead(c) /\ \E w \in writeBuf[ch] : Addr(w) = Addr(c)

OppositeBuffered(ch, c) ==
  IF IsAiM(c) THEN writeBuf[ch] # {} \/ readBuf[ch] # {} ELSE aimBuf[ch] # <<>>

(* ReqBuffer::enqueue accepts while size <= max_size. *)
Room(ch, c) ==
  BufMax + 1 - (IF IsAiM(c) THEN Len(aimBuf[ch])
                ELSE Cardinality(IF IsRead(c) THEN readBuf[ch] ELSE writeBuf[ch]))

(* FAULT: the copies of a host request are admitted all or none. *)
AdmittedTogether(ch, todo) ==
  {c \in todo : ~OppositeBuffered(ch, c) /\ Cardinality(todo) <= Room(ch, c)}

(* How many of the copies are offered before c. *)
Ahead(copies, c) == Cardinality({d \in copies : d.k < c.k})

Admitted(ch, todo) ==
  {c \in todo :
     /\ ~OppositeBuffered(ch, c)
     /\ Forwarded(ch, c) \/ Ahead(todo, c) < Room(ch, c)}

InOrder(copies) ==
  [i \in 1 .. Cardinality(copies) |-> CHOOSE c \in copies : Ahead(copies, c) = i - 1]

Accept(sent) ==
  LET fwd(ch)  == {c \in sent[ch] : Forwarded(ch, c)}
      new(ch)  == sent[ch] \ fwd(ch)
  IN  /\ aimBuf' = [ch \in Channels |->
                      aimBuf[ch] \o InOrder({c \in new(ch) : IsAiM(c)})]
      /\ readBuf' = [ch \in Channels |-> readBuf[ch] \cup {c \in new(ch) : IsRead(c)}]
      /\ writeBuf' = [ch \in Channels |-> writeBuf[ch] \cup {c \in new(ch) : IsWrite(c)}]
      /\ pendingReads' = [ch \in Channels |-> pendingReads[ch] \o InOrder(fwd(ch))]
      /\ UNCHANGED <<active, pendingWrites, writeMode, regRW, openRow>>

-----------------------------------------------------------------------------
(* AiMDRAMController::tick. *)

(* serve_completed_reqs: the oldest pending read may have departed (a      *)
(* barrier departs once no write is pending), then any pending writes.     *)
(* FAULT: a barrier departs like any other read. *)
CanServeAny(ch) == pendingReads[ch] # <<>>

CanServe(ch) ==
  /\ pendingReads[ch] # <<>>
  /\ IsBarrier(Head(pendingReads[ch])) => pendingWrites[ch] = {}

ServeCompleted(ch, serve, departed) ==
  /\ serve => CanServe(ch)
  /\ LET served == IF serve THEN {Head(pendingReads[ch])} ELSE {}
     IN  /\ held' = [held EXCEPT ![ch] = @ \ (served \cup departed)]
         /\ IF \E c \in served : Blocking(c)
            THEN Receive(Head(pendingReads[ch]))
            ELSE UNCHANGED <<queue, calledBack, stalled, thrown>>
  /\ UNCHANGED <<hostReqId, frontReq, reachedEOC, remaining>>

(* set_write_mode. *)
NewWriteMode(ch) ==
  IF ~writeMode[ch]
  THEN Cardinality(writeBuf[ch]) > WrHigh \/ readBuf[ch] = {}
  ELSE ~(Cardinality(writeBuf[ch]) < WrLow /\ readBuf[ch] # {})

(* schedule_request: an activated request if one is ready; otherwise the   *)
(* oldest AiM request; otherwise, with no AiM request buffered, a request  *)
(* of the buffer the write mode selects. FRFCFS prefers a ready request,   *)
(* and which requests are ready is left open.                              *)
SelectedBuffer(ch) == IF NewWriteMode(ch) THEN writeBuf[ch] ELSE readBuf[ch]

(* FAULT: AiM requests are served first-ready. *)
CandidatesFirstReady(ch) ==
  active[ch] \cup (IF aimBuf[ch] # <<>> THEN ToSet(aimBuf[ch]) ELSE SelectedBuffer(ch))

Candidates(ch) ==
  active[ch] \cup (IF aimBuf[ch] # <<>> THEN {Head(aimBuf[ch])} ELSE SelectedBuffer(ch))

UpdateWriteMode(ch, isActive) ==
  writeMode' = IF isActive \/ aimBuf[ch] # <<>> THEN writeMode
               ELSE [writeMode EXCEPT ![ch] = NewWriteMode(ch)]

(* A closing command may not interrupt an activated request of the very    *)
(* same bank; an all-bank command names no bank, so nothing compares equal.*)

InterruptsActive(ch, c) ==
  /\ c.ins.op \in BankOps
  /\ \E r \in active[ch] : r.ins.bank = c.ins.bank

(* Timing (preset GDDR6_AiM_timing). The active buffer comes first, so what*)
(* is ready for another request is issued only before the activated one's  *)
(* own command is ready.                                                   *)
(* A bank is ready for ACT whenever all are for ACT16: an activated request*)
(* that lost its row opens it again before another request takes the bank. *)
(* FAULT: the active buffer has no precedence.                             *)
AnyFirst(ch, c, cmd) == TRUE

ReopensFirst(ch, c, cmd) ==
  \A r \in active[ch] : openRow[ch][r.ins.bank] = Closed =>
    cmd # "ACT16" /\ (cmd = "ACT" /\ c.ins.bank = r.ins.bank => c = r)

(* nRCDRD and nRCDWR are below nRAS, so a column command is ready before   *)
(* PREA, but for the write held up while the bus turns round: 50 cycles    *)
(* after a RD, which is itself pending for 52. WRA16 waits for what a WR   *)
(* waits for, but not for the longer nRCDRD.                               *)
Overtakes(cmd, r, reads) ==
  IF cmd = "PREA" THEN IsWrite(r) /\ \E c \in ToSet(reads) : IsRead(c) ELSE IsRead(r)

Ready(ch, c, cmd, reads) ==
  /\ ReopensFirst(ch, c, cmd)
  /\ IsClosing(cmd, c.ins) /\ c.ins.op \in AllBankOps =>
       \A r \in active[ch] : openRow[ch][r.ins.bank] = r.ins.row => Overtakes(cmd, r, reads)

(* ReqBuffer::remove, from the list that is a buffer of AiM requests. *)
Removed(list, c) ==
  IF c \in ToSet(list)
  THEN RemoveAt(list, CHOOSE i \in 1 .. Len(list) : list[i] = c)
  ELSE list

Without(ch, c) ==
  /\ readBuf' = [readBuf EXCEPT ![ch] = @ \ {c}]
  /\ writeBuf' = [writeBuf EXCEPT ![ch] = @ \ {c}]
  /\ aimBuf' = [aimBuf EXCEPT ![ch] = Removed(@, c)]

(* The request leaves its buffer for pending_reads or pending_writes. *)
IssueFinal(ch, c, reads, writes) ==
  /\ Without(ch, c)
  /\ active' = [active EXCEPT ![ch] = @ \ {c}]
  /\ IF c.ins.op \in ReadOps
     THEN /\ pendingReads' = [pendingReads EXCEPT ![ch] = Append(reads, c)]
          /\ pendingWrites' = [pendingWrites EXCEPT ![ch] = writes]
     ELSE /\ pendingReads' = [pendingReads EXCEPT ![ch] = reads]
          /\ pendingWrites' = [pendingWrites EXCEPT ![ch] = writes \cup {c}]

(* A conventional request whose row is being opened moves to the active    *)
(* buffer; the result of that enqueue is not looked at.                    *)
IssuePrerequisite(ch, c, cmd) ==
  IF ~IsAiM(c) /\ cmd = "ACT"
  THEN /\ Without(ch, c)
       /\ active' = [active EXCEPT ![ch] =
                       IF Cardinality(@) <= BufMax THEN @ \cup {c} ELSE @ \ {c}]
  ELSE UNCHANGED buffers

Issue(ch, c, reads, writes) ==
  LET cmd == Preq(openRow[ch], c.ins)
      switch == ~IsBarrier(c) /\ (c.ins.op \in RegisterOps) # regRW[ch]
  IN  /\ Ready(ch, c, cmd, reads)
      /\ ~(IsClosing(cmd, c.ins) /\ InterruptsActive(ch, c))
      /\ UpdateWriteMode(ch, c \in active[ch])
      /\ regRW' = [regRW EXCEPT ![ch] = IF switch THEN ~@ ELSE @]
      /\ openRow' = IF switch THEN openRow
                    ELSE [openRow EXCEPT ![ch] = AfterCommand(@, cmd, c.ins)]
      /\ IF cmd = "COL" /\ ~switch
         THEN IssueFinal(ch, c, reads, writes)
         ELSE /\ IF switch THEN UNCHANGED buffers ELSE IssuePrerequisite(ch, c, cmd)
              /\ pendingReads' = [pendingReads EXCEPT ![ch] = reads]
              /\ pendingWrites' = [pendingWrites EXCEPT ![ch] = writes]

(* No request is ready, or the one found would interrupt an active one. *)
IssueNothing(ch, reads, writes) ==
  /\ \E isActive \in {FALSE, active[ch] # {}} : UpdateWriteMode(ch, isActive)
  /\ pendingReads' = [pendingReads EXCEPT ![ch] = reads]
  /\ pendingWrites' = [pendingWrites EXCEPT ![ch] = writes]
  /\ UNCHANGED <<buffers, regRW, openRow>>

ControllerTick(ch) ==
  \E serve \in BOOLEAN, departed \in SUBSET pendingWrites[ch] :
    /\ ServeCompleted(ch, serve, departed)
    /\ LET reads  == IF serve THEN Tail(pendingReads[ch]) ELSE pendingReads[ch]
           writes == pendingWrites[ch] \ departed
       IN  \/ \E c \in Candidates(ch) : Issue(ch, c, reads, writes)
           \/ IssueNothing(ch, reads, writes)

-----------------------------------------------------------------------------
(* The DMA drives the controllers: what it sends is what they admit. *)
SysInit ==
  /\ Init
  /\ active = [ch \in Channels |-> {}]
  /\ readBuf = [ch \in Channels |-> {}]
  /\ writeBuf = [ch \in Channels |-> {}]
  /\ aimBuf = [ch \in Channels |-> <<>>]
  /\ pendingReads = [ch \in Channels |-> <<>>]
  /\ pendingWrites = [ch \in Channels |-> {}]
  /\ writeMode = [ch \in Channels |-> FALSE]
  /\ regRW = [ch \in Channels |-> FALSE]
  /\ openRow = [ch \in Channels |-> [b \in Banks |-> Closed]]

SysFrontendTick == FrontendTick /\ UNCHANGED ctrlVars

SysFlush ==
  LET sent == [ch \in Channels |-> Admitted(ch, remaining[ch])]
  IN  FlushRemaining(sent) /\ Accept(sent)

SysDecode ==
  /\ queue # <<>>
  /\ LET todo == DecodedCopies(Head(queue))
         sent == [ch \in Channels |-> Admitted(ch, todo[ch])]
     IN  DecodeHead(sent) /\ Accept(sent)

SysTerminated == calledBack /\ UNCHANGED sysVars

SysNext ==
  \/ SysFrontendTick
  \/ SysFlush
  \/ SysDecode
  \/ \E ch \in Channels : ControllerTick(ch)
  \/ SysTerminated

SysSpec == SysInit /\ [][SysNext]_sysVars
-----------------------------------------------------------------------------
(* Fairness: main() never stops ticking, latencies and timing windows are  *)
(* finite. An activated request is always looked at first, so the register *)
(* mode cannot be switched away from under it for ever (the strong one).   *)
Departs(ch) == ControllerTick(ch) /\ held'[ch] # held[ch]

Issues(ch) == ControllerTick(ch) /\ <<buffers, regRW, openRow>>' # <<buffers, regRW, openRow>>

ServesActive(ch) ==
  /\ ControllerTick(ch)
  /\ \E c \in active[ch] :
       \/ c \notin active'[ch]
       \/ openRow[ch][c.ins.bank] = Closed /\ openRow'[ch][c.ins.bank] = c.ins.row

SysFairness ==
  /\ WF_sysVars(SysFrontendTick)
  /\ WF_sysVars(SysFlush /\ remaining' # remaining)
  /\ WF_sysVars(SysDecode)
  /\ \A ch \in Channels :
       /\ WF_sysVars(Departs(ch))
       /\ WF_sysVars(Issues(ch))
       /\ SF_sysVars(ServesActive(ch))

FairSysSpec == SysSpec /\ SysFairness

-----------------------------------------------------------------------------
(* Properties. *)

(* Copies are ordered by host request, then by column: AiM_req_id order. *)
Before(c, d) == c.id < d.id \/ (c.id = d.id /\ c.k < d.k)

Issued(ch) == pendingWrites[ch] \cup ToSet(pendingReads[ch])

Queued(ch) == readBuf[ch] \cup writeBuf[ch] \cup active[ch] \cup ToSet(aimBuf[ch])

SysTypeOK ==
  /\ TypeOK
  /\ \A f \in {active, readBuf, writeBuf, pendingWrites} : f \in [Channels -> SUBSET CopySet]
  /\ \A f \in {aimBuf, pendingReads} : f \in [Channels -> Seq(CopySet)]
  /\ writeMode \in [Channels -> BOOLEAN]
  /\ regRW \in [Channels -> BOOLEAN]
  /\ openRow \in [Channels -> [Banks -> Rows \cup {Closed}]]

(* Every copy a controller accepted and has not finished is in exactly one *)
(* place of it: no enqueue fails silently, nothing is issued twice.        *)
HeldExactlyOnce ==
  \A ch \in Channels :
    /\ held[ch] = Issued(ch) \cup Queued(ch)
    /\ Cardinality(held[ch]) =
         Cardinality(readBuf[ch]) + Cardinality(writeBuf[ch]) + Cardinality(active[ch])
         + Len(aimBuf[ch]) + Len(pendingReads[ch]) + Cardinality(pendingWrites[ch])

(* "Processes AiM memory requests in order": what a channel has issued of  *)
(* its AiM copies precedes what it still queues, and that what is unsent.  *)
AiMInOrder ==
  \A ch \in Channels :
    /\ \A c \in Issued(ch), d \in ToSet(aimBuf[ch]) \cup remaining[ch] :
         IsAiM(c) /\ IsAiM(d) => Before(c, d)
    /\ \A i, j \in 1 .. Len(aimBuf[ch]) : i < j => Before(aimBuf[ch][i], aimBuf[ch][j])
    /\ \A c \in ToSet(aimBuf[ch]), d \in remaining[ch] : Before(c, d)

(* AiM and conventional requests never wait in a channel's read, write and *)
(* AiM buffers at once.                                                    *)
OneKindBuffered ==
  \A ch \in Channels : aimBuf[ch] = <<>> \/ (readBuf[ch] = {} /\ writeBuf[ch] = {})

(* No bank has two activated requests, and an activated request whose row  *)
(* an all-bank command closed opens it again before another request takes  *)
(* the bank. One that met another row would wait for ever, since its own   *)
(* PRE would be refused for interrupting an active request: itself.        *)
ActiveKeepsBank ==
  \A ch \in Channels : \A r \in active[ch] :
    /\ openRow[ch][r.ins.bank] \in {r.ins.row, Closed}
    /\ \A s \in active[ch] : s.ins.bank = r.ins.bank => s = r

(* The state a controller's handlers rely on: every request in one place,  *)
(* kinds of requests that do not mix, and an activated request that has its*)
(* bank to itself.                                                         *)
BuffersConsistent == SysTypeOK /\ HeldExactlyOnce /\ OneKindBuffered /\ ActiveKeepsBank

(* When a channel answers a SYNC or EOC, every AiM copy before it in       *)
(* program order has finished there, its writes included.                  *)
BarrierDrainsAiM ==
  [][\A ch \in Channels : \A c \in held[ch] \ held'[ch] :
       IsBarrier(c) => \A d \in held'[ch] : IsAiM(d) => ~Before(d, c)]_sysVars

(* The DMA as AiMDMA describes it, fairness included: the controllers      *)
(* finish what they accept and accept again what they refused.             *)
ImplementsDMA == FairSpec

-----------------------------------------------------------------------------
(* What the documentation says and the code does not do: TLC refutes each  *)
(* of the following four.                                                  *)

(* README, aim_simulator: "SYNC | barrier between ISR instructions", and   *)
(* SYNC and EOC block "until executed by DRAM controller": nothing of an   *)
(* earlier instruction is left in a channel that answers the barrier.      *)
BarrierIsComplete ==
  [][\A ch \in Channels : \A c \in held[ch] \ held'[ch] :
       IsBarrier(c) => \A d \in held'[ch] : ~Before(d, c)]_sysVars

(* "Forward existing write requests to incoming read requests": a read is  *)
(* answered from the write buffer only by a write to its own bank and row. *)
ForwardsSameAddress ==
  [][\A ch \in Channels : \A c \in held'[ch] \ held[ch] :
       IsRead(c) /\ c \in ToSet(pendingReads'[ch]) =>
         \E w \in writeBuf[ch] : w.ins.bank = c.ins.bank /\ w.ins.row = c.ins.row]_sysVars

(* all_isr.trace: the mask bits 1, 2, 4, 8 name "channels [0-3]", as the   *)
(* numbers of R/W MEM lines do.                                            *)
MaskBitIsChannel ==
  \A ch \in Channels : \A c \in held[ch] : ~IsBarrier(c) => ch \in c.ins.channels

(* AiM_dram_controller.cpp:367, "check if it will close an opened row in   *)
(* the active buffer", and :376, "Invalidate this scheduling outcome if we *)
(* are to interrupt a request in the active buffer": an activated request  *)
(* keeps its row open. TLC's trace: RD of one bank and WR of another are   *)
(* activated and the RD is issued; while the bus turns round for the WR,   *)
(* the PREA of a MAC_ABK of another row closes both, the row groups the    *)
(* check compares holding bank -1.                                         *)
ActiveRowOpen ==
  \A ch \in Channels : \A r \in active[ch] : openRow[ch][r.ins.bank] = r.ins.row

=============================================================================
