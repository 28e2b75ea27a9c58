------------------------------- MODULE AiMDMA -------------------------------
(***************************************************************************)
(* The AiM DMA of the CompAir memory simulator: the trace frontend         *)
(* (AiMTrace) feeds ISR instructions into the queue of AiMDRAMSystem, whose*)
(* tick() unrolls the instruction at the head into copies for the          *)
(* channels, stalls on the instructions that block, and retires the head.  *)
(*                                                                         *)
(* A channel controller appears here only through what the DMA sees of it: *)
(* send() accepts or refuses a copy, and an accepted copy is finished      *)
(* later, with a call of receive() when the copy carries the callback.     *)
(* AiMController puts the real controllers in that place.                  *)
(***************************************************************************)
EXTENDS Naturals, Sequences, FiniteSets

CONSTANTS
  NumChannels,  \* MAX_CHANNEL_COUNT: one controller per channel
  ISRSize,      \* ISR_SIZE: the host requests the queue can hold
  Instrs,       \* the lines a trace may hold
  TraceLen      \* the length of the trace file, EOC included

Channels == 0 .. NumChannels - 1

(* The opcodes of AiMISRInfo::init, grouped by how the DMA treats them.    *)
BlockingOps     == {"RD_MAC", "RD_AF", "SYNC", "EOC"}
BroadcastOps    == {"SYNC", "EOC"}
SingleBankOps   == {"WR_SBK", "RD_SBK"}
AiMOps          == {"WR_GB", "WR_BIAS", "RD_MAC", "RD_AF", "COPY_BKGB",
                    "COPY_GBBK", "MAC_SBK", "MAC_ABK", "AF", "EWMUL",
                    "WR_ABK"} \cup BroadcastOps
MemOps          == {"R_MEM", "W_MEM"}
LocalOps        == {"EWADD", "R_GPR", "W_GPR", "R_CFR", "W_CFR"}
ConventionalOps == SingleBankOps \cup MemOps
Ops             == AiMOps \cup ConventionalOps \cup LocalOps

(* channels is the set of bits of channel_mask, or for a R/W MEM line the  *)
(* one channel it names.                                                   *)
ASSUME ParameterAssumption ==
  /\ NumChannels \in Nat \ {0}
  /\ ISRSize \in Nat \ {0}
  /\ TraceLen \in Nat \ {0}

ASSUME InstrAssumption ==
  \A ins \in Instrs :
    /\ ins.op \in Ops
    /\ ins.channels \in SUBSET Channels
    /\ ins.opsize \in Nat \ {0}
    /\ ins.op \in BroadcastOps \cup MemOps => ins.opsize = 1
    /\ ins.op = "WR_ABK" => Cardinality(ins.channels) = 1

NoRequest == [id |-> 0, ins |-> [op |-> "NONE"]]

VARIABLES
  hostReqId,   \* AiMTrace::host_req_id
  frontReq,    \* AiMTrace_request while remaining_req, else NoRequest
  reachedEOC,  \* m_trace_reached_EOC
  calledBack,  \* m_trace_reached_calledback
  queue,       \* request_queue
  remaining,   \* remaining_AiM_requests: per channel, ordered by k
  stalled,     \* stalled_AiM_requests
  held,        \* per channel, the copies its controller has not finished
  thrown       \* receive() has thrown its ConfigurationError

dmaVars == <<queue, remaining, stalled, thrown>>
vars == <<hostReqId, frontReq, reachedEOC, calledBack, dmaVars, held>>

-----------------------------------------------------------------------------
(* Decoding one host request. FindFirstChannelIndex numbers the channels   *)
(* of a mask from the other end; R/W MEM uses the number as it stands.     *)
ChannelOfBit(b) == NumChannels - 1 - b

Targets(ins) ==
  IF ins.op \in BroadcastOps THEN Channels
  ELSE IF ins.op \in LocalOps THEN {}
  ELSE IF ins.op \in MemOps THEN ins.channels
  ELSE {ChannelOfBit(b) : b \in ins.channels}

(* One copy per column of opsize and per target channel. *)
Copy(req, k, ch) == [id |-> req.id, ins |-> req.ins, k |-> k, ch |-> ch]

Copies(req) ==
  {Copy(req, k, ch) : k \in 1 .. req.ins.opsize, ch \in Targets(req.ins)}

(* A copy carries the DMA's callback exactly when its opcode blocks. *)
Blocking(copy) == copy.ins.op \in BlockingOps

AllRemaining == UNION {remaining[ch] : ch \in Channels}
AllHeld      == UNION {held[ch] : ch \in Channels}
Owed         == {c \in AllRemaining \cup AllHeld : Blocking(c)}

-----------------------------------------------------------------------------
Init ==
  /\ hostReqId = 0
  /\ frontReq = NoRequest
  /\ reachedEOC = FALSE
  /\ calledBack = FALSE
  /\ queue = <<>>
  /\ remaining = [ch \in Channels |-> {}]
  /\ stalled = 0
  /\ held = [ch \in Channels |-> {}]
  /\ thrown = FALSE

(* Seeded faults are marked FAULT: what a property is checked to detect.   *)

(* FAULT: a refused request is not offered again. *)
SendOnce(req) ==
  /\ frontReq' = NoRequest
  /\ queue' = IF Len(queue) = ISRSize THEN queue ELSE Append(queue, req)

(* AiMDRAMSystem::send. *)
Send(req) ==
  IF Len(queue) = ISRSize
  THEN frontReq' = req /\ UNCHANGED queue
  ELSE frontReq' = NoRequest /\ queue' = Append(queue, req)

(* AiMTrace::tick: fetch the next line unless one is waiting, then offer   *)
(* it to the DMA. The last line of the trace is its only EOC.              *)
FrontendTick ==
  /\ ~calledBack
  /\ \/ /\ frontReq = NoRequest
        /\ ~reachedEOC
        /\ hostReqId < TraceLen
        /\ \E ins \in Instrs :
             /\ hostReqId = TraceLen - 1 => ins.op = "EOC"
             /\ hostReqId' = hostReqId + 1
             /\ reachedEOC' = (ins.op = "EOC")
             /\ Send([id |-> hostReqId, ins |-> ins])
     \/ /\ frontReq # NoRequest
        /\ Send(frontReq)
        /\ UNCHANGED <<hostReqId, reachedEOC>>
  /\ UNCHANGED <<calledBack, remaining, stalled, held, thrown>>

(* FAULT: the pop does not call the request's callback. *)
RetireHeadQuietly == queue' = Tail(queue) /\ UNCHANGED calledBack

(* The head is popped; the EOC's own callback ends the simulation. *)
RetireHead ==
  /\ queue' = Tail(queue)
  /\ calledBack' = (calledBack \/ Head(queue).ins.op = "EOC")

(* The head retires once nothing is left to send and nothing stalls.       *)
(* FAULT: one half of that condition is forgotten.                         *)
RetiresUnsent(todo, sent, owed) == owed = 0

Retires(todo, sent, owed) ==
  owed = 0 /\ \A ch \in Channels : sent[ch] = todo[ch]

(* Each channel's copies are offered in order until its controller refuses *)
(* one.                                                                    *)
IsPrefixOf(sent, todo) ==
  /\ sent \subseteq todo
  /\ \A c \in sent, d \in todo \ sent : c.k < d.k

Dispatch(todo, sent, owed) ==
  /\ \A ch \in Channels : IsPrefixOf(sent[ch], todo[ch])
  /\ remaining' = [ch \in Channels |-> todo[ch] \ sent[ch]]
  /\ held' = [ch \in Channels |-> held[ch] \cup sent[ch]]
  /\ stalled' = owed
  /\ IF Retires(todo, sent, owed) THEN RetireHead ELSE UNCHANGED <<queue, calledBack>>
  /\ UNCHANGED <<hostReqId, frontReq, reachedEOC, thrown>>

(* AiMDRAMSystem::tick, when a channel has copies left over. *)
FlushRemaining(sent) ==
  /\ ~calledBack
  /\ \E ch \in Channels : remaining[ch] # {}
  /\ Dispatch(remaining, sent, stalled)

(* AiMDRAMSystem::tick, when the head has to be decoded. *)
DecodedCopies(req) == [ch \in Channels |-> {c \in Copies(req) : c.ch = ch}]

(* The callbacks the head will have to wait for, one per copy of it.       *)
Owes(req) == IF req.ins.op \in BlockingOps THEN Cardinality(Copies(req)) ELSE 0

DecodeHead(sent) ==
  /\ ~calledBack
  /\ \A ch \in Channels : remaining[ch] = {}
  /\ stalled = 0
  /\ queue # <<>>
  /\ Dispatch(DecodedCopies(Head(queue)), sent, Owes(Head(queue)))

DMATick ==
  \/ \E sent \in [Channels -> SUBSET AllRemaining] : FlushRemaining(sent)
  \/ /\ queue # <<>>
     /\ \E sent \in [Channels -> SUBSET Copies(Head(queue))] : DecodeHead(sent)

(* FAULT: one answer does for all the copies sent so far. *)
ReceiveFirst(c) ==
  /\ IF queue = <<>> \/ Head(queue).id # c.id \/ AllRemaining # {}
     THEN UNCHANGED <<queue, calledBack>>
     ELSE RetireHead
  /\ stalled' = 0
  /\ UNCHANGED thrown

(* AiMDRAMSystem::receive, called by the controller that finishes a copy   *)
(* with a callback.                                                        *)
Receive(c) ==
  IF queue = <<>> \/ Head(queue).id # c.id
  THEN /\ thrown' = TRUE
       /\ UNCHANGED <<queue, calledBack, stalled>>
  ELSE /\ stalled' = stalled - 1
       /\ IF stalled = 1 THEN RetireHead ELSE UNCHANGED <<queue, calledBack>>
       /\ UNCHANGED thrown

(* In one tick a controller finishes at most one copy with a callback (the *)
(* oldest of its pending reads) and any number of copies without.          *)
Silent(ch) == {c \in held[ch] : ~Blocking(c)}

FinishSilently(ch, done) ==
  /\ held' = [held EXCEPT ![ch] = @ \ done]
  /\ UNCHANGED <<hostReqId, frontReq, reachedEOC, calledBack, dmaVars>>

FinishWithCallback(ch, c, done) ==
  /\ Blocking(c)
  /\ held' = [held EXCEPT ![ch] = @ \ (done \cup {c})]
  /\ Receive(c)
  /\ UNCHANGED <<hostReqId, frontReq, reachedEOC, remaining>>

ControllerFinish(ch) ==
  \E done \in SUBSET Silent(ch) :
    \/ FinishSilently(ch, done)
    \/ \E c \in held[ch] : FinishWithCallback(ch, c, done)

(* main() leaves its loop once the frontend is finished. *)
Terminated == calledBack /\ UNCHANGED vars

Next ==
  \/ FrontendTick
  \/ DMATick
  \/ \E ch \in Channels : ControllerFinish(ch)
  \/ Terminated

Spec == Init /\ [][Next]_vars

(* main() ticks the frontend and the memory system for ever, and a DRAM    *)
(* command's latency is finite.                                            *)
Fairness ==
  /\ WF_vars(FrontendTick)
  /\ \A ch \in Channels : WF_vars(ControllerFinish(ch) /\ held' # held)
  /\ WF_vars(\E sent \in [Channels -> SUBSET AllRemaining] :
                /\ FlushRemaining(sent)
                /\ remaining' # remaining)
  /\ WF_vars(queue # <<>> /\ \E sent \in [Channels -> SUBSET Copies(Head(queue))] :
                                DecodeHead(sent))

FairSpec == Spec /\ Fairness
-----------------------------------------------------------------------------
(* Properties. *)

Request == [id : Nat, ins : Instrs]
CopySet == [id : Nat, ins : Instrs, k : Nat, ch : Channels]

TypeOK ==
  /\ hostReqId \in 0 .. TraceLen
  /\ frontReq \in Request \cup {NoRequest}
  /\ reachedEOC \in BOOLEAN
  /\ calledBack \in BOOLEAN
  /\ queue \in Seq(Request)
  /\ Len(queue) <= ISRSize
  /\ remaining \in [Channels -> SUBSET CopySet]
  /\ stalled \in Nat
  /\ held \in [Channels -> SUBSET CopySet]
  /\ thrown \in BOOLEAN

(* stalled_AiM_requests is exactly the number of callbacks still to come:  *)
(* copies with the callback that wait in the DMA or that a controller      *)
(* holds. One too many and the DMA hangs; one too few and the head is      *)
(* retired under a copy that will call back for it.                        *)
StalledCountsOwed == stalled = Cardinality(Owed)

(* receive() compares the copy's host_req_id with the head of the queue    *)
(* and throws: every callback still to come is for the present head.       *)
OwedToHead ==
  Owed # {} => queue # <<>> /\ \A c \in Owed : c.id = Head(queue).id

NeverThrows == ~thrown

(* Only the head of the queue has unsent copies: the DMA pops a host       *)
(* request once every copy of it has been accepted, so no copy is lost.    *)
RemainingOfHead ==
  \A c \in AllRemaining : queue # <<>> /\ c.id = Head(queue).id

(* The DMA's books: callbacks are counted exactly and nothing is left of a *)
(* request that was popped.                                                *)
WorkAccountedFor == StalledCountsOwed /\ RemainingOfHead

(* While an instruction that blocks is owed a callback, no copy of a later *)
(* host request has reached a controller.                                  *)
BlockingStopsLaterCopies ==
  \A b \in Owed, c \in AllHeld : c.id <= b.id

(* Host requests are queued, and so retired, in trace order with none      *)
(* skipped or repeated.                                                    *)
QueueInTraceOrder ==
  LET waiting == IF frontReq = NoRequest THEN queue ELSE Append(queue, frontReq)
  IN  \A i \in 1 .. Len(waiting) :
        waiting[i].id = hostReqId - Len(waiting) + i - 1

(* The simulation ends only when the whole trace has been retired and no   *)
(* callback is outstanding.                                                *)
EOCIsLast ==
  calledBack => queue = <<>> /\ frontReq = NoRequest /\ stalled = 0

(* Every trace ends: the EOC is called back. *)
EventuallyFinished == reachedEOC ~> calledBack

(* A trace is carried out line by line: requests are queued and retired in *)
(* trace order, a callback always finds its own request at the head of the *)
(* queue, so that receive() never throws, and the end comes last.          *)
TraceCarriedOut ==
  TypeOK /\ OwedToHead /\ NeverThrows /\ QueueInTraceOrder /\ EOCIsLast
=============================================================================
