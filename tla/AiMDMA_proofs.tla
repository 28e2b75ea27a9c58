--------------------------- MODULE AiMDMA_proofs ---------------------------
(***************************************************************************)
(* The safety properties of AiMDMA for every number of channels, queue     *)
(* size, trace length and instruction set, from one inductive invariant.   *)
(***************************************************************************)
EXTENDS AiMDMA, FiniteSetTheorems, SequenceTheorems, TLAPS

(* The number of the oldest host request the DMA has not retired. *)
Oldest == hostReqId - Len(queue) - (IF frontReq = NoRequest THEN 0 ELSE 1)

OfHead(c) ==
  queue # <<>> /\ c.id = Head(queue).id /\ c.ins = Head(queue).ins

(* A copy is in one place, and that place is its own channel's. *)
CopiesInPlace ==
  \A ch \in Channels :
    /\ \A c \in remaining[ch] \cup held[ch] : c.ch = ch
    /\ remaining[ch] \cap held[ch] = {}

(* What is unsent and what is owed a callback stems from the head. *)
WorkIsOfHead == \A c \in AllRemaining \cup Owed : OfHead(c)

OwedCounted == IsFiniteSet(Owed) /\ StalledCountsOwed

(* Requests are numbered without gaps up to the frontend's counter. *)
Numbered ==
  /\ \A i \in 1 .. Len(queue) : queue[i].id = Oldest + i - 1
  /\ frontReq # NoRequest => frontReq.id = hostReqId - 1

(* Nothing newer than the head has been sent, and the head's copies have   *)
(* been sent only if the DMA is still waiting for something of the head.   *)
HeldNotAhead ==
  \A c \in AllHeld :
    /\ c.id <= Oldest
    /\ c.id = Oldest => stalled > 0 \/ AllRemaining # {}

(* The EOC is the last request there is. *)
EOCEnds ==
  /\ frontReq # NoRequest /\ frontReq.ins.op = "EOC" => reachedEOC
  /\ \A i \in 1 .. Len(queue) :
       queue[i].ins.op = "EOC" => i = Len(queue) /\ frontReq = NoRequest /\ reachedEOC
  /\ calledBack => reachedEOC /\ queue = <<>> /\ frontReq = NoRequest /\ stalled = 0

IInv ==
  /\ TypeOK
  /\ CopiesInPlace
  /\ WorkIsOfHead
  /\ OwedCounted
  /\ Numbered
  /\ HeldNotAhead
  /\ EOCEnds
  /\ NeverThrows

-----------------------------------------------------------------------------
(* What the decoder produces. *)

(* A trace line is never the frontend's empty request.                     *)
LEMMA NoRequestIsNone == NoRequest \notin Request
  BY InstrAssumption, SMT
     DEF NoRequest, Request, Ops, AiMOps, BroadcastOps, ConventionalOps,
         SingleBankOps, MemOps, LocalOps

(* Every target of a trace line is a channel: the reversal of the mask     *)
(* stays in range.                                                         *)
LEMMA TargetsAreChannels ==
  ASSUME NEW ins \in Instrs
  PROVE  Targets(ins) \in SUBSET Channels
  BY InstrAssumption, ParameterAssumption DEF Targets, ChannelOfBit, Channels

(* The copies of one host request are finitely many, each of the request   *)
(* and for a channel.                                                      *)
LEMMA CopiesOfRequest ==
  ASSUME NEW req \in Request
  PROVE  /\ IsFiniteSet(Copies(req))
         /\ \A c \in Copies(req) :
              c \in CopySet /\ c.id = req.id /\ c.ins = req.ins
<1> DEFINE K == 1 .. req.ins.opsize
           T == Targets(req.ins)
           f == [p \in K \X T |-> Copy(req, p[1], p[2])]
<1>1. req.ins \in Instrs /\ req.id \in Nat /\ req.ins.opsize \in Nat
  BY InstrAssumption DEF Request
<1>2. T \in SUBSET Channels
  BY <1>1, TargetsAreChannels
<1>3. IsFiniteSet(K \X T)
  <2>1. IsFiniteSet(K)
    <3>1. 1 \in Int /\ req.ins.opsize \in Int
      BY <1>1
    <3> QED
      BY <3>1, FS_Interval
  <2>2. IsFiniteSet(Channels)
    BY ParameterAssumption, FS_Interval DEF Channels
  <2>3. IsFiniteSet(T)
    BY <1>2, <2>2, FS_Subset
  <2> QED
    BY <2>1, <2>3, FS_Product
<1>4. f \in Surjection(K \X T, Copies(req))
  <2>1. \A p \in K \X T : f[p] \in Copies(req)
    BY DEF Copies
  <2>2. \A c \in Copies(req) : \E p \in K \X T : f[p] = c
    <3> SUFFICES ASSUME NEW c \in Copies(req)
                 PROVE  \E p \in K \X T : f[p] = c
      OBVIOUS
    <3>1. PICK k \in K, ch \in T : c = Copy(req, k, ch)
      BY DEF Copies
    <3> QED
      BY <3>1, f[<<k, ch>>] = c
  <2> QED
    BY <2>1, <2>2 DEF Surjection
<1>5. IsFiniteSet(Copies(req))
  BY <1>3, <1>4, FS_Surjection
<1>6. \A c \in Copies(req) : c \in CopySet /\ c.id = req.id /\ c.ins = req.ins
  BY <1>1, <1>2 DEF Copies, Copy, CopySet
<1> QED
  BY <1>5, <1>6

(* The queue's numbers, read at its head, and what popping the head leaves. *)
LEMMA HeadIsOldest ==
  ASSUME IInv, queue # <<>>
  PROVE  /\ Head(queue) \in Request
         /\ Head(queue) = queue[1]
         /\ Head(queue).id = Oldest
         /\ Len(queue) \in Nat \ {0}
         /\ Tail(queue) \in Seq(Request)
         /\ Len(Tail(queue)) = Len(queue) - 1
         /\ \A i \in 1 .. Len(queue) - 1 : Tail(queue)[i] = queue[i + 1]
<1>1. queue \in Seq(Request)
  BY DEF IInv, TypeOK
<1>2. Len(queue) \in Nat \ {0}
  BY <1>1, EmptySeq
<1>3. /\ Head(queue) \in Request
      /\ Tail(queue) \in Seq(Request)
      /\ Len(Tail(queue)) = Len(queue) - 1
      /\ \A i \in 1 .. Len(Tail(queue)) : Tail(queue)[i] = queue[i + 1]
  BY <1>1, HeadTailProperties
<1>4. Head(queue) = queue[1]
  BY <1>1
<1>5. Oldest \in Int
  BY DEF IInv, TypeOK, Oldest
<1>6. queue[1].id = Oldest + 1 - 1
  BY <1>2 DEF IInv, Numbered
<1> QED
  BY <1>2, <1>3, <1>4, <1>5, <1>6

-----------------------------------------------------------------------------
(* The invariant holds initially and is kept by every action. *)

LEMMA InitInvariant == Init => IInv
<1> SUFFICES ASSUME Init PROVE IInv
  OBVIOUS
<1>1. TypeOK
  <2>1. queue \in Seq(Request) /\ Len(queue) <= ISRSize
    BY ParameterAssumption DEF Init
  <2>2. hostReqId \in 0 .. TraceLen /\ stalled \in Nat
    BY ParameterAssumption DEF Init
  <2>3. /\ remaining \in [Channels -> SUBSET CopySet]
        /\ held \in [Channels -> SUBSET CopySet]
    BY DEF Init
  <2> QED
    BY <2>1, <2>2, <2>3, Zenon DEF Init, TypeOK
<1>2. AllRemaining = {} /\ AllHeld = {} /\ Owed = {}
  BY DEF Init, AllRemaining, AllHeld, Owed
<1>3. OwedCounted
  BY <1>2, FS_EmptySet DEF Init, OwedCounted, StalledCountsOwed
<1>4. Len(queue) = 0
  BY DEF Init
<1>5. Numbered /\ EOCEnds
  BY <1>4 DEF Init, Numbered, EOCEnds
<1> QED
  BY <1>1, <1>2, <1>3, <1>5
     DEF Init, IInv, CopiesInPlace, WorkIsOfHead, HeldNotAhead, NeverThrows

(* Fetching a line, or offering the waiting one again.                     *)
LEMMA FrontendStep == IInv /\ FrontendTick => IInv'
<1> SUFFICES ASSUME IInv, FrontendTick PROVE IInv'
  OBVIOUS
<1>1. /\ ~calledBack
      /\ UNCHANGED <<calledBack, remaining, stalled, held, thrown>>
  BY DEF FrontendTick
<1>2. PICK req \in Request :
        /\ Send(req)
        /\ \/ /\ frontReq = NoRequest /\ ~reachedEOC /\ hostReqId < TraceLen
              /\ req.id = hostReqId
              /\ hostReqId' = hostReqId + 1
              /\ reachedEOC' = (req.ins.op = "EOC")
           \/ /\ frontReq # NoRequest /\ req = frontReq
              /\ UNCHANGED <<hostReqId, reachedEOC>>
  <2>1. ASSUME NEW ins \in Instrs, Send([id |-> hostReqId, ins |-> ins])
        PROVE  [id |-> hostReqId, ins |-> ins] \in Request
    BY DEF IInv, TypeOK, Request
  <2>2. frontReq # NoRequest => frontReq \in Request
    BY DEF IInv, TypeOK
  <2> QED
    BY <2>1, <2>2 DEF FrontendTick
<1>3. /\ queue \in Seq(Request) /\ Len(queue) \in Nat
      /\ hostReqId \in Nat /\ req # NoRequest
  BY NoRequestIsNone, LenProperties DEF IInv, TypeOK
<1>4. \/ frontReq' = req /\ queue' = queue
      \/ /\ frontReq' = NoRequest /\ queue' = Append(queue, req)
         /\ Len(queue) # ISRSize
  BY <1>2 DEF Send
<1>5. queue' = Append(queue, req) =>
        /\ queue' \in Seq(Request)
        /\ Len(queue') = Len(queue) + 1
        /\ queue'[Len(queue) + 1] = req
        /\ \A i \in 1 .. Len(queue) : queue'[i] = queue[i]
        /\ queue # <<>> => Head(queue') = Head(queue)
        /\ queue' # <<>>
  BY <1>3
<1>6. req.id = (hostReqId' - 1) /\ Oldest' = Oldest
  BY <1>2, <1>3, <1>4, <1>5 DEF IInv, Numbered, Oldest
<1>7. TypeOK'
  <2>1. queue' \in Seq(Request) /\ Len(queue') <= ISRSize
    BY <1>3, <1>4, <1>5, ParameterAssumption DEF IInv, TypeOK
  <2>2. hostReqId' \in 0 .. TraceLen
    BY <1>2, <1>3, ParameterAssumption DEF IInv, TypeOK
  <2>3. frontReq' \in Request \cup {NoRequest}
    BY <1>2, <1>4
  <2>4. reachedEOC' \in BOOLEAN
    BY <1>2, Zenon DEF IInv, TypeOK
  <2> QED
    BY <1>1, <2>1, <2>2, <2>3, <2>4, Zenon DEF IInv, TypeOK
<1>8. /\ AllRemaining' = AllRemaining /\ AllHeld' = AllHeld /\ Owed' = Owed
  BY <1>1 DEF AllRemaining, AllHeld, Owed
<1>9. WorkIsOfHead'
  BY <1>4, <1>5, <1>8 DEF IInv, WorkIsOfHead, OfHead
<1>10. OwedCounted'
  BY <1>1, <1>8 DEF IInv, OwedCounted, StalledCountsOwed
<1>11. Numbered'
  <2>1. Oldest = (hostReqId - Len(queue)) - (IF frontReq = NoRequest THEN 0 ELSE 1)
    BY DEF Oldest
  <2>2. req.id = Oldest + Len(queue)
    BY <2>1, <1>2, <1>3, <1>6
  <2>3. Oldest \in Int
    BY <2>1, <1>3
  <2>4. \A i \in 1 .. Len(queue) : queue[i].id = Oldest + i - 1
    BY DEF IInv, Numbered
  <2>5. \A i \in 1 .. Len(queue') : queue'[i].id = Oldest' + i - 1
    <3>1. CASE queue' = queue
      BY <3>1, <2>4, <1>6
    <3>2. CASE queue' = Append(queue, req)
      <4> SUFFICES ASSUME NEW i \in 1 .. Len(queue) + 1
                   PROVE  queue'[i].id = Oldest + i - 1
        BY <3>2, <1>5, <1>6
      <4>1. CASE i = Len(queue) + 1
        <5>1. queue'[i] = req
          BY <3>2, <4>1, <1>5
        <5> QED
          BY <5>1, <4>1, <2>2, <2>3, <1>3
      <4>2. CASE i # Len(queue) + 1
        <5>1. i \in 1 .. Len(queue)
          BY <4>2, <1>3
        <5> QED
          BY <5>1, <3>2, <2>4, <1>5
      <4> QED
        BY <4>1, <4>2
    <3> QED
      BY <3>1, <3>2, <1>4
  <2>6. frontReq' # NoRequest => frontReq'.id = hostReqId' - 1
    BY <1>4, <1>6
  <2> QED
    BY <2>5, <2>6 DEF Numbered
<1>12. HeldNotAhead'
  BY <1>1, <1>6, <1>8 DEF IInv, HeldNotAhead
<1>13. EOCEnds'
  <2>1. /\ frontReq # NoRequest /\ frontReq.ins.op = "EOC" => reachedEOC
        /\ \A i \in 1 .. Len(queue) : queue[i].ins.op = "EOC" =>
             i = Len(queue) /\ frontReq = NoRequest /\ reachedEOC
    BY DEF IInv, EOCEnds
  <2>2. \A i \in 1 .. Len(queue) : queue[i].ins.op # "EOC"
    BY <1>2, <2>1
  <2>3. reachedEOC' <=> reachedEOC \/ req.ins.op = "EOC"
    <3>1. CASE frontReq = NoRequest
      BY <1>2, <3>1, Zenon
    <3>2. CASE frontReq # NoRequest
      <4>1. req = frontReq /\ reachedEOC' = reachedEOC
        BY <1>2, <3>2, Zenon
      <4> QED
        BY <4>1, <2>1, <3>2, Zenon
    <3> QED
      BY <3>1, <3>2
  <2>4. frontReq' # NoRequest /\ frontReq'.ins.op = "EOC" => reachedEOC'
    BY <1>4, <2>3
  <2>5. \A i \in 1 .. Len(queue') : queue'[i].ins.op = "EOC" =>
          i = Len(queue') /\ frontReq' = NoRequest /\ reachedEOC'
    BY <1>3, <1>4, <1>5, <2>2, <2>3
  <2> QED
    BY <1>1, <2>4, <2>5 DEF EOCEnds
<1> QED
  BY <1>1, <1>7, <1>9, <1>10, <1>11, <1>12, <1>13
     DEF IInv, CopiesInPlace, NeverThrows

(* Retiring the head once nothing of it is outstanding.                    *)
LEMMA RetireHeadStep ==
  ASSUME IInv, queue # <<>>,
         queue' = Tail(queue), calledBack' = (Head(queue).ins.op = "EOC"),
         stalled' = 0, UNCHANGED <<hostReqId, frontReq, reachedEOC>>
  PROVE  /\ Oldest' = Oldest + 1
         /\ queue' \in Seq(Request) /\ Len(queue') <= ISRSize
         /\ calledBack' \in BOOLEAN
         /\ Numbered' /\ EOCEnds'
<1>1. /\ Len(queue) \in Nat \ {0} /\ Len(queue') = Len(queue) - 1
      /\ queue' \in Seq(Request)
      /\ Head(queue) = queue[1]
      /\ \A i \in 1 .. Len(queue') : queue'[i] = queue[i + 1]
  BY HeadIsOldest
<1>2. hostReqId \in Int /\ Len(queue) <= ISRSize
  BY DEF IInv, TypeOK
<1>3. Oldest \in Int /\ Oldest' = Oldest + 1
  BY <1>1, <1>2 DEF Oldest
<1>4. Numbered'
  <2>1. \A i \in 1 .. Len(queue') : queue'[i].id = Oldest' + i - 1
    BY <1>1, <1>3 DEF IInv, Numbered
  <2> QED
    BY <2>1 DEF IInv, Numbered
<1>5. EOCEnds'
  <2>1. \A i \in 1 .. Len(queue) : queue[i].ins.op = "EOC" =>
          i = Len(queue) /\ frontReq = NoRequest /\ reachedEOC
    BY DEF IInv, EOCEnds
  <2>2. \A i \in 1 .. Len(queue') : queue'[i].ins.op = "EOC" =>
          i = Len(queue') /\ frontReq' = NoRequest /\ reachedEOC'
    <3> SUFFICES ASSUME NEW i \in 1 .. Len(queue'), queue'[i].ins.op = "EOC"
                 PROVE  i = Len(queue') /\ frontReq' = NoRequest /\ reachedEOC'
      OBVIOUS
    <3>1. i + 1 \in 1 .. Len(queue) /\ queue[i + 1].ins.op = "EOC"
      BY <1>1
    <3>2. i + 1 = Len(queue)
      BY <2>1, <3>1, Zenon
    <3>3. frontReq = NoRequest /\ reachedEOC
      BY <2>1, <3>1, Zenon
    <3>4. i = Len(queue')
      <4>1. \A l, n \in Int : l = n - 1 => \A j \in 1 .. l : j + 1 = n => j = l
        OBVIOUS
      <4>2. Len(queue') \in Int /\ Len(queue) \in Int /\ Len(queue') = Len(queue) - 1
        BY <1>1
      <4> QED
        BY <3>2, <4>1, <4>2, Zenon
    <3> QED
      BY <3>3, <3>4, Zenon
  <2>3. ASSUME calledBack'
        PROVE  reachedEOC' /\ queue' = <<>> /\ frontReq' = NoRequest
    <3>1. 1 \in 1 .. Len(queue) /\ queue[1].ins.op = "EOC"
      <4>1. Head(queue).ins.op = "EOC"
        BY <2>3, Zenon
      <4> QED
        BY <1>1, <4>1
    <3>2. 1 = Len(queue) /\ frontReq = NoRequest /\ reachedEOC
      BY <2>1, <3>1
    <3>3. queue' = <<>>
      BY <1>1, <3>2, EmptySeq
    <3> QED
      BY <3>2, <3>3
  <2> QED
    BY <2>2, <2>3 DEF IInv, EOCEnds
<1> QED
  BY <1>1, <1>2, <1>3, <1>4, <1>5, ParameterAssumption

(* The copies todo of the head, freshly decoded or left over, of which the *)
(* controllers accept sent: both halves of AiMDRAMSystem::tick.            *)
LEMMA DispatchStep ==
  ASSUME NEW todo \in [Channels -> SUBSET CopySet],
         NEW sent, NEW owed \in Nat,
         IInv, ~calledBack, queue # <<>>, Dispatch(todo, sent, owed),
         \A ch \in Channels : \A c \in todo[ch] :
           /\ OfHead(c)
           /\ c.ch = ch
           /\ c \notin held[ch],
         LET all == {c \in (UNION {todo[ch] : ch \in Channels}) \cup AllHeld : Blocking(c)}
         IN  /\ \A c \in all : OfHead(c)
             /\ IsFiniteSet(all)
             /\ owed = Cardinality(all)
  PROVE  IInv'
<1> DEFINE all == {c \in (UNION {todo[ch] : ch \in Channels}) \cup AllHeld : Blocking(c)}
           retire == owed = 0 /\ \A ch \in Channels : sent[ch] = todo[ch]
<1>1. /\ \A ch \in Channels : sent[ch] \subseteq todo[ch]
      /\ remaining' = [ch \in Channels |-> todo[ch] \ sent[ch]]
      /\ held' = [ch \in Channels |-> held[ch] \cup sent[ch]]
      /\ stalled' = owed
      /\ UNCHANGED <<hostReqId, frontReq, reachedEOC, thrown>>
  BY DEF Dispatch, IsPrefixOf
<1>2. \/ retire /\ queue' = Tail(queue)
         /\ calledBack' = (calledBack \/ Head(queue).ins.op = "EOC")
      \/ ~retire /\ UNCHANGED <<queue, calledBack>>
  BY Zenon DEF Dispatch, Retires, RetireHead
<1>3. /\ remaining' \in [Channels -> SUBSET CopySet]
      /\ held' \in [Channels -> SUBSET CopySet]
  BY <1>1 DEF IInv, TypeOK
<1>4. \A ch \in Channels : remaining'[ch] \cup held'[ch] = todo[ch] \cup held[ch]
  BY <1>1
<1>5. Owed' = all
  <2>1. \A c : c \in AllRemaining' \cup AllHeld'
                 <=> c \in (UNION {todo[ch] : ch \in Channels}) \cup AllHeld
    <3>1. \A c : c \in AllRemaining' \cup AllHeld'
                   <=> \E ch \in Channels : c \in remaining'[ch] \cup held'[ch]
      BY DEF AllRemaining, AllHeld
    <3>2. \A c : c \in (UNION {todo[ch] : ch \in Channels}) \cup AllHeld
                   <=> \E ch \in Channels : c \in todo[ch] \cup held[ch]
      BY DEF AllHeld
    <3> QED
      BY <1>4, <3>1, <3>2
  <2> QED
    BY <2>1 DEF Owed, Blocking
<1>6. OwedCounted'
  BY <1>1, <1>5 DEF OwedCounted, StalledCountsOwed
<1>7. CopiesInPlace'
  BY <1>1 DEF IInv, CopiesInPlace
<1>8. Oldest \in Int /\ Head(queue).id = Oldest
  BY HeadIsOldest DEF IInv, TypeOK, Oldest
<1>9. /\ \A c \in AllHeld' : c.id <= Oldest
      /\ AllRemaining' = {} <=> (\A ch \in Channels : sent[ch] = todo[ch])
  <2>1. \A ch \in Channels : \A c \in todo[ch] : c.id = Oldest
    BY <1>8 DEF OfHead
  <2>2. \A ch \in Channels : \A c \in held[ch] : c.id <= Oldest
    BY DEF IInv, HeldNotAhead, AllHeld
  <2>3. \A ch \in Channels : \A c \in held'[ch] : c.id <= Oldest
    BY <1>1, <1>8, <2>1, <2>2
  <2>4. \A c \in AllHeld' : c.id <= Oldest
    BY <2>3 DEF AllHeld
  <2>5. \A ch \in Channels : remaining'[ch] = {} <=> sent[ch] = todo[ch]
    BY <1>1
  <2>6. AllRemaining' = {} <=> (\A ch \in Channels : remaining'[ch] = {})
    BY DEF AllRemaining
  <2> QED
    BY <2>4, <2>5, <2>6
<1>10. CASE retire
  <2>1. /\ queue' = Tail(queue) /\ stalled' = 0
        /\ calledBack' = (Head(queue).ins.op = "EOC")
        /\ AllRemaining' = {}
    BY <1>1, <1>2, <1>9, <1>10
  <2>2. all = {}
    BY <1>10, FS_EmptySet
  <2>3. WorkIsOfHead'
    BY <1>5, <2>1, <2>2 DEF WorkIsOfHead
  <2>4. /\ Oldest' = Oldest + 1
        /\ queue' \in Seq(Request) /\ Len(queue') <= ISRSize
        /\ calledBack' \in BOOLEAN
        /\ Numbered' /\ EOCEnds'
    BY <1>1, <2>1, RetireHeadStep
  <2>5. TypeOK'
    BY <1>1, <1>3, <2>4, Zenon DEF IInv, TypeOK
  <2>6. HeldNotAhead'
    <3>1. \A c \in AllHeld' : c \in CopySet
      BY <1>3 DEF AllHeld
    <3> QED
      BY <1>8, <1>9, <2>4, <3>1 DEF HeldNotAhead, CopySet
  <2> QED
    BY <1>1, <1>6, <1>7, <2>3, <2>4, <2>5, <2>6 DEF IInv, NeverThrows
<1>11. CASE ~retire
  <2>1. UNCHANGED <<queue, calledBack>>
    BY <1>2, <1>11
  <2>2. Oldest' = Oldest
    BY <1>1, <2>1 DEF Oldest
  <2>3. TypeOK'
    BY <1>1, <1>3, <2>1, Zenon DEF IInv, TypeOK
  <2>4. WorkIsOfHead'
    <3>1. \A c \in AllRemaining' : OfHead(c)
      BY <1>1 DEF AllRemaining
    <3>2. \A c : OfHead(c)' <=> OfHead(c)
      BY <2>1 DEF OfHead
    <3> QED
      BY <1>5, <3>1, <3>2 DEF WorkIsOfHead
  <2>5. HeldNotAhead'
    <3>1. stalled' # 0 \/ AllRemaining' # {}
      BY <1>1, <1>9, <1>11
    <3> QED
      BY <1>1, <1>9, <2>2, <3>1 DEF HeldNotAhead
  <2>6. Numbered'
    BY <1>1, <2>1, <2>2 DEF IInv, Numbered
  <2>7. EOCEnds'
    BY <1>1, <2>1, Zenon DEF IInv, EOCEnds
  <2> QED
    BY <1>1, <1>6, <1>7, <2>3, <2>4, <2>5, <2>6, <2>7 DEF IInv, NeverThrows
<1> QED
  BY <1>10, <1>11

(* tick() with copies left over: they are of the head, and already counted. *)
LEMMA FlushStep ==
  ASSUME IInv, NEW sent, FlushRemaining(sent)
  PROVE  IInv'
<1> DEFINE all == {c \in (UNION {remaining[ch] : ch \in Channels}) \cup AllHeld : Blocking(c)}
<1>1. all = Owed
  BY DEF Owed, AllRemaining
<1>2. /\ remaining \in [Channels -> SUBSET CopySet] /\ stalled \in Nat
      /\ ~calledBack /\ Dispatch(remaining, sent, stalled)
  BY DEF IInv, TypeOK, FlushRemaining
<1>3. \A ch \in Channels : \A c \in remaining[ch] :
        OfHead(c) /\ c.ch = ch /\ c \notin held[ch]
  BY DEF IInv, WorkIsOfHead, CopiesInPlace, AllRemaining
<1>4. queue # <<>>
  BY <1>3 DEF FlushRemaining, OfHead
<1>5. /\ \A c \in all : OfHead(c)
      /\ IsFiniteSet(all)
      /\ stalled = Cardinality(all)
  BY <1>1 DEF IInv, WorkIsOfHead, OwedCounted, StalledCountsOwed
<1> QED
  BY <1>2, <1>3, <1>4, <1>5, DispatchStep

(* tick() decoding the head: nothing is outstanding, so every copy is new, *)
(* and what it counts as stalled is what it is about to be owed.           *)
LEMMA DecodeStep ==
  ASSUME IInv, NEW sent, DecodeHead(sent)
  PROVE  IInv'
<1> DEFINE req == Head(queue)
           todo == DecodedCopies(req)
           owed == Owes(req)
           all == {c \in (UNION {todo[ch] : ch \in Channels}) \cup AllHeld : Blocking(c)}
<1>1. /\ ~calledBack /\ queue # <<>> /\ stalled = 0
      /\ \A ch \in Channels : remaining[ch] = {}
      /\ Dispatch(todo, sent, owed)
  BY DEF DecodeHead
<1>2. req \in Request /\ req.id = Oldest
  BY <1>1, HeadIsOldest
<1>3. /\ IsFiniteSet(Copies(req))
      /\ \A c \in Copies(req) : c \in CopySet /\ c.id = req.id /\ c.ins = req.ins
  BY <1>2, CopiesOfRequest
<1>4. /\ todo \in [Channels -> SUBSET CopySet]
      /\ (UNION {todo[ch] : ch \in Channels}) = Copies(req)
      /\ \A ch \in Channels : todo[ch] \subseteq Copies(req)
  BY <1>3 DEF DecodedCopies, CopySet
<1>5. AllRemaining = {} /\ Owed = {}
  <2>1. AllRemaining = {}
    BY <1>1 DEF AllRemaining
  <2>2. Owed = {}
    BY <1>1, FS_EmptySet DEF IInv, OwedCounted, StalledCountsOwed
  <2> QED
    BY <2>1, <2>2
<1>6. \A ch \in Channels : \A c \in todo[ch] : OfHead(c) /\ c.ch = ch /\ c \notin held[ch]
  <2> SUFFICES ASSUME NEW ch \in Channels, NEW c \in todo[ch]
               PROVE  OfHead(c) /\ c.ch = ch /\ c \notin held[ch]
    OBVIOUS
  <2>1. OfHead(c) /\ c.id = Oldest
    BY <1>1, <1>2, <1>3, <1>4 DEF OfHead
  <2>2. c.ch = ch
    BY DEF DecodedCopies
  <2>3. c \notin AllHeld
    BY <2>1, <1>1, <1>5 DEF IInv, HeldNotAhead
  <2> QED
    BY <2>1, <2>2, <2>3 DEF AllHeld
<1>7. all = IF req.ins.op \in BlockingOps THEN Copies(req) ELSE {}
  <2>1. \A c \in AllHeld : ~Blocking(c)
    BY <1>5 DEF Owed
  <2>2. \A c \in Copies(req) : Blocking(c) <=> req.ins.op \in BlockingOps
    BY <1>3 DEF Blocking
  <2> QED
    BY <1>4, <2>1, <2>2
<1>8. /\ \A c \in all : OfHead(c)
      /\ IsFiniteSet(all)
      /\ owed = Cardinality(all)
  <2>1. \A c \in Copies(req) : OfHead(c)
    BY <1>1, <1>3 DEF OfHead
  <2> QED
    BY <1>3, <1>7, <2>1, FS_EmptySet DEF Owes
<1>9. owed \in Nat
  BY <1>8, FS_CardinalityType
<1> QED
  BY <1>1, <1>4, <1>6, <1>8, <1>9, DispatchStep

(* A controller finishes copies nobody waits for.                          *)
LEMMA FinishSilentlyStep ==
  ASSUME IInv, NEW ch \in Channels, NEW done \in SUBSET Silent(ch),
         FinishSilently(ch, done)
  PROVE  IInv'
<1>1. /\ held' = [held EXCEPT ![ch] = @ \ done]
      /\ UNCHANGED <<hostReqId, frontReq, reachedEOC, calledBack>>
      /\ UNCHANGED <<queue, remaining, stalled, thrown>>
  BY DEF FinishSilently, dmaVars
<1>2. held \in [Channels -> SUBSET CopySet]
  BY DEF IInv, TypeOK
<1>3. \A d \in Channels : held'[d] \subseteq held[d]
  BY <1>1, <1>2
<1>4. \A d \in Channels : \A c \in held[d] : Blocking(c) => c \in held'[d]
  BY <1>1, <1>2 DEF Silent
<1>5. AllRemaining' = AllRemaining /\ AllHeld' \subseteq AllHeld
  BY <1>1, <1>3 DEF AllRemaining, AllHeld
<1>6. Owed' = Owed
  BY <1>4, <1>5 DEF Owed, AllHeld, Blocking
<1>7. TypeOK'
  <2>1. held' \in [Channels -> SUBSET CopySet]
    BY <1>1, <1>2
  <2> QED
    BY <1>1, <2>1, Zenon DEF IInv, TypeOK
<1>8. CopiesInPlace' /\ OwedCounted' /\ WorkIsOfHead'
  <2>1. CopiesInPlace'
    BY <1>1, <1>3 DEF IInv, CopiesInPlace
  <2>2. OwedCounted'
    BY <1>1, <1>6 DEF IInv, OwedCounted, StalledCountsOwed
  <2>3. WorkIsOfHead'
    BY <1>1, <1>5, <1>6 DEF IInv, WorkIsOfHead, OfHead
  <2> QED
    BY <2>1, <2>2, <2>3
<1>9. Oldest' = Oldest /\ Numbered' /\ HeldNotAhead'
  <2>1. Oldest' = Oldest
    BY <1>1 DEF Oldest
  <2> QED
    BY <1>1, <1>5, <2>1 DEF IInv, Numbered, HeldNotAhead
<1>10. EOCEnds'
  BY <1>1, Zenon DEF IInv, EOCEnds
<1> QED
  BY <1>1, <1>7, <1>8, <1>9, <1>10 DEF IInv, NeverThrows

(* A controller calls back for a copy: it is the head's, so receive() does *)
(* not throw, and the last such call leaves nothing of the head behind.    *)
LEMMA FinishWithCallbackStep ==
  ASSUME IInv, NEW ch \in Channels, NEW done \in SUBSET Silent(ch),
         NEW c \in held[ch], FinishWithCallback(ch, c, done)
  PROVE  IInv'
<1>1. /\ Blocking(c)
      /\ held' = [held EXCEPT ![ch] = @ \ (done \cup {c})]
      /\ UNCHANGED <<hostReqId, frontReq, reachedEOC, remaining>>
      /\ Receive(c)
  BY DEF FinishWithCallback
<1>2. /\ held \in [Channels -> SUBSET CopySet]
      /\ remaining \in [Channels -> SUBSET CopySet]
  BY DEF IInv, TypeOK
<1>3. c \in Owed /\ OfHead(c)
  <2>1. c \in Owed
    BY <1>1 DEF Owed, AllHeld
  <2> QED
    BY <2>1 DEF IInv, WorkIsOfHead
<1>4. \A d \in Channels : held'[d] \subseteq held[d]
  BY <1>1, <1>2
<1>5. AllRemaining' = AllRemaining /\ AllHeld' \subseteq AllHeld
  BY <1>1, <1>4 DEF AllRemaining, AllHeld
<1>6. \A d \in Channels : c \notin remaining[d] /\ (c \in held[d] => d = ch)
  BY DEF IInv, CopiesInPlace
<1>7. Owed' = Owed \ {c}
  <2>1. c \notin AllRemaining
    BY <1>6 DEF AllRemaining
  <2>2. \A d \in Channels : c \notin held'[d]
    BY <1>1, <1>2, <1>6
  <2>3. \A d \in Channels : \A b \in held[d] : Blocking(b) /\ b # c => b \in held'[d]
    BY <1>1, <1>2 DEF Silent
  <2>4. \A b : Blocking(b)' <=> Blocking(b)
    BY DEF Blocking
  <2>5. c \notin AllHeld'
    BY <2>2 DEF AllHeld
  <2>6. \A b \in AllHeld : Blocking(b) /\ b # c => b \in AllHeld'
    BY <2>3 DEF AllHeld
  <2> QED
    BY <1>5, <2>1, <2>4, <2>5, <2>6 DEF Owed
<1>8. /\ IsFiniteSet(Owed') /\ Cardinality(Owed') = stalled - 1
      /\ stalled \in Nat \ {0}
  <2>1. IsFiniteSet(Owed) /\ stalled = Cardinality(Owed) /\ stalled \in Nat
    BY DEF IInv, TypeOK, OwedCounted, StalledCountsOwed
  <2>2. stalled # 0
    BY <1>3, <2>1, FS_EmptySet
  <2> QED
    BY <1>3, <1>7, <2>1, <2>2, FS_RemoveElement
<1>9. /\ stalled' = stalled - 1
      /\ \/ stalled = 1 /\ RetireHead
         \/ stalled # 1 /\ UNCHANGED <<queue, calledBack>>
      /\ UNCHANGED thrown
  <2>1. ~(queue = <<>> \/ Head(queue).id # c.id)
    BY <1>3 DEF OfHead
  <2> QED
    BY <1>1, <2>1, Zenon DEF Receive
<1>10. OwedCounted'
  BY <1>8, <1>9 DEF OwedCounted, StalledCountsOwed
<1>11. CopiesInPlace'
  BY <1>1, <1>4 DEF IInv, CopiesInPlace
<1>12. stalled' \in Nat /\ held' \in [Channels -> SUBSET CopySet]
  BY <1>1, <1>2, <1>8, <1>9
<1>13. queue # <<>> /\ ~calledBack
  <2>1. queue # <<>>
    BY <1>3 DEF OfHead
  <2> QED
    BY <2>1, Zenon DEF IInv, EOCEnds
<1>14. CASE stalled = 1
  <2>1. /\ queue' = Tail(queue) /\ stalled' = 0
        /\ calledBack' = (calledBack \/ Head(queue).ins.op = "EOC")
    BY <1>8, <1>9, <1>14 DEF RetireHead
  <2>2. calledBack' = (Head(queue).ins.op = "EOC")
    BY <1>13, <2>1, Zenon
  <2>3. /\ Oldest' = Oldest + 1
        /\ queue' \in Seq(Request) /\ Len(queue') <= ISRSize
        /\ calledBack' \in BOOLEAN
        /\ Numbered' /\ EOCEnds'
    BY <1>1, <1>13, <2>1, <2>2, RetireHeadStep
  <2>4. TypeOK'
    BY <1>1, <1>9, <1>12, <2>3, Zenon DEF IInv, TypeOK
  <2>5. Owed' = {}
    BY <1>8, <1>14, FS_EmptySet
  <2>6. AllRemaining' = {}
    <3>1. \A b \in AllRemaining : Blocking(b)
      BY <1>1, <1>3 DEF IInv, WorkIsOfHead, OfHead, Blocking
    <3>2. AllRemaining' \subseteq Owed'
      BY <1>5, <3>1 DEF Owed, Blocking
    <3> QED
      BY <2>5, <3>2
  <2>7. WorkIsOfHead'
    BY <2>5, <2>6 DEF WorkIsOfHead
  <2>8. HeldNotAhead'
    <3>1. \A b \in AllHeld : b \in CopySet /\ b.id <= Oldest
      BY <1>2 DEF IInv, HeldNotAhead, AllHeld
    <3>2. Oldest \in Int
      BY DEF IInv, TypeOK, Oldest
    <3> QED
      BY <1>5, <2>3, <3>1, <3>2 DEF HeldNotAhead, CopySet
  <2> QED
    BY <1>9, <1>10, <1>11, <2>3, <2>4, <2>7, <2>8 DEF IInv, NeverThrows
<1>15. CASE stalled # 1
  <2>1. UNCHANGED <<queue, calledBack>>
    BY <1>9, <1>15
  <2>2. Oldest' = Oldest
    BY <1>1, <2>1 DEF Oldest
  <2>3. TypeOK'
    BY <1>1, <1>9, <1>12, <2>1, Zenon DEF IInv, TypeOK
  <2>4. WorkIsOfHead'
    BY <1>5, <1>7, <2>1 DEF IInv, WorkIsOfHead, OfHead
  <2>5. Numbered'
    BY <1>1, <2>1, <2>2 DEF IInv, Numbered
  <2>6. HeldNotAhead'
    BY <1>5, <1>8, <1>9, <1>15, <2>2 DEF IInv, HeldNotAhead
  <2>7. EOCEnds'
    <3>1. ~calledBack'
      BY <1>13, <2>1, Zenon
    <3> QED
      BY <1>1, <2>1, <3>1, Zenon DEF IInv, EOCEnds
  <2> QED
    BY <1>9, <1>10, <1>11, <2>3, <2>4, <2>5, <2>6, <2>7 DEF IInv, NeverThrows
<1> QED
  BY <1>14, <1>15

LEMMA StutterStep == IInv /\ UNCHANGED vars => IInv'
<1> SUFFICES ASSUME IInv, UNCHANGED vars PROVE IInv'
  OBVIOUS
<1>1. /\ UNCHANGED <<hostReqId, frontReq, reachedEOC, calledBack>>
      /\ UNCHANGED <<queue, remaining, stalled, held, thrown>>
  BY DEF vars, dmaVars
<1>2. /\ AllRemaining' = AllRemaining /\ AllHeld' = AllHeld
      /\ Owed' = Owed /\ Oldest' = Oldest
  BY <1>1 DEF AllRemaining, AllHeld, Owed, Oldest
<1>3. TypeOK' /\ EOCEnds'
  BY <1>1, Zenon DEF IInv, TypeOK, EOCEnds
<1>4. CopiesInPlace' /\ WorkIsOfHead'
  BY <1>1, <1>2 DEF IInv, CopiesInPlace, WorkIsOfHead, OfHead
<1>5. OwedCounted' /\ Numbered' /\ HeldNotAhead'
  BY <1>1, <1>2 DEF IInv, OwedCounted, StalledCountsOwed, Numbered, HeldNotAhead
<1> QED
  BY <1>1, <1>3, <1>4, <1>5 DEF IInv, NeverThrows

LEMMA NextStep == IInv /\ [Next]_vars => IInv'
<1> SUFFICES ASSUME IInv, [Next]_vars PROVE IInv'
  OBVIOUS
<1>1. CASE FrontendTick
  BY <1>1, FrontendStep
<1>2. CASE DMATick
  BY <1>2, FlushStep, DecodeStep DEF DMATick
<1>3. CASE \E ch \in Channels : ControllerFinish(ch)
  BY <1>3, FinishSilentlyStep, FinishWithCallbackStep DEF ControllerFinish
<1>4. CASE Terminated \/ UNCHANGED vars
  BY <1>4, StutterStep DEF Terminated
<1> QED
  BY <1>1, <1>2, <1>3, <1>4 DEF Next

(* Every reachable state of the DMA satisfies the inductive invariant.     *)
THEOREM InductiveInvariant == Spec => []IInv
  BY InitInvariant, NextStep, PTL DEF Spec

-----------------------------------------------------------------------------
(* What follows from it. *)

(* The variables of the frontend and of the DMA keep their types; the      *)
(* request queue never outgrows ISR_SIZE.                                  *)
THEOREM TypeCorrect == Spec => []TypeOK
<1>1. IInv => TypeOK
  BY DEF IInv
<1> QED
  BY <1>1, InductiveInvariant, PTL

(* stalled_AiM_requests counts the callbacks still to come, so a blocking  *)
(* head neither retires early nor waits for a callback nobody owes.        *)
THEOREM StallAccounting == Spec => []StalledCountsOwed
<1>1. IInv => StalledCountsOwed
  BY DEF IInv, OwedCounted
<1> QED
  BY <1>1, InductiveInvariant, PTL

(* receive() never meets a copy of another host request than the head, and *)
(* its ConfigurationError is never thrown.                                 *)
THEOREM CallbacksMatchHead == Spec => [](OwedToHead /\ NeverThrows)
<1>1. IInv => OwedToHead /\ NeverThrows
  BY DEF IInv, WorkIsOfHead, OfHead, OwedToHead
<1> QED
  BY <1>1, InductiveInvariant, PTL

(* The DMA retires a host request only when every copy of it was accepted. *)
THEOREM NoCopyLost == Spec => []RemainingOfHead
<1>1. IInv => RemainingOfHead
  BY DEF IInv, WorkIsOfHead, OfHead, RemainingOfHead
<1> QED
  BY <1>1, InductiveInvariant, PTL

(* Both: the DMA's books are right after every step.                       *)
THEOREM WorkIsAccountedFor == Spec => []WorkAccountedFor
BY StallAccounting, NoCopyLost, PTL DEF WorkAccountedFor

(* An instruction that blocks keeps every later one away from every        *)
(* controller of every channel until its last callback.                    *)
THEOREM BlockingIsABarrier == Spec => []BlockingStopsLaterCopies
<1>1. IInv => BlockingStopsLaterCopies
  <2> SUFFICES ASSUME IInv, NEW b \in Owed, NEW c \in AllHeld
               PROVE  c.id <= b.id
    BY DEF BlockingStopsLaterCopies
  <2>1. OfHead(b)
    BY DEF IInv, WorkIsOfHead
  <2>2. b.id = Oldest
    BY <2>1, HeadIsOldest DEF OfHead
  <2> QED
    BY <2>2 DEF IInv, HeldNotAhead
<1> QED
  BY <1>1, InductiveInvariant, PTL

(* Host requests are retired in trace order, none skipped or repeated.     *)
THEOREM RetiredInTraceOrder == Spec => []QueueInTraceOrder
<1>1. IInv => QueueInTraceOrder
  <2> SUFFICES ASSUME IInv PROVE QueueInTraceOrder
    OBVIOUS
  <2>1. /\ queue \in Seq(Request) /\ Len(queue) \in Nat /\ hostReqId \in Int
        /\ frontReq # NoRequest => frontReq \in Request
    BY LenProperties DEF IInv, TypeOK
  <2>2. CASE frontReq = NoRequest
    BY <2>1, <2>2 DEF IInv, Numbered, Oldest, QueueInTraceOrder
  <2>3. CASE frontReq # NoRequest
    <3> DEFINE waiting == Append(queue, frontReq)
    <3>1. /\ Len(waiting) = Len(queue) + 1
          /\ waiting[Len(queue) + 1] = frontReq
          /\ \A i \in 1 .. Len(queue) : waiting[i] = queue[i]
      BY <2>1, <2>3
    <3>2. /\ \A i \in 1 .. Len(queue) : queue[i].id = hostReqId - Len(queue) - 1 + i - 1
          /\ frontReq.id = hostReqId - 1
      BY <2>1, <2>3 DEF IInv, Numbered, Oldest
    <3>3. \A i \in 1 .. Len(waiting) :
            waiting[i].id = hostReqId - Len(waiting) + i - 1
      BY <2>1, <3>1, <3>2
    <3> QED
      BY <2>3, <3>3 DEF QueueInTraceOrder
  <2> QED
    BY <2>2, <2>3
<1> QED
  BY <1>1, InductiveInvariant, PTL

(* The simulation stops only after the whole trace has been retired.       *)
THEOREM EndsAtEOC == Spec => []EOCIsLast
<1>1. IInv => EOCIsLast
  BY Zenon DEF IInv, EOCEnds, EOCIsLast
<1> QED
  BY <1>1, InductiveInvariant, PTL

(* A trace is carried out line by line, with every callback finding its    *)
(* own request at the head of the queue.                                   *)
THEOREM TraceIsCarriedOut == Spec => []TraceCarriedOut
BY TypeCorrect, CallbacksMatchHead, RetiredInTraceOrder, EndsAtEOC, PTL DEF TraceCarriedOut
=============================================================================
