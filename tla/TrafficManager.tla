---------------------------- MODULE TrafficManager ----------------------------
(***************************************************************************)
(* BookSim2's traffic managers (trafficmanager.cpp and the synthetic,      *)
(* steady-state, batch and workload managers built on it): packets are     *)
(* made at the sources, sent flit by flit into the injection buffers of    *)
(* their subnet, retired where they leave it, and counted by the schedule  *)
(* of the simulation. The network is external: it keeps the flits of one   *)
(* source and VC in order, lets at most one flit a cycle out of each       *)
(* source's buffer and into each destination, and returns the credit as it *)
(* does. Nodes, classes, subnets and VCs count from 0.                     *)
(***************************************************************************)
EXTENDS BufferStates, Workloads

LOCAL INSTANCE SequencesExt

CONSTANT
    Configs         \* the simulations to run, as records (see MCTrafficManager)

VARIABLES
    sys,            \* the configuration of this run
    tm,             \* sources, workloads, terminals and network (see NewManager)
    time,           \* _time
    stalls,         \* how often the network may still let nothing out (a bound)
    ctl             \* where the schedule of the simulation is

vars == <<sys, tm, time, stalls, ctl>>

Steady          == sys.sim \in {"latency", "throughput"}
MeasuresLatency == sys.sim = "latency"

Classes == DOMAIN sys.subnet
Nodes   == 0 .. sys.nodes - 1
Subnets == 0 .. sys.subnets - 1

(* Classes and nodes, and subnets and nodes, in the order of the loops.    *)
InOrder(outer, inner) ==
  [i \in 1 .. outer * inner |-> <<(i - 1) \div inner, (i - 1) % inner>>]

RequestOf(c) == {d \in Classes : sys.reply[d] = c}
IsReply(c)   == RequestOf(c) # {}

-----------------------------------------------------------------------------
(* Sources: the flits waiting to be sent and the books of every class.     *)

NewSource(s, c, n) ==
  [queue |-> <<>>, out |-> 0, seq |-> 0, qtime |-> 0, drained |-> FALSE,
   on |-> IF "initial" \in DOMAIN s.process[c] THEN s.process[c].initial[n] ELSE FALSE,
   hits |-> 0, got |-> 0]

NewManager(s) ==
  [src   |-> [x \in (DOMAIN s.subnet) \X (0 .. s.nodes - 1) |-> NewSource(s, x[1], x[2])],
   wl    |-> [c \in DOMAIN s.subnet |-> NewWorkload(s.work[c])],
   pid   |-> 0,
   terms |-> [x \in (0 .. s.nodes - 1) \X (0 .. s.subnets - 1) |->
                [buf |-> NewBuffer(s.buffer), lastClass |-> 0,
                 lastVC |-> [c \in DOMAIN s.subnet |-> s.vcs[c][2]]]],
   net   |-> [x \in (0 .. s.subnets - 1) \X (0 .. s.nodes - 1) |->
                [v \in VCsOf(s.buffer) |-> <<>>]]]

Flits(x)    == UNION ({Range(x.src[k].queue) : k \in DOMAIN x.src}
                      \cup UNION {{Range(q[v]) : v \in DOMAIN q} : q \in Range(x.net)})
InFlight(x) == \/ \E k \in DOMAIN x.src : x.src[k].queue # <<>>
               \/ \E k \in DOMAIN x.net : \E v \in DOMAIN x.net[k] : x.net[k][v] # <<>>

Recorded(c, ctime) ==
  /\ sys.measure[c]
  /\ \/ ctl.sim = "running"
     \/ ctl.sim = "draining" /\ ctime < ctl.drain

Priority(x, n, c, ctime) ==
  CASE sys.priority = "class"    -> sys.pri[c]
    [] sys.priority = "age"      -> - ctime
    [] sys.priority = "sequence" -> - x.src[<<c, n>>].seq
    [] sys.priority = "none"     -> 0

GeneratePacket(x, n, dest, size, c, ctime) ==
  LET flit == [pid |-> x.pid, src |-> n, dest |-> dest, cl |-> c, ctime |-> ctime,
               head |-> FALSE, tail |-> FALSE, vc |-> -1,
               record |-> Recorded(c, ctime), pri |-> Priority(x, n, c, ctime)]
  IN  [x EXCEPT !.pid = @ + 1,
                !.src[<<c, n>>].queue = @ \o [i \in 1 .. size |->
                   [flit EXCEPT !.head = (i = 1), !.tail = (i = size)]]]

CountedOut(x, c, n) ==
  [x EXCEPT !.src[<<c, n>>].out = @ + 1, !.src[<<c, n>>].seq = @ + 1]

-----------------------------------------------------------------------------
(* What _IssuePacket may do: the managers after it. A random source makes  *)
(* at most sys.fires packets (a bound).                                    *)

GeneratedFor(x, c, n) ==
  LET ctime == IF sys.queuing THEN x.src[<<c, n>>].qtime ELSE time
  IN  {CountedOut(GeneratePacket(x, n, d, size, c, ctime), c, n) :
         d \in Dests(sys.pattern[c], n), size \in Weighted(sys.sizes[c], sys.rates[c])}

IssueSteady(x, c, n) ==
  UNION {LET y == [x EXCEPT !.src[<<c, n>>].on = t.on,
                            !.src[<<c, n>>].hits = IF t.hit THEN @ + 1 ELSE @]
         IN  IF t.hit THEN GeneratedFor(y, c, n) ELSE {y} :
           t \in {o \in Test(sys.process[c], x.src[<<c, n>>].on) :
                    o.hit => x.src[<<c, n>>].hits < sys.fires}}

MayIssue(x, c, n) ==
  /\ sys.maxOut[c] <= 0 \/ x.src[<<c, n>>].out < sys.maxOut[c]
  /\ x.src[<<c, n>>].seq < sys.batch[c]

IssueBatch(x, c, n) == IF MayIssue(x, c, n) THEN GeneratedFor(x, c, n) ELSE {x}

IssuePacket(x, c, n) == IF Steady THEN IssueSteady(x, c, n) ELSE IssueBatch(x, c, n)

(* A source whose queue is empty tries once for every cycle it is behind,  *)
(* until it has made a packet.                                             *)
Offered(x, c, n) ==
  FoldLeft(LAMBDA ws, k :
             UNION {IF y.src[<<c, n>>].queue = <<>>
                    THEN IssuePacket([y EXCEPT !.src[<<c, n>>].qtime = @ + 1], c, n)
                    ELSE {y} : y \in ws},
           {x}, [k \in 1 .. time - x.src[<<c, n>>].qtime + 1 |-> k])

Drained(x, c, n) ==
  [x EXCEPT !.src[<<c, n>>].drained =
     @ \/ (ctl.sim = "draining" /\ x.src[<<c, n>>].qtime > ctl.drain)]

SyntheticInject(x) ==
  FoldLeft(LAMBDA ws, k :
             UNION {CASE y.src[k].queue # <<>> -> {y}
                      [] y.src[k].queue = <<>> /\ IsReply(k[1]) ->
                           {Drained([y EXCEPT !.src[k].qtime = time], k[1], k[2])}
                      [] OTHER -> {Drained(z, k[1], k[2]) : z \in Offered(y, k[1], k[2])} :
                      y \in ws},
           {x}, InOrder(Cardinality(Classes), sys.nodes))

(* The workload of a class offers the packets of its pending nodes; a node *)
(* whose previous packet still waits is deferred.                          *)
OfferPending(x, c) ==
  LET w == x.wl[c]
      n == Head(w.pending)
      ctime == IF sys.queuing THEN TimeOf(sys.work[c], w) ELSE time
  IN  IF x.src[<<c, n>>].queue # <<>> THEN {[x EXCEPT !.wl[c] = Defer(@)]}
      ELSE {[GeneratePacket(CountedOut(x, c, n), n, d, size, c, ctime)
               EXCEPT !.wl[c] = Injected(sys.work[c], @, x.pid)] :
              d \in DestsOf(sys.work[c], w), size \in SizesOf(sys.work[c], w)}

WorkloadInject(x) ==
  FoldLeft(LAMBDA ws, c :
             UNION {UNION {{[z EXCEPT !.wl[c - 1] = w] : w \in AdvanceTime(sys.work[c - 1], z.wl[c - 1])} :
                             z \in FoldLeft(LAMBDA us, k : UNION {OfferPending(u, c - 1) : u \in us},
                                            {y}, y.wl[c - 1].pending)} : y \in ws},
           {x}, [c \in 1 .. Cardinality(Classes) |-> c])

Inject(x) == IF sys.sim = "workload" THEN WorkloadInject(x) ELSE SyntheticInject(x)

-----------------------------------------------------------------------------
(* One flit per subnet and node: classes take turns after the one that     *)
(* sent last, a higher priority goes first.                                *)

Full(buf, v) == IsFullFor(sys.buffer, buf, v, time)

(* The VC of a head that has none: the search starts after the VC that the *)
(* class used last, and tries the first of the range only if that one is   *)
(* out of it.                                                              *)
ChosenVC(term, f) ==
  LET first == sys.vcs[f.cl][1]
      last  == sys.vcs[f.cl][2]
      count == last - first + 1
      lvc   == term.lastVC[f.cl]
      tried == [i \in 1 .. count |-> IF lvc \in first .. last
                                     THEN first + ((lvc - first + i) % count) ELSE first]
      free  == {i \in 1 .. count : IsAvailableFor(term.buf, tried[i]) /\ ~Full(term.buf, tried[i])}
  IN  IF f.vc # -1 \/ ~f.head THEN f.vc
      ELSE IF free = {} THEN -1 ELSE tried[Min(free)]

(* The candidate of a class against the best so far, a sequence of at most *)
(* one flit. The VC found for it stays with it even if another class wins. *)
Consider(best, term, s, n, c) ==
  LET queue == best.tm.src[<<c, n>>].queue
      f == [Head(queue) EXCEPT !.vc = ChosenVC(term, Head(queue))]
      ready == f.vc # -1 /\ ~Full(term.buf, f.vc)
  IN  IF sys.subnet[c] # s \/ queue = <<>> THEN best
      ELSE IF best.flit # <<>> /\ best.flit[1].pri >= Head(queue).pri THEN best
      ELSE [tm |-> [best.tm EXCEPT !.src[<<c, n>>].queue[1].vc = f.vc],
            flit |-> IF ready THEN <<f>> ELSE best.flit]

(* The class whose packet holds the switch comes first. *)
Holding(x, term, n) ==
  LET queue == x.src[<<term.lastClass, n>>].queue
  IN  sys.hold /\ queue # <<>> /\ ~Head(queue).head /\ ~Full(term.buf, Head(queue).vc)

Chosen(x, s, n) ==
  LET term == x.terms[<<n, s>>]
      count == Cardinality(Classes)
      held == Holding(x, term, n)
      best == [tm |-> x, flit |-> IF held THEN <<Head(x.src[<<term.lastClass, n>>].queue)>>
                                  ELSE <<>>]
      turns == [i \in 1 .. (IF held THEN count - 1 ELSE count) |-> (term.lastClass + i) % count]
  IN  FoldLeft(LAMBDA b, c : Consider(b, term, s, n, c), best, turns)

SendFlit(x, s, n, f) ==
  LET c == f.cl
      term == x.terms[<<n, s>>]
      took == IF f.head THEN TakeBuffer(sys.buffer, term.buf, f.vc) ELSE term.buf
      rest == Tail(x.src[<<c, n>>].queue)
      wrong == sys.hold /\ ~f.head /\ sys.subnet[c] # s
  IN  [x EXCEPT !.terms[<<n, s>>] =
                  [buf |-> [SendingFlit(sys.buffer, took, f, time) EXCEPT !.error = @ \/ wrong],
                   lastClass |-> c,
                   lastVC |-> IF f.head THEN [term.lastVC EXCEPT ![c] = f.vc] ELSE term.lastVC],
                !.src[<<c, n>>].queue =
                  IF rest # <<>> /\ ~f.tail THEN [rest EXCEPT ![1].vc = f.vc] ELSE rest,
                !.net[<<s, n>>][f.vc] = Append(@, f)]

InjectFlits(x) ==
  FoldLeft(LAMBDA y, k : LET best == Chosen(y, k[1], k[2])
                         IN  IF best.flit = <<>> THEN best.tm
                             ELSE SendFlit(best.tm, k[1], k[2], best.flit[1]),
           x, InOrder(sys.subnets, sys.nodes))

-----------------------------------------------------------------------------
(* Retiring: a request with a reply class is answered, everything else     *)
(* ends a transaction of its source.                                       *)

(* FAULT: every packet ends a transaction of its own class at its source. *)
RetirePacketOwnClass(x, f) ==
  LET reply == sys.reply[f.cl]
      ended == [x EXCEPT !.src[<<f.cl, f.src>>].out = @ - 1,
                         !.src[<<f.cl, f.dest>>].got = @ + 1]
  IN  IF sys.sim = "workload"
      THEN {[ended EXCEPT !.wl[f.cl] = Retired(sys.work[f.cl], @, f.pid)]}
      ELSE IF reply >= 0
      THEN {GeneratePacket(x, f.dest, f.src, size, reply, time + 1) :
              size \in Weighted(sys.sizes[reply], sys.rates[reply])}
      ELSE {ended}

RetirePacket(x, f) ==
  LET reply == sys.reply[f.cl]
      got == [x EXCEPT !.src[<<f.cl, f.dest>>].got = @ + 1]
      Ended(c, n) == [got EXCEPT !.src[<<c, n>>].out = @ - 1]
  IN  IF sys.sim = "workload"
      THEN {[Ended(f.cl, f.src) EXCEPT !.wl[f.cl] = Retired(sys.work[f.cl], @, f.pid)]}
      ELSE IF reply >= 0
      THEN {GeneratePacket([got EXCEPT !.src[<<f.cl, f.dest>>].seq = @ + 1],
                           f.dest, f.src, size, reply, time + 1) :
              size \in Weighted(sys.sizes[reply], sys.rates[reply])}
      ELSE IF IsReply(f.cl) THEN {Ended(CHOOSE c \in RequestOf(f.cl) : TRUE, f.dest)}
      ELSE {Ended(f.cl, f.src)}

RetireFlits(x, flits) ==
  FoldLeft(LAMBDA ws, f : UNION {IF f.tail THEN RetirePacket(y, f) ELSE {y} : y \in ws},
           {x}, flits)

-----------------------------------------------------------------------------
(* The network's part of a cycle: which flits leave, at most one of every  *)
(* source and for every destination of a subnet. It may hold back one that *)
(* could leave with the others only as often as stalls allows.             *)

HeadAt(m) == Head(tm.net[<<m[1], m[2]>>][m[3]])

Movable == {m \in Subnets \X Nodes \X VCsOf(sys.buffer) : tm.net[<<m[1], m[2]>>][m[3]] # <<>>}

Compatible(m, k) == m[1] = k[1] => m[2] # k[2] /\ HeadAt(m).dest # HeadAt(k).dest

MoveSets == {ms \in SUBSET Movable : \A m \in ms, k \in ms : m = k \/ Compatible(m, k)}

HoldsBack(ms) == \E m \in Movable \ ms : \A k \in ms : Compatible(m, k)

(* In the order of the loop that retires them: by subnet and destination.  *)
InRetireOrder(ms) ==
  LET Key(m) == m[1] * sys.nodes + HeadAt(m).dest
      order == SetToSortSeq(ms, LAMBDA m, k : Key(m) < Key(k))
  IN  [i \in 1 .. Cardinality(ms) |-> HeadAt(order[i])]

Ejected(x, m) ==
  [x EXCEPT !.net[<<m[1], m[2]>>][m[3]] = Tail(@),
            !.terms[<<m[2], m[1]>>].buf = ProcessCredit(sys.buffer, @, m[3], time)]

(* TrafficManager::_Step. *)
Step(empty) ==
  \E ms \in MoveSets :
    /\ HoldsBack(ms) => stalls > 0
    /\ stalls' = IF HoldsBack(ms) THEN stalls - 1 ELSE stalls
    /\ time' = time + 1
    /\ LET ejected == FoldSet(LAMBDA m, x : Ejected(x, m), tm, ms)
           offered == IF empty THEN {ejected} ELSE Inject(ejected)
       IN  \E x \in offered : tm' \in RetireFlits(InjectFlits(x), InRetireOrder(ms))

-----------------------------------------------------------------------------
(* The schedule of a simulation: Run and the _SingleSim of each manager.   *)

StartOf(s) == CASE s \in {"latency", "throughput"} -> "sample"
                [] s = "batch"    -> "batch"
                [] s = "workload" -> "warm"

(* FAULT: the simulations are not counted. *)
NewControlUncounted(s, sim) ==
  [pc |-> StartOf(s.sim), sim |-> IF s.sim = "batch" THEN "running" ELSE "warming_up",
   run |-> 0, drain |-> -1, start |-> -1, iter |-> 0, phase |-> 0, converged |-> 0,
   batch |-> 0, complete |-> FALSE]

NewControl(s, sim) ==
  [pc |-> StartOf(s.sim), sim |-> IF s.sim = "batch" THEN "running" ELSE "warming_up",
   run |-> sim, drain |-> -1, start |-> -1, iter |-> 0, phase |-> 0, converged |-> 0,
   batch |-> 0, complete |-> FALSE]

(* _ResetSim: the books of every source but its sequence numbers, which    *)
(* only a batch starts anew.                                               *)
ResetSource(s, c, n, old) ==
  [NewSource(s, c, n) EXCEPT !.queue = old.queue,
                             !.seq = IF s.sim = "batch" THEN 0 ELSE old.seq]

ResetSim(s, x) ==
  LET cleared == [x EXCEPT !.src = [k \in DOMAIN @ |-> ResetSource(s, k[1], k[2], @[k])]]
  IN  FoldLeft(LAMBDA ws, c :
                 UNION {{[y EXCEPT !.wl[c - 1] = w] : w \in ResetWorkload(s.work[c - 1], y.wl[c - 1])} :
                          y \in ws},
               {cleared}, [c \in 1 .. Cardinality(DOMAIN s.subnet) |-> c])

Init ==
  /\ sys \in Configs
  /\ tm \in ResetSim(sys, NewManager(sys))
  /\ time = 0
  /\ stalls = sys.stalls
  /\ ctl = NewControl(sys, 0)

Goto(pc) == ctl' = [ctl EXCEPT !.pc = pc]

(* Steady state: sample periods until the statistics settle three times in *)
(* a row, or the last sample is reached while running. What the statistics *)
(* say is any outcome.                                                     *)
SampleStep ==
  /\ ctl.pc = "sample"
  /\ ctl.iter < sys.period
  /\ Step(FALSE)
  /\ ctl' = [ctl EXCEPT !.iter = @ + 1]
  /\ UNCHANGED sys

EndPhase(next) ==
  LET more == next.phase < sys.max /\ (next.sim # "running" \/ next.converged < 3)
  IN  ctl' = CASE more -> [next EXCEPT !.iter = 0]
               [] ~more /\ next.sim = "running" ->
                    [next EXCEPT !.sim = "draining", !.drain = time, !.converged = @ + 1,
                                 !.pc = IF MeasuresLatency THEN "measured" ELSE "empty"]
               [] OTHER -> [next EXCEPT !.pc = "unstable"]

Judge ==
  /\ ctl.pc = "sample"
  /\ ctl.iter = sys.period
  /\ \E settled \in BOOLEAN :
       LET next == [ctl EXCEPT !.phase = @ + 1]
           warm == IF sys.warm > 0 THEN ctl.phase + 1 >= sys.warm ELSE settled
       IN  EndPhase(CASE ctl.sim = "warming_up" /\ warm ->
                           [next EXCEPT !.sim = "running", !.start = time]
                      [] ctl.sim = "warming_up" /\ ~warm -> next
                      [] ctl.sim = "running" ->
                           [next EXCEPT !.converged = IF settled THEN @ + 1 ELSE 0])
  /\ UNCHANGED <<sys, tm, time, stalls>>

(* Latencies beyond the threshold end the whole run. *)
Abort ==
  /\ ctl.pc = "sample"
  /\ ctl.iter = sys.period
  /\ MeasuresLatency
  /\ ctl' = [ctl EXCEPT !.pc = "unstable", !.sim = "draining", !.drain = time, !.converged = 0]
  /\ UNCHANGED <<sys, tm, time, stalls>>

MeasuredInFlight(c) == \E f \in Flits(tm) : f.cl = c /\ f.record

PacketsOutstanding ==
  \E c \in Classes : \/ MeasuredInFlight(c)
                     \/ sys.measure[c] /\ \E n \in Nodes : ~tm.src[<<c, n>>].drained

MeasureStep ==
  /\ ctl.pc = "measured"
  /\ PacketsOutstanding
  /\ Step(FALSE)
  /\ UNCHANGED <<sys, ctl>>

MeasureEnd ==
  /\ ctl.pc = "measured"
  /\ ~PacketsOutstanding
  /\ Goto("empty")
  /\ UNCHANGED <<sys, tm, time, stalls>>

(* Batch: every source sends its batch, then the answers are waited for.   *)
BatchSent(x) == \A c \in Classes, n \in Nodes : x.src[<<c, n>>].seq >= sys.batch[c]

BatchStep ==
  /\ ctl.pc = "batch"
  /\ Step(FALSE)
  /\ IF BatchSent(tm') THEN Goto("wait") ELSE UNCHANGED ctl
  /\ UNCHANGED sys

RequestsOutstanding == \E k \in DOMAIN tm.src : tm.src[k].out > 0

WaitStep ==
  /\ ctl.pc = "wait"
  /\ RequestsOutstanding
  /\ Step(FALSE)
  /\ UNCHANGED <<sys, ctl>>

BatchEnd ==
  /\ ctl.pc = "wait"
  /\ ~RequestsOutstanding
  /\ IF ctl.batch + 1 < sys.batches
     THEN /\ ctl' = [ctl EXCEPT !.batch = @ + 1, !.pc = "batch"]
          /\ tm' = [tm EXCEPT !.src = [k \in DOMAIN @ |-> [@[k] EXCEPT !.seq = 0, !.got = 0]]]
     ELSE /\ ctl' = [ctl EXCEPT !.pc = "empty", !.sim = "draining", !.drain = time]
          /\ UNCHANGED tm
  /\ UNCHANGED <<sys, time, stalls>>

(* Workload: warm up, then run until every measured class has sent and     *)
(* received all it has, or the last sample is over.                        *)
WarmStep ==
  /\ ctl.pc = "warm"
  /\ time < sys.warm * sys.period
  /\ Step(FALSE)
  /\ UNCHANGED <<sys, ctl>>

WarmEnd ==
  /\ ctl.pc = "warm"
  /\ time >= sys.warm * sys.period
  /\ ctl' = [ctl EXCEPT !.pc = "run", !.sim = "running", !.start = time]
  /\ UNCHANGED <<sys, tm, time, stalls>>

AllCompleted ==
  \A c \in Classes : sys.measure[c] => Completed(sys.work[c], tm.wl[c]) /\ ~MeasuredInFlight(c)

Running == ~AllCompleted /\ (sys.max < 0 \/ time < (sys.warm + sys.max) * sys.period)

RunStep ==
  /\ ctl.pc = "run"
  /\ Running
  /\ Step(FALSE)
  /\ UNCHANGED <<sys, ctl>>

RunEnd ==
  /\ ctl.pc = "run"
  /\ ~Running
  /\ ctl' = [ctl EXCEPT !.pc = "empty", !.sim = "draining", !.drain = time,
                        !.complete = AllCompleted]
  /\ UNCHANGED <<sys, tm, time, stalls>>

(* Between simulations nothing is made, and the network empties: its flits *)
(* and then the last credits.                                              *)
EmptyStep ==
  /\ ctl.pc = "empty"
  /\ InFlight(tm)
  /\ Step(TRUE)
  /\ UNCHANGED <<sys, ctl>>

CreditStep ==
  /\ ctl.pc = "empty"
  /\ ~InFlight(tm)
  /\ stalls > 0
  /\ stalls' = stalls - 1
  /\ time' = time + 1
  /\ UNCHANGED <<sys, tm, ctl>>

EndEmpty ==
  /\ ctl.pc = "empty"
  /\ ~InFlight(tm)
  /\ IF ctl.run + 1 < sys.sims
     THEN /\ ctl' = NewControl(sys, ctl.run + 1)
          /\ tm' \in ResetSim(sys, tm)
          /\ time' = 0
     ELSE Goto("done") /\ UNCHANGED <<tm, time>>
  /\ UNCHANGED <<sys, stalls>>

Halted == ctl.pc \in {"done", "unstable"}

Stopped == Halted /\ UNCHANGED vars

Next ==
  \/ SampleStep \/ Judge \/ Abort \/ MeasureStep \/ MeasureEnd
  \/ BatchStep \/ WaitStep \/ BatchEnd
  \/ WarmStep \/ WarmEnd \/ RunStep \/ RunEnd
  \/ EmptyStep \/ CreditStep \/ EndEmpty
  \/ Stopped

(* The program runs: it does not pause for ever before it has ended. As    *)
(* there is a step from every state before the end, this is the weak       *)
(* fairness of Next, in a form that is quick to evaluate.                  *)
Fairness == []<>Halted \/ []<><<TRUE>>_vars

Spec == Init /\ [][Next]_vars /\ Fairness

-----------------------------------------------------------------------------
(* Properties. *)

PolicyOK(b) ==
  LET c == sys.buffer
      Sum(f) == MapThenSumSet(LAMBDA i : f[i], DOMAIN f)
      over == [i \in DOMAIN b.part |-> Max({b.part[i] - PartSize(c), 0})]
  IN  c.policy \in SharedKind =>
        /\ Sum(b.part) = Sum(b.occ) + Sum(b.reserved)
        /\ b.shared = Sum(over)
        /\ b.shared <= SharedSize(c)
        /\ \A v \in VCsOf(c) : b.reserved[v] > 0 => b.reserved[v] = 1 /\ b.occ[v] = 0

(* A VC is in the middle of a packet of one of the classes of its subnet.  *)
Sending(n, s) ==
  {sc \in Classes \X VCsOf(sys.buffer) :
     LET queue == tm.src[<<sc[1], n>>].queue
     IN  /\ sys.subnet[sc[1]] = s
         /\ queue # <<>>
         /\ ~Head(queue).head
         /\ Head(queue).vc = sc[2]}

PacketAfterPacket(q) ==
  \A i \in 1 .. Len(q) - 1 :
    IF q[i].tail THEN q[i + 1].head
    ELSE ~q[i + 1].head /\ q[i + 1].pid = q[i].pid

(* What a terminal believes of the buffer it sends into is what is in it,  *)
(* under every buffer policy: occupancies, VCs in use, private and shared  *)
(* slots and the slot a VC in the middle of a packet keeps in reserve; and *)
(* packets never mix on a VC. No check of buffer_state.cpp ever fails.     *)
FlowControlKept ==
  \A n \in Nodes, s \in Subnets :
    LET b == tm.terms[<<n, s>>].buf
        net == tm.net[<<s, n>>]
        sending == Sending(n, s)
        waiting == IF sys.buffer.waitForTail THEN {v \in DOMAIN net : net[v] # <<>>} ELSE {}
    IN  /\ ~b.error
        /\ PolicyOK(b)
        /\ \A v \in DOMAIN net : b.occ[v] = Len(net[v]) /\ PacketAfterPacket(net[v])
        /\ \A a, z \in sending : a[2] = z[2] => a = z
        /\ b.taken = {x[2] : x \in sending} \cup waiting

Tails(c, Of(_), n) == Cardinality({f \in Flits(tm) : f.tail /\ f.cl = c /\ Of(f) = n})

(* The books of a source hold exactly its open transactions: its packets   *)
(* that have not arrived and the replies that are on their way to it, so   *)
(* that neither the limit on outstanding requests nor the end of a batch   *)
(* is ever taken on a wrong count. At the end of a batch every source has  *)
(* sent the whole batch, and under one-to-one traffic received one.        *)
OutstandingExact ==
  /\ \A c \in Classes, n \in Nodes :
       tm.src[<<c, n>>].out =
         IF IsReply(c) THEN 0
         ELSE Tails(c, LAMBDA f : f.src, n)
              + (IF sys.reply[c] < 0 THEN 0 ELSE Tails(sys.reply[c], LAMBDA f : f.dest, n))
  /\ sys.sim = "batch" => \A c \in Classes, n \in Nodes :
       /\ sys.maxOut[c] > 0 => tm.src[<<c, n>>].out <= sys.maxOut[c]
       /\ /\ ctl.pc = "empty"
          /\ sys.reply[c] < 0
          /\ ~IsReply(c)
          => /\ tm.src[<<c, n>>].seq = sys.batch[c]
             /\ sys.pattern[c].name \in OneToOne => tm.src[<<c, n>>].got = sys.batch[c]

(* A latency measurement that ends has waited for every packet of its      *)
(* window, those included that a blocked source makes afterwards: no       *)
(* packet created after its start and before its end is on its way, and    *)
(* no source can still make one.                                           *)
WindowMeasured ==
  MeasuresLatency /\ ctl.pc \in {"empty", "done"} =>
    \A c \in Classes : sys.measure[c] =>
      /\ \A f \in Flits(tm) : f.cl = c => ~(ctl.start < f.ctime /\ f.ctime < ctl.drain)
      /\ ~IsReply(c) => \A n \in Nodes : tm.src[<<c, n>>].qtime > ctl.drain

(* What limits and results are computed from: the outstanding transactions *)
(* of every source are counted exactly, and no packet of a measured window *)
(* is left out of its latencies.                                           *)
TransactionsExact == OutstandingExact /\ WindowMeasured

(* Where the packet of a line of a trace is. *)
Places(w, i) ==
  {<<"ready", n>> : n \in {m \in Nodes : i \in Range(w.ready[m])}}
  \cup (IF w.next = i THEN {<<"next", 0>>} ELSE {})
  \cup (IF i \in Range(w.future) THEN {<<"future", 0>>} ELSE {})
  \cup (IF i \in w.stalled THEN {<<"stalled", 0>>} ELSE {})
  \cup (IF i \in Range(w.log) THEN {<<"log", 0>>} ELSE {})

Once(n, q) == Cardinality({i \in DOMAIN q : q[i] = n}) = 1

(* A workload neither loses nor doubles a packet: every line read from the *)
(* trace is in one place, a node with ready packets is in one of the lists *)
(* that wake it, no packet goes before its time, a source's trace packets  *)
(* go in order, and a packet of a netrace goes after all it depends on     *)
(* have left the network. A run that ends by completion sent everything.   *)
WorkloadFaithful ==
  sys.sim = "workload" => \A c \in Classes :
    LET w == tm.wl[c]
        wc == sys.work[c]
        listed == w.pending \o w.deferred \o w.sleeping
        read == {i \in Lines(wc) : i < w.pos /\ (wc.kind = "trace" => i > wc.skip /\ wc.lines[i].type >= 0)}
    IN  /\ ~w.error
        /\ wc.kind = "synthetic" => \A n \in Nodes : Once(n, listed)
        /\ wc.kind \in {"trace", "netrace"} =>
             /\ \A n \in Nodes : IF w.ready[n] # <<>> THEN Once(n, listed) ELSE n \notin Range(listed)
             /\ \A i \in Lines(wc) : Cardinality(Places(w, i)) = IF i \in read THEN 1 ELSE 0
             /\ \A i \in Range(w.log) \cup UNION {Range(w.ready[n]) : n \in Nodes} : w.at[i] <= w.clk
             /\ ctl.complete => Range(w.log) = read /\ w.pos > Len(wc.lines)
        /\ wc.kind = "trace" => \A i, j \in DOMAIN w.log :
             i < j /\ wc.lines[w.log[i]].src = wc.lines[w.log[j]].src => w.log[i] < w.log[j]
        /\ wc.kind = "netrace" /\ wc.deps => \A i \in Range(w.log), j \in Lines(wc) :
             i \in wc.lines[j].deps => j \in w.done

(* Every simulation ends: the measurement window is drained, batches and   *)
(* workloads complete and the network empties.                             *)
SimulationEnds == <>Halted

=============================================================================
