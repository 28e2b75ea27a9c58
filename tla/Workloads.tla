------------------------------ MODULE Workloads ------------------------------
(***************************************************************************)
(* The packet sources of a workload simulation (workload.cpp): synthetic   *)
(* traffic, a trace file and a netrace file with dependencies. A workload  *)
(* w is a record and c its configuration; the operators return workloads,  *)
(* or the set of those a random draw may lead to. Packets of a trace are   *)
(* numbered by their lines, from 1.                                        *)
(***************************************************************************)
EXTENDS TrafficPatterns

LOCAL INSTANCE SequencesExt

Lines(c) == IF c.kind \in {"trace", "netrace"} THEN DOMAIN c.lines ELSE {}

NewWorkload(c) ==
  [pending |-> <<>>, deferred |-> <<>>, clk |-> 0,
   sleeping |-> <<>>, qtime |-> [n \in NodesOf(c.pattern) |-> 0],
   on |-> [n \in NodesOf(c.pattern) |-> FALSE], hits |-> 0,
   pos |-> 1, next |-> 0, at |-> [i \in Lines(c) |-> 0],
   ready |-> [n \in NodesOf(c.pattern) |-> <<>>],
   future |-> <<>>, stalled |-> {}, check |-> {}, flight |-> {},
   refs |-> [i \in Lines(c) |-> 0], ejectAt |-> [i \in Lines(c) |-> 0],
   lastEject |-> [n \in NodesOf(c.pattern) |-> 0],
   log |-> <<>>, done |-> {}, error |-> FALSE]

-----------------------------------------------------------------------------
(* Nodes with something to inject wait in pending; those that found the    *)
(* previous packet still on its way in wait in deferred for the next cycle.*)

Defer(w) == [w EXCEPT !.pending = Tail(@), !.deferred = Append(@, Head(w.pending))]

WakeDeferred(w) == [w EXCEPT !.pending = @ \o w.deferred, !.deferred = <<>>]

MakeReady(w, n, i) ==
  [w EXCEPT !.pending = IF w.ready[n] = <<>> THEN Append(@, n) ELSE @,
            !.ready[n] = Append(@, i)]

(* The packet at the head of the pending node's list goes; a node that has *)
(* more comes again in the next cycle.                                     *)
InjectReady(w) ==
  LET n == Head(w.pending)
  IN  [w EXCEPT !.pending = Tail(@), !.ready[n] = Tail(@),
                !.deferred = IF Len(w.ready[n]) > 1 THEN Append(@, n) ELSE @,
                !.log = Append(@, Head(w.ready[n]))]

-----------------------------------------------------------------------------
(* Synthetic: every node tests its injection process once for each cycle   *)
(* it has slept. A source makes at most c.hits packets in all (a bound).   *)

Tested(c, w, n) ==
  {[w EXCEPT !.on[n] = t.on, !.hits = IF t.hit THEN @ + 1 ELSE @,
             !.sleeping = IF t.hit THEN @ ELSE Append(@, n),
             !.pending = IF t.hit THEN Append(@, n) ELSE @] :
     t \in {x \in Test(c.process, w.on[n]) : x.hit => w.hits < c.hits}}

(* The loop of one sleeper: until a test succeeds or it is up to date.     *)
Woken(c, w) ==
  LET n == Head(w.sleeping)
      asleep == [w EXCEPT !.sleeping = Append(Tail(@), n)]
      behind == [k \in 1 .. w.clk - w.qtime[n] |-> k]
      Again(x) == x.sleeping # <<>> /\ Last(x.sleeping) = n
      Once(x) == Tested(c, [x EXCEPT !.sleeping = Front(@), !.qtime[n] = @ + 1], n)
  IN  FoldLeft(LAMBDA ws, k : UNION {IF Again(x) THEN Once(x) ELSE {x} : x \in ws},
               {asleep}, behind)

(* The bound of the loop over the sleepers shrinks as they wake, so those  *)
(* at the end of the queue may be visited a cycle late.                    *)
WakeSleepers(c, w) ==
  FoldLeft(LAMBDA ws, k :
             UNION {IF k <= Len(x.sleeping) THEN Woken(c, x) ELSE {x} : x \in ws},
           {w}, [k \in 1 .. Len(w.sleeping) |-> k])

SyntheticReset(c, w) ==
  FoldLeft(LAMBDA ws, n : UNION {Tested(c, x, n - 1) : x \in ws},
           {[w EXCEPT !.clk = 0, !.sleeping = <<>>, !.qtime = [n \in DOMAIN @ |-> 0],
                      !.on = IF "initial" \in DOMAIN c.process THEN c.process.initial
                             ELSE [n \in DOMAIN @ |-> FALSE]]},
           [n \in 1 .. c.pattern.nodes |-> n])

-----------------------------------------------------------------------------
(* Trace: lines of a delay, a source, a destination and a type, which is   *)
(* negative when the line only lets time pass. limit is the number of      *)
(* lines to read, or negative.                                             *)

MoreToRead(c, w) == w.pos <= Len(c.lines) /\ (c.limit < 0 \/ w.pos - 1 - c.skip < c.limit)

ReadLine(c, w) ==
  LET i == w.pos
      line == c.lines[i]
      due == line.delay + (IF i = c.skip + 1 THEN 0 ELSE w.at[i - 1])
      read == [w EXCEPT !.pos = @ + 1, !.at[i] = due]
  IN  CASE line.type < 0 -> read
        [] line.type >= 0 /\ due = w.clk -> MakeReady(read, line.src, i)
        [] OTHER -> [read EXCEPT !.next = i]

TraceRefill(c, w) ==
  FoldLeft(LAMBDA x, k : IF x.next = 0 /\ MoreToRead(c, x) THEN ReadLine(c, x) ELSE x,
           w, c.lines)

TraceReset(c, w) ==
  TraceRefill(c, [w EXCEPT !.clk = 0, !.pos = c.skip + 1, !.next = 0])

(* FAULT: the trace is not read on until the cycle after. *)
TraceTickNoRefill(c, w) ==
  LET later == [w EXCEPT !.clk = @ + 1]
  IN  IF w.next # 0 /\ w.at[w.next] = later.clk
      THEN MakeReady([later EXCEPT !.next = 0], c.lines[w.next].src, w.next)
      ELSE later

TraceTick(c, w) ==
  LET later == [w EXCEPT !.clk = @ + 1]
  IN  IF w.next # 0 /\ w.at[w.next] = later.clk
      THEN TraceRefill(c, MakeReady([later EXCEPT !.next = 0], c.lines[w.next].src, w.next))
      ELSE later

-----------------------------------------------------------------------------
(* Netrace: lines with a cycle, the two nodes and their types, the packet  *)
(* type and the packets that must wait for this one (deps). With c.deps    *)
(* the dependencies are kept, with c.lats also the time the nodes need.    *)

ResponseTypes == {2, 3, 5, 14, 16, 28, 30}
RequestTypes  == {1, 4, 13, 16, 27, 29}

IsResponse(c, i) ==
  c.deps /\ c.lats /\ c.lines[i].dstType <= 1 /\ c.lines[i].type \in ResponseTypes

Cleared(c, w, i) == ~c.deps \/ w.refs[i] = 0

Window(c) == IF c.lats THEN Max({c.tag, c.data, c.mem}) ELSE 1

ReadPacket(c, w) ==
  LET i == w.pos
      line == c.lines[i]
  IN  [w EXCEPT !.pos = @ + 1, !.next = i, !.at[i] = line.cycle - c.skipped,
                !.refs = [j \in DOMAIN @ |-> IF j \in line.deps THEN @[j] + 1 ELSE @[j]],
                !.ejectAt[i] = IF IsResponse(c, i)
                               THEN line.cycle - c.skipped + c.netDelay ELSE @]

(* The packets whose time will come are kept in order of time.             *)
IntoFuture(w, i) ==
  LET later == {k \in DOMAIN w.future : w.at[w.future[k]] >= w.at[i]}
      tail == w.future # <<>> => w.at[Last(w.future)] <= w.at[i]
  IN  [w EXCEPT !.future = IF tail THEN Append(@, i) ELSE InsertAt(@, Min(later), i)]

(* The packet that was read waits for its time, unless it is due or within *)
(* the window; then it is ready, to come, or stalled on another packet.    *)
PlaceNext(c, w) ==
  LET i == w.next
      placed == [w EXCEPT !.next = 0]
      due == w.at[i] = w.clk
      near == c.lats /\ w.at[i] < w.clk + Window(c)
  IN  CASE ~due /\ ~near         -> w
        [] (due \/ near) /\ ~Cleared(c, w, i) -> [placed EXCEPT !.stalled = @ \cup {i}]
        [] due /\ Cleared(c, w, i)            -> MakeReady(placed, c.lines[i].src, i)
        [] OTHER                              -> IntoFuture(placed, i)

NetraceRefill(c, w) ==
  FoldLeft(LAMBDA x, k : IF x.next = 0 /\ x.pos <= Len(c.lines)
                         THEN PlaceNext(c, ReadPacket(c, x)) ELSE x,
           w, c.lines)

NetraceReset(c, w) ==
  NetraceRefill(c, [w EXCEPT !.clk = 0, !.pos = 1, !.lastEject = [n \in DOMAIN @ |-> 0],
                             !.error = @ \/ w.future # <<>> \/ w.stalled # {} \/ w.next # 0])

(* How long the node takes to answer what it was waiting for.              *)
Latency(c, w, i) ==
  LET line == c.lines[i]
  IN  CASE line.srcType = 1 /\ line.type \in RequestTypes ->
             Max({w.at[i] - w.lastEject[line.src], 0})
        [] line.srcType = 2 /\ line.dstType = 3  -> c.tag
        [] line.srcType = 2 /\ line.dstType <= 1 -> c.data
        [] line.srcType = 3 -> c.mem
        [] OTHER -> 0

(* A request that waited for an answer is not of a time before it, of a    *)
(* node that had none (0 less 1 is the largest unsigned number) never; with*)
(* no latencies to keep the packet's time has come.                        *)
InTime(c, w, i) ==
  LET line == c.lines[i]
      last == w.lastEject[line.src]
  IN  IF c.lats THEN line.srcType = 1 /\ line.type \in RequestTypes =>
                       last > 0 /\ w.at[i] >= last - 1
      ELSE w.at[i] <= w.clk

Unstall(c, w, i) ==
  LET src == c.lines[i].src
      freed == [w EXCEPT !.stalled = @ \ {i}, !.error = @ \/ ~InTime(c, w, i),
                         !.at[i] = IF c.lats THEN Max({@, w.clk + Latency(c, w, i)}) ELSE w.clk]
  IN  IF freed.at[i] > w.clk THEN IntoFuture(freed, i) ELSE MakeReady(freed, src, i)

(* A packet that left the network frees those that waited for it, which    *)
(* are looked at in the next cycle.                                        *)
CheckStalled(c, w) ==
  [FoldLeft(LAMBDA x, i : IF i \in x.check \cap x.stalled /\ Cleared(c, x, i)
                          THEN Unstall(c, x, i) ELSE x,
            w, [i \in DOMAIN c.lines |-> i])
     EXCEPT !.check = {}]

NetraceTick(c, w) ==
  LET later == [w EXCEPT !.clk = @ + 1]
      due == SelectSeq(w.future, LAMBDA i : w.at[i] = later.clk)
      woken == FoldLeft(LAMBDA x, i : MakeReady([x EXCEPT !.future = Tail(@)], c.lines[i].src, i),
                        later, due)
      placed == IF woken.next # 0 THEN PlaceNext(c, woken) ELSE woken
  IN  NetraceRefill(c, placed)

NetraceRetire(c, w, i) ==
  LET line == c.lines[i]
  IN  [w EXCEPT !.check = @ \cup line.deps, !.done = @ \cup {i},
                !.refs = [j \in DOMAIN @ |-> IF j \in line.deps THEN @[j] - 1 ELSE @[j]],
                !.lastEject[line.dst] = IF IsResponse(c, i) THEN w.ejectAt[i] ELSE @,
                !.error = @ \/ (IsResponse(c, i) /\ w.clk < w.ejectAt[i] - 1)]

-----------------------------------------------------------------------------
(* What the traffic manager calls. *)

Front1(w) == Head(w.ready[Head(w.pending)])

DestsOf(c, w) ==
  CASE c.kind = "synthetic" -> Dests(c.pattern, Head(w.pending))
    [] c.kind = "trace"     -> {c.lines[Front1(w)].dest}
    [] c.kind = "netrace"   -> {c.lines[Front1(w)].dst}

SizesOf(c, w) ==
  CASE c.kind = "synthetic" -> Weighted(c.sizes, c.rates)
    [] c.kind = "trace"     -> {c.sizes[c.lines[Front1(w)].type + 1]}
    [] c.kind = "netrace"   -> {(8 * c.lines[Front1(w)].bytes + c.offset + c.width - 1) \div c.width}

TimeOf(c, w) ==
  IF c.kind = "synthetic" THEN w.qtime[Head(w.pending)] ELSE w.at[Front1(w)] \div c.scale

Injected(c, w, pid) ==
  CASE c.kind = "synthetic" -> [w EXCEPT !.pending = Tail(@),
                                         !.sleeping = Append(@, Head(w.pending))]
    [] c.kind = "trace"     -> InjectReady(w)
    [] c.kind = "netrace"   -> [InjectReady(w) EXCEPT !.flight = @ \cup {<<pid, Front1(w)>>}]

Retired(c, w, pid) ==
  IF c.kind # "netrace" THEN w
  ELSE LET pair == CHOOSE x \in w.flight : x[1] = pid
       IN  NetraceRetire(c, [w EXCEPT !.flight = @ \ {pair}], pair[2])

Ticks(c, w, Tick(_, _)) == FoldLeft(LAMBDA x, k : Tick(c, x), w, [k \in 1 .. c.scale |-> k])

AdvanceTime(c, w) ==
  CASE c.kind = "null"      -> {WakeDeferred(w)}
    [] c.kind = "synthetic" -> WakeSleepers(c, [WakeDeferred(w) EXCEPT !.clk = @ + 1])
    [] c.kind = "trace"     -> {Ticks(c, WakeDeferred(w), TraceTick)}
    [] c.kind = "netrace"   -> {Ticks(c, WakeDeferred(CheckStalled(c, w)), NetraceTick)}

Completed(c, w) ==
  CASE c.kind = "null"      -> TRUE
    [] c.kind = "synthetic" -> FALSE
    [] OTHER -> /\ w.pending = <<>>
                /\ w.deferred = <<>>
                /\ w.next = 0
                /\ w.stalled = {}
                /\ w.future = <<>>

ResetWorkload(c, w) ==
  LET empty == [w EXCEPT !.pending = <<>>, !.deferred = <<>>, !.log = <<>>, !.done = {}]
  IN  CASE c.kind = "null"      -> {empty}
        [] c.kind = "synthetic" -> SyntheticReset(c, empty)
        [] c.kind = "trace"     -> {TraceReset(c, empty)}
        [] c.kind = "netrace"   -> {NetraceReset(c, empty)}

=============================================================================
