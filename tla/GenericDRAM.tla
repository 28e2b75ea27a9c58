----------------------------- MODULE GenericDRAM -----------------------------
(***************************************************************************)
(* The generic memory system of the AiM simulator: the generic controller  *)
(* (generic_dram_controller.cpp) in front of one channel of a device       *)
(* (DRAMDevice), its FR-FCFS scheduler, its refresh manager, and the       *)
(* RowHammer plugins.  The channels of a system share only the clock, so   *)
(* one is enough.  Cycles on which nothing can change are skipped: after a *)
(* cycle that changed nothing the clock goes to the next one on which      *)
(* something can (Events).                                                 *)
(***************************************************************************)
EXTENDS RowHammer

CONSTANT MaxSize  \* ReqBuffer::max_size of the controller's buffers

ASSUME MaxSizeAssumption == MaxSize \in Nat \ {0}

(* A trace names banks of the device, with a row and a column.             *)
IsTrace(trace, d) ==
    \A i \in 1..Len(trace) :
      /\ trace[i].type \in {"read", "write"}
      /\ trace[i].addr \in Seq(Int) /\ Len(trace[i].addr) = d.depth + 2
      /\ Node(trace[i].addr, d.depth) \in d.banks

ASSUME SystemAssumption ==
    \A i \in DOMAIN Configs :
      LET c == Configs[i]
      IN  /\ IsDevice(c.device) /\ IsPlugin(c.plugin, c.device)
          /\ IsTrace(c.trace, c.device) /\ Len(c.trace) \in Nat
          /\ c.leads \subseteq Int

VARIABLES
  pending,      \* reads whose data is on the way
  writeMode,    \* m_is_write_mode
  nextRefresh,  \* m_next_refresh_cycle
  sent,         \* how many requests of the trace were accepted
  quiet,        \* the last cycle changed nothing but the clock
  issued        \* the commands issued, as the trace recorder writes them

vars == <<sys, clk, deviceVars, buf, pending, writeMode, nextRefresh,
          pluginVars, sent, quiet, issued>>

-----------------------------------------------------------------------------
(* The front end. *)

Enqueue(q, r) == IF Len(q) <= MaxSize THEN Append(q, r) ELSE q

Trace == sys.trace

Queues  == {"active", "priority", "read", "write"}
Waiting == UNION {Range(buf[name]) : name \in Queues}

(* A front end has at most sys.window requests of its own under way. *)
Outstanding == ({r.id : r \in Waiting} \cup {p.id : p \in Range(pending)}) \ {0}
MaySend     == sent < Len(Trace) /\ Cardinality(Outstanding) < sys.window

(* send, for the next request of the trace; the front end tries again when *)
(* the buffer is full.                                                     *)
Send ==
    /\ MaySend
    /\ LET todo == Trace[sent + 1]
           r == Request(sent + 1, todo.type, Mapped(todo.addr), clk)
       IN  IF /\ todo.type = "read"
              /\ \E i \in DOMAIN buf.write : buf.write[i].addr = r.addr
           THEN /\ pending' = Append(pending, [id |-> r.id, depart |-> clk + 1])
                /\ UNCHANGED buf
           ELSE /\ Len(buf[todo.type]) <= MaxSize
                /\ buf' = [buf EXCEPT ![todo.type] = Enqueue(@, r)]
                /\ UNCHANGED pending
    /\ sent' = sent + 1
    /\ quiet' = FALSE
    /\ UNCHANGED <<sys, clk, deviceVars, writeMode, nextRefresh, pluginVars,
                   issued>>

-----------------------------------------------------------------------------
(* One cycle of the controller. *)

(* AllBankRefresh: one request for every rank the device has. *)
RefreshDue(t) == t = nextRefresh
RefreshAddr(r) == r \o [i \in 1..(Dram.depth + 2 - Len(r)) |-> -1]
Refreshes ==
    [i \in 1..Cardinality(Ranks) |->
       Request(0, "refresh", RefreshAddr(<<0, i - 1>>), -1)]

(* What the buffers hold once the refresh manager has ticked. *)
Queued(t) ==
    IF RefreshDue(t) THEN [buf EXCEPT !.priority = @ \o Refreshes] ELSE buf

(* FRFCFS::get_best_request: ready before not ready, then the earlier, then *)
(* the first in the buffer.                                                 *)
IsReady(r, t) == CheckReady(Preq(r, t), r.addr, t)
Before(q, i, j, t) ==
    LET a == IsReady(q[i], t)
        b == IsReady(q[j], t)
    IN  IF a # b THEN a
        ELSE IF q[i].arrive # q[j].arrive THEN q[i].arrive < q[j].arrive
        ELSE i < j
Best(q, t) ==
    CHOOSE i \in DOMAIN q : \A j \in DOMAIN q \ {i} : Before(q, i, j, t)
BestReady(q, t) == q # <<>> /\ \E i \in DOMAIN q : IsReady(q[i], t)

(* set_write_mode, with the default watermarks 0.8 and 0.2. *)
(* FAULT: an empty read buffer is no reason to write. *)
WriteWhenFull(q) ==
    IF ~writeMode THEN 10 * Len(q.write) > 8 * MaxSize
    ELSE ~(10 * Len(q.write) < 2 * MaxSize /\ q.read # <<>>)
NewWriteMode(q) ==
    IF ~writeMode
    THEN 10 * Len(q.write) > 8 * MaxSize \/ q.read = <<>>
    ELSE ~(10 * Len(q.write) < 2 * MaxSize /\ q.read # <<>>)

(* schedule_request up to the check of closing commands: the buffer served  *)
(* and the position in it.  The buffers of reads and writes are looked at   *)
(* only when nothing active is ready and nothing has priority.              *)
Choice(name, i, mode) == [name |-> name, i |-> i, mode |-> mode]
Chosen(q, t) ==
    CASE BestReady(q.active, t) -> Choice("active", Best(q.active, t), writeMode)
      [] q.priority # <<>> /\ ~BestReady(q.active, t) ->
           Choice(IF IsReady(q.priority[1], t) THEN "priority" ELSE None, 1,
                  writeMode)
      [] OTHER ->
           LET mode == NewWriteMode(q)
               name == IF mode THEN "write" ELSE "read"
           IN  IF BestReady(q[name], t)
               THEN Choice(name, Best(q[name], t), mode)
               ELSE Choice(None, 1, mode)

(* A closing command must not take the bank of an active request; that of   *)
(* a refresh names no bank and is let through.                              *)
Interrupts(q, r, cmd) ==
    /\ cmd \in Dram.closing
    /\ \E i \in DOMAIN q.active : BankOf(q.active[i].addr) = BankOf(r.addr)

Removed(q, name, i) == [q EXCEPT ![name] = RemoveAt(@, i)]

(* The buffers after the command of request r. *)
AfterIssue(q, ch, r, cmd) ==
    CASE cmd = r.final -> Removed(q, ch.name, ch.i)
      [] cmd # r.final /\ cmd \in Dram.opening ->
           IF ch.name = "active"
           THEN [q EXCEPT !.active = RemoveAt(Enqueue(@, r), ch.i)]
           ELSE Removed([q EXCEPT !.active = Enqueue(@, r)], ch.name, ch.i)
      [] OTHER -> q

(* serve_completed_reads: at most the first of the pending reads. *)
ServeDue(t) == pending # <<>> /\ pending[1].depart <= t
AfterServe(t) == IF ServeDue(t) THEN Tail(pending) ELSE pending

-----------------------------------------------------------------------------
(* The clock. *)

Done     == sent = Len(Trace) /\ Waiting = {} /\ pending = <<>>
RefreshesSoFar == nextRefresh \div Dram.t.nREFI

(* The cycles on which something may change after a quiet one: a command    *)
(* becomes ready, a read departs, a data clock runs out, a refresh is due   *)
(* (up to the number the configuration asks for), or the front end wakes up *)
(* shortly before one.                                                      *)
Events ==
    LET next == {ReadyAt(Preq(r, clk), r.addr) : r \in Waiting}
                  \cup {pending[i].depart : i \in DOMAIN pending \cap {1}}
                  \cup {synced[r] + 1 : r \in Ranks}
                  \cup (IF RefreshesSoFar > sys.refreshes THEN {}
                        ELSE {nextRefresh} \cup
                             (IF sent = Len(Trace) THEN {}
                              ELSE {nextRefresh - d : d \in sys.leads}))
    IN  {t \in next : t > clk}

(* A command is issued: device, plugin and buffers follow. *)
Issue(q, ch, t) ==
    LET r == q[ch.name][ch.i]
        cmd == Preq(r, t)
        left == AfterIssue(q, ch, r, cmd)
    IN  /\ UpdateTiming(cmd, r.addr, t)
        /\ UpdateStates(cmd, r.addr, t)
        /\ Watch(left, cmd, r.addr, t)
        /\ pending' =
              IF cmd = r.final /\ r.type = "read"
              THEN Append(AfterServe(t),
                          [id |-> r.id, depart |-> t + Dram.read_latency])
              ELSE AfterServe(t)
        /\ issued' = Append(issued, [clk |-> t, cmd |-> cmd, addr |-> r.addr])
        /\ quiet' = FALSE

NoIssue(q, ch, t) ==
    /\ Watch(q, None, <<>>, t)
    /\ pending' = AfterServe(t)
    /\ quiet' = (~ServeDue(t) /\ ~RefreshDue(t) /\ ch.mode = writeMode)
    /\ UNCHANGED <<deviceVars, issued>>

Cycle(t) ==
    LET q == Queued(t)
        ch == Chosen(q, t)
        found == /\ ch.name # None
                 /\ LET r == q[ch.name][ch.i] IN ~Interrupts(q, r, Preq(r, t))
    IN  /\ clk' = t
        /\ nextRefresh' = IF RefreshDue(t) THEN nextRefresh + Dram.t.nREFI
                          ELSE nextRefresh
        /\ writeMode' = ch.mode
        /\ \/ found /\ Issue(q, ch, t)
           \/ ~found /\ NoIssue(q, ch, t)
        /\ UNCHANGED <<sys, sent>>

(* The front end sends the requests of the burst as fast as they are taken. *)
Refused == MaySend => Len(buf[Trace[sent + 1].type]) > MaxSize
CanTick == /\ sent >= sys.burst \/ Refused
           /\ quiet => Events # {}
Tick ==
    /\ CanTick
    /\ Cycle(IF quiet THEN Min(Events) ELSE clk + 1)

(* The clock goes on and nothing will ever happen. *)
Idle == quiet /\ Events = {} /\ UNCHANGED vars

Init ==
    /\ \E i \in DOMAIN Configs : sys = Configs[i]
    /\ clk = 0
    /\ DeviceInit
    /\ buf = [name \in Queues |-> <<>>]
    /\ pending = <<>>
    /\ writeMode = FALSE
    /\ nextRefresh = Dram.t.nREFI
    /\ PluginInit
    /\ sent = 0 /\ quiet = FALSE /\ issued = <<>>

Next == Send \/ Tick \/ Idle

(* The simulation loop ticks the front end, which tries to send, and then   *)
(* the memory system, for as long as the simulation runs.  The second part  *)
(* is WF_vars(Tick): only a tick moves the clock.                           *)
Fairness == /\ WF_vars(Send)
            /\ []<>~CanTick \/ []<><<clk' # clk>>_vars

Spec == Init /\ [][Next]_vars /\ Fairness

-----------------------------------------------------------------------------
(* What must hold of the commands a device is given. *)

(* The log before its last command.  A bank holds open the row of the last   *)
(* activation since it was precharged.                                       *)
Earlier == 1..(Len(issued) - 1)
Activates(c, b)  == c.cmd \in {"ACT", "ACT-2"} /\ BankOf(c.addr) = b
Precharges(c, b) == \/ c.cmd = "PRE" /\ BankOf(c.addr) = b
                    \/ c.cmd = "PREA" /\ Node(c.addr, 2) = Node(b, 2)
OpenRow(b) ==
    LET turns == {j \in Earlier : Activates(issued[j], b) \/ Precharges(issued[j], b)}
    IN  IF turns = {} \/ Precharges(issued[Max(turns)], b) THEN None
        ELSE RowOf(issued[Max(turns)].addr)

(* Rows are opened and closed in turn, as no test follows them: a bank is    *)
(* activated or its victims refreshed only while the log shows it closed, a  *)
(* column is accessed only in the row last activated, a rank is refreshed    *)
(* only with all its banks closed; and what was activated for a request that *)
(* is still active has not been replaced by another row.                     *)
RowsRespected ==
    /\ issued # <<>> =>
         LET c == Last(issued)
         IN  /\ c.cmd \in {"ACT", "ACT-1", "VRR"} => OpenRow(BankOf(c.addr)) = None
             /\ c.cmd \in Columns \cup Columns16 =>
                  OpenRow(BankOf(c.addr)) = RowOf(c.addr)
             /\ c.cmd = "REFab" =>
                  \A b \in BanksBelow(Node(c.addr, 2)) : OpenRow(b) = None
    /\ \A i \in DOMAIN buf.active :
         LET r == buf.active[i]
         IN  bank[BankOf(r.addr)] # "Closed" => rows[BankOf(r.addr)] = {RowOf(r.addr)}

(* A device whose rows are opened by one command, as those of every standard *)
(* but LPDDR5 are.                                                           *)
OneStep(d) ==
    \E l \in {"channel", "rank"} :
      /\ d.lambdas.action = RowBuffer(l).action
      /\ \A f \in {"RD", "WR", "REFab"} : d.lambdas.preq[f] = RowBuffer(l).preq[f]
      /\ DOMAIN d.requests \subseteq {"read", "write", "refresh", "victim"}
      /\ \A type \in {"read", "write", "refresh"} :
           d.requests[type] = ReadWriteRefresh[type]
      /\ "victim" \in DOMAIN d.requests =>
           /\ d.requests.victim = "VRR"
           /\ d.lambdas.preq["VRR"] = [level |-> "bank", need |-> "RequireBankClosed"]
      /\ d.opening = {"ACT"} /\ d.closing = {"PRE", "PREA", "RDA", "WRA"}
      /\ Level(d, "bank") = d.depth
      /\ d.ranks # {} => Level(d, l) = 2

(* Two commands are bound by a line of the table if they name the same node  *)
(* of its level, or, for a sibling line, two nodes with one parent.          *)
Binds(d, line, a, b) ==
    LET l == Level(d, line.level)
        m == Node(a, l)
        n == Node(b, l)
    IN  IF line.sibling THEN m # n /\ Front(m) = Front(n)
        ELSE m = n /\ Last(m) >= 0
Bound(line, a, b) == Binds(Dram, line, a.addr, b.addr)

ConstraintKept(line, c) ==
    LET before == {j \in Earlier : issued[j].cmd = line.pre /\ Bound(line, issued[j], c)}
        nth    == {j \in before :
                     Cardinality({k \in before : k >= j}) = line.window}
    IN  \A j \in nth : c.clk >= issued[j].clk + line.lat

(* The timing of the device is kept between every two commands of the log,   *)
(* however many came in between and wherever in the tree their timers are,   *)
(* with the windowed lines read as "no fifth activation".                    *)
ConstraintsKept ==
    issued # <<>> =>
      \A line \in Dram.cons :
        line.post = Last(issued).cmd => ConstraintKept(line, Last(issued))

(* When a column command has the data bus. *)
AnyColumn == Columns \cup Columns16
ToData(d, cmd) == IF cmd \in Reads \cup Reads16 THEN d.t.nCL ELSE d.t.nCWL
OnBus(c) ==
    LET first == c.clk + ToData(Dram, c.cmd) IN first..(first + Dram.t.nBL - 1)
SameBus(d, a, b) ==
    LET l == Level(d, d.bus) IN Node(a, l) = Node(b, l)

(* A table that spaces the data: two column commands of banks on one bus are *)
(* bound by a line that lets the data of the first pass. Nothing else does.  *)
IsSpaced(d) ==
    /\ Level(d, d.bus) \in 1..d.depth
    /\ {d.t.nBL, d.t.nCL, d.t.nCWL} \subseteq Int
    /\ \A x \in AnyColumn \cap Commands(d) : d.scopeLevel[x] >= d.depth
    /\ \A x, y \in AnyColumn \cap Commands(d), a, b \in d.banks :
         SameBus(d, a, b) =>
           \E line \in d.cons :
             /\ line.pre = x /\ line.post = y /\ line.window = 1 /\ Binds(d, line, a, b)
             /\ line.lat + ToData(d, y) >= ToData(d, x) + d.t.nBL

(* The data of two column commands is never on one bus together.             *)
BusesKept ==
    issued # <<>> /\ Last(issued).cmd \in AnyColumn =>
      \A j \in Earlier :
        issued[j].cmd \in AnyColumn /\ SameBus(Dram, issued[j].addr, Last(issued).addr)
          => OnBus(issued[j]) \cap OnBus(Last(issued)) = {}

TimingKept == ConstraintsKept /\ BusesKept

(* No row is activated more often than the plugin's threshold without its    *)
(* victims being refreshed (or its rank, or the period of the table over),   *)
(* with the victim refresh competing with demand requests and refreshes, and *)
(* whatever accesses of its own the plugin adds.                             *)
Relieves(c, b, row) ==
    \/ c.cmd = "VRR" /\ BankOf(c.addr) = b /\ RowOf(c.addr) = row
    \/ c.cmd = "REFab" /\ Node(c.addr, 2) = Node(b, 2)
Period(t) == PluginClk(t) \div Plugin.period
Hammered(b, row) ==
    {j \in DOMAIN issued :
       /\ issued[j].cmd = "ACT" /\ BankOf(issued[j].addr) = b
       /\ RowOf(issued[j].addr) = row
       /\ Plugin.name \in {"Graphene", "Hydra"} => Period(issued[j].clk) = Period(clk)
       /\ ~\E k \in j..Len(issued) : Relieves(issued[k], b, row)}
AggressorsRelieved ==
    Plugin.name \in {"OracleRH", "TWiCe", "Graphene", "Hydra"} =>
      \A j \in DOMAIN issued :
        issued[j].cmd = "ACT" =>
          Cardinality(Hammered(BankOf(issued[j].addr), RowOf(issued[j].addr)))
            <= Plugin.threshold

(* RRS moves the rows it finds hot from one place in the bank to another,     *)
(* back, and on, over periods and evictions of the table: the data of every   *)
(* row is in the row the indirection table has for it.                        *)
Found(b, row) ==
    LET rit == tracker.rit[b]
    IN  tracker.holds[b][IF row \in DOMAIN rit THEN rit[row].dst ELSE row] = row
RowsFound ==
    Plugin.name = "RRS" =>
      \A b \in Banks, row \in 0..Plugin.rows : tracker.reswapped[b] \/ Found(b, row)

(* The log of commands is one the device allows: rows in turn, and in time.  *)
CommandsLegal == RowsRespected /\ TimingKept

(* What a RowHammer plugin is there for, and what it must not break: no row  *)
(* hammers its neighbours for too long, and no row is lost by being moved.   *)
RowsSafe == AggressorsRelieved /\ RowsFound

(* Every request of the trace is accepted and served in the end, whatever    *)
(* the write mode, the refused closings, the rows closed by refreshes and    *)
(* the requests with priority do to it.                                      *)
EveryRequestServed == <>Done
=============================================================================
