------------------------------ MODULE RowHammer ------------------------------
(***************************************************************************)
(* The RowHammer plugins of the generic controller.  Each is told the      *)
(* command about to be issued, and may send requests with priority:        *)
(* refreshes of the victims of a row, or accesses of its own.              *)
(***************************************************************************)
EXTENDS DRAMDevice

VARIABLES
  clk,      \* m_clk, the same in the device, the controller and refresh
  buf,      \* the controller's four buffers
  counts,   \* the activation table of the plugin, by bank
  spill,    \* m_spillover_counter (Graphene, RRS)
  tracker   \* the other tables of Hydra and RRS

pluginVars == <<counts, spill, tracker>>

(* Requests. *)

Request(id, type, addr, arrive) ==
    [id |-> id, type |-> type, addr |-> addr, arrive |-> arrive,
     final |-> Dram.requests[type]]

Plugin == sys.plugin
Opens(cmd) == cmd \in Dram.opening
                 /\ Dram.scopeLevel[cmd] = Dram.depth + 1
RefreshesRank(cmd) == cmd \in Dram.refreshing
                         /\ Dram.scope[cmd] = "rank"

Access(type, b, row, column) == Request(0, type, b \o <<row, column>>, -1)
PrioritySend(q, requests) == buf' = [q EXCEPT !.priority = @ \o requests]
Victim(addr, needed) ==
    IF needed THEN <<Request(0, "victim", addr, -1)>> ELSE <<>>

Put(table, row, entry) ==
    [x \in DOMAIN table \cup {row} |-> IF x = row THEN entry ELSE table[x]]
Without(table, row)    == [x \in DOMAIN table \ {row} |-> table[x]]
(* FAULT: the count is compared before this activation is added. *)
CountBefore(table, row) == table[row].act
Count(table, row)   == table[row].act + 1

(* What the plugins are configured with: those that refresh victims come    *)
(* with a device that can, and the tables have a size.                      *)
IsPlugin(p, d) ==
    /\ p.name \in {"PARA", "OracleRH", "TWiCe", "Graphene", "Hydra"} =>
         "victim" \in DOMAIN d.requests
    /\ p.name = "Hydra" =>
         /\ {p.lines, p.sets, p.groupSize} \subseteq Nat \ {0}
         /\ \A b \in d.banks : Node(b, 2) \in d.ranks
    /\ p.name = "RRS" => p.lines \in Nat /\ p.rows \in Nat

(* PARA throws a die at every activation. *)
Para(q, cmd, addr) ==
    /\ \E needed \in {FALSE, Opens(cmd)} : PrioritySend(q, Victim(addr, needed))
    /\ UNCHANGED pluginVars

(* OracleRH counts every row, from its first activation on, which it does   *)
(* not compare with the threshold.                                          *)
OracleRH(q, cmd, addr) ==
    LET b == BankOf(addr)
        row == RowOf(addr)
        known == row \in DOMAIN counts[b]
        full == known /\ Count(counts[b], row) >= Plugin.threshold
        entry == IF full THEN 0 ELSE IF known THEN Count(counts[b], row) ELSE 1
    IN  /\ PrioritySend(q, Victim(addr, Opens(cmd) /\ full))
        /\ counts' = CASE Opens(cmd) ->
                            [counts EXCEPT ![b] = Put(@, row, [act |-> entry])]
                       [] RefreshesRank(cmd) ->
                            [x \in DOMAIN counts |->
                               IF IsPrefix(Node(addr, 2), x) THEN <<>>
                               ELSE counts[x]]
                       [] OTHER -> counts
        /\ UNCHANGED <<spill, tracker>>

(* TWiCe ages the rows of all banks on every refresh of a rank, and forgets *)
(* those activated too seldom for their age.                                *)
Aged(table) ==
    LET kept == {x \in DOMAIN table :
                   table[x].act >= table[x].life * Plugin.pruning}
    IN  [x \in kept |-> [table[x] EXCEPT !.life = @ + 1]]

TWiCe(q, cmd, addr) ==
    LET b == BankOf(addr)
        row == RowOf(addr)
        known == row \in DOMAIN counts[b]
        full == known /\ Count(counts[b], row) >= Plugin.threshold
    IN  /\ PrioritySend(q, Victim(addr, Opens(cmd) /\ full))
        /\ counts' = CASE RefreshesRank(cmd) ->
                            [x \in DOMAIN counts |-> Aged(counts[x])]
                       [] Opens(cmd) /\ full ->
                            [counts EXCEPT ![b] = Without(@, row)]
                       [] Opens(cmd) /\ known /\ ~full ->
                            [counts EXCEPT ![b][row].act = @ + 1]
                       [] Opens(cmd) /\ ~known ->
                            [counts EXCEPT ![b] =
                                Put(@, row, [act |-> 1, life |-> 0])]
                       [] OTHER -> counts
        /\ UNCHANGED <<spill, tracker>>

(* The clock of a plugin, when its period is over: Graphene's and Hydra's    *)
(* runs one behind the controller's.  It may be over on a skipped cycle.     *)
PluginClk(t) == IF Plugin.name = "RRS" THEN t ELSE t - 1
ResetDue(t) == PluginClk(t) \div Plugin.period # PluginClk(clk) \div Plugin.period

(* Graphene keeps a fixed number of entries.  A row without one takes over   *)
(* any entry whose count is the spillover counter, or else raises that.      *)
Counted(t) == IF ResetDue(t)
              THEN [b \in DOMAIN counts |->
                      [x \in DOMAIN counts[b] |-> [act |-> 0]]]
              ELSE counts
Spilled(t) == IF ResetDue(t) THEN [b \in DOMAIN spill |-> 0] ELSE spill

Graphene(q, cmd, addr, t) ==
    LET table == Counted(t)
        limit == Spilled(t)
        b     == BankOf(addr)
        row   == RowOf(addr)
        known == Opens(cmd) /\ row \in DOMAIN table[b]
        full  == known /\ Count(table[b], row) >= Plugin.threshold
        free  == {x \in DOMAIN table[b] : table[b][x].act = limit[b]}
    IN  /\ PrioritySend(q, Victim(addr, full))
        /\ UNCHANGED tracker
        /\ \/ /\ ~Opens(cmd)
              /\ counts' = table /\ spill' = limit
           \/ /\ known
              /\ counts' = [table EXCEPT ![b][row].act =
                              IF full THEN limit[b] ELSE @ + 1]
              /\ spill' = limit
           \/ /\ Opens(cmd) /\ ~known /\ free = {}
              /\ counts' = table
              /\ spill' = [limit EXCEPT ![b] = @ + 1]
           \/ /\ Opens(cmd) /\ ~known
              /\ \E x \in free :
                   counts' = [table EXCEPT ![b] =
                                Put(Without(@, x), row, [act |-> limit[b] + 1])]
              /\ spill' = limit

(* Hydra counts activations by groups of rows, then row by row in a table    *)
(* (counts) that lives in the reserved rows of the DRAM itself, behind a     *)
(* cache of Plugin.ways entries a set.  Reserved rows have counters apart.   *)
CounterBits == IF Plugin.threshold <= 2 ^ 8 THEN 8 ELSE 16
RctPerLine  == 512 \div CounterBits
RctPerRow   == Plugin.lines * RctPerLine
RctRows     == (Plugin.rows \div RctPerLine + Plugin.lines - 1) \div Plugin.lines

(* generate_row_col_id: where the counter of a row is stored. *)
Counter(type, b, row) ==
    Access(type, b, row \div RctPerRow, 8 * ((row % RctPerRow) \div RctPerLine))

HydraTables == [group |-> [b \in Banks |-> <<>>], own |-> [b \in Banks |-> <<>>],
                cache |-> [s \in Ranks \X (0..Plugin.sets - 1) |-> <<>>]]

(* The entries the cache may evict for a new one. *)
Evictable(set) ==
    LET least == {x \in DOMAIN set : \A y \in DOMAIN set : set[x] <= set[y]}
    IN  IF Cardinality(DOMAIN set) < Plugin.ways THEN {}
        ELSE IF Plugin.policy = "RANDOM" THEN DOMAIN set ELSE least

(* An activation of a reserved row. *)
HydraOwn(q, now, b, row, addr) ==
    LET n    == 1 + (IF row \in DOMAIN now.own[b] THEN now.own[b][row] ELSE 0)
        full == n >= Plugin.threshold
    IN  /\ tracker' = [now EXCEPT !.own[b] =
                          IF full THEN Without(@, row) ELSE Put(@, row, n)]
        /\ PrioritySend(q, Victim(addr, full))

(* An activation in a group that has reached its threshold: the counters of  *)
(* the group are written the first time, that of the row is fetched unless   *)
(* the cache has it, and written back when it is evicted.                    *)
HydraRow(q, now, table, b, row, addr) ==
    LET g     == row \div Plugin.groupSize
        first == ~now.group[b][g].initialized
        start == [x \in g * Plugin.groupSize .. (g + 1) * Plugin.groupSize - 1 |->
                    [act |-> Plugin.groupThreshold]]
        setup == IF first THEN start @@ table[b] ELSE table[b]
        init  == [i \in 1..(IF first THEN Plugin.groupSize \div RctPerLine ELSE 0) |->
                    Counter("write", b, g * Plugin.groupSize + (i - 1) * RctPerLine)]
        key   == <<Node(b, 2), row % Plugin.sets>>
        set   == now.cache[key]
        tag   == <<b, row>>
        n     == setup[row].act + 1
        full  == n >= Plugin.threshold
        value == IF full THEN 0 ELSE n
        Recorded(left, asks) ==
            /\ tracker' = [now EXCEPT !.group[b][g].initialized = TRUE,
                                      !.cache[key] = Put(left, tag, value)]
            /\ PrioritySend(q, init \o asks \o Victim(addr, full))
    IN  /\ counts' = [table EXCEPT ![b] = Put(setup, row, [act |-> value])]
        /\ \/ tag \in DOMAIN set /\ Recorded(set, <<>>)
           \/ /\ tag \notin DOMAIN set /\ Evictable(set) = {}
              /\ Recorded(set, <<Counter("read", b, row)>>)
           \/ /\ tag \notin DOMAIN set
              /\ \E x \in Evictable(set) :
                   Recorded(Without(set, x), <<Counter("write", x[1], x[2]),
                                            Counter("read", b, row)>>)

Hydra(q, cmd, addr, t) ==
    LET now   == IF ResetDue(t) THEN HydraTables ELSE tracker
        table == IF ResetDue(t) THEN [x \in Banks |-> <<>>] ELSE counts
        b     == BankOf(addr)
        row   == RowOf(addr)
        g     == row \div Plugin.groupSize
        group == IF g \in DOMAIN now.group[b] THEN now.group[b][g]
                 ELSE [count |-> 0, initialized |-> FALSE]
    IN  /\ UNCHANGED spill
        /\ \/ /\ ~Opens(cmd)
              /\ tracker' = now /\ counts' = table /\ PrioritySend(q, <<>>)
           \/ /\ Opens(cmd) /\ row < RctRows
              /\ HydraOwn(q, now, b, row, addr) /\ counts' = table
           \/ /\ Opens(cmd) /\ row >= RctRows /\ group.count < Plugin.groupThreshold
              /\ tracker' = [now EXCEPT !.group[b] =
                                Put(@, g, [group EXCEPT !.count = @ + 1])]
              /\ counts' = table /\ PrioritySend(q, <<>>)
           \/ /\ Opens(cmd) /\ row >= RctRows /\ group.count >= Plugin.groupThreshold
              /\ HydraRow(q, [now EXCEPT !.group[b] = Put(@, g, group)],
                          table, b, row, addr)

(* RRS keeps hot rows (counts, as Graphene's but empty at first) and moves a  *)
(* row that reaches a multiple of the threshold elsewhere in its bank.  The   *)
(* row indirection table rit of LinearMapperBase_with_rit pairs the rows      *)
(* swapped, locked until the period is over.  holds is the data in each       *)
(* physical row, by the row it was written to: it is moved by the swaps;      *)
(* reswapped tells whether the bank has seen a second swap in one period.     *)
RRSTables == [rit       |-> [b \in Banks |-> <<>>],
              holds     |-> [b \in Banks |-> [row \in 0..Plugin.rows |-> row]],
              reswapped |-> [b \in Banks |-> FALSE]]

(* apply_indirection, to an address the front end names. *)
Mapped(addr) ==
    LET rit == tracker.rit[BankOf(addr)]
    IN  IF Plugin.name = "RRS" /\ RowOf(addr) \in DOMAIN rit
        THEN [addr EXCEPT ![Dram.depth + 1] = rit[@].dst] ELSE addr

Paired(rit, x, y)   == Put(Put(rit, y, [dst |-> x, lock |-> TRUE]),
                           x, [dst |-> y, lock |-> TRUE])
Unpaired(rit, move) == [x \in DOMAIN rit \ Range(move) |-> rit[x]]

(* get_unswap_pair, when the table is full; no move otherwise. *)
Unswaps(rit, hot) ==
    IF Cardinality(DOMAIN rit) < Plugin.ritEntries THEN {<<>>}
    ELSE {<<x, rit[x].dst>> : x \in {y \in DOMAIN rit :
             ~rit[y].lock /\ y \notin hot /\ rit[y].dst \notin hot}}
(* get_rand_row.  The distribution includes the number of rows itself. *)
RandRows(rit, hot, row) == 0..Plugin.rows \ (hot \cup DOMAIN rit \cup {row})

(* What may become of the table when row is to be swapped, with the moves    *)
(* issued for it: a row not swapped yet, one swapped in an earlier period,   *)
(* one swapped in this period, whose partner is moved as well.               *)
Moves(u, rest) == IF u = <<>> THEN rest ELSE <<u>> \o rest
FirstSwaps(rit, hot, row) ==
    UNION {{[rit |-> Paired(Unpaired(rit, u), row, d), moves |-> Moves(u, <<<<row, d>>>>)] :
              d \in RandRows(Unpaired(rit, u), hot, row)} : u \in Unswaps(rit, hot)}
LaterSwaps(rit, hot, row) ==
    LET pair == <<row, rit[row].dst>>
    IN  {[rit |-> Paired(Unpaired(rit, pair), row, d), moves |-> <<pair, <<row, d>>>>] :
           d \in RandRows(rit, hot, row)}
Reswaps(rit, hot, row) ==
    LET prev == rit[row].dst
        Both(left, u) ==
          {[rit |-> Paired(Paired(Unpaired(left, <<row, prev>>), row, d[2]), prev, d[1]),
            moves |-> Moves(u, <<<<row, d[1]>>, <<prev, d[2]>>>>)] :
             d \in RandRows(left, hot, row) \X RandRows(left, hot, row)}
    IN  UNION {Both(Unpaired(rit, u), u) : u \in Unswaps(rit, hot)}
IsLocked(rit, row) == row \in DOMAIN rit /\ rit[row].lock
Swaps(rit, hot, row) ==
    CASE row \notin DOMAIN rit -> FirstSwaps(rit, hot, row)
      [] IsLocked(rit, row)    -> Reswaps(rit, hot, row)
      [] OTHER                 -> LaterSwaps(rit, hot, row)

(* issue_swap: both rows are read, then written into each other. *)
SwapRequests(b, move) ==
    LET Lines(type, row) ==
          [i \in 1..Plugin.lines |-> Access(type, b, row, 8 * (i - 1))]
    IN  Lines("read", move[1]) \o Lines("read", move[2])
          \o Lines("write", move[2]) \o Lines("write", move[1])
Swapped(holds, move) ==
    [holds EXCEPT ![move[1]] = holds[move[2]], ![move[2]] = holds[move[1]]]

(* The hot row is checked once its count is in the table. *)
RRSCheck(q, now, table, b, row) ==
    IF table[row].act % Plugin.threshold # 0
    THEN tracker' = now /\ PrioritySend(q, <<>>)
    ELSE \E s \in Swaps(now.rit[b], DOMAIN table, row) :
           /\ tracker' = [now EXCEPT !.rit[b] = s.rit,
                                     !.holds[b] = FoldLeft(Swapped, @, s.moves),
                                     !.reswapped[b] = @ \/ IsLocked(now.rit[b], row)]
           /\ PrioritySend(q, FlattenSeq([i \in DOMAIN s.moves |->
                                            SwapRequests(b, s.moves[i])]))

Unlocked(now) ==
    [now EXCEPT !.rit = [b \in Banks |->
        [x \in DOMAIN @[b] |-> [@[b][x] EXCEPT !.lock = FALSE]]]]

RRS(q, cmd, addr, t) ==
    LET now   == IF ResetDue(t) THEN Unlocked(tracker) ELSE tracker
        hot   == IF ResetDue(t) THEN [b \in Banks |-> <<>>] ELSE counts
        limit == Spilled(t)
        b     == BankOf(addr)
        row   == RowOf(addr)
        known == row \in DOMAIN hot[b]
        room  == Cardinality(DOMAIN hot[b]) < Plugin.entries
        free  == {x \in DOMAIN hot[b] : hot[b][x].act = limit[b]}
        Hot(table) == /\ counts' = [hot EXCEPT ![b] = table]
                      /\ spill' = limit
                      /\ RRSCheck(q, now, table, b, row)
    IN  \/ /\ ~Opens(cmd)
           /\ counts' = hot /\ spill' = limit
           /\ tracker' = now /\ PrioritySend(q, <<>>)
        \/ Opens(cmd) /\ known /\ Hot([hot[b] EXCEPT ![row].act = @ + 1])
        \/ Opens(cmd) /\ ~known /\ room /\ Hot(Put(hot[b], row, [act |-> 1]))
        \/ /\ Opens(cmd) /\ ~known /\ ~room
           /\ \E x \in free : Hot(Put(Without(hot[b], x), row, [act |-> limit[b] + 1]))
        \/ /\ Opens(cmd) /\ ~known /\ ~room /\ free = {}
           /\ counts' = hot /\ spill' = [limit EXCEPT ![b] = @ + 1]
           /\ tracker' = now /\ PrioritySend(q, <<>>)

-----------------------------------------------------------------------------
(* What the plugin of the configuration does at cycle t; cmd is None when no  *)
(* command is issued. *)
Watch(q, cmd, addr, t) ==
    CASE Plugin.name = "PARA"     -> Para(q, cmd, addr)
      [] Plugin.name = "OracleRH" -> OracleRH(q, cmd, addr)
      [] Plugin.name = "TWiCe"    -> TWiCe(q, cmd, addr)
      [] Plugin.name = "Graphene" -> Graphene(q, cmd, addr, t)
      [] Plugin.name = "Hydra"    -> Hydra(q, cmd, addr, t)
      [] Plugin.name = "RRS"      -> RRS(q, cmd, addr, t)
      [] OTHER                    -> PrioritySend(q, <<>>) /\ UNCHANGED pluginVars

PluginInit ==
    /\ counts = [b \in Banks |->
                   IF Plugin.name = "Graphene"
                   THEN [x \in -(Plugin.entries)..-1 |-> [act |-> 0]] ELSE <<>>]
    /\ spill = [b \in Banks |-> 0]
    /\ tracker = CASE Plugin.name = "Hydra" -> HydraTables
                   [] Plugin.name = "RRS"   -> RRSTables
                   [] OTHER                 -> <<>>
=============================================================================
