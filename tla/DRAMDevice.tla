----------------------------- MODULE DRAMDevice ------------------------------
(***************************************************************************)
(* One channel of a DRAM device (dram/node.h), with the tables of          *)
(* DRAMStandards: its node tree, the state and the timers of the nodes, and *)
(* what a command requires and does.                                       *)
(*                                                                         *)
(* A node is named by its path, the ids from the channel down; an address  *)
(* is such a path followed by a row and a column, with -1 where a request  *)
(* names no node.                                                          *)
(***************************************************************************)
EXTENDS DRAMStandards, SequencesExt

CONSTANT Configs  \* what is simulated: a sequence of records, see MCGenericDRAM

ASSUME ConfigsAssumption == Configs # <<>>

VARIABLES
  sys,      \* what is simulated, built once at the start: one of Configs
  ready,    \* m_cmd_ready_clk of every node
  history,  \* m_cmd_history of every node, for the windowed commands
  bank,     \* m_state of every bank
  rows,     \* m_row_state of every bank: the rows it holds open
  synced    \* m_final_synced_cycle of every rank (LPDDR5)

deviceVars == <<ready, history, bank, rows, synced>>

None == "none"

-----------------------------------------------------------------------------
(* The node tree. *)

(* A device of the standard d with count[l] nodes at level l: its nodes, and *)
(* its timing constraints by level and preceding command (m_timing_cons).    *)
Level(d, name) ==
    IF name \in {"row", "column"} THEN Len(d.levels) + 1
    ELSE CHOOSE l \in DOMAIN d.levels : d.levels[l] = name

Paths(count, l) ==
    {p \in [1..l -> 0..3] : \A i \in 1..l : p[i] < count[i]}

Build(d, count) ==
    LET depth == Len(d.levels)
        table == [l \in 1..depth |->
                    [cmd \in DOMAIN d.scope |->
                       {r \in d.cons : d.levels[l] = r.level /\ r.pre = cmd}]]
    IN  d @@ [depth |-> depth,
              scopeLevel |-> [cmd \in DOMAIN d.scope |-> Level(d, d.scope[cmd])],
              nodes |-> UNION {Paths(count, l) : l \in 1..depth},
              banks |-> Paths(count, depth),
              ranks |-> IF d.levels[2] = "rank" THEN Paths(count, 2) ELSE {},
              table |-> table,
              windowed |-> [l \in 1..depth |->
                              {cmd \in DOMAIN d.scope :
                                 \E r \in table[l][cmd] : r.window > 1}]]

(* The commands a prerequisite may answer for the final command f.          *)
Steps(d, f) ==
    LET need == d.lambdas.preq[f].need
    IN  CASE need = "RequireRowOpen"        -> {"ACT", "PRE", f}
          [] need = "RequireBankClosed"     -> {"PRE", f}
          [] need = "RequireAllBanksClosed" -> {"PREA", f}
          [] OTHER -> {"ACT-1", "ACT-2", "PRE", need, f}

(* The commands a device without ranks, whose refresh manager asks for       *)
(* nothing, or with them is ever given.                                      *)
Asked(d)    == DOMAIN d.requests \ (IF d.ranks = {} THEN {"refresh"} ELSE {})
Commands(d) == UNION {Steps(d, d.requests[type]) : type \in Asked(d)}

(* What Build makes of a standard: a tree with every prefix of a bank's path *)
(* and of a rank's, ...                                                      *)
IsTree(d) ==
    /\ d.depth \in Nat /\ d.depth >= 2
    /\ \A n \in d.nodes : n \in Seq(0..3) /\ Len(n) \in 1..d.depth
    /\ d.banks = {n \in d.nodes : Len(n) = d.depth}
    /\ d.ranks \subseteq {n \in d.nodes : Len(n) = 2}
    /\ \A n \in d.nodes, l \in 1..d.depth :
         l <= Len(n) => SubSeq(n, 1, l) \in d.nodes
    /\ IsFiniteSet(d.ranks)
    /\ \A r \in 1..Cardinality(d.ranks) : <<0, r - 1>> \in d.ranks

(* ... lines that bind a command at the levels it passes on its way down,    *)
(* with no window beside the path, ...                                       *)
IsTable(d) ==
    /\ IsFiniteSet(d.cons)
    /\ \A line \in d.cons :
         /\ line.pre \in DOMAIN d.scope /\ line.post \in DOMAIN d.scope
         /\ line.lat \in Int /\ line.window \in 1..4 /\ line.sibling \in BOOLEAN
         /\ line.sibling => line.window = 1
         /\ Level(d, line.level) \in 1..d.depth
         /\ d.levels[Level(d, line.level)] = line.level
         /\ line.post \in Commands(d) =>
              Level(d, line.level) <= d.scopeLevel[line.post]
    /\ \A l \in 1..d.depth, cmd \in DOMAIN d.scope :
         d.table[l][cmd] = {line \in d.cons : d.levels[l] = line.level /\ line.pre = cmd}
    /\ \A l \in 1..d.depth :
         d.windowed[l] = {cmd \in DOMAIN d.scope :
                            \E line \in d.table[l][cmd] : line.window > 1}

(* ... and requests whose steps are commands of the device, those of a       *)
(* refresh no deeper than a rank.                                            *)
IsDevice(d) ==
    /\ IsTree(d) /\ IsTable(d)
    /\ {"read", "write", "refresh"} \subseteq DOMAIN d.requests
    /\ \A cmd \in Commands(d) : cmd \in DOMAIN d.scope /\ d.scopeLevel[cmd] \in Nat \ {0}
    /\ \A cmd \in Steps(d, d.requests["refresh"]) : d.scopeLevel[cmd] <= 2
    /\ None \notin d.opening
    /\ d.read_latency \in Int /\ d.t.nREFI \in Int

Dram  == sys.device
Nodes == Dram.nodes
Banks == Dram.banks
Ranks == Dram.ranks
LevelOf(name) == Level(Dram, name)

Node(addr, l) == SubSeq(addr, 1, l)
BankOf(addr)  == Node(addr, Dram.depth)
RowOf(addr)   == addr[Dram.depth + 1]
BanksBelow(n) == {b \in Banks : IsPrefix(n, b)}

(* check_ready: the timers on the way down to the level of the command.    *)
Path(cmd, addr) ==
    {Node(addr, l) : l \in {k \in 1..Dram.depth : k <= Dram.scopeLevel[cmd]
                                                   /\ addr[k] >= 0}}
ReadyAt(cmd, addr) == Max({ready[n][cmd] : n \in Path(cmd, addr)})
CheckReady(cmd, addr, t) == ReadyAt(cmd, addr) <= t

(* update_timing.  Every child of a node on the path is visited: the one   *)
(* the address names goes on, the others take the sibling constraints.     *)
Visited(n, addr)  == IsPrefix(Front(n), addr)
Target(n, addr)   == IsPrefix(n, addr)
(* FAULT: the entry of this command is not in the history yet. *)
PushedAfter(n, cmd, t) == IF cmd \in DOMAIN history[n]
                          THEN history[n][cmd] ELSE <<t>>
Pushed(n, cmd, t) == IF cmd \in DOMAIN history[n]
                     THEN SubSeq(<<t>> \o history[n][cmd], 1, 4) ELSE <<t>>

Delays(n, cmd, addr, t) ==
    LET past == IF Target(n, addr) THEN Pushed(n, cmd, t) ELSE <<t>>
    IN  {[cmd |-> r.post, at |-> past[r.window] + r.lat] :
           r \in {x \in Dram.table[Len(n)][cmd] :
                     /\ x.sibling # Target(n, addr)
                     /\ past[x.window] >= 0}}

UpdateTiming(cmd, addr, t) ==
    /\ ready' = [n \in Nodes |->
          IF ~Visited(n, addr) THEN ready[n]
          ELSE LET delays == Delays(n, cmd, addr, t)
               IN  [f \in DOMAIN ready[n] |->
                      Max({ready[n][f]}
                            \cup {d.at : d \in {x \in delays : x.cmd = f}})]]
    /\ history' = [n \in Nodes |->
          IF Target(n, addr) /\ cmd \in DOMAIN history[n]
          THEN [history[n] EXCEPT ![cmd] = Pushed(n, cmd, t)] ELSE history[n]]

(* update_states: the action of the command at the level that has one.     *)
Action(cmd) == Dram.lambdas.action[cmd]
Acts(cmd, do) ==
    cmd \in DOMAIN Dram.lambdas.action /\ Action(cmd).do = do
Closes(cmd, addr) ==
    IF Acts(cmd, "Close") \/ Acts(cmd, "CloseAll")
    THEN BanksBelow(Node(addr, LevelOf(Action(cmd).level))) ELSE {}

UpdateStates(cmd, addr, t) ==
    LET opens  == Acts(cmd, "Open") \/ Acts(cmd, "PreOpen")
        target == BankOf(addr)
    IN  /\ bank' = [b \in Banks |->
              CASE b \in Closes(cmd, addr)   -> "Closed"
                [] opens /\ b = target       ->
                     IF Acts(cmd, "Open") THEN "Opened" ELSE "Pre-Opened"
                [] OTHER                     -> bank[b]]
        /\ rows' = [b \in Banks |->
              CASE b \in Closes(cmd, addr)   -> {}
                [] opens /\ b = target       -> rows[b] \cup {RowOf(addr)}
                [] OTHER                     -> rows[b]]
        /\ synced' = [r \in Ranks |->
              IF IsPrefix(r, addr) /\ Dram.opening = {"ACT-2"}
                   /\ cmd \in DOMAIN LPDDR5Synced
              THEN t + LPDDR5Synced[cmd] ELSE synced[r]]

(* get_preq_command at cycle t. *)
SyncedAt(addr, t) == synced[Node(addr, LevelOf("rank"))] >= t

RequireRowOpen(final, addr) ==
    LET b == BankOf(addr)
    IN  CASE bank[b] = "Closed"                            -> "ACT"
          [] bank[b] = "Opened" /\ RowOf(addr) \in rows[b] -> final
          [] OTHER                                         -> "PRE"

RequireClockSynced(final, cas, addr, t) ==
    LET b == BankOf(addr)
    IN  CASE bank[b] = "Closed"                               -> "ACT-1"
          [] bank[b] = "Pre-Opened"                           -> "ACT-2"
          [] bank[b] = "Opened" /\ RowOf(addr) \notin rows[b] -> "PRE"
          [] OTHER -> IF SyncedAt(addr, t) THEN final ELSE cas

RequireClosed(final, n, otherwise) ==
    IF \A b \in BanksBelow(n) : bank[b] = "Closed" THEN final ELSE otherwise

Preq(r, t) ==
    LET p == Dram.lambdas.preq[r.final]
        n == Node(r.addr, LevelOf(p.level))
    IN  CASE p.need = "RequireRowOpen"        -> RequireRowOpen(r.final, r.addr)
          [] p.need = "RequireBankClosed"     -> RequireClosed(r.final, n, "PRE")
          [] p.need = "RequireAllBanksClosed" -> RequireClosed(r.final, n, "PREA")
          [] OTHER -> RequireClockSynced(r.final, p.need, r.addr, t)


DeviceInit ==
    /\ ready = [n \in Nodes |-> [f \in DOMAIN Dram.scope |-> -1]]
    /\ history = [n \in Nodes |->
                    [f \in Dram.windowed[Len(n)] |-> <<-1, -1, -1, -1>>]]
    /\ bank = [b \in Banks |-> "Closed"]
    /\ rows = [b \in Banks |-> {}]
    /\ synced = [r \in Ranks |-> -1]
=============================================================================
