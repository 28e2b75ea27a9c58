---------------------------- MODULE MCGenericDRAM ----------------------------
(***************************************************************************)
(* The generic memory system with every DRAM standard, and with each of    *)
(* the RowHammer plugins on the one standard that has a victim refresh.    *)
(* A configuration gives the device, how many nodes each level has, the    *)
(* plugin, the requests of the front end in order, how many refreshes are  *)
(* seen, how long before them the front end may wake up, and how many of   *)
(* the requests come on the first cycle (the others come at any time).     *)
(***************************************************************************)
EXTENDS GenericDRAM

At(device, count, trace, burst, refreshes, leads) ==
    [device |-> Build(device, count), trace |-> trace, burst |-> burst,
     refreshes |-> refreshes, window |-> Len(trace), leads |-> leads, plugin |-> [name |-> None, period |-> 1]]

With(plugin, config) == [config EXCEPT !.plugin = plugin @@ [period |-> 1]]

R(addr) == [type |-> "read", addr |-> addr]
W(addr) == [type |-> "write", addr |-> addr]

(* <<channel, rank, bank group, bank, row, column>> *)
In(r, g, b, row) == <<0, r, g, b, row, 0>>

TestDDR3 ==
    At(DDR3(DDR3Timings(8, 2048)), <<1, 2, 2>>,
       <<R(<<0, 0, 0, 0, 0>>), R(<<0, 1, 0, 1, 0>>), W(<<0, 0, 0, 1, 0>>)>>,
       1, 1, {30})
TestDDR4 ==
    At(DDR4(DDR4Timings(8, 4096)), <<1, 1, 3, 2>>,
       <<R(In(0, 0, 0, 0)), R(In(0, 1, 0, 0)), W(In(0, 2, 0, 0)),
         R(In(0, 1, 1, 0)), W(In(0, 0, 1, 0)), R(In(0, 2, 1, 0))>>, 5, 1, {40})
TestDDR5 ==
    At(DDR5(DDR5Timings(8, 8192)), <<1, 1, 2, 2>>,
       <<W(In(0, 0, 0, 0)), R(In(0, 0, 0, 1)), R(In(0, 1, 0, 0))>>, 1, 1, {60})
TestLPDDR5 ==
    At(LPDDR5(LPDDR5Timings(2048)), <<1, 1, 2, 2>>,
       <<R(In(0, 0, 0, 0)), R(In(0, 0, 0, 1)), R(In(0, 1, 0, 0))>>, 1, 1, {40})
TestHBM ==
    At(HBM(HBMTimings(2048)), <<1, 2, 2>>,
       <<R(<<0, 0, 0, 0, 0>>), W(<<0, 1, 0, 0, 0>>), R(<<0, 0, 0, 1, 0>>)>>, 0, 0, {})
TestHBM2 ==
    At(HBM2(HBM2Timings(2048)), <<1, 2, 2, 1>>,
       <<R(In(0, 0, 0, 0)), W(In(1, 0, 0, 0)), W(In(1, 1, 0, 0)),
         W(In(0, 0, 0, 1)), R(In(1, 0, 0, 1))>>, 2, 0, {})
TestHBM3 ==
    At(HBM3(HBM3Timings(4096)), <<1, 2, 2, 1>>,
       <<W(In(1, 1, 0, 0)), R(In(1, 1, 0, 2)), W(In(0, 0, 0, 0)),
         R(In(1, 1, 0, 0)), W(In(1, 1, 0, 1))>>, 2, 0, {})
TestGDDR6 ==
    At(GDDR6(GDDR6Timings(8, 8192)), <<1, 2, 2>>,
       <<R(<<0, 0, 0, 0, 0>>), W(<<0, 1, 0, 0, 0>>), R(<<0, 0, 0, 1, 0>>)>>, 0, 0, {})

(* Two or three rows of one bank, activated in turn. *)
Rows(seq) == [i \in DOMAIN seq |-> R(In(0, 0, 0, seq[i]))]
Elsewhere(n) == [i \in 1..n |-> R(In(0, 0, 1, i))]
Hammer(rowsInTurn, refreshes) ==
    At(DDR4VRR(VRRTimings(8, 4096, 2)), <<1, 1, 1, 2>>,
       rowsInTurn, 1, refreshes, {50})

TestPlugins ==
    << With([name |-> "PARA"], Hammer(Rows(<<0, 1>>), 1)),
       With([name |-> "OracleRH", threshold |-> 2], Hammer(Rows(<<0, 1, 0, 1>>), 1)),
       With([name |-> "TWiCe", threshold |-> 2, pruning |-> 2], Hammer(Rows(<<0, 1, 0, 1, 0>>), 2)),
       With([name |-> "Graphene", threshold |-> 2, entries |-> 2, period |-> 600],
            Hammer(Rows(<<0, 1, 2, 0, 1>>), 1)) >>

(* Hydra with the counters of 128 rows in the reserved row 0, behind a cache *)
(* of one entry; both policies.                                              *)
HydraOf(policy, threshold, period) ==
    [name |-> "Hydra", rows |-> 128, lines |-> 1, groupSize |-> 64,
     groupThreshold |-> 1, threshold |-> threshold, sets |-> 1, ways |-> 1,
     policy |-> policy, period |-> period]

(* RRS with a table of at most two pairs, in a bank of few rows. *)
RRSOf(threshold, entries, ritEntries, period) ==
    [name |-> "RRS", rows |-> 6, lines |-> 1, threshold |-> threshold,
     entries |-> entries, ritEntries |-> ritEntries, period |-> period]

(* A front end that waits for each of its reads. *)
Chase(rowsInTurn) ==
    [Hammer(rowsInTurn, 0) EXCEPT !.burst = Len(rowsInTurn), !.window = 1]

TestTrackers ==
    << With(HydraOf("RANDOM", 3, 1000), Hammer(Rows(<<64, 65, 64, 65>>), 0)),
       With(HydraOf("MIN_COUNT", 2, 300), Hammer(Rows(<<64, 65, 64, 65>>), 0)),
       With(RRSOf(3, 4, 6, 1150), Chase(Rows(<<0, 1, 0, 1, 0, 0, 2, 0>>))),
       With(RRSOf(3, 4, 2, 900),
            Chase(Rows(<<0, 1, 2, 0, 1, 0>>) \o Elsewhere(4) \o Rows(<<1, 2, 1, 2, 1>>)
                    \o Elsewhere(6) \o Rows(<<1, 2, 1, 2, 1>>))) >>

MCConfigs ==
    <<TestDDR3, TestDDR4, TestDDR5, TestLPDDR5, TestHBM, TestHBM2, TestHBM3,
      TestGDDR6>> \o TestPlugins \o TestTrackers

(* All of these space the data, and all but LPDDR5 open rows in one step.   *)
ASSUME ConditionsMet ==
  \A i \in DOMAIN MCConfigs :
    /\ IsSpaced(MCConfigs[i].device)
    /\ OneStep(MCConfigs[i].device) <=> i # 4
=============================================================================
