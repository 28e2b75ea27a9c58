---------------------------- MODULE DRAMStandards ----------------------------
(***************************************************************************)
(* The DRAM standards of the AiM simulator's generic memory system         *)
(* (dram/impl/*.cpp).  A standard is a record: the levels of its node      *)
(* tree down to the bank, its commands with the level each stops at, what  *)
(* each request type asks for in the end, the prerequisites and actions of *)
(* its commands, and the table of its timing constraints.                  *)
(*                                                                         *)
(* One speed bin of every standard is given.  Commands that no controller  *)
(* or plugin of the repository sends to a generic device (same-bank        *)
(* refreshes, refresh management, the AiM commands of GDDR6) are left out, *)
(* and so are the constraints that name only them.                         *)
(***************************************************************************)
EXTENDS Integers, Sequences, FiniteSets, TLC

Reads   == {"RD", "RDA"}
Writes  == {"WR", "WRA"}
Columns == Reads \cup Writes

(* One line of a table: every command of "pre" delays every one of "post"  *)
(* by "lat" cycles.  The delay counts from the window-th last "pre", and a *)
(* sibling constraint binds the other nodes of the level instead.          *)
Row(level, pre, post, lat, window, sibling) ==
    {[level |-> level, pre |-> p, post |-> f, lat |-> lat,
      window |-> window, sibling |-> sibling] : p \in pre, f \in post}

C(level, pre, post, lat) == Row(level, pre, post, lat, 1, FALSE)
W4(level, pre, post, lat) == Row(level, pre, post, lat, 4, FALSE)
S(level, pre, post, lat) == Row(level, pre, post, lat, 1, TRUE)

(* base/utils.cpp: nanoseconds to cycles.  Quotient(p, k, d) is p * k \div  *)
(* d, computed without the product.                                        *)
Quotient(p, k, d) == (p \div d) * k + ((p % d) * k) \div d
JEDEC_rounding(ns, tCK) == (Quotient(ns * 1000, 1000, tCK) + 974) \div 1000
JEDEC_rounding_DDR5(ns, tCK) == (Quotient(ns * 1000, 997, tCK) + 1000) \div 1000
TCKps(rate) == 1000000 \div (rate \div 2)

(* A row of the speed-bin tables by its rate, DQ width or density.         *)
Pick(keys, key, row) == row[CHOOSE i \in DOMAIN keys : keys[i] = key]

(* Commands by the level at which the recursion over the tree stops.       *)
Scopes(levels) ==
    [c \in UNION {levels[l] : l \in DOMAIN levels} |->
        CHOOSE l \in DOMAIN levels : c \in levels[l]]

(* What every standard but LPDDR5 does to its banks and asks of them.      *)
RowBuffer(l) ==
    [action |-> [ACT  |-> [level |-> "bank", do |-> "Open"],
                 PRE  |-> [level |-> "bank", do |-> "Close"],
                 RDA  |-> [level |-> "bank", do |-> "Close"],
                 WRA  |-> [level |-> "bank", do |-> "Close"],
                 PREA |-> [level |-> l, do |-> "CloseAll"]],
     preq |-> [RD    |-> [level |-> "bank", need |-> "RequireRowOpen"],
               WR    |-> [level |-> "bank", need |-> "RequireRowOpen"],
               REFab |-> [level |-> l, need |-> "RequireAllBanksClosed"]]]

ReadWriteRefresh == [read |-> "RD", write |-> "WR", refresh |-> "REFab"]

-----------------------------------------------------------------------------
(* DDR3, DDR4, DDR4 with victim-row refresh, DDR5 *)

DDR3_1600K ==
    [nBL |-> 4, nCL |-> 11, nRCD |-> 11, nRP |-> 11, nRAS |-> 28, nRC |-> 39,
     nWR |-> 12, nRTP |-> 6, nCWL |-> 9, nCCDS |-> 4, nWTRS |-> 6, nCS |-> 2]

DDR3Timings(dq, density) ==
    LET tCK == TCKps(1600)
    IN  DDR3_1600K @@
        [nRRDS |-> Pick(<<4, 8, 16>>, dq, <<5, 5, 6>>),
         nFAW  |-> Pick(<<4, 8, 16>>, dq, <<24, 24, 32>>),
         nRFC  |-> JEDEC_rounding(Pick(<<1024, 2048, 4096, 8192>>, density,
                                       <<110, 160, 260, 350>>), tCK),
         nREFI |-> JEDEC_rounding(7800, tCK)]

DDR4_1600K ==
    [nBL |-> 4, nCL |-> 11, nRCD |-> 11, nRP |-> 11, nRAS |-> 28, nRC |-> 39,
     nWR |-> 12, nRTP |-> 6, nCWL |-> 9, nCCDS |-> 4, nCCDL |-> 5,
     nWTRS |-> 2, nWTRL |-> 6, nCS |-> 2]

DDR4Timings(dq, density) ==
    LET tCK == TCKps(1600)
    IN  DDR4_1600K @@
        [nRRDS |-> Pick(<<4, 8, 16>>, dq, <<4, 4, 5>>),
         nRRDL |-> Pick(<<4, 8, 16>>, dq, <<5, 5, 6>>),
         nFAW  |-> Pick(<<4, 8, 16>>, dq, <<16, 20, 28>>),
         nRFC  |-> JEDEC_rounding(Pick(<<2048, 4096, 8192, 16384>>, density,
                                       <<160, 260, 360, 550>>), tCK),
         nREFI |-> JEDEC_rounding(7800, tCK)]

VRRTimings(dq, density, radius) ==
    DDR4Timings(dq, density)
        @@ [nVRR |-> JEDEC_rounding(70 * radius, TCKps(1600))]

DDR5_3200AN ==
    [nBL |-> 8, nCL |-> 24, nRCD |-> 24, nRP |-> 24, nRAS |-> 52, nRC |-> 75,
     nWR |-> 48, nRTP |-> 12, nCWL |-> 22, nCCDS |-> 8, nCCDS_WR |-> 8,
     nCCDS_WTR |-> 22 + 8 + 4, nCCDL |-> 8, nCCDL_WTR |-> 22 + 8 + 16,
     nRRDS |-> 8, nRRDL |-> 5, nCS |-> 2]

DDR5Timings(dq, density) ==
    LET tCK == TCKps(3200)
        densities == <<8192, 16384, 32768>>
    IN  DDR5_3200AN @@
        [nCCDL_WR |-> IF dq = 4 THEN 32 ELSE 16,
         nFAW |-> Pick(<<4, 8, 16>>, dq, <<40, 32, 32>>),
         nRFC |-> JEDEC_rounding_DDR5(
                      Pick(densities, density, <<195, 295, 410>>), tCK),
         nREFI |-> JEDEC_rounding_DDR5(3900, tCK)]

WriteToPre(t) == t.nCWL + t.nBL + t.nWR
ReadToWrite(t) == t.nCL + t.nBL + 2 - t.nCWL

(* The constraints the DDR standards share.  "acts" are the commands that  *)
(* open or refresh a row of a bank.                                        *)
DDRRankRows(t, acts, readToWrite, writeToRead, writeToWrite) ==
    UNION {
      C("channel", Reads, Reads, t.nBL),
      C("channel", Writes, Writes, t.nBL),
      C("rank", Reads, Reads, t.nCCDS),
      C("rank", Writes, Writes, writeToWrite),
      C("rank", Reads, Writes, readToWrite),
      C("rank", Writes, Reads, writeToRead),
      S("rank", Reads, Columns, t.nBL + t.nCS),
      S("rank", Writes, Reads, t.nCL + t.nBL + t.nCS - t.nCWL),
      C("rank", {"RD"}, {"PREA"}, t.nRTP),
      C("rank", {"WR"}, {"PREA"}, WriteToPre(t)),
      C("rank", acts, acts, t.nRRDS),
      W4("rank", {"ACT"}, {"ACT"}, t.nFAW),
      C("rank", {"ACT"}, {"PREA"}, t.nRAS),
      C("rank", {"PREA"}, {"ACT"}, t.nRP),
      C("rank", {"ACT"}, {"REFab"}, t.nRC),
      C("rank", {"PRE", "PREA"}, {"REFab"}, t.nRP),
      C("rank", {"RDA"}, {"REFab"}, t.nRP + t.nRTP),
      C("rank", {"WRA"}, {"REFab"}, WriteToPre(t) + t.nRP),
      C("rank", {"REFab"}, acts, t.nRFC)}

DDRBankRows(t, acts) ==
    UNION {
      C("bank", {"ACT"}, acts, t.nRC),
      C("bank", {"ACT"}, Columns, t.nRCD),
      C("bank", {"ACT"}, {"PRE"}, t.nRAS),
      C("bank", {"PRE"}, acts, t.nRP),
      C("bank", {"RD"}, {"PRE"}, t.nRTP),
      C("bank", {"WR"}, {"PRE"}, WriteToPre(t)),
      C("bank", {"RDA"}, acts, t.nRTP + t.nRP),
      C("bank", {"WRA"}, acts, WriteToPre(t) + t.nRP)}

DDRGroupRows(t, acts, writeToWrite, writeToRead) ==
    UNION {
      C("bankgroup", Reads, Reads, t.nCCDL),
      C("bankgroup", Writes, Writes, writeToWrite),
      C("bankgroup", Writes, Reads, writeToRead),
      C("bankgroup", acts, acts, t.nRRDL)}

DDRCommands(banks) ==
    Scopes([row |-> {"ACT"}, bank |-> {"PRE"} \cup banks, column |-> Columns,
            rank |-> {"PREA", "REFab"}])

DDR3Rows(t) ==
    DDRRankRows(t, {"ACT"}, ReadToWrite(t), t.nCWL + t.nBL + t.nWTRS, t.nCCDS)
        \cup DDRBankRows(t, {"ACT"})

DDR3(t) ==
    [levels |-> <<"channel", "rank", "bank">>, t |-> t,
     scope |-> DDRCommands({}), lambdas |-> RowBuffer("rank"),
     opening |-> {"ACT"}, closing |-> {"PRE", "PREA", "RDA", "WRA"},
     refreshing |-> {"REFab"}, requests |-> ReadWriteRefresh,
     read_latency |-> t.nCL + t.nBL, bus |-> "channel",
     cons |-> DDR3Rows(t)]

DDR4Rows(t, acts) ==
    DDRRankRows(t, acts, ReadToWrite(t), t.nCWL + t.nBL + t.nWTRS, t.nCCDS)
        \cup DDRGroupRows(t, acts, t.nCCDL, t.nCWL + t.nBL + t.nWTRL)
        \cup DDRBankRows(t, acts)

DDR4(t) ==
    [DDR3(t) EXCEPT
        !.levels = <<"channel", "rank", "bankgroup", "bank">>,
        !.cons = DDR4Rows(t, {"ACT"})]

VRRRows(t) ==
    C("rank", {"VRR"}, {"REFab"}, t.nVRR)
        \cup C("bank", {"ACT", "VRR"}, {"ACT", "VRR"}, t.nVRR)

DDR4VRR(t) ==
    [DDR4(t) EXCEPT
        !.scope = DDRCommands({"VRR"}),
        !.refreshing = {"REFab", "VRR"},
        !.requests = ReadWriteRefresh @@ [victim |-> "VRR"],
        !.lambdas.preq = @ @@ [VRR |-> [level |-> "bank",
                                        need |-> "RequireBankClosed"]],
        !.cons = DDR4Rows(t, {"ACT", "VRR"}) \cup VRRRows(t)]

DDR5Rows(t) ==
    DDRRankRows(t, {"ACT"}, ReadToWrite(t) + 2, t.nCCDS_WTR, t.nCCDS_WR)
        \cup DDRGroupRows(t, {"ACT"}, t.nCCDL_WR, t.nCCDL_WTR)
        \cup DDRBankRows(t, {"ACT"})
        \cup C("bank", {"WR"}, {"RDA"}, WriteToPre(t) - t.nRTP)
        \cup C("channel", {"ACT"} \cup Columns,
               {"ACT", "PRE", "PREA", "REFab"} \cup Columns, 2)

DDR5(t) == [DDR4(t @@ [nWTRS |-> 0, nWTRL |-> 0]) EXCEPT !.cons = DDR5Rows(t)]

-----------------------------------------------------------------------------
(* LPDDR5: a row is opened in two steps, and a column command must come     *)
(* while the data clock is synchronised                                     *)

LPDDR5_6400 ==
    [nBL |-> 4, nCL |-> 20, nRCD |-> 15, nRPab |-> 17, nRPpb |-> 15,
     nRAS |-> 34, nRC |-> 30, nWR |-> 28, nRTP |-> 4, nCWL |-> 11,
     nCCD |-> 4, nRRD |-> 4, nWTRS |-> 5, nWTRL |-> 10, nFAW |-> 16, nCS |-> 2]

LPDDR5Timings(density) ==
    LET tCK == TCKps(6400)
    IN  LPDDR5_6400 @@
        [nRFC |-> JEDEC_rounding(Pick(<<2048, 4096, 8192, 16384>>, density,
                                      <<130, 180, 210, 280>>), tCK),
         nREFI |-> JEDEC_rounding(3906, tCK)]

Reads16   == {"RD16", "RD16A"}
Writes16  == {"WR16", "WR16A"}
Columns16 == Reads16 \cup Writes16

LPDDR5Rows(t) ==
    UNION {
      C("channel", Reads16, Reads16, t.nBL),
      C("channel", Writes16, Writes16, t.nBL),
      C("rank", Reads16, Reads16, t.nCCD),
      C("rank", Writes16, Writes16, t.nCCD),
      C("rank", Reads16, Writes16, ReadToWrite(t)),
      C("rank", Writes16, Reads16, t.nCWL + t.nBL + t.nWTRS),
      S("rank", Reads16, Columns16, t.nBL + t.nCS),
      S("rank", Writes16, Reads16, t.nCL + t.nBL + t.nCS - t.nCWL),
      C("rank", {"RD16"}, {"PREA"}, t.nRTP),
      C("rank", {"WR16"}, {"PREA"}, WriteToPre(t)),
      C("rank", {"ACT-1"}, {"ACT-1"}, t.nRRD),
      W4("rank", {"ACT-1"}, {"ACT-1"}, t.nFAW),
      C("rank", {"ACT-1"}, {"PREA"}, t.nRAS),
      C("rank", {"PREA"}, {"ACT-1"}, t.nRPab),
      C("rank", {"ACT-1"}, {"REFab"}, t.nRC),
      C("rank", {"PRE"}, {"REFab"}, t.nRPpb),
      C("rank", {"PREA"}, {"REFab"}, t.nRPab),
      C("rank", {"RD16A"}, {"REFab"}, t.nRPpb + t.nRTP),
      C("rank", {"WR16A"}, {"REFab"}, WriteToPre(t) + t.nRPpb),
      C("rank", {"REFab"}, {"REFab", "ACT-1"}, t.nRFC),
      C("bankgroup", Reads16, Reads16, t.nCCD),
      C("bankgroup", Writes16, Writes16, t.nCCD),
      C("bankgroup", Writes16, Reads16, t.nCWL + t.nBL + t.nWTRL),
      C("bankgroup", {"ACT-1"}, {"ACT-1"}, t.nRRD),
      C("bank", {"ACT-1"}, {"ACT-1"}, t.nRC),
      C("bank", {"ACT-1"}, Columns16, t.nRCD),
      C("bank", {"ACT-1"}, {"PRE"}, t.nRAS),
      C("bank", {"PRE"}, {"ACT-1"}, t.nRPpb),
      C("bank", {"RD16"}, {"PRE"}, t.nRTP),
      C("bank", {"WR16"}, {"PRE"}, WriteToPre(t)),
      C("bank", {"RD16A"}, {"ACT-1"}, t.nRTP + t.nRPpb),
      C("bank", {"WR16A"}, {"ACT-1"}, WriteToPre(t) + t.nRPpb)}

(* How long a command keeps the data clock synchronised.  set_actions      *)
(* indexes m_timings, the list of the names of the timings, and so adds    *)
(* the POSITIONS of nCL (2), nCWL (10) and nBL16 (1) instead of values.    *)
LPDDR5Synced == [CASRD |-> 2 + 1 + 1, CASWR |-> 10 + 1 + 1,
                 RD16 |-> 2 + 1, WR16 |-> 10 + 1]

LPDDR5(t) ==
    [levels |-> <<"channel", "rank", "bankgroup", "bank">>, t |-> t,
     scope |-> Scopes([row |-> {"ACT-1", "ACT-2"}, bank |-> {"PRE"},
                       column |-> Columns16,
                       rank |-> {"PREA", "CASRD", "CASWR", "REFab"}]),
     lambdas |->
        [action |-> ("ACT-1" :> [level |-> "bank", do |-> "PreOpen"])
                    @@ ("ACT-2" :> [level |-> "bank", do |-> "Open"])
                    @@ [PRE   |-> [level |-> "bank", do |-> "Close"],
                        RD16A |-> [level |-> "bank", do |-> "Close"],
                        WR16A |-> [level |-> "bank", do |-> "Close"],
                        PREA  |-> [level |-> "rank", do |-> "CloseAll"]],
         preq |-> [RD16  |-> [level |-> "bank", need |-> "CASRD"],
                   WR16  |-> [level |-> "bank", need |-> "CASWR"],
                   REFab |-> [level |-> "rank",
                              need |-> "RequireAllBanksClosed"]]],
     opening |-> {"ACT-2"}, closing |-> {"PRE", "PREA", "RD16A", "WR16A"},
     refreshing |-> {"REFab"},
     requests |-> [read |-> "RD16", write |-> "WR16", refresh |-> "REFab"],
     read_latency |-> t.nCL + t.nBL, bus |-> "channel", cons |-> LPDDR5Rows(t)]

-----------------------------------------------------------------------------
(* HBM, HBM2 and HBM3: no ranks; the last two share a command channel       *)
(* between pseudochannels that have a data bus each                         *)

HBM_2Gbps ==
    [nBL |-> 2, nCL |-> 7, nRCDRD |-> 7, nRCDWR |-> 7, nRP |-> 7,
     nRAS |-> 17, nRC |-> 19, nWR |-> 8, nRTPS |-> 2, nRTPL |-> 3,
     nCWL |-> 2, nCCDS |-> 1, nCCDL |-> 2, nRRDS |-> 2, nRRDL |-> 3,
     nWTRS |-> 3, nWTRL |-> 4, nFAW |-> 15, nREFI |-> 3900]
HBM2_2Gbps == [HBM_2Gbps EXCEPT !.nBL = 4]
HBM3_2Gbps == [HBM_2Gbps EXCEPT !.nBL = 4]

HBMTimings(density) ==
    HBM_2Gbps @@
    [nRFC |-> JEDEC_rounding(Pick(<<2048, 4096, 8192, 16384>>, density,
                                  <<160, 260, 350, 450>>), TCKps(2000))]

HBM2Timings(density) == HBM2_2Gbps @@ HBMTimings(density)
HBM3Timings(density) == HBM3_2Gbps @@ HBMTimings(density)

HBMRows(t, l) ==
    UNION {
      C("channel", {"ACT"}, {"ACT", "PRE", "PREA", "REFab"}, 2),
      C(l, {"ACT"}, {"ACT"}, t.nRRDS),
      W4(l, {"ACT"}, {"ACT"}, t.nFAW),
      C(l, Reads, Reads, t.nBL),
      C(l, Writes, Writes, t.nBL),
      C(l, Reads, Reads, t.nCCDS),
      C(l, Writes, Writes, t.nCCDS),
      C(l, Reads, Writes, ReadToWrite(t)),
      C(l, Writes, Reads, t.nCWL + t.nBL + t.nWTRS),
      C(l, {"RD"}, {"PREA"}, t.nRTPS),
      C(l, {"WR"}, {"PREA"}, WriteToPre(t)),
      C(l, {"ACT"}, {"PREA"}, t.nRAS),
      C(l, {"PREA"}, {"ACT"}, t.nRP),
      C(l, {"ACT"}, {"REFab"}, t.nRC),
      C(l, {"PRE", "PREA"}, {"REFab"}, t.nRP),
      C(l, {"RDA"}, {"REFab"}, t.nRP + t.nRTPS),
      C(l, {"WRA"}, {"REFab"}, WriteToPre(t) + t.nRP),
      C(l, {"REFab"}, {"ACT"}, t.nRFC),
      C("bankgroup", Reads, Reads, t.nCCDL),
      C("bankgroup", Writes, Writes, t.nCCDL),
      C("bankgroup", Writes, Reads, t.nCWL + t.nBL + t.nWTRL),
      C("bankgroup", {"ACT"}, {"ACT"}, t.nRRDL),
      C("bank", {"RD"}, {"PRE"}, t.nRTPS),
      C("bank", {"ACT"}, {"ACT"}, t.nRC),
      C("bank", {"ACT"}, Reads, t.nRCDRD),
      C("bank", {"ACT"}, Writes, t.nRCDWR),
      C("bank", {"ACT"}, {"PRE"}, t.nRAS),
      C("bank", {"PRE"}, {"ACT"}, t.nRP),
      C("bank", {"RD"}, {"PRE"}, t.nRTPL),
      C("bank", {"WR"}, {"PRE"}, WriteToPre(t)),
      C("bank", {"RDA"}, {"ACT"}, t.nRTPL + t.nRP),
      C("bank", {"WRA"}, {"ACT"}, WriteToPre(t) + t.nRP)}

Stacked(levels, bus, t, lines) ==
    [levels |-> levels, t |-> t,
     scope |-> Scopes([row |-> {"ACT"}, bank |-> {"PRE"}, column |-> Columns,
                       channel |-> {"PREA", "REFab"}]),
     lambdas |-> RowBuffer("channel"), opening |-> {"ACT"},
     closing |-> {"PRE", "PREA", "RDA", "WRA"}, refreshing |-> {"REFab"},
     requests |-> ReadWriteRefresh, read_latency |-> t.nCL + t.nBL,
     bus |-> bus, cons |-> lines]

HBM(t) == Stacked(<<"channel", "bankgroup", "bank">>, "channel", t,
                  HBMRows(t, "channel"))
HBM2Rows(t) == HBMRows(t, "pseudochannel")
HBM3Rows(t) == HBMRows(t, "pseudochannel")
HBM2(t) == Stacked(<<"channel", "pseudochannel", "bankgroup", "bank">>,
                   "pseudochannel", t, HBM2Rows(t))
HBM3(t) == Stacked(<<"channel", "pseudochannel", "bankgroup", "bank">>,
                   "pseudochannel", t, HBM3Rows(t))

-----------------------------------------------------------------------------
(* GDDR6, as a memory behind the generic controller                         *)

(* The speed bin GDDR6_2000_1350mV_double on an x8 part: the tables by DQ    *)
(* width overwrite nRRDS, nRRDL and nFAW, and nRFC and nREFI are computed.   *)
GDDR6_2000 ==
    [nBL |-> 8, nCL |-> 24, nRCDRD |-> 26, nRCDWR |-> 16, nRP |-> 26,
     nRAS |-> 53, nRC |-> 79, nWR |-> 26, nRTP |-> 4, nCWL |-> 6,
     nCCDS |-> 4, nCCDL |-> 6, nWTRS |-> 9, nWTRL |-> 11, nWPRE |-> 1]

GDDR6Timings(dq, density) ==
    LET tCK == TCKps(2000)
    IN  GDDR6_2000 @@
        [nRRDS |-> Pick(<<8, 16>>, dq, <<4, 5>>),
         nRRDL |-> Pick(<<8, 16>>, dq, <<5, 6>>),
         nRFC  |-> JEDEC_rounding(Pick(<<4096, 8192, 16384>>, density,
                                       <<260, 360, 550>>), tCK),
         nREFI |-> JEDEC_rounding(7800, tCK)]

GDDR6Rows(t) ==
    UNION {
      C("channel", Reads, Reads, t.nBL),
      C("channel", Writes, Writes, t.nBL),
      C("channel", Reads, Reads, t.nCCDS),
      C("channel", Writes, Writes, t.nCCDS),
      C("channel", Reads, Writes, t.nCL + t.nBL + 3 - t.nCWL + t.nWPRE),
      C("channel", Writes, Reads, t.nCWL + t.nBL + t.nWTRS),
      C("channel", {"RD"}, {"PREA"}, t.nRTP),
      C("channel", {"WR"}, {"PREA"}, WriteToPre(t)),
      C("channel", {"ACT"}, {"ACT"}, t.nRRDS),
      C("channel", {"ACT"}, {"PREA"}, t.nRAS),
      C("channel", {"PREA"}, {"ACT"}, t.nRP),
      C("channel", {"ACT"}, {"REFab"}, t.nRC),
      C("channel", {"PRE", "PREA"}, {"REFab"}, t.nRP),
      C("channel", {"RDA"}, {"REFab"}, t.nRTP + t.nRP),
      C("channel", {"WRA"}, {"REFab"}, WriteToPre(t) + t.nRP),
      C("channel", {"REFab"}, {"ACT"}, t.nRFC),
      C("channel", {"PREA"}, {"PRE", "PREA"}, t.nRP),
      C("channel", {"PRE"}, {"PREA"}, t.nRP),
      C("channel", {"PRE"}, {"PRE"}, t.nRP),
      C("bankgroup", Reads, Reads, t.nCCDL),
      C("bankgroup", Writes, Writes, t.nCCDL),
      C("bankgroup", Writes, Reads, t.nCWL + t.nBL + t.nWTRL),
      C("bankgroup", {"RD"}, {"PRE"}, t.nRTP),
      C("bankgroup", {"WR"}, {"PRE"}, WriteToPre(t)),
      C("bankgroup", {"ACT"}, {"ACT"}, t.nRRDL),
      C("bank", {"ACT"}, Reads, t.nRCDRD),
      C("bank", {"ACT"}, Writes, t.nRCDWR),
      C("bank", {"ACT"}, {"PRE"}, t.nRAS),
      C("bank", {"PRE"}, {"ACT"}, t.nRP),
      C("bank", {"RDA"}, {"ACT"}, t.nRTP + t.nRP),
      C("bank", {"WRA"}, {"ACT"}, WriteToPre(t) + t.nRP)}

GDDR6(t) == Stacked(<<"channel", "bankgroup", "bank">>, "channel", t,
                    GDDR6Rows(t))
=============================================================================
