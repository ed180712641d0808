------------------------------- MODULE MCTools ------------------------------
EXTENDS Tools
Row(bank, kind, pair, pol, site, dir, quad) ==
    [bank |-> bank, role |-> kind, pair |-> pair, pol |-> pol, site |-> site,
     dir |-> dir, quad |-> quad]
Io(bank, pair, pol) == Row(bank, "io", pair, pol, "iob", "", "")
Gt(pol, dir, site, quad) == Row(quad, "gt", 0, pol, site, dir, quad)
MCdev ==
    [pin \in {"A1", "A2", "B1", "G1", "G2", "V1"} |->
        CASE pin = "A1" -> Io("68", 1, "P")    [] pin = "A2" -> Io("68", 1, "N")
          [] pin = "B1" -> Io("69", 1, "N")
          [] pin = "G1" -> Gt("P", "RX", "ch0", "227")
          [] pin = "G2" -> Gt("P", "TX", "ch1", "227")
          [] pin = "V1" -> Row("", "dedicated", 0, "", "sysmon", "", "")]
MCVCCO_MV == [std \in {"LVCMOS12", "SSTL12", "LVCMOS18"} |->
                IF std = "LVCMOS18" THEN 1800 ELSE 1200]

P(name, pol, dir) == [name |-> name, pol |-> pol, idx |-> 0, dir |-> dir]
clkp == P("clk", "p", "")  clkn == P("clk", "n", "")
led  == P("led", "", "")
rx   == P("lane", "", "rx")  tx == P("lane", "", "tx")
Lines ==
    {PackagePin(clkp, "A1"), PackagePin(clkn, "A2"), PackagePin(clkn, "B1"),
     Dict(led, "A2", "LVCMOS18"), Dict(led, "A1", None), PackagePin(led, "V1"),
     PackagePin(led, "nowhere"), PackagePin(rx, "G1"), PackagePin(tx, "G2"),
     PackagePin(tx, "A2"),
     IoStandard(One(clkp), "LVCMOS12"),
     IoStandard(Pattern({clkp, clkn}, {clkp, clkn}), "SSTL12"),
     IoStandard(Pattern({led}, {led}), "LVDS_X"),
     IoStandard(Pattern({led, clkp}, {led}), "LVCMOS12"),
     IoStandard(List({clkp, led}), "LVCMOS12")}
Files(n) == UNION {[1 .. k -> Lines] : k \in 0 .. n}

MCSIGNAL_MAP == [sig \in {"dq", "dm_n", "dqs_t"} |->
                    IF sig = "dm_n" THEN "dm_dbi_n" ELSE sig]
MCEMIT_ORDER == <<"sys_clk_p", "dq", "dqs_t", "dm_dbi_n">>
Name(ch, sig) ==
    LET c == IF ch = 1 THEN "c0" ELSE "c1"
    IN  [name |-> c \o "_" \o (CASE sig = "sys_clk_p" -> "sys_clk"
                                 [] sig = "dq" -> "ddr4_dq"
                                 [] sig = "dqs_t" -> "ddr4_dqs"
                                 [] sig = "dm_dbi_n" -> "ddr4_dm_dbi"),
         pol |-> CASE sig \in {"sys_clk_p", "dqs_t"} -> "p"
                   [] sig = "dq" -> "" [] sig = "dm_dbi_n" -> "n"]
MCMIG == [ch \in {1, 2} |->
            [sig \in {"sys_clk_p", "dq", "dqs_t", "dm_dbi_n"} |-> Name(ch, sig)]]

Good(a, b, c) == <<DdrPin("dq", 1, b), ClockPin("clk_p", a), Other, DdrPin("dq", 0, c)>>
Vendor1 == {Good("A1", "A2", "B1"), Good("A1", "A1", "B1"),
    <<DdrPin("dm_n", 0, "A2"), DdrPin("dqs_t", 0, "A1"), DdrPin("dq", 2, "B1")>>}
Vendor2 == Vendor1 \cup
    {Append(Good("A1", "A2", "B1"), x) :
        x \in {Foreign, Unparsed, DdrPin("dq", 0, "A2"), DdrPin("cas_n", 0, "A2"),
               DdrPin("dq", 7, "A2"), ClockPin("clk_n", "A2")}}
Old == <<PackagePin(led, "A2"), IoStandard(One(led), "LVCMOS18")>>
Scene(v, files, g) == [vendor |-> v, xdc |-> files, generates |-> g]
MCScenes ==
    {Scene(<<v, w>>, <<Old, <<>>, <<PackagePin(led, "B1")>> >>, TRUE) :
        v \in Vendor1, w \in Vendor2}
    \cup {Scene(<< <<>>, <<>> >>, <<f, << >>, g>>, FALSE) :
            f \in Files(2), g \in Files(2)}

MCDesign == <<"golden", "stream">>
MCOwn == [d \in {"golden", "stream"} |-> {d}]
MCNames == [f \in {"golden", "stream", "build", "finish", "led"} |->
              CASE f = "golden" -> {"led"}
                [] f = "stream" -> {"build"}
                [] f = "build"  -> {"finish", "led"}
                [] OTHER -> {}]
=============================================================================
