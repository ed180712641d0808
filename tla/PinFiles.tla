------------------------------ MODULE PinFiles ------------------------------
(***************************************************************************)
(* The constraint files: gen_ddr4_xdc.py, which turns the vendor's file of *)
(* each DDR4 channel into ddr4_cN.xdc, and validate_pins.py, which reads   *)
(* the directory one file after the other (PinChecks), perhaps while files *)
(* are being written.                                                      *)
(***************************************************************************)
EXTENDS PinChecks, FiniteSets

CONSTANTS SIGNAL_MAP,  \* vendor signal -> controller signal
          EMIT_ORDER,  \* the controller signals in the order of emission
          MIG,         \* channel -> controller signal -> name and polarity
          Count,       \* pins a channel has to have (117)
          Scenes       \* what may be there: the vendor's files (channel ->
                       \* lines), the files of xdc/ in the order of their
                       \* names, those of the channels first, and whether
                       \* the generator is run

Channels == DOMAIN MIG
NoIndex == 0

(* The channels are numbered from one, each has a vendor's file, and the   *)
(* index of a pin is a number.                                             *)
WellFormed(s) ==
    /\ s.generates \in BOOLEAN
    /\ \A ch \in Channels :
          LET lines == s.vendor[ch]
          IN  /\ lines \in Seq(ToSet(lines))
              /\ \A i \in 1 .. Len(lines) :
                    lines[i].form = "ddr4" => lines[i].idx \in Nat
    /\ s.xdc \in Seq(ToSet(s.xdc)) /\ Channels \subseteq DOMAIN s.xdc
    /\ \A i \in 1 .. Len(s.xdc) : s.xdc[i] \in Seq(ToSet(s.xdc[i]))
ASSUME PinAssumption ==
    /\ Len(MIG) \in Nat \ {0} /\ Channels = 1 .. Len(MIG)
    /\ EMIT_ORDER \in Seq(ToSet(EMIT_ORDER))
    /\ Count \in Nat
    /\ \A s \in Scenes : WellFormed(s)

VARIABLES scene,   \* which one; never changes
          xdc,     \* the contents of xdc/
          gen,     \* the generator: the channel it is at, and how it goes
          val      \* the checks: files read, assignments, lines, exit status
pinvars == <<scene, xdc, gen, val>>

vendor == scene.vendor

(* Vendor lines: a pin of the channel's clock or of one of its signals, a  *)
(* pin of another channel, a pin that is not understood.                   *)
ClockPin(sig, pin) == [form |-> "clock", sig |-> sig, idx |-> NoIndex, pin |-> pin]
DdrPin(sig, idx, pin) == [form |-> "ddr4", sig |-> sig, idx |-> idx, pin |-> pin]
Foreign  == [form |-> "foreign"]
Unparsed == [form |-> "unparsed"]

Placing(lines) == {i \in 1 .. Len(lines) : lines[i].form \in {"clock", "ddr4"}}

(* The key and the port a line is about.                                   *)
key(line) ==
    IF line.form = "clock" THEN <<"sys_clk_p", NoIndex>>
                           ELSE <<SIGNAL_MAP[line.sig], line.idx>>

Understood(line) ==
    CASE line.form = "clock" -> line.sig = "clk_p"
      [] line.form = "ddr4"  -> line.sig \in DOMAIN SIGNAL_MAP
      [] OTHER -> line.form = "other"

(* Mutant: of two constraints for one key the later one counts.            *)
Accepted_duplicates(lines) ==
    /\ \A i \in 1 .. Len(lines) : Understood(lines[i])
    /\ Cardinality({key(lines[i]) : i \in Placing(lines)}) = Count
Accepted(lines) ==
    /\ \A i \in 1 .. Len(lines) : Understood(lines[i])
    /\ \A i, j \in Placing(lines) : key(lines[i]) = key(lines[j]) => i = j
    /\ Cardinality({key(lines[i]) : i \in Placing(lines)}) = Count

parse_vendor_file(lines) ==
    [k \in {key(lines[i]) : i \in Placing(lines)} |->
        lines[CHOOSE i \in Placing(lines) :
                /\ key(lines[i]) = k
                /\ \A j \in Placing(lines) : key(lines[j]) = k => j <= i].pin]

(* emit: signal by signal, by rising index.  A key of a signal that is not *)
(* emitted is an error.                                                    *)
Emittable(pins) == \A k \in DOMAIN pins : k[1] \in ToSet(EMIT_ORDER)
Rank(sig) == CHOOSE i \in 1 .. Len(EMIT_ORDER) : EMIT_ORDER[i] = sig
Earlier(k, l) == \/ Rank(k[1]) < Rank(l[1])
                 \/ k[1] = l[1] /\ k[2] < l[2]
Port(ch, k) == [name |-> MIG[ch][k[1]].name, pol |-> MIG[ch][k[1]].pol,
                idx |-> k[2], dir |-> ""]
emit(ch, pins) ==
    LET keys == CHOOSE s \in SetToSeqs(DOMAIN pins) :
                    \A i, j \in DOMAIN s : i < j => Earlier(s[i], s[j])
    IN  [i \in 1 .. Len(keys) |-> PackagePin(Port(ch, keys[i]), pins[keys[i]])]

-----------------------------------------------------------------------------
Reading == [at |-> 0, order |-> <<>>, lines |-> <<>>, exit |-> None]

PinStart(s) ==
    /\ scene = s
    /\ xdc = s.xdc
    /\ gen = [at |-> 1, is |-> IF s.generates THEN "running" ELSE "off"]
    /\ val = Reading

PinInit == \E s \in Scenes : PinStart(s)

(* One channel of the generator: its file is read, checked and written, or *)
(* the generator gives up with the files of the channels before written.   *)
Generate ==
    /\ gen.is = "running"
    /\ IF Accepted(vendor[gen.at]) /\ Emittable(parse_vendor_file(vendor[gen.at]))
       THEN /\ xdc' = [xdc EXCEPT ![gen.at] =
                        emit(gen.at, parse_vendor_file(vendor[gen.at]))]
            /\ gen' = [at |-> gen.at + 1,
                       is |-> IF gen.at + 1 \in Channels THEN "running"
                                                         ELSE "done"]
       ELSE gen' = [gen EXCEPT !.is = "gave up"] /\ UNCHANGED xdc
    /\ UNCHANGED <<scene, val>>

(* One file of the checks.                                                 *)
ReadFile ==
    /\ val.at < Len(xdc)
    /\ LET file == xdc[val.at + 1]
       IN  val' = [val EXCEPT !.at = @ + 1, !.order = parse(@, file),
                              !.lines = @ \o file]
    /\ UNCHANGED <<scene, xdc, gen>>

(* No files at all: two.                                                   *)
Validate ==
    /\ val.at = Len(xdc) /\ val.exit = None
    /\ val' = [val EXCEPT !.exit = IF xdc = <<>> THEN 2
                                   ELSE exit_status(val.order)]
    /\ UNCHANGED <<scene, xdc, gen>>

PinNext == Generate \/ ReadFile \/ Validate

-----------------------------------------------------------------------------
(* What the lines say to the tool that places the design, in whatever      *)
(* order they stand: the pins and the I/O standard of a port.              *)
Named(ports, port) == IF ports.form = "one" THEN port = ports.port
                                            ELSE port \in ports.set
Places(line) == line.form \in {"pin", "dict"}
PortsIn(lines) == {lines[i].port : i \in {i \in 1 .. Len(lines) : Places(lines[i])}}
PinsOf(lines, port) ==
    {lines[i].pin : i \in {i \in 1 .. Len(lines) : /\ Places(lines[i])
                                                   /\ lines[i].port = port}}
Asks(line, port) == \/ line.form = "dict" /\ line.port = port /\ line.std # None
                    \/ line.form = "std" /\ Named(line.ports, port)
StandardOf(lines, port) ==
    LET asking == {i \in 1 .. Len(lines) : Asks(lines[i], port)}
    IN  IF asking = {} THEN None
        ELSE lines[CHOOSE i \in asking : \A j \in asking : j <= i].std

(* The lines the parser takes for what they are: one pin for a port, no    *)
(* list or wildcard that it takes for other ports than it names, and no    *)
(* standard before the pin of its port.                                    *)
Readable(lines) ==
    /\ \A port \in PortsIn(lines) : Cardinality(PinsOf(lines, port)) = 1
    /\ \A i \in 1 .. Len(lines) : lines[i].form = "std" =>
          \A port \in PortsIn(lines) :
             /\ Matches(lines[i].ports, port) <=> Named(lines[i].ports, port)
             /\ Named(lines[i].ports, port) =>
                   \E j \in 1 .. i - 1 : Places(lines[j]) /\ lines[j].port = port

Claims(lines) == {[port |-> p, pin |-> CHOOSE x \in PinsOf(lines, p) : TRUE,
                   std |-> StandardOf(lines, p)] : p \in PortsIn(lines)}
Powered(claims) == {a \in claims : a.pin \in DOMAIN dev /\ ~is_gt(a.pin)
                                   /\ a.std \in DOMAIN VCCO_MV}
OneSupply(claims) ==
    \A a, b \in Powered(claims) : dev[a.pin].bank = dev[b.pin].bank =>
        VCCO_MV[a.std] = VCCO_MV[b.std]

Sound(claims) ==
    /\ \A a \in claims : /\ a.pin \in DOMAIN dev
                         /\ dev[a.pin].role \in {"io", "gt"}
                         /\ is_gt(a.pin) \/ a.std \in DOMAIN VCCO_MV \cup {None}
    /\ OneSupply(claims)
    /\ \A a, b \in claims :
          /\ a.pin = b.pin => a = b
          /\ (a.port.pol = "p" /\ b.port = [a.port EXCEPT !.pol = "n"]) =>
                Halves(a.pin, b.pin)
          /\ (/\ dev[a.pin].dir = "RX" /\ dev[b.pin].dir = "TX"
              /\ dev[a.pin].quad = dev[b.pin].quad
              /\ dev[a.pin].pol = dev[b.pin].pol
              /\ [a.port EXCEPT !.dir = ""] = [b.port EXCEPT !.dir = ""]) =>
                dev[a.pin].site = dev[b.pin].site

(* "Exit status is 0 only if nothing failed" (validate_pins.py:27), and 1  *)
(* only if something did: whatever files were read in whatever mixture of  *)
(* old and new, the verdict is the verdict on the claims their lines make, *)
(* as long as the lines are of the kind the parser reads.                  *)
VerdictExact ==
    val.exit \in {0, 1} /\ Readable(val.lines) =>
        (val.exit = 0 <=> Sound(Claims(val.lines)))

(* Each generated file is whole and says of its channel what the vendor    *)
(* says, pin for pin, and a run that gives up leaves the files of the      *)
(* later channels as they were.                                            *)
Faithful(ch) ==
    /\ Len(xdc[ch]) = Count
    /\ ToSet(xdc[ch]) =
         {PackagePin(Port(ch, key(vendor[ch][i])), vendor[ch][i].pin) :
            i \in Placing(vendor[ch])}
GenFaithful ==
    \A ch \in Channels :
        IF scene.generates /\ ch < gen.at THEN Faithful(ch)
                                         ELSE xdc[ch] = scene.xdc[ch]

(* "All ports in one bank request I/O standards that need the same VCCO"   *)
(* (validate_pins.py:23): exit status zero means that they do.             *)
VccoSound ==
    val.exit = 0 /\ (\A p \in PortsIn(val.lines) :
                        Cardinality(PinsOf(val.lines, p)) = 1) =>
        OneSupply(Claims(val.lines))
=============================================================================
