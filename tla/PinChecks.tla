----------------------------- MODULE PinChecks -----------------------------
(***************************************************************************)
(* The checks of the pin constraints (xdc/tools/validate_pins.py): the     *)
(* lines it understands, the assignments it collects from them one after   *)
(* the other, and its six checks.                                          *)
(*                                                                         *)
(* A port is a record: the name without polarity and index, the polarity   *)
(* it names ("p" covers t, "n" covers c), the index, and the direction in  *)
(* its name.  A line is what its regular expression captures.  Whatever    *)
(* stands between the braces, several names too, is one name to the        *)
(* parser: with a star it is cut at the first one, and without one it is a *)
(* name that no port has unless it is a single port's.                     *)
(***************************************************************************)
EXTENDS Naturals, Sequences, SequencesExt

CONSTANTS dev,      \* the package pins of the part: pin -> its row
          VCCO_MV,  \* I/O standard -> supply in millivolts
          None      \* no I/O standard, no exit status
ASSUME NoneAssumption == None \notin DOMAIN VCCO_MV /\ None \notin {0, 1, 2}

(* Lines.                                                                  *)
PackagePin(port, pin) == [form |-> "pin", port |-> port, pin |-> pin]
Dict(port, pin, std) ==
    [form |-> "dict", port |-> port, pin |-> pin, std |-> std]
IoStandard(ports, std) == [form |-> "std", ports |-> ports, std |-> std]
One(port)  == [form |-> "one", port |-> port]
(* The ports that wildcards name, and those whose names begin as the text  *)
(* does up to its first star.                                              *)
Pattern(ports, begun) == [form |-> "pattern", set |-> ports, begun |-> begun]
List(ports) == [form |-> "list", set |-> ports]
Other == [form |-> "other"]

(* Which of the ports seen so far a standard is applied to.                *)
Matches(ports, port) ==
    CASE ports.form = "one"     -> port = ports.port
      [] ports.form = "pattern" -> port \in ports.begun
      [] ports.form = "list"    -> FALSE

Seen(order, port) == \E i \in 1 .. Len(order) : order[i].port = port

Assigned(order, port, pin) ==
    IF Seen(order, port) THEN order
    ELSE Append(order, [port |-> port, pin |-> pin, iostandard |-> None])

WithStandard(order, ports, std) ==
    [i \in 1 .. Len(order) |->
        IF Matches(ports, order[i].port)
        THEN [order[i] EXCEPT !.iostandard = std] ELSE order[i]]

(* One line of parse.                                                      *)
Take(order, line) ==
    CASE line.form = "pin"  -> Assigned(order, line.port, line.pin)
      [] line.form = "dict" ->
            LET known == Assigned(order, line.port, line.pin)
            IN  IF line.std = None THEN known
                ELSE WithStandard(known, One(line.port), line.std)
      [] line.form = "std"  -> WithStandard(order, line.ports, line.std)
      [] OTHER -> order

parse(order, lines) == FoldLeft(Take, order, lines)

-----------------------------------------------------------------------------
(* validate: the failures it reports, each by its check and its subject.   *)
is_gt(pin) == dev[pin].role = "gt"
live(order) == {a \in ToSet(order) : a.pin \in DOMAIN dev}

exists(order) == {<<"exists", a.port>> : a \in ToSet(order) \ live(order)}

role(as) == {<<"role", a.port>> :
               a \in {a \in as : dev[a.pin].role \notin {"gt", "io"}}}

collision(as) ==
    {<<"collision", pin>> : pin \in
        {a.pin : a \in {a \in as : \E b \in as : /\ b.pin = a.pin
                                                 /\ b.port # a.port}}}

Standard(as) == {a \in as : a.iostandard # None /\ ~is_gt(a.pin)}
unknown(as) == {<<"unknown", a.port>> :
                  a \in {a \in Standard(as) : a.iostandard \notin DOMAIN VCCO_MV}}

(* The supplies each bank is asked for.                                    *)
(* Mutant: the standard counts, not what it needs.                         *)
levels_by_name(as, bank) ==
    {a.iostandard : a \in {a \in Standard(as) : /\ a.iostandard \in DOMAIN VCCO_MV
                                                /\ dev[a.pin].bank = bank}}
levels(as, bank) ==
    {VCCO_MV[a.iostandard] :
        a \in {a \in Standard(as) : /\ a.iostandard \in DOMAIN VCCO_MV
                                    /\ dev[a.pin].bank = bank}}
vcco(as) ==
    {<<"vcco", bank>> : bank \in
        {bank \in {dev[a.pin].bank : a \in as} :
            \E v, w \in levels(as, bank) : v # w}}

(* Two pins that are, or are not, the halves of one package pair; pins of  *)
(* any other function are not compared.                                    *)
Halves(p, n) ==
    LET x == dev[p] y == dev[n]
    IN  CASE x.role = "io" /\ y.role = "io" /\ x.pair # 0 /\ y.pair # 0 ->
               /\ x.bank = y.bank /\ x.pair = y.pair
               /\ x.pol = "P" /\ y.pol = "N"
          [] x.dir # "" /\ y.dir # "" ->     \* transceiver lanes
               x.site = y.site /\ x.pol = "P" /\ y.pol = "N"
          [] OTHER -> TRUE
diffpair(as) ==
    {<<"diffpair", a.port>> : a \in
        {a \in as : a.port.pol = "p" /\ \E b \in as :
            b.port = [a.port EXCEPT !.pol = "n"] /\ ~Halves(a.pin, b.pin)}}

(* RX and TX pins of one quad and polarity whose ports differ in nothing   *)
(* but the direction in their names; a direction has one port of a name.   *)
gtlane(as) ==
    {<<"gtlane", a.port>> : a \in
        {a \in as : dev[a.pin].dir = "RX" /\ \E b \in as :
            /\ dev[b.pin].dir = "TX"
            /\ dev[b.pin].quad = dev[a.pin].quad
            /\ dev[b.pin].pol = dev[a.pin].pol
            /\ [b.port EXCEPT !.dir = ""] = [a.port EXCEPT !.dir = ""]
            /\ dev[b.pin].site # dev[a.pin].site}}

validate(order) ==
    LET as == live(order)
    IN  exists(order) \cup role(as) \cup collision(as) \cup unknown(as)
        \cup vcco(as) \cup diffpair(as) \cup gtlane(as)

exit_status(order) == IF validate(order) = {} THEN 0 ELSE 1
=============================================================================
