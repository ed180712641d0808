# Formal models of the ALIVU13P board support

TLA+ models of the logic in this repository, the TLC configurations that check
them on small instances, and proofs about them that TLAPS checks for every value
of the constants. Run from this directory:

    tlc -config AxiBist.cfg MCAxiBist       # a run; PROJECT.json lists them all
    tlapm AxiBist_proofs.tla                # the proofs of a module

`PROJECT.json` maps every definition that models code to the lines it models,
and lists for every checked property a plausible bug or two in the code (a *mutant*,
a definition in the module next to the one it replaces) that breaks it.

The repository qualifies an undocumented board: each FPGA design tests one
interface, and a host program or a JTAG script reads out a verdict. What has to
be right is therefore nearly always the same thing: **PASS must be evidence, and
FAIL must not be the fault of the test.** The properties below are variations on
that theme, aimed at what makes it hard: handshakes in any order, flags that
cross clock domains one bit at a time, values captured while they change,
resets in the middle, and state that an earlier run left behind.

## 1. Inventory

### The designs

**Memory test of one DDR4 channel** (`designs/02_ddr4_cal/rtl/axi_bist.v`).
State: a seven-state machine, the index, two handshake flags, the registers of
an AXI master, and the report (`busy`, `done`, `pass`, `error_count`,
`first_bad_addr`). Operations: start on a level, write every tested word, read
every one back and compare, report, re-arm when the level falls, reset.
Interacts with the memory controller over AXI, and with the top level over the
start level and the report. Hard: address and data of a write are accepted in
any order; responses are never refused (`bready`, `rready` tied high), so the
machine has to be listening; two walks over one memory must not overwrite each
other; a second test runs over a memory full of right answers. Correct means:
a pass is evidence about the memory, a sound channel passes, count and address
are exact, the bus rules hold, a test ends.

**DDR4 bring-up design** (`designs/02_ddr4_cal/rtl/ddr4_cal_top.v`) **and its
qualification script** (`tools/check_ddr4_bist.tcl`). State: per channel a start
synchroniser, an ECC latch, two flops per status flag, and the captured error
count and address; the VIO's start level; the script's position. Operations: the
edges of four unrelated channel clocks and of sysclk; calibration, its loss, a
reset, an ECC interrupt; the script's refreshes and the levels it sets. Hard:
flags that change together are seen apart; a 32-bit count crosses with no
synchroniser of its own; someone else may have raised the level; both of the
script's waits may give up. Correct means: PASS is about tests begun after the
script raised start, on all four channels; FAIL happens only when something
happened; the counts printed are the tests' own.

**Calibration report** (`tools/check_ddr4_cal.tcl`): reads the controllers' own
report over the debug hub; stateless.

**ECC sequencer** (`designs/04_pcie_ddr4/rtl/ecc_init.v`). State: four states,
which of two writes, two handshake flags, `ready`, `failed`. It writes ECC_ON_OFF
and then the interrupt enables of the memory controller, and reports `ready` only
if both answers were good. Shares its reset with the controller's register port.
Correct means: `ready` implies that the registers hold what was wanted; no
`ready` after a refused write; interrupts are enabled only over a checking
controller; it comes to a verdict.

**PCIe DMA to DDR4** (`designs/04_pcie_ddr4/rtl/pcie_ddr4_top.v`) **and its host
program** (`host/test_pcie_ddr4.py`). State: two resets and a reset shift
register, an ECC latch, the status word behind two flops a bit; the program's
position and the status read it has under way. Hard: DMA resets drop the
sequencer and the controller's interrupt enables but not MIG or the latch, PERST
drops both; the host sees `ready` late. Correct means: data moves only while ECC
is armed; an ECC event of the run is in the status that decides.

**Reference-clock probe** (`designs/00_clk_probe/rtl/freq_counter.v`). State: a
counter in the probed domain, two flops of its Gray code, the gate counter, the
last snapshot and the published count. Operations: an edge of the probed clock;
an edge of the reference in reset, within a gate, at its end. Hard: tearing, the
wrap, the first gate, a clock that stops or never starts. Correct means: every
gate is counted to within one edge, and a clock that is not there is reported so.

**Stream design** (`designs/05_pcie_stream`) **and its host program**
(`host/test_pcie_stream.py`). State: the beats in the FIFO, the writer thread, the
main thread and its packet. Operations: hand a packet to the writer, wait, read a
packet, await the writer, compare. Hard: packets longer than the FIFO block the
writer until the reader drains it; a packet's end has to end the read; a run that
is killed leaves beats behind. Correct means: a pass lost nothing, and a run fails
only over a fault or over what another run left.

**Board management** (`designs/06_board_mgmt`): wiring of vendor IP for the two
drivers and the program below. **Golden PCIe design** (`designs/01_golden_pcie`):
memories, GPIO, debug bridge; its one behaviour is the level that requests the user
interrupt. **QSFP IBERT** (`designs/03_qsfp_ibert`): generated.

### The host software

**Quad SPI driver** (`host/alivu13p/qspi.py`). State: the controller's two FIFOs,
select and clock, and what the flash has heard; the call under way. Operations:
reset, transfer, identity, status. Hard: the controller shifts between any two
register accesses; a transfer that times out, or a program that is killed, leaves
it running with bytes in it. Correct means: what a transfer returns is the answer
to its own bytes.

**IIC driver** (`host/alivu13p/i2c.py`). State: per cage the controller, the bus and
the read under way. Operations: reset, read, chunked reads, probe. Hard: a device
that is slow, silent or holds the bus; a reset in the middle of a read. Correct
means: bytes are this read's, in their places, and the controller is asked only
when it may be.

**Board inventory** (`host/test_board_mgmt.py`), the caller of both: identity, flash,
sideband, cages. Hard: the link may be lost at any access, when everything reads
as ones. Correct means: exit status zero is evidence, and the run ends.

**DMA, registers, interrupts** (`host/alivu13p/dma.py`, `axilite.py`, `events.py`).
Transfers are loops over a driver that takes any prefix, shared by threads; a wait
for an interrupt may time out and the interrupt come later. **Address maps**
(`host/alivu13p/memmap.py`): constants, which have to agree with the crossbars and
with the address bits that each peripheral is wired to.

**Bring-up script** (`host/pcie_bringup.sh`). State: whether the card is configured,
the endpoint there, the driver loaded and bound, the nodes the user's; who has a
node open. Operations: rescan, load, test, detach, attach, each a list of steps of
which any may fail and end the script, or succeed without the effect it is for: a
driver may be loaded and not bind, a removal may leave the device there or see it come
back. Correct means: "Safe to reprogram" is, at the moment it is said.

### The tools

**Pin generator** (`xdc/tools/gen_ddr4_xdc.py`) **and checks**
(`xdc/tools/validate_pins.py`): vendor files to constraint files, and a line-by-line
parser with six checks. Hard: the outcome may depend on the order of lines; the
generator may give up half-way; the checks may read while it writes. **Release**
(`tools/release.py`): which bitstream of a design is published, with which probes
and which timing, and whether it is stale, while people edit and builds run.
**Programming and scan** (`tools/program.tcl`, `tools/jtag_scan.tcl`): straight-line.
**Build scripts**: configuration of vendor IP, and the order in which a build
leaves its files.

### How they interact

    check_ddr4_bist.tcl --VIO level--> ddr4_cal_top --start--> axi_bist --AXI--> MIG
                        <--VIO probes--  (2 flops)  <--report--          <-irq-/
    test_pcie_ddr4.py   --status read--> pcie_ddr4_top <--ready-- ecc_init --AXI--> MIG
                        --DMA-------------------------------------------------------/
    test_board_mgmt.py  --qspi.py--> AXI Quad SPI --> flash
                        --i2c.py---> AXI IIC ------> module in a cage
    tests/test_dma.py   --dma.py--> XDMA driver --> memory
    test_interrupt.py   --GPIO level--> endpoint --message--> driver flag --events.py-->
    test_pcie_stream.py --writer thread--> FIFO --reader-->
    pcie_bringup.sh     --> PCI tree, driver, device nodes <-- every program above
    gen_ddr4_xdc.py --> xdc/ --> validate_pins.py;  builds --> output_* --> release.py

## 2. The modules

| Module | Models | Uses |
|---|---|---|
| `BistAddress` | the two address walks | |
| `BistPattern` | the word written for an index, and its bytes | |
| `BistPort` | **abstract**: what a memory test promises to whoever starts it | |
| `AxiBist` | `axi_bist.v` over an AXI slave and a DRAM | extends `BistAddress`; implements `BistPort` |
| `BistLanes` | its read pass at byte-lane granularity, at full size | extends `BistPattern` |
| `Ddr4Cal` | `ddr4_cal_top.v`, four such ports, and `check_ddr4_bist.tcl` | each channel implements `BistPort` |
| `EccInit` | `ecc_init.v` and the controller's register port | |
| `PcieDdr4` | the resets and status of `pcie_ddr4_top.v`, and `test_pcie_ddr4.py` | instantiates `EccInit` on its own variables |
| `GrayCode` | the Gray code of `freq_counter.v`, bit by bit | |
| `FreqCounter` | `freq_counter.v` with the reset of `clk_probe_top.v:68`, over any code in which neighbours do not mix | |
| `QuadSpi` | `qspi.py`, the controller it drives, the flash | |
| `Iic` | `i2c.py`, a controller and a bus per cage, the modules | |
| `BoardMgmt` | `test_board_mgmt.py`, and a person at a prompt | instantiates `QuadSpi` and `Iic` on its own variables |
| `ByteMemory` | **abstract**: what the DMA class promises | |
| `Dma` | `dma.py` under the round trips of `tests/test_dma.py` | implements `ByteMemory` |
| `Interrupt` | `events.py` under `tests/test_interrupt.py`, from the level to the flag | |
| `PcieStream` | `test_pcie_stream.py` and the FIFO of `05_pcie_stream` | |
| `Bringup` | `pcie_bringup.sh` and what it changes on the host | |
| `HostPrograms` | one of these programs on the card | extends `BoardMgmt`, instantiates the four others |
| `MemMap` | `memmap.py`, the check of `axilite.py`, the crossbars of two designs | |
| `PinChecks` | `parse` and `validate` of `validate_pins.py` | |
| `PinFiles` | `gen_ddr4_xdc.py`, and the checks as they read the directory | extends `PinChecks` |
| `Release` | `release.py` over a tree that is edited and built | |
| `Tools` | one of these tools | extends `PinFiles` and `Release` |
| `MCAxiBist`, `MCDdr4Cal`, `MCFreqCounter`, `MCHost`, `MCTools` | instances for TLC; the third gives `FreqCounter` the code of `GrayCode` | |
| `AxiBist_proofs` (and the walks and patterns), `Ddr4Cal_proofs`, `PcieDdr4_proofs`, `FreqCounter_proofs` (and the Gray code), `Dma_proofs`, `BoardMgmt_proofs`, `Tools_proofs` (releases and pins), `HostPrograms_proofs` (and interrupts, stream, script, maps) | theorems | |

### How they read against the code

*A step is a clock edge.* In the RTL models a step is an edge at which some
register of the module changes; edges at which nothing changes are stuttering.
`AxiBist` has one action per state of the `case`, except that `S_WDATA` chooses
which of the two handshakes completes (either or both) and `S_RDATA` is two
actions, the accepted address and the returned beat. Non-blocking assignments
are the primed conjuncts.

*The environment is in the model.* The AXI slave holds what it has accepted
(`slv_aw`, `slv_w`, `slv_ar`) and stores a word in `mem[decode[address]]`. `decode`,
fixed at start, is how the board is wired; a swapped, stuck or shared address line
is a choice of it. `Faults` adds error responses, corrupted beats and writes that
are acknowledged but not stored. `hits` and `lost` are history: they remember what
went wrong in this test, and nothing in the machine reads them.

*Clock domains.* A flop that samples a source of another domain takes the value
the source has now or the one it had at the sampler's previous edge, each bit on
its own (`Catch`). A wide value sampled while it changes may also be `Torn`, a
value it never had (`CatchWide`). In `Ddr4Cal` one `SysEdge` samples all channels
at once, because the VIO does. The flops of the start level only delay it, so
`ShiftStart` takes the level across whenever it likes. `JtagEdges` and `PcieEdges`
are lower bounds on how long a slow operation takes, in edges of the clock that
samples; the assumption is that a JTAG scan or a PCIe read takes at least three
(the code's two flops, and the edge that may miss). In `FreqCounter` both clocks are
steps of their own; a sample may mix the codes before and after the last probed
edge, every bit by itself (`Torn` in `GrayCode`), which is where the Gray code earns its
place. `Ratio` bounds how many probed edges fit between two of the reference.

*The script and the host program.* `pc` names the statement they are at. Timeouts
are a disjunct that may be taken whenever the awaited condition is not seen
(`GiveUp`, the third disjunct of `Wait`). `Operator` is a person at the Hardware
Manager, or an earlier run of the script that was killed.

*History in `Ddr4Cal`.* `mark[c]` is `clean` once a test of channel `c`, begun after
the script raised start, has ended without an error or an ECC event; `disturbed`
is what has happened to any channel since then.

*Register accesses.* In `QuadSpi` and `Iic` each read or write of a register is a
step, and the controllers move between any two. A driver is the list of writes it
is about to make (`todo`), a label that says what it does after them, and what it
has got. A wait is one step that sees the condition or gives up: how often it looked
before is of no consequence, and the controllers may have moved as far as they
like. When the link is gone a read gives ones and a write vanishes, in every
definition that has `link`.

*Calls of the operating system.* `pwrite` and `pread` are one step each and take any
prefix (`\E n`); a failing call may have stored a prefix too. In `PcieStream` the
writer pushes beat by beat, and the read pulls beat by beat until `Whole`.

*Scripts.* A command of `Bringup` is its list of steps; a step that fails ends the
script, which is `set -e`. Every call that can fail has that outcome as a choice
of its action, with what it leaves undone: the scan, the build, `rmmod`, `insmod`,
`chown`, the removal. A removal that succeeds may still leave the endpoint, and
`ComesBack` brings it back at any moment, so what `look` sees is not what `remove`
did. A command that is killed leaves what its steps did.

*Programs side by side.* `HostPrograms` and `Tools` choose one program in the initial
state and let the others rest: the programs do not run at the same time on one
card, and a run then carries the properties of all. What concurrency each has
(threads, the card, kills, edits, builds) is inside its module.

*Lines.* To the pin checks a line is what its regular expression captures, a port a
record of base name, polarity, index and direction, which are the parts the checks
tell apart. What stands between braces is one name, as in the code: a `Pattern` has a
star and stands for the ports whose names begin as it does up to the first one, which
need not be the ports it names (`xdc/qsfp_sideband.xdc:56` has two wildcards); a `List`
without a star is a name that no port has.

### What is abstracted

The constant AXI sidebands (single full-width beats); the bits of a word, which
are a model value per index (`BistPattern` and `BistLanes` have the real bits);
`first_bad_cap`, captured exactly like the count; formatting and printing; the
opening of the JTAG target; the data the DDR4 host program moves (a comparison
may fail at any phase: `Transfers`). A test that was lost stays lost: the
controllers are never assumed to recover. Of the host software: opening and closing
device files, the decoding of a JEDEC identity and of a module's page, the LED walk,
throughput. Of the tools: the words of a line, the header of a bitstream, the
wording of the notes.

### What is assumed of code that is not here

These are in the models as environment, and a result depends on them: the Quad SPI
controller shows a byte as sent only when its answer is in the receive FIFO; a
link that is lost stays lost for the rest of a run; one `pwrite` or `pread` is atomic
against the others; an XDMA timeout is seconds, so it does not fire within the
milliseconds for which the stream program delays its read; a thread that is killed
pushes no more beats; the stream path has at most one fault in a run; a build reads
its sources when it begins; a person reprograms a card that the host may hold only
after the script has said that it is safe; `lspci` works (where it cannot run,
`find_dev | grep -q .` reads as "no endpoint", and the script would say so), and the
host has at most one endpoint that it lists.

## 3. The runs

Between them the passing runs take every action.

| Run | Instance | What it shows |
|---|---|---|
| `AxiBist` | 4 words, both walks of 2, every fault, a sound board and one that sends two words to one cell | the verdict, the report, the port, termination |
| `AxiBist_swapped_lines` | the same walks over a 16-word channel, every pair of lines swapped | *violated*: finding 1 |
| `BistLanes_swap` | the real 8192 words, 8 lanes, every pair exchanged | *violated*: finding 2 |
| `Ddr4Cal_upsets` | 1 channel, up to 2 errors, with ECC events or with a channel that is lost or reset at any moment | PASS, FAIL and the printed count mean what they say, also across tests that start over by themselves |
| `Ddr4Cal_two` | 2 channels that may fail, unrelated clocks, symmetry over channels, nobody but the script raising the level (`ScriptAlone`) | PASS is about all channels |
| `Ddr4Cal_restart` | a second test | *violated*: finding 3 |
| `PcieDdr4` | resets, refused writes, ECC events | ECC is armed under DMA, evidence reaches the host, the sequencer settles |
| `FreqCounter` | a 4-bit counter with its real Gray code, gates of 3 edges, a probed clock up to twice as fast | every gate is counted to within one edge across wraps, a stopped clock is reported |
| `Host` | nine boards, two runs of the inventory and two calls at the prompt, two threads of transfers over five addresses, three interrupt tests, two stream runs of three packets, four runs of the script | what each program reports is true, the drivers keep their protocols, the transfers implement `ByteMemory`, a run ends |
| `Tools` | every pair of files of up to two lines out of 14, 27 sets of vendor files, two designs under six events | the verdict of the checks, the generator's files, what is published |
| `Tools_vcco` | the same | *violated*: finding 4 |
| `Tools_timing` | the same | *violated*: finding 5 |

### The properties

`AxiBist`: `PassSound` (a pass means no wrong answer, no two tested words on one
cell, and every cell holding its pattern), `NoFalseFailure`, `ErrorReport` (no
wrong answer missed; count and first address exact unless a write was lost or two
words share a cell), `HandshakesWatched` (no answer can arrive while nobody
listens), `ImplementsPort` (the refinement), `TestTerminates`. `BusStable` (AXI's
stability rule) and `VerdictStable` (what is read out with `done` stays while `done`
stays) are proved and not run.

`Ddr4Cal`: `PassMeansClean`, `FailMeansDisturbed`, `ReportExact`, `EveryPort` (each
channel as the bring-up design drives it behaves as `BistPort`, so what was shown
of `AxiBist` carries over).

`PcieDdr4`: `ArmedUnderDma`, `EvidenceKept`, `PassMeansNoEvent`, `RefusalMeansEvent`
(a run under way is refused only for an event of its own), and the sequencer's
`ReadyMeansArmed`, `RefusalPreventsReady`, `Settles` (and `CheckingFirst`, proved only).
`ResetsSequencer` is the composition: the resets and the calibration the design
gives the sequencer are those of `EccInit!Spec`.

`FreqCounter`: `SampleReal` (a sample is a count the counter had, or the one before),
`CountHonest` (the published count is within one of the probed edges between its
two samples, of which `truth` keeps the history), `StoppedClockSeen`.

`Host`, the board: `TransferExact` (what a transfer returns is the answer to its own
bytes, after whatever was abandoned before), `FlashReportTrue` (exit status zero
means that identity and status are the flash's, whenever the link failed),
`CageReportTrue` (the same of the cages), `FlashReleased`, `SequenceKept` (the rules
of both controllers, as the mock controllers of `host/tests/test_protocols.py` check
them), `RunEnds`. The transfers: `ImplementsMemory` (the refinement), `RoundTrip` (a
comparison names a byte that failed, and no difference means the buffer is there).
The others: `PassNeedsInterrupt`, `PassMeansLossless` and `FailMeansFault` (which
excludes the deadlock of writer and reader), `BringupTrue` (an action property: what
the script says of endpoint, driver and nodes, at the step at which it says it; one
mutant lets it go on after a refused `rmmod`, the other takes away the look after
the removal).

`Tools`: `VerdictExact` compares the parser and the six checks with a definition that
takes the lines as a set of claims, in no order: equal on all files whose lines are
of the kind the parser reads (`Readable`). `GenFaithful`, `PublishedFresh`.

### The bounds, and why they are enough

*Geometry.* The real walks have half = 2^12 words each, the dense one from word
2^9 in steps of 1, the sparse one in steps of 2^14 through 2^26 words. The
instance keeps what the code relies on: base below half, the dense range between
two sparse points, the sparse walk filling the channel. Four words give each walk
a first word, a last word and a hand-over, and leave an untested word between.
`CountModulus` 9 is one more than the two answers each word can get wrong;
`CountAssumption` says that the real 2^32 exceeds it as well. The DRAM starts
scrambled; a second test finds the patterns of the first, and a reset scrambles
again.

*Counts and edges.* `MaxErrors` 2 separates "the first" from "another"; `JtagEdges`
and `PcieEdges` are 3, their least value, which is the worst case: everything
later than that is a longer wait. Two channels are enough for "one good, one bad"
and for clocks that disagree; the channels do not interact.

*Clock ratio and width.* A gate is unambiguous only if its edges fit the counter:
`GateAssumption` asks for Ratio * LongestGate + 1 < Modulus. With the design's 10^8
cycles and 32 bits that holds for clocks up to 42 times the reference, 4.2 GHz;
the instance meets it with 14 + 1 < 16, its least slack. Its counter wraps about
once a gate, so that every pair of samples and every wrap occurs.

*The host programs.* A FIFO of two and a page of three bytes make a chunk that is
full and one that is not; two cages are one before and one after; two runs are the
one that leaves something and the one that finds it. Packets of one and three beats
lie below and above a FIFO of two. Two threads with buffers of three and two bytes
can be cut up in every way and touch at one address. Four scripts are enough for
attach, detach, reprogram, attach with one of them failing or killed, and for a detach
that fails over an endpoint that is still there and is repeated. The board that
differs from the good one does so in one respect at a time.

*The tools.* Two lines a file and two files give every ordered pair within a file and
across files, and four lines in all; 15 lines have each form, each check and a
standard before, after and beside its pin. Generated files have three pins for the
117 of a channel. Six events are an edit, a build, an edit, a build and one of each
around the tool's own steps. `MCNames` has a file that only a shared script names.

*Two things are not combined.* An execution of `Ddr4Cal_upsets` has ECC events or
lost channels (`UpsetSets`), because together they have a one-edge window in which
`PassMeansClean` fails: a controller reset at the edge before the script's last
refresh clears the ECC latch while the pass it also clears is still on its way.
That is a window of nanoseconds against a refresh of milliseconds; it is a limit of
sampling flags one by one rather than a decision of the code. And the resets of
`PcieDdr4` happen while no transfer is under way, as
`designs/04_pcie_ddr4/README.md` demands ("Do not reset either interface in the
middle of live DMA"); a reset of the AXI side outlasts an edge of `ui_clk`, the
faster clock.

### Fairness

`AxiBist!FairSpec` and `PcieDdr4!FairSpec` ask for weak fairness of the clocked
machine together with its slave: the clock runs, and a controller that has been
asked accepts and answers in the end. The code has no timeout of its own and
relies on exactly that. Nothing is assumed of resets, the operator, the script or
the host: `TestTerminates` holds if the level keeps moving, and `Settles` allows a
reset at any time. Each of the two eventualities is broken by a mutant that loses
track of a handshake. `FreqCounter!FairSpec` asks that the reference clock runs, and
nothing of the probed one. `HostSpec` asks that the host's processor runs the board
program (`WF_vars(Host)`) and nothing of the card: every wait in the drivers has a
deadline, and `RunEnds` fails if one is taken away. The other host programs and the
tools have safety properties only.

## 4. What is proved

For every value of the constants that satisfies the named assumptions, from
`Init` and every step of `Next`:

| Theorem | |
|---|---|
| `AxiBist_proofs!AddressesDistinct` | the walks never meet |
| `AxiBist_proofs!Bit19NeverExercised` | with the real parameters, no tested address has byte bit 19 set |
| `AxiBist_proofs!TypeCorrect`, `PassIsEvidence`, `SoundChannelPasses`, `ReportIsExact`, `NoAnswerLost`, `VerdictSettled`, `BusRule` | the run's safety properties, for any number of words, any wiring, any contents, any set of faults |
| `AxiBist_proofs!PortImplemented` | `AxiBist` implements `BistPort` |
| `AxiBist_proofs!PatternsDiffer` | no two indices of 32 bits have the same word of `BistPattern`, for any width of the data bus |
| `Ddr4Cal_proofs!CleanPass` | `PassMeansClean`, for any number of channels and errors, in executions that do not combine lost channels with ECC events |
| `Ddr4Cal_proofs!NoFalseAlarm`, `CountsExact` | `FailMeansDisturbed`, `ReportExact`, for any upsets |
| `Ddr4Cal_proofs!PortsImplemented` | each channel of the bring-up design implements `BistPort` |
| `PcieDdr4_proofs!ReadyIsArmed`, `RefusalIsFinal`, `CheckingComesFirst`, `SequencerIsReset` | the sequencer, in this design |
| `PcieDdr4_proofs!HostFindsItArmed`, `EvidenceReported`, `PassIsClean`, `RefusalIsEarned` | the host's side, for every read of at least three edges |
| `PcieDdr4_proofs!TypeCorrect` | |
| `FreqCounter_proofs!TypeCorrect`, `NoTornSample`, `GateMeasured` | the run's safety properties, for any width, gate, reset and ratio of the clocks |
| `FreqCounter_proofs!GrayCarries` | the code of `GrayCode` is what `FreqCounter` needs, at every width: it decodes to what was encoded, and read while the count moves, wrapping included, it gives the count before or after |
| `Dma_proofs!MemoryImplemented` | `Dma` implements `ByteMemory`, for any threads, buffers and addresses, overlapping or not |
| `Dma_proofs!TripsAreRight` | `RoundTrip`, for threads with windows of their own |
| `BoardMgmt_proofs!FlashExact`, `FlashLetGo`, `FlashTrue`, `CagesTrue`, `DriversInOrder`, `BoardTypes` | the run's properties of the board program and its two drivers, for any boards, cages, identity, page and FIFO depth |
| `HostPrograms_proofs!ScriptIsTrue` | `BringupTrue`, for any number of scripts and programs, whichever steps fail |
| `HostPrograms_proofs!LosslessPass`, `FaultyFail` | `PassMeansLossless`, `FailMeansFault`, for any packets, FIFO depth and number of runs |
| `HostPrograms_proofs!HostInterrupts` | `PassNeedsInterrupt`, for any number of tests |
| `HostPrograms_proofs!HostMemory`, `HostRoundTrips` | what `Dma_proofs` shows, of the host that also runs the other programs |
| `Tools_proofs!FreshRelease` | `PublishedFresh`, for any tree, any designs and any number of edits and builds |
| `Tools_proofs!ExactVerdict` | `VerdictExact`, for any part, any table of standards and any files of any lines, read while they are written |
| `Tools_proofs!FaithfulFiles` | `GenFaithful`, for any vendor's files, any signals and any number of channels and pins |
| `HostPrograms_proofs!MapsApart`, `BoardReached`, `GoldenReached` | no window overlaps another; every register the drivers touch is let through, answered by one slave and seen by it at its offset |

**Assumptions.** `SizeAssumption` and `GeometryAssumption` (the walks, as the
comment on `DENSE_BASE` states them), `PatternAssumption` (distinct indices have
distinct words: proved of `BistPattern` by `PatternsDiffer`), `CountAssumption` (the counter is wider
than a test), `CalAssumption` and `PcieAssumption` (between two operations over JTAG,
and during a read over PCIe, at least the three edges of a synchroniser pass),
`GrayAssumption` (neighbouring codes mix to one of the two, and a code decodes to what
was encoded: proved of `GrayCode` by `GrayCarries`), `GateAssumption` (the edges of a gate fit the counter), `BoardAssumption` (an
identity of three bytes, a page of at least one, a cage, and a FIFO of at least one
place), `Placed` (addresses are numbers, and every byte of a
buffer has one; `DmaAssumption` in `HostPrograms`), `StreamAssumption` (the packets:
each has a beat and fits the reader's buffer, one is longer than the FIFO),
`ReleaseAssumption` (the designs are listed once each), `NamingAssumption` (how shared
files name each other, below), `NoneAssumption` (the value for no I/O standard and no
exit status is neither a standard nor an exit status), `PinAssumption` (channels are
numbered from one; files, and the order of emission, are sequences; indices are
numbers). TLC evaluates all of them on the instances. The theorems about the script,
the interrupts and the maps assume nothing.

Three hypotheses were brought out by a proof that failed. Without a packet longer than
the FIFO `PassMeansLossless` is false from the third run on: a FIFO that holds
exactly the packets of an interrupted run hands each run those of the one before.
The sizes of the code exclude it, and `StreamAssumption` says which of their features
does. `CleanPass` needs the hypothesis on `UpsetSets` of section 3. And `dependencies`
follows names through shared scripts once (`release.py:97`), which finds every file a
build reads only while scripts are two deep: `common/pcie_test_build.tcl` sources
`common/pcie_test_finish.tcl`, which names nothing. `NamingAssumption` says so; a third
shared script with references of its own would be missed.

**The argument for `AxiBist`.** `PassSound` is not inductive: that no error was
counted says nothing about memory until the read pass has visited it. `IInv` has
six parts. `BusInv` says, state by state, exactly which request of the current
index is offered and which the slave has taken; `HandshakesWatched` and `BusStable`
follow from it. `VerdictInv` ties `done`, `pass` and `busy` to the state. `CountInv`
bounds `error_count` by the answers received so far, which keeps it below the
modulus, and bounds the wrong answers by it: this is where a wrapping counter
would pass a bad channel. `ReadInv`, the heart, says that as long as nothing was
counted every index already read back is in memory; reads do not change memory,
so at the end all of them are, and since the patterns differ no two share a cell.
Nothing is asked of the write pass, which is why lost writes and stale contents do
no harm. `KeptInv` is the converse for a sound channel: what was written is there,
by `AddressesDistinct`, and the count is the number of wrong answers.

**The argument for `Ddr4Cal`.** The invariant is by the number of sysclk edges since
the script's last operation took effect. A flag that stands still for one edge is in
`last`, for two in the first flop, for three in the second (`Shown`, `Hidden`), and a
flag that moved may be in any of them, so what is said of a flop is said from its edge
on. `LowInv` shows that no test is running and no level is up when the script raises
start: one that were running would show as busy. `HighInv` says that once the level
has arrived no channel carries the verdict of an earlier test, so a `done` or a `pass`
that any flop shows from then on is of a new test. `PassInv` says that such a pass is
vouched for, by the mark of a clean test or, if an ECC event spoilt it, by the ECC
latch, which the script reads an operation later; that is where a reset that clears
the latch must be excluded. `CalmInv` and `FinalInv` are the converse: if nothing
happened every flop shows a good channel at the last refresh. The channels only meet
in the script, so a step of one leaves the invariant of the others (`SameKept`).

**The argument for `PcieDdr4`.** `SequencerInv` says what the controller's registers
and its two accepted halves hold in each state of the sequencer. `ResetInv` says
that the flops of `ready` are never ahead of `ready` while the AXI side is out of
reset, `HostInv` that past its first check the program runs over a sequencer that
is done. `EvidenceInv` follows an ECC event through latch and flops edge by edge
while a read is under way, and that is where the three edges are used. For
`RefusalIsEarned` the same is asked of the other direction: out of reset
calibration, `ready` and `failed` only rise and reach the flops in order (`Orderly`),
so past the first check they stay good; an event that a reset has erased is older than
any `ready`, so the two are not seen together (`Erased`); and what was latched when the
program looked first has refused the run there (`CleanInv`).
`SequencerIsReset` shows that each step of the design is one of `EccInit` or leaves
it alone.

**The argument for `FreqCounter`.** `SampleInv` says that each of the three samples (in
the first flop, in the second, and the snapshot) is the count the counter had when
it was taken or the one before, as a remainder; an edge of the probed clock shifts
both sides alike (`Drift`). `AgeInv` bounds how long ago that was, so the true number
of edges of a gate stays below the modulus and the remainder of the difference is
the difference. That leaves one bad case, two samples without an edge between them
of which the second is late: it would read minus one, the largest count there is.
`StillInv` excludes it, because a sample can only be late if an edge came since the
sample before.

**The argument for the codes.** `FreqCounter` and `AxiBist` are stated for any code and
any patterns that meet their assumptions; `GrayCarries` and `PatternsDiffer` show that
the real ones do, at every width. A bit of n is the parity of what is left above it
(`Above`), and going up one bit halves that. Behind it is `PowerIs`, which has
to be proved because the provers know nothing of exponents: a power of two is
the number of subsets of a set, and one element more doubles it. Counting up
carries through the ones below the lowest zero (`CarryIs`), so of the exclusive ors of
neighbouring bits just one changes (`OneBit`), also where the counter wraps; a mixture
that differs in one bit is one of the two (`TornOnce`). Decoding inverts because the
ones at or above a place are odd in number where the bit is one (`ParityIs`), and
because the sum of the powers does not depend on its order (`SumAdds`, `SumIs`).

**The argument for `Dma`.** `Shape` says that a thread has got as many bytes as it
counts and no more than its buffer has. With it each step maps: a `pwrite` of n bytes
stores the offsets from `done` to `done + n - 1`, a `pread` fetches them, and the
comparison names the least offset that differs, which is where a choice of another
one would fail. For the round trips `TripInv` says that up to `done` the memory
(writing) or the chunks (reading) agree with the buffer but at bytes that changed
by themselves; another thread's `pwrite` cannot touch it because the windows are
apart.

**The argument for the board program.** Each controller, its driver and the program
have a part. `SpiInv` says, for each place the driver can stand at, which writes it has
yet to make (`Rest`: an end of the list it set out with), what the core holds after the
others, and that the bytes the flash has heard, those queued and those answered add
up, so that the answer taken is the answer to the byte sent (`Expected`). `IicInv` is
the same per cage: what has arrived of a read, in the FIFO and in the program, is the
page from its offset on, and at most a FIFO of it is asked for at a time. Neither
assumes anything of what went before, because `reset` establishes both from any
state; that is `FlashExact` after a kill. `ProgInv` adds what the program has found so
far, as a condition on the link: a finding is true, or the link is gone, in which
case the next access ends the run. `InOrder` and `InTurn` are the rules of the mock
controllers, proved of each step.

**The argument for the script.** What is left of a command is always an end of its list
(`Ends`), and before each step what it relies on holds (`Running`): from a
successful `rmmod` to the end of a detach no driver is loaded, and a driver that is
bound is loaded and has its endpoint, so no node opens and none can be held. That the
endpoint is gone is not in it, because a removal does not establish that and
`ComesBack` would break it; only the last step does, which looks (`Told`). A step that
fails or is killed says nothing. Programs, reboots and an endpoint that appears only
change what no remaining step relies on (`CardWorld`).

**The argument for the stream.** Where beats come from is told by numbers: e beats in
front of the packet that were there before it, those sent, and the one that was lost
(`Lag`). A packet that comes back right leaves the FIFO empty unless what was in front
of it was a whole packet of its size, which the longest packet rules out. A run that
found the FIFO empty is then either `Clean`, every beat in its place, or `Doomed`: the
fault is in a beat or a mark that will be read, or a beat will be missing, and the
run does not pass. That a run without a fault does not fail needs the opposite as
well: a write waits in vain only for a reader that has given up.

**The argument for `Interrupt`.** `PassNeedsInterrupt` is not inductive: one must know
that the flag, and a wait that has seen it, each stand for an arrival not yet
counted. The invariant counts these tokens: passes so far, the one that a good test
is about to add, and the flag if it is up and not yet claimed, are together at most
the arrivals.

**The argument for `Release`.** The check and the copy are steps of their own, with
edits and builds between and after them. What the invariant keeps is a bound: each
entry was not older, when it was looked at, than any edit that came before the look
of a file its build reads. The bound survives because edits come later (`Later`), a
bitstream in a directory is only replaced by a newer one (`Grown`), and a copy has the
time the directory has. A look establishes it: `newest_source` is not before any edit
of the dependencies (`NewestIs`), which cover what a build reads
(`DependenciesCover`).

**The argument for the pin tools.** Both are computations over data, and where a proof
on paper would say "by induction" these proofs take the least counterexample
(`FirstIs`) and step once away from it: that a finite set with a total order can be
listed in it (`ListExists`), that a fold is the last of a row of values each made from
the one before (`FoldExists`, `ParseSteps`), that every beginning of readable lines is
readable (`ReadableUpto`). `FaithfulFiles` then needs that the keys the generator
sorts are totally ordered (`KeysOrdered`); without that, what `emit` chooses as their
listing would be unspecified. `ExactVerdict` rests on `Right`: the assignments are the
ports that the lines name, each with its one pin and the standard that the last line
asking for it gives. One more line keeps that (`TakeRight`), but only if the lines are
`Readable`: a standard in front of the pin of its port and a second pin are just what
the parser drops, and of a list or a wildcard it may take other ports than are named.
Each of the six checks is silent exactly if the
condition it stands for holds of all assignments (`SilentRole` and the five after it),
and assignments and claims correspond (`ClaimsAre`). Nothing is asked of which file
is old and which is new, so the verdict is exact for whatever mixture was read.

**The argument for `MemMap`.** There is no state; each register is computed through
window, check, crossbar and wired bits. The addresses exceed TLC's integers, so this
module is proved and not run.

**Only model-checked.** `TestTerminates`, `Settles`, `StoppedClockSeen` and `RunEnds`
are liveness. Every invariant and action property of a passing run is proved, and so
are the refinements; `CleanPass` under the hypothesis of section 3. That the constants
of the runs meet the assumptions is evaluated by TLC on each of them.

## 5. Where code and comments disagree

1. *Swapped address lines pass* (`AxiBist_swapped_lines`). Two swapped lines send
   distinct addresses to distinct cells, reads follow writes through the same
   swap, and every word is found where it was put. The comment at
   `axi_bist.v:118` and `designs/02_ddr4_cal/README.md:48,58` say the test detects
   them. (`PassSound` holds regardless: a pass is evidence about the tested words.)
2. *Some exchanged byte lanes pass* (`BistLanes_swap`). Bytes 2 and 3 of every copy,
   and byte 1 of every pair of copies, are the same in each word.
3. *A torn count can be captured on a restart* (`Ddr4Cal_restart`): `done` is still
   high behind its synchroniser at the edge at which the count is cleared. The
   verdict is not affected, as `ReportExact` shows: the script reads after a test.
4. *A bank conflict can go unreported* (`Tools_vcco`). A standard for a list of ports,
   as `xdc/qsfp_sideband.xdc:28` gives it, or on a line before its pin, is dropped
   (`validate_pins.py:179`), and the bank passes the check of line 23.
5. *The published timing can be another build's* (`Tools_timing`). `timing` takes
   the first report that an unsorted listing gives, `collect` the first bitstream by
   name; and where builds share a directory, one that fails after its report leaves
   the old bitstream beside it.

And one that is a theorem rather than a run: `axi_bist.v:24` says that "every
address bit gets exercised", and `Bit19NeverExercised` proves that bit 19 is not.
The dense walk ends at byte 0x47fff and the sparse one moves in steps of bit 20.

Met while modelling, and without a run of their own because no statement in the
repository says otherwise, or because the effect ends at a message:

- `check_ddr4_bist.tcl:50` looks at three flags that arrive one by one, so a test that
  someone else started can look fresh. PASS is not affected: `PassMeansClean`.
- `validate_pins.py`: `gtlane` compares RX and TX pins of one quad and polarity only,
  so a lane split across quads is not seen; `role` never objects to an I/O port on a
  transceiver pin; a port given two pins keeps the first and goes on; a list with a
  wildcard is one prefix, up to the first star (`xdc/qsfp_sideband.xdc:56` sets
  the standard of the first of its two vectors only).
- `release.py`: of several dated builds the oldest is published (`bits[0]`), so
  rebuilding does not cure a refusal; a file edited while a build runs is older than
  the bitstream and newer than what it was built from.
- `Iic.responds` takes any error for silence, so a bus that is held reads as "empty,
  bus silent" and the run succeeds.
- A late interrupt message makes the next interrupt test pass; it is counted once.
- `pcie_bringup.sh:59`: without nodes `chown` ends the script before the message of
  line 60.
- The stream program's packets are the same in every run, so one that a killed run
  left can stand in for one that is lost; whatever is left fails the runs after it
  until the card is programmed again; and an exception in the reader waits in the
  pool for a writer that is blocked until the driver gives up.

## 6. Not modelled

The list with reasons is under `components` in `PROJECT.json`: generated IP (QSFP
IBERT), wiring of vendor IP, pure configuration (most of the build scripts),
stateless readers and straight-line scripts (`check_ddr4_cal.tcl`,
`bitstream_info.py`, `program.tcl`, `jtag_scan.tcl`). `release.py` is modelled without
the part check and the notes, `dma.py`, `axilite.py` and `events.py` without opening and
closing their files.

## 7. Plan

Done, in this order: `BistAddress`, `BistPort`, `AxiBist`, `Ddr4Cal`, `EccInit`,
`PcieDdr4`, `FreqCounter`; `QuadSpi`, `Iic`, `BoardMgmt`, `Dma`, `Interrupt`, `MemMap`,
`PcieStream`, `Bringup`, `PinChecks`, `PinFiles`, `Release`; the proofs of every
design, of the host programs, of the bring-up script and of the tools.

What is left: properties of the generator over several runs (one that is repeated
after it gave up), and a theorem that bounds what `CleanPass` leaves out: where lost
channels and ECC events are combined, a PASS that is not clean has a reset of the
controller within the edges a synchroniser takes before the last refresh.
