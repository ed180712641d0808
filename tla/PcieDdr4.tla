------------------------------ MODULE PcieDdr4 ------------------------------
(***************************************************************************)
(* PCIe DMA to one ECC DDR4 channel: the resets and the status word of     *)
(* designs/04_pcie_ddr4/rtl/pcie_ddr4_top.v around the ECC sequencer, and  *)
(* the host program that qualifies the memory (host/test_pcie_ddr4.py).    *)
(*                                                                         *)
(* Two clocks: ui_clk for the controller, the sequencer and the ECC latch, *)
(* axi_aclk for the status word.  A status flop that samples a changing    *)
(* source catches its old or its new value, each flag on its own.  A read  *)
(* over PCIe lasts at least PcieEdges edges of axi_aclk.                   *)
(***************************************************************************)
EXTENDS Integers

CONSTANT PcieEdges

(* A read outlasts the synchroniser, and the change it may just miss.      *)
ASSUME PcieAssumption == PcieEdges \in Nat /\ PcieEdges >= 3

Flag  == {"calib", "ecc", "ready", "failed"}
Flags == [Flag -> BOOLEAN]
Low   == [f \in Flag |-> FALSE]
Good  == [Low EXCEPT !.calib = TRUE, !.ready = TRUE]    \* status & 15 = 5

VARIABLES
    resetn, calibrated, state, second, aw_done, w_done, ready, failed,
    slv_aw, slv_w, reg, refused,    \* the sequencer; resetn is m_reset[3]
    axi_aresetn, ui_rst,            \* the two resets
    ecc_latched,
    sync, last,                     \* two flops a flag; flags at last axi edge
    pc, asked, edges,               \* the host, and its read under way
    owed, event                     \* history: the latch when the read was
                                    \* issued, unless a reset of MIG is about
                                    \* to clear it; an ECC error since the
                                    \* first check of the status

Ecc == INSTANCE EccInit

sequencer == <<resetn, calibrated, state, second, aw_done, w_done, ready,
               failed, slv_aw, slv_w, reg, refused>>
resets    == <<axi_aresetn, ui_rst>>
status    == <<sync, last>>
host      == <<pc, asked, edges, owed, event>>
vars      == <<sequencer, resets, ecc_latched, status, host>>

(* Mutant: two bits of the status word swapped.                            *)
flags_swapped == [calib |-> calibrated, ecc |-> ready, ready |-> ecc_latched,
                  failed |-> failed]
flags == [calib |-> calibrated, ecc |-> ecc_latched, ready |-> ready,
          failed |-> failed]

(* Power-up: the resets are asserted.                                      *)
Init ==
    /\ Ecc!Init
    /\ axi_aresetn = FALSE /\ ui_rst = TRUE /\ ecc_latched = FALSE
    /\ sync = <<Low, Low>> /\ last = Low
    /\ pc = "off" /\ asked = FALSE /\ edges = 0
    /\ owed = FALSE /\ event = FALSE

-----------------------------------------------------------------------------
(* ui_clk.                                                                 *)
transport_reset == ~axi_aresetn \/ ui_rst

SequencerEdge ==
    /\ Ecc!Edge
    /\ UNCHANGED <<resets, ecc_latched, status, host>>

(* m_reset shifts in its fourth one.                                       *)
ReleaseSequencer ==
    /\ ~transport_reset /\ Ecc!Release
    /\ UNCHANGED <<resets, ecc_latched, status, host>>

Calibrate ==
    /\ ~ui_rst /\ ~calibrated /\ Ecc!Calibration
    /\ UNCHANGED <<resets, ecc_latched, status, host>>

(* Mutant: the sequencer is released with MIG, not by the shift register.  *)
UiRelease_releases ==
    /\ ui_rst /\ ui_rst' = FALSE
    /\ ecc_latched' = FALSE /\ resetn' = TRUE
    /\ UNCHANGED <<calibrated, state, second, aw_done, w_done, ready, failed,
                   slv_aw, slv_w, reg, refused, axi_aresetn, status, host>>

(* MIG comes out of reset; its reset has cleared the latch by then.        *)
UiRelease ==
    /\ ui_rst /\ ui_rst' = FALSE
    /\ ecc_latched' = FALSE
    /\ UNCHANGED <<sequencer, axi_aresetn, status, host>>

Dma == {"sparse", "write", "read"}

(* A DMA access meets an uncorrectable error, and the controller pulses    *)
(* its interrupt line if the interrupts are enabled.                       *)
EccEvent ==
    /\ pc \in Dma \cup {"off"} /\ calibrated /\ resetn
    /\ ecc_latched' = (ecc_latched \/ reg[4] = 3)
    /\ event' = (event \/ pc \in Dma)
    /\ UNCHANGED <<sequencer, resets, status, pc, asked, edges, owed>>

-----------------------------------------------------------------------------
(* axi_aclk.                                                               *)
Catch == {r \in Flags : \A f \in Flag : r[f] \in {flags[f], last[f]}}

AxiEdge ==
    /\ last' = flags
    /\ IF ~axi_aresetn THEN sync' = <<Low, Low>>
       ELSE \E caught \in Catch : sync' = <<caught, sync[1]>>
    /\ edges' = IF asked /\ edges < PcieEdges THEN edges + 1 ELSE edges
    /\ UNCHANGED <<sequencer, resets, ecc_latched, pc, asked, owed, event>>

(* The shortest reset outlasts a ui_clk edge, which is the faster clock.   *)
AxiRelease ==
    /\ ~axi_aresetn /\ axi_aresetn' = TRUE
    /\ sync = <<Low, Low>> /\ Ecc!InReset
    /\ last' = flags
    /\ UNCHANGED <<sequencer, ui_rst, ecc_latched, sync, host>>

(* A reset takes the host program down if a read of it is under way.  Not  *)
(* in the middle of live DMA (designs/04_pcie_ddr4/README.md).             *)
Interrupted ==
    /\ pc \in {"off", "wait", "check"}
    /\ pc' = IF asked THEN "off" ELSE pc
    /\ asked' = FALSE /\ edges' = 0 /\ owed' = FALSE
    /\ UNCHANGED event

(* The host resets its DMA engine: the sequencer is reset at once, MIG and *)
(* the ECC latch are not.                                                  *)
DmaReset ==
    /\ axi_aresetn /\ axi_aresetn' = FALSE
    /\ resetn' = FALSE
    /\ Interrupted
    /\ UNCHANGED <<calibrated, state, second, aw_done, w_done, ready, failed,
                   slv_aw, slv_w, reg, refused, ui_rst, ecc_latched, status>>

(* PERST: MIG is reset and retrains as well.                               *)
Perst ==
    /\ axi_aresetn /\ ~ui_rst
    /\ axi_aresetn' = FALSE /\ ui_rst' = TRUE
    /\ resetn' = FALSE /\ calibrated' = FALSE
    /\ Interrupted
    /\ UNCHANGED <<state, second, aw_done, w_done, ready, failed, slv_aw,
                   slv_w, reg, refused, ecc_latched, status>>

-----------------------------------------------------------------------------
(* The host.  It reads the status while it waits and at three checks.      *)
Reading == {"wait", "check", "check write", "check read"}

Goto(next) == pc' = next /\ asked' = FALSE /\ edges' = 0 /\ owed' = FALSE

HostStart ==
    /\ pc = "off" /\ Goto("wait") /\ event' = FALSE
    /\ UNCHANGED <<sequencer, resets, ecc_latched, status>>

Ask ==
    /\ pc \in Reading /\ ~asked /\ axi_aresetn
    /\ asked' = TRUE /\ owed' = (ecc_latched /\ ~ui_rst)
    /\ UNCHANGED <<sequencer, resets, ecc_latched, status, pc, edges, event>>

(* A read of an endpoint in reset returns ones: "wrong design".            *)
AskInReset ==
    /\ pc \in Reading /\ ~asked /\ ~axi_aresetn
    /\ Goto("off")
    /\ UNCHANGED <<sequencer, resets, ecc_latched, status, event>>

(* Mutant: a read shorter than the synchroniser.                           *)
Answered_hasty(from) == pc = from /\ asked
Answered(from) == pc = from /\ asked /\ edges = PcieEdges

(* value & 5 == 5 ends the wait; 30 s without it end the program.          *)
Wait ==
    /\ Answered("wait")
    /\ \/ sync[2].calib /\ sync[2].ready /\ Goto("check")
       \/ ~(sync[2].calib /\ sync[2].ready) /\ Goto("wait")
       \/ ~(sync[2].calib /\ sync[2].ready) /\ Goto("off")
    /\ UNCHANGED <<sequencer, resets, ecc_latched, status, event>>

(* check_status.  Mutant: it masks as the wait does.                       *)
StatusGood_masked == sync[2].calib /\ sync[2].ready
StatusGood == sync[2] = Good

Check(from, to) ==
    /\ Answered(from)
    /\ Goto(IF StatusGood THEN to ELSE "off")
    /\ UNCHANGED <<sequencer, resets, ecc_latched, status, event>>

(* A phase of transfers ends; a comparison in it may fail.                 *)
Transfers(from, to) ==
    /\ pc = from /\ (Goto(to) \/ Goto("off"))
    /\ UNCHANGED <<sequencer, resets, ecc_latched, status, event>>

(* The last check that succeeds prints PASS.                               *)
Pass == Check("check read", "off") /\ StatusGood

Host == \/ HostStart \/ Ask \/ AskInReset \/ Wait \/ Check("check", "sparse")
        \/ Transfers("sparse", "write") \/ Transfers("write", "check write")
        \/ Check("check write", "read") \/ Transfers("read", "check read")
        \/ Check("check read", "off")

Next == \/ SequencerEdge \/ ReleaseSequencer \/ Calibrate \/ UiRelease
        \/ EccEvent \/ AxiEdge \/ AxiRelease \/ DmaReset \/ Perst \/ Host

Spec == Init /\ [][Next]_vars

(* ui_clk runs, and the controller accepts and answers in the end.         *)
FairSpec == Spec /\ WF_vars(SequencerEdge)

-----------------------------------------------------------------------------
(***************************************************************************)
(* Properties.                                                             *)
(***************************************************************************)
TypeOK ==
    /\ Ecc!TypeOK
    /\ axi_aresetn \in BOOLEAN /\ ui_rst \in BOOLEAN /\ ecc_latched \in BOOLEAN
    /\ sync \in Flags \X Flags /\ last \in Flags
    /\ pc \in {"off"} \cup Reading \cup Dma
    /\ asked \in BOOLEAN /\ edges \in 0 .. PcieEdges
    /\ owed \in BOOLEAN /\ event \in BOOLEAN

(* "Enable ECC checking and both MIG ECC interrupt classes before host     *)
(* DMA" (ecc_init.v): while the host transfers, the controller checks and  *)
(* reports, whatever resets preceded and however late its status arrived.  *)
ArmedUnderDma == pc \in Dma => ready /\ reg = Ecc!Wanted

(* "host DMA reset alone does not erase that evidence" (04's README): an   *)
(* event latched before a read was issued is in what the read returns.     *)
EvidenceKept == asked /\ edges = PcieEdges /\ owed => sync[2].ecc

(* "bytes written then verified [...] no ECC events": PASS is not printed  *)
(* when an access of the run met an uncorrectable error.                   *)
PassMeansNoEvent == [][Pass => ~event]_vars

(* A check refuses a run that is under way only for an ECC event of it.    *)
RefusalMeansEvent ==
    [][\A from \in {"check write", "check read"} :
          Answered(from) /\ pc' = "off" /\ ~Pass => event]_vars

(* The sequencer's promises, in this design.                               *)
ReadyMeansArmed      == Ecc!ReadyMeansArmed
RefusalPreventsReady == Ecc!RefusalPreventsReady
CheckingFirst        == Ecc!CheckingFirst
Settles              == Ecc!Settles

(* The design gives the sequencer the resets and the calibration it is     *)
(* proved for.                                                             *)
ResetsSequencer == Ecc!Spec
=============================================================================
