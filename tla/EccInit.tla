------------------------------ MODULE EccInit ------------------------------
(***************************************************************************)
(* The sequencer that turns ECC checking and the ECC interrupts of the     *)
(* memory controller on before the host may use the memory                 *)
(* (designs/04_pcie_ddr4/rtl/ecc_init.v), with the controller's register   *)
(* port.  A step is a ui_clk edge at which some register changes; the      *)
(* controller chooses when it accepts and answers, and may refuse.         *)
(***************************************************************************)
EXTENDS Integers

(* ECC on or off at 16'h08, the interrupt enables at 16'h04.               *)
Register == {4, 8}
Wanted   == [r \in Register |-> IF r = 8 THEN 1 ELSE 3]
Cleared  == [r \in Register |-> 0]
None     == 0    \* no address, no data: nothing accepted

VARIABLES
    resetn, calibrated,                  \* inputs
    state, second, aw_done, w_done,      \* the sequencer
    ready, failed,
    slv_aw, slv_w, reg,                  \* the controller's register port
    refused                              \* history: a write was answered with
                                         \* an error since the last reset

inputs    == <<resetn, calibrated>>
sequencer == <<state, second, aw_done, w_done, ready, failed>>
port      == <<slv_aw, slv_w, reg>>
vars      == <<inputs, sequencer, port, refused>>

InReset ==
    /\ state = "IDLE" /\ second = FALSE /\ aw_done = FALSE /\ w_done = FALSE
    /\ ready = FALSE /\ failed = FALSE
    /\ slv_aw = None /\ slv_w = None /\ reg = Cleared
    /\ refused = FALSE

Init == resetn = FALSE /\ calibrated = FALSE /\ InReset

(* Mutant: an interrupt register that is not there.                        *)
awaddr_misplaced == IF second THEN 12 ELSE 8

awaddr == IF second THEN 4 ELSE 8
wdata  == IF second THEN 3 ELSE 1

-----------------------------------------------------------------------------
(* The controller shares the reset: its interrupt enables return to zero.  *)
HeldInReset ==
    /\ ~resetn
    /\ state' = "IDLE" /\ second' = FALSE
    /\ aw_done' = FALSE /\ w_done' = FALSE
    /\ ready' = FALSE /\ failed' = FALSE
    /\ slv_aw' = None /\ slv_w' = None /\ reg' = Cleared
    /\ refused' = FALSE

Begin ==
    /\ resetn /\ state = "IDLE" /\ calibrated
    /\ state' = "SEND"
    /\ UNCHANGED <<second, aw_done, w_done, ready, failed, port, refused>>

(* Mutant: only handshakes at the same edge count.                         *)
Sent_together(awready, wready) == awready /\ wready
Sent(awready, wready) == (aw_done \/ awready) /\ (w_done \/ wready)

(* Each channel is offered until its own handshake.                        *)
Send ==
    /\ resetn /\ state = "SEND"
    /\ \E awready, wready \in BOOLEAN :
        LET aw == ~aw_done /\ awready
            w  == ~w_done /\ wready
        IN  /\ aw \/ w
            /\ aw_done' = (aw_done \/ aw) /\ w_done' = (w_done \/ w)
            /\ slv_aw' = IF aw THEN awaddr ELSE slv_aw
            /\ slv_w'  = IF w THEN wdata ELSE slv_w
            /\ state'  = IF Sent(awready, wready) THEN "RESP" ELSE "SEND"
    /\ UNCHANGED <<second, ready, failed, reg, refused>>

(* A write the controller refuses may or may not have been carried out.    *)
Response(okay) ==
    /\ resetn /\ state = "RESP" /\ slv_aw # None /\ slv_w # None
    /\ \E stored \in BOOLEAN :
        /\ okay => stored
        /\ reg' = IF stored THEN [reg EXCEPT ![slv_aw] = slv_w] ELSE reg
    /\ slv_aw' = None /\ slv_w' = None
    /\ refused' = (refused \/ ~okay)

RespRefused ==
    /\ Response(FALSE)
    /\ failed' = TRUE /\ state' = "DONE"
    /\ UNCHANGED <<second, aw_done, w_done, ready>>

(* Mutants: ready after the first write; the first answer is not looked at.*)
RespLast_first ==
    /\ Response(TRUE)
    /\ ready' = TRUE /\ state' = "DONE"
    /\ UNCHANGED <<second, aw_done, w_done, failed>>
RespFirst_any ==
    /\ \E okay \in BOOLEAN : Response(okay)
    /\ ~second
    /\ second' = TRUE /\ aw_done' = FALSE /\ w_done' = FALSE
    /\ state' = "SEND"
    /\ UNCHANGED <<ready, failed>>

RespLast ==
    /\ Response(TRUE) /\ second
    /\ ready' = TRUE /\ state' = "DONE"
    /\ UNCHANGED <<second, aw_done, w_done, failed>>

RespFirst ==
    /\ Response(TRUE) /\ ~second
    /\ second' = TRUE /\ aw_done' = FALSE /\ w_done' = FALSE
    /\ state' = "SEND"
    /\ UNCHANGED <<ready, failed>>

Clocked == Begin \/ Send \/ RespRefused \/ RespLast \/ RespFirst

(* The reset is asserted at any time; its release takes four ui_clk edges  *)
(* (m_reset), so the sequencer has seen it by then.                        *)
Assert  == resetn /\ resetn' = FALSE /\ calibrated' \in BOOLEAN
           /\ UNCHANGED <<sequencer, port, refused>>
Release == ~resetn /\ InReset /\ resetn' = TRUE
           /\ UNCHANGED <<calibrated, sequencer, port, refused>>
Calibration == calibrated' = ~calibrated
           /\ UNCHANGED <<resetn, sequencer, port, refused>>

Edge == (HeldInReset \/ Clocked) /\ UNCHANGED inputs
Next == Edge \/ Assert \/ Release \/ Calibration

Spec == Init /\ [][Next]_vars

(* The clock runs, and the controller accepts and answers in the end.      *)
FairSpec == Spec /\ WF_vars(Edge)

-----------------------------------------------------------------------------
(***************************************************************************)
(* Properties.                                                             *)
(***************************************************************************)
TypeOK ==
    /\ resetn \in BOOLEAN /\ calibrated \in BOOLEAN
    /\ state \in {"IDLE", "SEND", "RESP", "DONE"}
    /\ second \in BOOLEAN /\ aw_done \in BOOLEAN /\ w_done \in BOOLEAN
    /\ ready \in BOOLEAN /\ failed \in BOOLEAN
    /\ slv_aw \in Register \cup {None} /\ slv_w \in {1, 3, None}
    /\ reg \in [Register -> {0, 1, 3}]
    /\ refused \in BOOLEAN

(* "Enable ECC checking and both MIG ECC interrupt classes before host     *)
(* DMA": ready is a promise about the controller's registers, whichever    *)
(* half of each write the controller took first.                           *)
ReadyMeansArmed == ready => reg = Wanted

(* "BRESP errors prevent ready assertion": whichever of the two writes was *)
(* refused, and although a later one might have been accepted.             *)
RefusalPreventsReady == refused => failed /\ ~ready

(* The interrupts are enabled only over a controller that checks ECC: the  *)
(* second write does not overtake the first, which matters because AW and  *)
(* W of either may be taken in any order.                                  *)
CheckingFirst == reg[4] # 0 \/ slv_aw = 4 \/ slv_w = 3 => reg[8] = 1

(* Out of reset and with the memory calibrated the sequencer comes to a    *)
(* verdict, unless it is reset or calibration goes before it has begun.    *)
Settles == resetn /\ calibrated ~> ready \/ failed \/ ~resetn \/ ~calibrated
=============================================================================
