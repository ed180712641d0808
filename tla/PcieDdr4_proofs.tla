-------------------------- MODULE PcieDdr4_proofs --------------------------
(***************************************************************************)
(* Proofs about PcieDdr4.  First the sequencer alone, from an invariant    *)
(* that says what the controller holds in each of its states; then that    *)
(* the design's resets are ones the sequencer is prepared for; then the    *)
(* status word: what its flops hold is never better than the truth.        *)
(***************************************************************************)
EXTENDS PcieDdr4, TLAPS

-----------------------------------------------------------------------------
(* The sequencer.                                                          *)

(* The first write is not outstanding once second is up, and what the port *)
(* has accepted is what the flags say.                                     *)
SequencerInv ==
    /\ Ecc!TypeOK
    /\ state = "IDLE" => Ecc!InReset
    /\ state = "SEND" =>
        /\ slv_aw = IF aw_done THEN Ecc!awaddr ELSE 0
        /\ slv_w = IF w_done THEN Ecc!wdata ELSE 0
    /\ state = "RESP" => slv_aw = Ecc!awaddr /\ slv_w = Ecc!wdata
    /\ state = "DONE" => slv_aw = 0 /\ slv_w = 0
    /\ state \in {"SEND", "RESP"} =>
        /\ ready = FALSE /\ failed = FALSE /\ refused = FALSE
        /\ reg[8] = (IF second THEN 1 ELSE 0) /\ reg[4] = 0
    /\ reg[4] # 0 => second
    /\ second => reg[8] = 1
    /\ ready => reg[8] = 1 /\ reg[4] = 3 /\ refused = FALSE
    /\ refused => failed
    /\ ready => failed = FALSE

(* The parts above follow one another round the sequencer.                 *)
LEMMA SequencerInitially == Ecc!Init => SequencerInv
BY DEF Ecc!Init, SequencerInv, Ecc!TypeOK, Ecc!InReset, Ecc!Cleared,
       Ecc!Register, Ecc!None

LEMMA SequencerInductive ==
    ASSUME SequencerInv, [Ecc!Next]_(Ecc!vars)
    PROVE  SequencerInv'
<1> USE DEF Ecc!Register, Ecc!None
<1>1. CASE Ecc!HeldInReset /\ UNCHANGED Ecc!inputs
  BY <1>1 DEF SequencerInv, Ecc!TypeOK, Ecc!HeldInReset, Ecc!InReset,
              Ecc!Cleared, Ecc!inputs
<1>2. CASE Ecc!Begin /\ UNCHANGED Ecc!inputs
  BY <1>2 DEF SequencerInv, Ecc!TypeOK, Ecc!Begin, Ecc!InReset, Ecc!Cleared,
              Ecc!inputs, Ecc!port
<1>3. CASE Ecc!Send /\ UNCHANGED Ecc!inputs
  BY <1>3 DEF SequencerInv, Ecc!TypeOK, Ecc!Send, Ecc!Sent, Ecc!awaddr, Ecc!wdata,
              Ecc!inputs
<1>4. CASE Ecc!RespRefused /\ UNCHANGED Ecc!inputs
  BY <1>4 DEF SequencerInv, Ecc!TypeOK, Ecc!RespRefused, Ecc!Response,
              Ecc!awaddr, Ecc!wdata, Ecc!inputs
<1>5. CASE Ecc!RespLast /\ UNCHANGED Ecc!inputs
  BY <1>5 DEF SequencerInv, Ecc!TypeOK, Ecc!RespLast, Ecc!Response,
              Ecc!awaddr, Ecc!wdata, Ecc!inputs
<1>6. CASE Ecc!RespFirst /\ UNCHANGED Ecc!inputs
  <2>1. slv_aw = 8 /\ slv_w = 1 /\ second = FALSE /\ state = "RESP"
    BY <1>6 DEF SequencerInv, Ecc!TypeOK, Ecc!RespFirst, Ecc!Response,
                Ecc!awaddr, Ecc!wdata
  <2>2. reg' = [reg EXCEPT ![8] = 1] /\ reg[4] = 0
    BY <1>6, <2>1 DEF SequencerInv, Ecc!RespFirst, Ecc!Response
  <2>3. reg'[8] = 1 /\ reg'[4] = 0 /\ reg' \in [Ecc!Register -> {0, 1, 3}]
    BY <2>2 DEF SequencerInv, Ecc!TypeOK
  <2>4. /\ state' = "SEND" /\ second' = TRUE /\ aw_done' = FALSE
        /\ w_done' = FALSE /\ ready' = FALSE /\ failed' = FALSE
        /\ refused' = FALSE /\ slv_aw' = 0 /\ slv_w' = 0
        /\ resetn' \in BOOLEAN /\ calibrated' \in BOOLEAN
    BY <1>6, <2>1 DEF SequencerInv, Ecc!TypeOK, Ecc!RespFirst, Ecc!Response,
                      Ecc!inputs
  <2> QED  BY <2>3, <2>4 DEF SequencerInv, Ecc!TypeOK
<1>7. CASE Ecc!Assert \/ Ecc!Release \/ Ecc!Calibration \/ UNCHANGED Ecc!vars
  <2>1. UNCHANGED <<Ecc!sequencer, Ecc!port, refused>>
    BY <1>7 DEF Ecc!Assert, Ecc!Release, Ecc!Calibration, Ecc!vars
  <2>2. resetn' \in BOOLEAN /\ calibrated' \in BOOLEAN
    BY <1>7 DEF SequencerInv, Ecc!TypeOK, Ecc!Assert, Ecc!Release,
                Ecc!Calibration, Ecc!vars, Ecc!inputs
  <2> QED
    BY <2>1, <2>2 DEF SequencerInv, Ecc!TypeOK, Ecc!InReset, Ecc!awaddr,
                      Ecc!wdata, Ecc!sequencer, Ecc!port, Ecc!Cleared
<1> QED
  BY <1>1, <1>2, <1>3, <1>4, <1>5, <1>6, <1>7
     DEF Ecc!Next, Ecc!Edge, Ecc!Clocked

-----------------------------------------------------------------------------
(* Every step of the design is one the sequencer is prepared for: the two  *)
(* resets reach it as an assertion of its own, unless it is held already.  *)
LEMMA StepIsSequencers ==
    ASSUME SequencerInv, [Next]_vars
    PROVE  [Ecc!Next]_(Ecc!vars)
<1>1. resetn \in BOOLEAN /\ calibrated \in BOOLEAN
  BY DEF SequencerInv, Ecc!TypeOK
<1>2. CASE SequencerEdge
  BY <1>2 DEF SequencerEdge, Ecc!Next
<1>3. CASE ReleaseSequencer
  BY <1>3 DEF ReleaseSequencer, Ecc!Next
<1>4. CASE Calibrate
  BY <1>4 DEF Calibrate, Ecc!Next
<1>5. CASE DmaReset \/ Perst
  <2>1. /\ resetn' = FALSE
        /\ calibrated' = calibrated \/ calibrated' = FALSE
        /\ UNCHANGED <<Ecc!sequencer, Ecc!port, refused>>
    BY <1>5 DEF DmaReset, Perst, Ecc!sequencer, Ecc!port
  <2>2. CASE resetn
    BY <1>1, <2>1, <2>2 DEF Ecc!Next, Ecc!Assert
  <2>3. CASE ~resetn /\ calibrated' # calibrated
    <3>1. calibrated' = ~calibrated /\ resetn' = resetn
      BY <1>1, <2>1, <2>3
    <3> QED  BY <2>1, <3>1 DEF Ecc!Next, Ecc!Calibration
  <2>4. CASE ~resetn /\ calibrated' = calibrated
    BY <1>1, <2>1, <2>4 DEF Ecc!vars, Ecc!inputs
  <2> QED  BY <2>2, <2>3, <2>4
<1>6. CASE UNCHANGED sequencer
  BY <1>6 DEF sequencer, Ecc!vars, Ecc!inputs, Ecc!sequencer, Ecc!port
<1>7. CASE UiRelease \/ EccEvent \/ AxiEdge \/ AxiRelease \/ Host
           \/ UNCHANGED vars
  BY <1>6, <1>7 DEF UiRelease, EccEvent, AxiEdge, AxiRelease, Host, HostStart,
     Ask, AskInReset, Wait, Check, Transfers, vars
<1> QED
  BY <1>2, <1>3, <1>4, <1>5, <1>7 DEF Next

-----------------------------------------------------------------------------
(* The whole design.                                                       *)

DesignTypeOK ==
    /\ axi_aresetn \in BOOLEAN /\ ui_rst \in BOOLEAN /\ ecc_latched \in BOOLEAN
    /\ sync \in Flags \X Flags /\ last \in Flags
    /\ pc \in {"off"} \cup Reading \cup Dma
    /\ asked \in BOOLEAN /\ edges \in 0 .. PcieEdges
    /\ owed \in BOOLEAN /\ event \in BOOLEAN

(* While the PCIe side is out of reset, a sequencer that is not is clear,  *)
(* and no flop holds a ready that is not there any more.                   *)
ResetInv ==
    /\ resetn => axi_aresetn /\ ~ui_rst
    /\ axi_aresetn /\ ~resetn => Ecc!InReset
    /\ axi_aresetn => /\ last["ready"] => ready
                      /\ sync[1]["ready"] => ready
                      /\ sync[2]["ready"] => ready

Late == Dma \cup {"check write", "check read"}

(* The program is past its first check only over a sequencer that is done, *)
(* and no reset comes between.                                             *)
HostInv ==
    /\ asked => axi_aresetn /\ pc \in Reading
    /\ pc \in Late => ready /\ axi_aresetn

(* What was latched when a read was issued moves on one flop an edge.      *)
EvidenceInv ==
    /\ owed => /\ asked /\ ecc_latched /\ ~ui_rst
               /\ edges >= 1 => last["ecc"]
               /\ edges >= 2 => sync[1]["ecc"]
               /\ edges >= 3 => sync[2]["ecc"]
    /\ event /\ pc \in Late => ecc_latched
    /\ event /\ asked /\ pc \in Late => owed
    /\ pc \in {"wait", "check"} => ~event
    /\ ~asked => edges = 0

IInv == SequencerInv /\ DesignTypeOK /\ ResetInv /\ HostInv /\ EvidenceInv

LEMMA LowFlags == Low \in Flags
BY DEF Low, Flags

LEMMA EdgesFrom == 0 \in 0 .. PcieEdges /\ PcieEdges \in Nat
BY PcieAssumption DEF PcieAssumption

LEMMA Initially == Init => IInv
<1> SUFFICES ASSUME Init PROVE IInv
  OBVIOUS
<1>1. SequencerInv
  BY SequencerInitially DEF Init
<1>2. DesignTypeOK
  BY LowFlags, EdgesFrom DEF Init, DesignTypeOK
<1>3. ResetInv
  BY DEF Init, ResetInv, Ecc!Init
<1>4. HostInv
  BY DEF Init, HostInv, Late, Dma
<1>5. EvidenceInv
  BY DEF Init, EvidenceInv, Late, Dma
<1> QED  BY <1>1, <1>2, <1>3, <1>4, <1>5 DEF IInv

LEMMA TypesKept ==
    ASSUME IInv, [Next]_vars
    PROVE  DesignTypeOK'
<1> USE DEF IInv, DesignTypeOK
<1>0. flags \in Flags
  BY DEF flags, Flags, Flag, SequencerInv, Ecc!TypeOK
<1>1. CASE SequencerEdge \/ ReleaseSequencer \/ Calibrate \/ UNCHANGED vars
  BY <1>1 DEF SequencerEdge, ReleaseSequencer, Calibrate, resets, status, host,
              vars
<1>2. CASE UiRelease \/ EccEvent
  BY <1>2 DEF UiRelease, EccEvent, resets, status, host
<1>3. CASE AxiEdge
  <2>1. sync' \in Flags \X Flags
    BY <1>3, LowFlags DEF AxiEdge, Catch
  <2>2. edges' \in 0 .. PcieEdges
    BY <1>3, EdgesFrom DEF AxiEdge
  <2> QED  BY <1>0, <1>3, <2>1, <2>2 DEF AxiEdge, resets
<1>4. CASE AxiRelease
  BY <1>0, <1>4 DEF AxiRelease, host
<1>5. CASE DmaReset \/ Perst
  <2>1. /\ axi_aresetn' = FALSE /\ ui_rst' \in BOOLEAN
        /\ UNCHANGED <<ecc_latched, sync, last, event>>
        /\ pc' \in {pc, "off"}
        /\ asked' = FALSE /\ edges' = 0 /\ owed' = FALSE
    BY <1>5 DEF DmaReset, Perst, Interrupted, status
  <2> QED  BY <2>1, EdgesFrom
<1>6. CASE Host
  <2>1. UNCHANGED <<resets, ecc_latched, status>>
    BY <1>6 DEF Host, HostStart, Ask, AskInReset, Wait, Check, Transfers
  <2>2. pc' \in {"off"} \cup Reading \cup Dma
    BY <1>6 DEF Host, HostStart, Ask, AskInReset, Wait, Check, Transfers, Goto,
                Reading, Dma
  <2>3. asked' \in BOOLEAN /\ event' \in BOOLEAN
    BY <1>6 DEF Host, HostStart, Ask, AskInReset, Wait, Check, Transfers, Goto
  <2>4. edges' = edges \/ edges' = 0
    BY <1>6 DEF Host, HostStart, Ask, AskInReset, Wait, Check, Transfers, Goto
  <2>5. owed' \in BOOLEAN
    BY <1>6 DEF Host, HostStart, Ask, AskInReset, Wait, Check, Transfers, Goto
  <2> QED
    BY <2>1, <2>2, <2>3, <2>4, <2>5, EdgesFrom DEF resets, status
<1> QED  BY <1>1, <1>2, <1>3, <1>4, <1>5, <1>6 DEF Next

(* What a step of the sequencer leaves alone, and what it needs.           *)
LEMMA SequencerStep ==
    ASSUME SequencerInv, SequencerEdge
    PROVE  /\ resetn' = resetn /\ calibrated' = calibrated
           /\ ~resetn => Ecc!InReset'
           /\ resetn /\ ready => ready'
           /\ UNCHANGED <<resets, ecc_latched, status, host>>
<1>1. CASE Ecc!HeldInReset
  BY <1>1 DEF SequencerEdge, Ecc!Edge, Ecc!HeldInReset, Ecc!InReset,
              Ecc!inputs, Ecc!Cleared, Ecc!Register
<1>2. CASE Ecc!Clocked
  BY <1>2 DEF SequencerEdge, Ecc!Edge, Ecc!Clocked, Ecc!Begin, Ecc!Send,
              Ecc!RespRefused, Ecc!RespLast, Ecc!RespFirst, Ecc!Response,
              Ecc!inputs
<1> QED  BY <1>1, <1>2 DEF SequencerEdge, Ecc!Edge

LEMMA HostLeaves ==
    ASSUME Host
    PROVE  UNCHANGED <<sequencer, resets, ecc_latched, status>>
BY DEF Host, HostStart, Ask, AskInReset, Wait, Check, Transfers

(* ready falls only under a reset, and the flops of the status word have   *)
(* been cleared before they look again.                                    *)
LEMMA ResetKept ==
    ASSUME IInv, [Next]_vars
    PROVE  ResetInv'
<1> USE DEF IInv, ResetInv
<1>1. CASE SequencerEdge
  <2>1. Ecc!InReset => ~ready
    BY DEF Ecc!InReset
  <2>2. ready /\ axi_aresetn => resetn
    BY <2>1
  <2> QED  BY <1>1, <2>2, SequencerStep DEF resets, status
<1>2. CASE ReleaseSequencer
  BY <1>2 DEF ReleaseSequencer, transport_reset, Ecc!Release, resets, status,
              Ecc!sequencer
<1>3. CASE Calibrate
  BY <1>3 DEF Calibrate, Ecc!Calibration, resets, status, Ecc!sequencer,
              Ecc!InReset, Ecc!port
<1>4. CASE UiRelease \/ EccEvent
  BY <1>4 DEF UiRelease, EccEvent, sequencer, status, resets, Ecc!InReset
<1>5. CASE AxiEdge
  <2>1. CASE ~axi_aresetn
    BY <1>5, <2>1 DEF AxiEdge, resets, sequencer
  <2>2. CASE axi_aresetn
    <3>1. PICK caught \in Catch : sync' = <<caught, sync[1]>>
      BY <1>5, <2>2 DEF AxiEdge
    <3>2. flags["ready"] = ready
      BY DEF flags
    <3>3. caught["ready"] => ready
      BY <2>2, <3>1, <3>2 DEF Catch, Flag
    <3>4. sync'[1] = caught /\ sync'[2] = sync[1] /\ last' = flags
      BY <1>5, <3>1 DEF AxiEdge
    <3> QED
      BY <1>5, <2>2, <3>2, <3>3, <3>4
         DEF AxiEdge, resets, sequencer, Ecc!InReset
  <2> QED  BY <2>1, <2>2
<1>6. CASE AxiRelease
  <2>1. sync[1]["ready"] = FALSE /\ sync[2]["ready"] = FALSE
    BY <1>6 DEF AxiRelease, Low, Flag
  <2>2. last'["ready"] = ready
    BY <1>6 DEF AxiRelease, flags
  <2> QED  BY <1>6, <2>1, <2>2 DEF AxiRelease, sequencer, Ecc!InReset
<1>7. CASE DmaReset \/ Perst
  BY <1>7 DEF DmaReset, Perst
<1>8. CASE Host \/ UNCHANGED vars
  BY <1>8, HostLeaves DEF vars, sequencer, resets, status, Ecc!InReset
<1> QED  BY <1>1, <1>2, <1>3, <1>4, <1>5, <1>6, <1>7, <1>8 DEF Next

(* The answer that lets the host go on holds a ready flag, and so there is *)
(* a ready; from there on no reset comes.                                  *)
LEMMA HostKept ==
    ASSUME IInv, [Next]_vars
    PROVE  HostInv'
<1> USE DEF IInv, HostInv
<1>0. ready /\ axi_aresetn => resetn
  BY DEF ResetInv, Ecc!InReset
<1>1. CASE SequencerEdge
  BY <1>0, <1>1, SequencerStep DEF resets, host
<1>2. CASE ReleaseSequencer
  BY <1>2 DEF ReleaseSequencer, Ecc!Release, resets, host, Ecc!sequencer
<1>3. CASE Calibrate
  BY <1>3 DEF Calibrate, Ecc!Calibration, resets, host, Ecc!sequencer
<1>4. CASE UiRelease \/ EccEvent \/ AxiEdge \/ AxiRelease \/ UNCHANGED vars
  BY <1>4 DEF UiRelease, EccEvent, AxiEdge, AxiRelease, sequencer, resets, host,
              vars
<1>5. CASE DmaReset \/ Perst
  BY <1>5 DEF DmaReset, Perst, Interrupted, Late, Dma
<1>6. CASE Host
  <2> USE HostLeaves
  <2>1. CASE HostStart \/ Ask \/ AskInReset \/ Wait
    BY <1>6, <2>1 DEF HostStart, Ask, AskInReset, Wait, Goto, Late, Dma,
                      sequencer, resets
  <2>2. CASE Check("check", "sparse")
    <3>1. sync[2] = Good => ready
      BY <2>2 DEF Check, StatusGood, Answered, ResetInv, Good, Low, Flag
    <3> QED
      BY <1>6, <2>2, <3>1 DEF Check, StatusGood, Answered, Goto, Late, Dma, sequencer,
                              resets
  <2>3. CASE \/ Check("check write", "read") \/ Check("check read", "off")
             \/ Transfers("sparse", "write")
             \/ Transfers("write", "check write")
             \/ Transfers("read", "check read")
    BY <1>6, <2>3 DEF Check, Answered, Transfers, Goto, Late, Dma, sequencer,
                      resets
  <2> QED  BY <1>6, <2>1, <2>2, <2>3 DEF Host
<1> QED  BY <1>1, <1>2, <1>3, <1>4, <1>5, <1>6 DEF Next

(* An event of the run reaches the latch because the interrupts are on,    *)
(* stays there because no reset comes, and is in a read issued after it    *)
(* because the read outlasts the flops.                                    *)
LEMMA EvidencePreserved ==
    ASSUME IInv, [Next]_vars
    PROVE  EvidenceInv'
<1> USE DEF IInv, EvidenceInv
<1>0. (pc \in Late => ~ui_rst) /\ (ready => reg[4] = 3)
  BY DEF ResetInv, HostInv, Ecc!InReset, SequencerInv
<1>1. CASE SequencerEdge \/ ReleaseSequencer \/ Calibrate \/ UNCHANGED vars
  BY <1>1 DEF SequencerEdge, ReleaseSequencer, Calibrate, resets, status, host,
              vars
<1>2. CASE UiRelease
  BY <1>0, <1>2 DEF UiRelease, status, host
<1>3. CASE EccEvent
  <2>1. pc \in Dma => ecc_latched'
    BY <1>0, <1>3 DEF EccEvent, HostInv, Late
  <2>2. /\ ecc_latched => ecc_latched'
        /\ UNCHANGED <<pc, asked, edges, owed, ui_rst, last, sync>>
    BY <1>3 DEF EccEvent, resets, status
  <2>3. pc \in {"off"} \cup Dma /\ (event' => event \/ pc \in Dma)
    BY <1>3 DEF EccEvent
  <2>4. pc \notin Reading
    BY <2>3 DEF Reading, Dma
  <2>5. pc \in Late => pc \in Dma
    BY <2>3, <2>4 DEF Late, Reading
  <2>6. asked = FALSE
    BY <2>4 DEF HostInv, DesignTypeOK
  <2>7. pc \notin {"wait", "check"}
    BY <2>4 DEF Reading
  <2> QED  BY <2>1, <2>2, <2>5, <2>6, <2>7
<1>4. CASE AxiEdge
  <2> SUFFICES ASSUME owed
               PROVE  /\ edges' >= 1 => last'["ecc"]
                      /\ edges' >= 2 => sync'[1]["ecc"]
                      /\ edges' >= 3 => sync'[2]["ecc"]
    BY <1>4 DEF AxiEdge, resets
  <2>1. axi_aresetn /\ flags["ecc"] = TRUE
    BY DEF HostInv, flags, DesignTypeOK
  <2>2. PICK caught \in Catch : sync' = <<caught, sync[1]>>
    BY <1>4, <2>1 DEF AxiEdge
  <2>3. last["ecc"] => caught["ecc"]
    BY <2>1, <2>2 DEF Catch, Flag
  <2>4. sync'[1] = caught /\ sync'[2] = sync[1] /\ last' = flags
    BY <1>4, <2>2 DEF AxiEdge
  <2>5. /\ edges \in Nat
        /\ edges' = edges + 1 \/ (edges' = edges /\ edges >= 3)
    <3>1. PcieEdges \in Nat /\ PcieEdges >= 3
      BY PcieAssumption DEF PcieAssumption
    <3>2. edges \in 0 .. PcieEdges /\ asked
      BY DEF DesignTypeOK
    <3>3. edges' = IF edges < PcieEdges THEN edges + 1 ELSE edges
      BY <1>4, <3>2 DEF AxiEdge
    <3> QED  BY <3>1, <3>2, <3>3
  <2>6. edges' >= 1 => last'["ecc"]
    BY <2>1, <2>4
  <2>7. edges' >= 2 => sync'[1]["ecc"]
    BY <2>3, <2>4, <2>5
  <2>8. edges' >= 3 => sync'[2]["ecc"]
    BY <2>4, <2>5
  <2> QED  BY <2>6, <2>7, <2>8 DEF Late
<1>5. CASE AxiRelease
  <2>1. asked = FALSE /\ UNCHANGED <<host, ecc_latched, ui_rst>>
    BY <1>5 DEF AxiRelease, HostInv, DesignTypeOK
  <2> QED  BY <2>1 DEF host
<1>6. CASE DmaReset \/ Perst
  <2>1. /\ owed' = FALSE /\ asked' = FALSE /\ edges' = 0 /\ event' = event
        /\ pc \in {"off", "wait", "check"} /\ pc' \in {pc, "off"}
    BY <1>6 DEF DmaReset, Perst, Interrupted
  <2> QED  BY <2>1 DEF Late, Dma
<1>7. CASE Host
  <2>1. UNCHANGED <<ecc_latched, ui_rst, last, sync>>
    BY <1>7, HostLeaves DEF resets, status
  <2>2. CASE HostStart
    BY <2>1, <2>2 DEF HostStart, Goto, Late, Dma
  <2>3. CASE Ask
    <3>1. /\ ~asked /\ edges = 0 /\ edges' = 0 /\ asked' = TRUE
          /\ owed' = (ecc_latched /\ ~ui_rst)
          /\ pc \in Reading /\ UNCHANGED <<pc, event>>
      BY <2>3 DEF Ask
    <3>2. owed' <=> ecc_latched' /\ ~ui_rst'
      BY <2>1, <3>1
    <3>3. event' /\ pc' \in Late => ecc_latched' /\ ~ui_rst'
      BY <1>0, <2>1, <3>1 DEF Late
    <3>4. pc' \in {"wait", "check"} => ~event'
      BY <3>1
    <3>5. ~(edges' >= 1) /\ ~(edges' >= 2) /\ ~(edges' >= 3)
      BY <3>1
    <3> QED  BY <3>1, <3>2, <3>3, <3>4, <3>5 DEF Late
  <2>4. CASE ~HostStart /\ ~Ask
    <3>1. /\ asked' = FALSE /\ edges' = 0 /\ owed' = FALSE /\ event' = event
          /\ pc' \in Late => pc \in Late \cup {"check"}
          /\ pc' \in {"wait", "check"} => pc = "wait"
      BY <1>7, <2>4 DEF Host, AskInReset, Wait, Check, Answered, Transfers,
                        Goto, Late, Dma
    <3> QED  BY <2>1, <3>1 DEF Late, Dma
  <2> QED  BY <2>2, <2>3, <2>4
<1> QED  BY <1>1, <1>2, <1>3, <1>4, <1>5, <1>6, <1>7 DEF Next

LEMMA Inductive == Spec => []IInv
<1>1. Init => IInv
  BY Initially
<1>2. IInv /\ [Next]_vars => IInv'
  <2> SUFFICES ASSUME IInv, [Next]_vars PROVE IInv'
    OBVIOUS
  <2>1. SequencerInv'
    BY StepIsSequencers, SequencerInductive DEF IInv
  <2> QED
    BY <2>1, TypesKept, ResetKept, HostKept, EvidencePreserved DEF IInv
<1> QED  BY <1>1, <1>2, PTL DEF Spec

-----------------------------------------------------------------------------
(* Every variable keeps its type.                                          *)
THEOREM TypeCorrect == Spec => []TypeOK
<1>1. IInv => TypeOK
  BY DEF IInv, SequencerInv, DesignTypeOK, TypeOK
<1> QED  BY <1>1, Inductive, PTL

(* Whatever resets the two sides of the design undergo, the ECC sequencer  *)
(* (ecc_init.v) sees only histories of resetn and calibrated it is made    *)
(* for.                                                                    *)
THEOREM SequencerIsReset == Spec => ResetsSequencer
<1>1. Init => Ecc!Init
  BY DEF Init
<1>2. IInv /\ [Next]_vars => [Ecc!Next]_(Ecc!vars)
  BY StepIsSequencers DEF IInv
<1> QED  BY <1>1, <1>2, Inductive, PTL DEF Spec, ResetsSequencer, Ecc!Spec

(* ready stands for what the controller's registers hold; a refusal of     *)
(* either write rules it out; and the interrupts are never on without the  *)
(* checking they report.                                                   *)
THEOREM ReadyIsArmed == Spec => []ReadyMeansArmed
<1>1. SequencerInv => ReadyMeansArmed
  <2> SUFFICES ASSUME SequencerInv, ready PROVE reg = Ecc!Wanted
    BY DEF ReadyMeansArmed, Ecc!ReadyMeansArmed
  <2>1. reg \in [Ecc!Register -> {0, 1, 3}] /\ reg[8] = 1 /\ reg[4] = 3
    BY DEF SequencerInv, Ecc!TypeOK
  <2> QED  BY <2>1 DEF Ecc!Wanted, Ecc!Register
<1> QED  BY <1>1, Inductive, PTL DEF IInv

THEOREM RefusalIsFinal == Spec => []RefusalPreventsReady
<1>1. SequencerInv => RefusalPreventsReady
  BY DEF SequencerInv, Ecc!TypeOK, RefusalPreventsReady,
         Ecc!RefusalPreventsReady
<1> QED  BY <1>1, Inductive, PTL DEF IInv

THEOREM CheckingComesFirst == Spec => []CheckingFirst
<1>1. SequencerInv => CheckingFirst
  BY DEF SequencerInv, Ecc!TypeOK, CheckingFirst, Ecc!CheckingFirst,
         Ecc!InReset, Ecc!awaddr, Ecc!wdata, Ecc!None
<1> QED  BY <1>1, Inductive, PTL DEF IInv

(* While the host transfers, ECC checking and its interrupts are on.       *)
THEOREM HostFindsItArmed == Spec => []ArmedUnderDma
<1>1. IInv => (ready => reg = Ecc!Wanted)
  <2> SUFFICES ASSUME IInv, ready PROVE reg = Ecc!Wanted
    OBVIOUS
  <2>1. reg \in [Ecc!Register -> {0, 1, 3}] /\ reg[8] = 1 /\ reg[4] = 3
    BY DEF IInv, SequencerInv, Ecc!TypeOK
  <2> QED  BY <2>1 DEF Ecc!Wanted, Ecc!Register
<1>2. IInv => ArmedUnderDma
  BY <1>1 DEF IInv, HostInv, Late, ArmedUnderDma
<1> QED  BY <1>2, Inductive, PTL

(* What is latched when a status read is issued is in its answer.          *)
THEOREM EvidenceReported == Spec => []EvidenceKept
<1>1. IInv => EvidenceKept
  BY PcieAssumption DEF IInv, EvidenceInv, EvidenceKept, PcieAssumption
<1> QED  BY <1>1, Inductive, PTL

(* PASS is not printed over an ECC error of the run.                       *)
THEOREM PassIsClean == Spec => PassMeansNoEvent
<1>1. IInv /\ [Next]_vars => [Pass => ~event]_vars
  <2> SUFFICES ASSUME IInv, Pass PROVE ~event
    OBVIOUS
  <2>1. pc = "check read" /\ asked /\ edges = PcieEdges /\ sync[2] = Good
    BY DEF Pass, Check, StatusGood, Answered
  <2>2. ~sync[2]["ecc"]
    BY <2>1 DEF Good, Low, Flag
  <2>3. ~owed
    BY <2>1, <2>2, PcieAssumption DEF IInv, EvidenceInv, PcieAssumption
  <2> QED  BY <2>1, <2>3 DEF IInv, EvidenceInv, Late
<1> QED  BY <1>1, Inductive, PTL DEF Spec, PassMeansNoEvent

-----------------------------------------------------------------------------
(* No false alarm.  Out of reset three of the flags only rise, so a flop   *)
(* never shows one that the flop before it has not got.                    *)
Lasting == {"calib", "ready", "failed"}

Orderly ==
    axi_aresetn => \A f \in Lasting : /\ sync[2][f] => sync[1][f]
                                      /\ sync[1][f] => last[f]
                                      /\ last[f] => flags[f]

(* An ECC event that a reset of MIG has erased is older than any ready.    *)
Erased ==
    axi_aresetn /\ ~ui_rst /\ ~ecc_latched =>
        /\ last["ecc"] => ~last["ready"]
        /\ sync[1]["ecc"] => ~sync[2]["ready"]

(* Nothing is latched while the program waits that it does not get to see; *)
(* past the first check the status stays good, and without an event of the *)
(* run no flop has one.                                                    *)
CleanInv ==
    /\ pc \in {"wait", "check"} /\ asked /\ ~owed /\ ~ui_rst => ~ecc_latched
    /\ pc \in Late => sync[2]["calib"] /\ sync[2]["ready"]
    /\ pc \in Late /\ ~event => /\ ~ecc_latched /\ ~last["ecc"]
                                /\ ~sync[1]["ecc"] /\ ~sync[2]["ecc"]

FlopsInv == Orderly /\ Erased /\ CleanInv

(* Out of reset calibration, ready and failed stay.                        *)
LEMMA FlagsStay ==
    ASSUME IInv, [Next]_vars, axi_aresetn, axi_aresetn'
    PROVE  /\ calibrated => calibrated'
           /\ ready => ready'
           /\ failed => failed'
<1> USE DEF IInv, ResetInv
<1>0. ~resetn => ready = FALSE /\ failed = FALSE
  BY DEF Ecc!InReset
<1>1. CASE SequencerEdge
  <2>1. calibrated' = calibrated
    BY <1>1, SequencerStep
  <2>2. resetn => ~Ecc!HeldInReset
    BY DEF Ecc!HeldInReset
  <2>3. CASE Ecc!HeldInReset
    BY <1>0, <2>1, <2>2, <2>3
  <2>4. CASE Ecc!Clocked
    BY <2>1, <2>4 DEF Ecc!Clocked, Ecc!Begin, Ecc!Send, Ecc!RespRefused, Ecc!RespLast,
                Ecc!RespFirst, Ecc!Response
  <2> QED  BY <1>1, <2>3, <2>4 DEF SequencerEdge, Ecc!Edge
<1>2. CASE ReleaseSequencer
  BY <1>2 DEF ReleaseSequencer, Ecc!Release, Ecc!sequencer
<1>3. CASE Calibrate
  BY <1>3 DEF Calibrate, Ecc!Calibration, Ecc!sequencer
<1>4. CASE DmaReset \/ Perst
  BY <1>4 DEF DmaReset, Perst
<1>5. CASE \/ UiRelease \/ EccEvent \/ AxiEdge \/ AxiRelease \/ Host
           \/ UNCHANGED vars
  BY <1>5, HostLeaves
     DEF UiRelease, EccEvent, AxiEdge, AxiRelease, sequencer, vars
<1> QED  BY <1>1, <1>2, <1>3, <1>4, <1>5 DEF Next

(* The status flops move at an edge of their clock and at a reset only.    *)
LEMMA FlopsStill ==
    ASSUME [Next]_vars, ~AxiEdge, ~AxiRelease
    PROVE  /\ sync' = sync /\ last' = last
           /\ axi_aresetn' => axi_aresetn
<1>1. CASE SequencerEdge \/ ReleaseSequencer \/ Calibrate
  BY <1>1 DEF SequencerEdge, ReleaseSequencer, Calibrate, status, resets
<1>2. CASE UiRelease \/ EccEvent \/ DmaReset \/ Perst \/ UNCHANGED vars
  BY <1>2 DEF UiRelease, EccEvent, DmaReset, Perst, status, resets, vars
<1>3. CASE Host
  BY <1>3, HostLeaves DEF status, resets
<1> QED  BY <1>1, <1>2, <1>3 DEF Next

(* An edge of axi_aclk, flag by flag.                                      *)
LEMMA FlopsMove ==
    ASSUME IInv, AxiEdge, axi_aresetn
    PROVE  /\ sync'[2] = sync[1] /\ last' = flags
           /\ \A f \in Flag : sync'[1][f] = flags[f] \/ sync'[1][f] = last[f]
           /\ UNCHANGED <<sequencer, resets, ecc_latched, pc, asked, owed, event>>
<1>1. PICK caught \in Catch : sync' = <<caught, sync[1]>>
  BY DEF AxiEdge
<1>2. \A f \in Flag : caught[f] = flags[f] \/ caught[f] = last[f]
  BY DEF Catch
<1> QED  BY <1>1, <1>2 DEF AxiEdge

LEMMA OrderlyKept ==
    ASSUME IInv, [Next]_vars, Orderly
    PROVE  Orderly'
<1> SUFFICES ASSUME axi_aresetn', NEW f \in Lasting
             PROVE  /\ sync'[2][f] => sync'[1][f]
                    /\ sync'[1][f] => last'[f]
                    /\ last'[f] => flags'[f]
  BY DEF Orderly
<1>1. CASE AxiEdge
  <2>1. axi_aresetn /\ f \in Flag
    BY <1>1 DEF AxiEdge, resets, Lasting, Flag
  <2>2. /\ sync[1][f] => last[f]
        /\ last[f] => flags[f]
    BY <2>1 DEF Orderly
  <2>3. flags' = flags
    BY <1>1 DEF AxiEdge, sequencer, flags
  <2>4. /\ sync'[2] = sync[1] /\ last' = flags
        /\ sync'[1][f] = flags[f] \/ sync'[1][f] = last[f]
    BY <1>1, <2>1, FlopsMove
  <2> QED  BY <2>2, <2>3, <2>4
<1>2. CASE AxiRelease
  <2>1. sync'[1][f] = FALSE /\ sync'[2][f] = FALSE
    BY <1>2 DEF AxiRelease, Low, Lasting, Flag
  <2>2. last' = flags /\ flags' = flags
    BY <1>2 DEF AxiRelease, sequencer, flags
  <2> QED  BY <2>1, <2>2
<1>3. CASE ~AxiEdge /\ ~AxiRelease
  <2>1. /\ sync' = sync /\ last' = last
        /\ axi_aresetn
    BY <1>3, FlopsStill
  <2>2. flags[f] => flags'[f]
    BY <2>1, FlagsStay DEF flags, Lasting
  <2> QED  BY <2>1, <2>2 DEF Orderly
<1> QED  BY <1>1, <1>2, <1>3

LEMMA ErasedKept ==
    ASSUME IInv, [Next]_vars, Orderly, Erased
    PROVE  Erased'
<1> SUFFICES ASSUME axi_aresetn', ~ui_rst', ~ecc_latched'
             PROVE  /\ last'["ecc"] => ~last'["ready"]
                    /\ sync'[1]["ecc"] => ~sync'[2]["ready"]
  BY DEF Erased
<1>1. CASE AxiEdge
  <2>1. axi_aresetn /\ ~ui_rst /\ ~ecc_latched
    BY <1>1 DEF AxiEdge, resets
  <2>2. ~flags["ecc"]
    BY <2>1 DEF flags
  <2>3. /\ last["ecc"] => ~last["ready"]
        /\ sync[1]["ready"] => last["ready"]
    BY <2>1 DEF Erased, Orderly, Lasting
  <2>4. /\ sync'[2] = sync[1] /\ last' = flags
        /\ sync'[1]["ecc"] = flags["ecc"] \/ sync'[1]["ecc"] = last["ecc"]
    BY <1>1, <2>1, FlopsMove DEF Flag
  <2> QED  BY <2>2, <2>3, <2>4
<1>2. CASE AxiRelease
  <2>1. ~last'["ecc"]
    BY <1>2 DEF AxiRelease, flags
  <2>2. sync'[1]["ecc"] = FALSE
    BY <1>2 DEF AxiRelease, Low, Flag
  <2> QED  BY <2>1, <2>2
<1>3. CASE UiRelease
  <2>1. sync' = sync /\ last' = last /\ axi_aresetn /\ ui_rst
    BY <1>3 DEF UiRelease, status
  <2>2. ready = FALSE
    BY <2>1 DEF IInv, ResetInv, Ecc!InReset
  <2>3. ~last["ready"] /\ ~sync[2]["ready"]
    BY <2>1, <2>2 DEF IInv, ResetInv
  <2> QED  BY <2>1, <2>3
<1>4. CASE ~AxiEdge /\ ~AxiRelease /\ ~UiRelease
  <2>1. sync' = sync /\ last' = last /\ axi_aresetn
    BY <1>4, FlopsStill
  <2>2. ~ui_rst /\ ~ecc_latched
    <3>0. ui_rst \in BOOLEAN /\ ecc_latched \in BOOLEAN
      BY DEF IInv, DesignTypeOK
    <3>1. CASE SequencerEdge \/ ReleaseSequencer \/ Calibrate \/ UNCHANGED vars
      BY <3>0, <3>1 DEF SequencerEdge, ReleaseSequencer, Calibrate, resets, vars
    <3>2. CASE EccEvent \/ DmaReset \/ Perst
      BY <3>0, <3>2 DEF EccEvent, DmaReset, Perst, resets
    <3>3. CASE Host
      BY <3>3, HostLeaves DEF resets
    <3> QED  BY <1>4, <3>1, <3>2, <3>3 DEF Next
  <2> QED  BY <2>1, <2>2 DEF Erased
<1> QED  BY <1>1, <1>2, <1>3, <1>4

LEMMA CleanKept ==
    ASSUME IInv, [Next]_vars, FlopsInv
    PROVE  CleanInv'
<1> USE DEF FlopsInv, CleanInv
<1>0. pc \in Late => axi_aresetn /\ ready /\ ~ui_rst
  BY DEF IInv, HostInv, ResetInv, Ecc!InReset
<1>1. CASE SequencerEdge \/ ReleaseSequencer \/ Calibrate \/ UNCHANGED vars
  BY <1>1 DEF SequencerEdge, ReleaseSequencer, Calibrate, resets, status, host,
              vars
<1>2. CASE UiRelease
  BY <1>0, <1>2 DEF UiRelease, status, host
<1>3. CASE EccEvent
  <2>1. /\ UNCHANGED <<pc, asked, owed, ui_rst, last, sync>>
        /\ event' = (event \/ pc \in Dma)
        /\ pc \in Dma \cup {"off"}
    BY <1>3 DEF EccEvent, resets, status
  <2>2. pc \notin {"wait", "check"}
    BY <2>1 DEF Dma
  <2>3. pc \in Late => event'
    BY <2>1 DEF Late, Dma
  <2> QED  BY <2>1, <2>2, <2>3
<1>4. CASE AxiEdge
  <2>1. UNCHANGED <<pc, asked, owed, event, ui_rst, ecc_latched>>
    BY <1>4 DEF AxiEdge, resets
  <2>2. CASE pc \in Late
    <3>1. axi_aresetn
      BY <1>0, <2>2
    <3>2. /\ sync'[2] = sync[1] /\ last' = flags
          /\ sync'[1]["ecc"] = flags["ecc"] \/ sync'[1]["ecc"] = last["ecc"]
      BY <1>4, <3>1, FlopsMove DEF Flag
    <3>3. sync'[2]["calib"] /\ sync'[2]["ready"]
      BY <2>2, <3>1, <3>2 DEF Orderly, Lasting
    <3>4. flags["ecc"] <=> ecc_latched
      BY DEF flags
    <3>5. ~event => ~last'["ecc"] /\ ~sync'[1]["ecc"] /\ ~sync'[2]["ecc"]
      BY <2>2, <3>2, <3>4
    <3> QED  BY <2>1, <2>2, <3>3, <3>5 DEF Late, Dma
  <2>3. CASE pc \notin Late
    BY <2>1, <2>3
  <2> QED  BY <2>2, <2>3
<1>5. CASE AxiRelease
  <2>1. UNCHANGED <<host, ecc_latched, ui_rst>> /\ ~axi_aresetn
    BY <1>5 DEF AxiRelease
  <2> QED  BY <1>0, <2>1 DEF host
<1>6. CASE DmaReset \/ Perst
  <2>1. asked' = FALSE /\ pc \in {"off", "wait", "check"} /\ pc' \in {pc, "off"}
    BY <1>6 DEF DmaReset, Perst, Interrupted
  <2> QED  BY <2>1 DEF Late, Dma
<1>7. CASE Host
  <2>1. UNCHANGED <<ecc_latched, ui_rst, last, sync>>
    BY <1>7, HostLeaves DEF resets, status
  <2>2. CASE HostStart
    BY <2>1, <2>2 DEF HostStart, Goto, Late, Dma
  <2>3. CASE Ask
    <3>1. /\ UNCHANGED <<pc, event>>
          /\ owed' = (ecc_latched /\ ~ui_rst)
      BY <2>3 DEF Ask
    <3>2. ~owed' /\ ~ui_rst' => ~ecc_latched'
      BY <2>1, <3>1
    <3> QED  BY <2>1, <3>1, <3>2
  <2>4. CASE Check("check", "sparse") /\ StatusGood
    <3>1. asked /\ edges = PcieEdges /\ sync[2] = Good /\ pc = "check"
      BY <2>4 DEF Check, StatusGood, Answered
    <3>2. sync[2]["calib"] /\ sync[2]["ready"] /\ ~sync[2]["ecc"]
      BY <3>1 DEF Good, Low, Flag
    <3>3. ~owed
      BY <3>1, <3>2, PcieAssumption DEF IInv, EvidenceInv, PcieAssumption
    <3>4. axi_aresetn
      BY <3>1 DEF IInv, HostInv
    <3>5. ready
      BY <3>2, <3>4 DEF IInv, ResetInv
    <3>6. ~ui_rst
      BY <3>4, <3>5 DEF IInv, ResetInv, Ecc!InReset
    <3>7. ~ecc_latched
      BY <3>1, <3>3, <3>6
    <3>8. last["ready"]
      BY <3>2, <3>4 DEF Orderly, Lasting
    <3>9. ~last["ecc"] /\ ~sync[1]["ecc"]
      BY <3>2, <3>4, <3>6, <3>7, <3>8 DEF Erased
    <3>10. pc' = "sparse" /\ asked' = FALSE
      BY <2>4 DEF Check, Goto
    <3> QED  BY <2>1, <3>2, <3>7, <3>9, <3>10
  <2>5. CASE ~HostStart /\ ~Ask /\ ~(Check("check", "sparse") /\ StatusGood)
    <3>1. /\ asked' = FALSE /\ event' = event
          /\ pc' \in Late => pc \in Late
      BY <1>7, <2>5 DEF Host, AskInReset, Wait, Check, Answered, Transfers,
                        Goto, Late, Dma
    <3> QED  BY <2>1, <3>1 DEF Late, Dma
  <2> QED  BY <2>2, <2>3, <2>4, <2>5
<1> QED  BY <1>1, <1>2, <1>3, <1>4, <1>5, <1>6, <1>7 DEF Next

LEMMA FlopsInductive == Spec => []FlopsInv
<1>1. Init => FlopsInv
  BY DEF Init, FlopsInv, Orderly, Erased, CleanInv, Late, Dma
<1>2. IInv /\ FlopsInv /\ [Next]_vars => FlopsInv'
  BY OrderlyKept, ErasedKept, CleanKept DEF FlopsInv
<1> QED  BY <1>1, <1>2, Inductive, PTL DEF Spec

(* A check refuses a run that is under way only for an ECC event of the    *)
(* run: resets before it, late flops and an event that MIG's reset erased  *)
(* do not make check_status (test_pcie_ddr4.py) fail.                      *)
THEOREM RefusalIsEarned == Spec => RefusalMeansEvent
<1> DEFINE Refused ==
      \E from \in {"check write", "check read"} :
          Answered(from) /\ pc' = "off" /\ ~Pass
<1>1. IInv /\ FlopsInv /\ [Next]_vars /\ Refused => event
  <2> SUFFICES ASSUME IInv, FlopsInv, [Next]_vars,
                      NEW from \in {"check write", "check read"},
                      Answered(from), pc' = "off", ~Pass, ~event
               PROVE  FALSE
    BY Zenon
  <2>1. pc = from /\ asked /\ pc \in Late
    BY DEF Answered, Late
  <2>2. sync[2]["calib"] /\ sync[2]["ready"] /\ ~sync[2]["ecc"]
    BY <2>1 DEF FlopsInv, CleanInv
  <2>3. axi_aresetn /\ ready
    BY <2>1 DEF IInv, HostInv
  <2>4. ~failed
    BY <2>3 DEF IInv, SequencerInv
  <2>5. ~sync[2]["failed"]
    BY <2>3, <2>4 DEF FlopsInv, Orderly, Lasting, flags
  <2>6. sync[2] \in Flags
    BY DEF IInv, DesignTypeOK
  <2>7. StatusGood
    <3>1. \A f \in Flag : sync[2][f] \in BOOLEAN
      BY <2>6, Zenon DEF Flags
    <3>2. Good \in Flags
      BY DEF Good, Low, Flags
    <3>3. \A f \in Flag : sync[2][f] <=> Good[f]
      BY <2>2, <2>5 DEF Good, Low, Flag
    <3>4. \A f \in Flag : sync[2][f] = Good[f]
      <4>1. \A f \in Flag : Good[f] \in BOOLEAN
        BY <3>2 DEF Flags
      <4> QED  BY <3>1, <3>3, <4>1, Zenon
    <3>5. sync[2] = Good
      <4>1. /\ sync[2] = [f \in Flag |-> sync[2][f]]
            /\ Good = [f \in Flag |-> Good[f]]
        BY <2>6, <3>2 DEF Flags
      <4> QED  BY <3>4, <4>1, Zenon
    <3> QED  BY <3>5 DEF StatusGood
  <2>8. ~Host
    BY <2>1, <2>7 DEF Host, HostStart, Ask, AskInReset, Wait, Check, Answered,
                      Transfers, Goto, Pass
  <2>9. ~(DmaReset \/ Perst)
    BY <2>1 DEF DmaReset, Perst, Interrupted
  <2>10. pc' = pc
    BY <2>8, <2>9 DEF Next, SequencerEdge, ReleaseSequencer, Calibrate, UiRelease,
                      EccEvent, AxiEdge, AxiRelease, host, vars
  <2> QED  BY <2>1, <2>10
<1>2. IInv /\ FlopsInv /\ [Next]_vars =>
        [\A from \in {"check write", "check read"} :
            Answered(from) /\ pc' = "off" /\ ~Pass => event]_vars
  BY <1>1
<1> QED  BY <1>2, Inductive, FlopsInductive, PTL DEF Spec, RefusalMeansEvent
=============================================================================
