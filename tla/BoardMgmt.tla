----------------------------- MODULE BoardMgmt -----------------------------
(***************************************************************************)
(* The board inventory (host/test_board_mgmt.py): the design's identity,   *)
(* the flash, the sideband levels, then the cages one after the other,     *)
(* through the drivers of QuadSpi and Iic.  It may be killed at any moment *)
(* and run again over whatever the controllers were left doing, and the    *)
(* link to the card may be lost at any moment.                             *)
(*                                                                         *)
(* The same drivers serve a person at a Python prompt, who catches what    *)
(* they raise and goes on with the next call.                              *)
(***************************************************************************)
EXTENDS Naturals, Sequences

CONSTANTS Id, Sr, Ones, Zeros, Garbled,
          Cages,       \* the cages in the order they are visited
          Page, FIFO_DEPTH,
          Boards,      \* the boards the program may meet
          MaxRuns      \* bound on the runs, or on the calls at the prompt

Cage == {Cages[i] : i \in 1 .. Len(Cages)}
Bytes == {Id[i] : i \in 1 .. Len(Id)} \cup {Page[i] : i \in 1 .. Len(Page)}
         \cup {Sr, Ones, Zeros, Garbled}

(* An identity is three bytes, a page and the list of cages are not empty, *)
(* and the sideband announces modules in these cages only.                 *)
ASSUME BoardAssumption ==
    /\ FIFO_DEPTH \in Nat \ {0} /\ MaxRuns \in Nat \ {0}
    /\ Id \in Seq(Bytes) /\ Len(Id) = 3
    /\ Page \in Seq(Bytes) \ {<<>>} /\ Cages \in Seq(Cage) \ {<<>>}
    /\ \A b \in Boards : b.modprs \subseteq Cage

VARIABLES link, core, spi, ctl, iic,
          board,    \* what is really there; never changes
          prog      \* the program: where it is, and what it has printed
vars == <<link, core, spi, ctl, iic, board, prog>>

Spi == INSTANCE QuadSpi WITH fitted <- board.flash
I2c == INSTANCE Iic WITH seated <- board.seated

NoReport == [flash |-> <<>>, status |-> <<>>, cages |-> <<>>]
Start == [pc |-> "identity", runs |-> 1, present |-> {}, report |-> NoReport]
Ended == prog.pc \in {"passed", "failed", "killed"}

Init ==
    /\ link = TRUE /\ board \in Boards
    /\ core = Spi!ResetCore /\ spi = Spi!Unused
    /\ ctl = [c \in Cage |-> I2c!ResetCtl(c \in board.held)]
    /\ iic = I2c!Unused
    /\ prog \in {Start, [Start EXCEPT !.pc = "prompt", !.runs = 0]}

Goto(pc) == prog' = [prog EXCEPT !.pc = pc]
Fail     == Goto("failed") /\ UNCHANGED <<spi, iic>>
card     == <<link, core, ctl>>

-----------------------------------------------------------------------------
(* A read of the identity register of any other design, or over a link     *)
(* that is gone, gives another value.                                      *)
check_identity ==
    /\ prog.pc = "identity"
    /\ IF link /\ board.identity = "BM, startup over"
       THEN Goto("flash") /\ spi' = Spi!reset /\ UNCHANGED iic
       ELSE Fail
    /\ UNCHANGED card

report_flash ==
    /\ prog.pc = "flash" /\ Spi!Returned
    /\ Goto("jedec") /\ spi' = Spi!jedec_id
    /\ UNCHANGED <<card, iic>>

Idle(bytes) == \E b \in {Ones, Zeros} : \A i \in 1 .. Len(bytes) : bytes[i] = b

report_jedec ==
    /\ prog.pc = "jedec"
    /\ \/ Spi!Failed(4) /\ Fail
       \/ /\ Spi!Returned /\ Len(spi.got) = 4
          /\ LET raw == Tail(spi.got)
             IN IF Idle(raw) THEN Fail
                ELSE /\ prog' = [prog EXCEPT !.pc = "status",
                                             !.report.flash = raw]
                     /\ spi' = Spi!status
                     /\ UNCHANGED iic
    /\ UNCHANGED card

report_status ==
    /\ prog.pc = "status"
    /\ \/ Spi!Failed(2) /\ Fail
       \/ /\ Spi!Returned /\ Len(spi.got) >= 2
          /\ prog' = [prog EXCEPT !.pc = "sideband",
                                  !.report.status = <<spi.got[2]>>]
          /\ UNCHANGED <<spi, iic>>
    /\ UNCHANGED card

(* Mutant: a level read as one is always taken for good.                   *)
check_sideband_high ==
    /\ prog.pc = "sideband"
    /\ IF ~link \/ board.control = "good"
       THEN Goto("present") /\ UNCHANGED <<spi, iic>>
       ELSE Fail
    /\ UNCHANGED card

(* ResetL has to read high and LPMode low: all ones is refused.            *)
check_sideband ==
    /\ prog.pc = "sideband"
    /\ IF link /\ board.control = "good"
       THEN Goto("present") /\ UNCHANGED <<spi, iic>>
       ELSE Fail
    /\ UNCHANGED card

(* ModPrsL is active low: all ones is two empty cages.                     *)
read_present ==
    /\ prog.pc = "present"
    /\ prog' = [prog EXCEPT !.pc = "cage",
                            !.present = IF link THEN board.modprs ELSE {}]
    /\ iic' = I2c!ResetOnly(Cages[1])
    /\ UNCHANGED <<card, spi>>

-----------------------------------------------------------------------------
(* report_cage.                                                            *)
cage == Cages[Len(prog.report.cages) + 1]

report_cage ==
    /\ prog.pc = "cage" /\ I2c!At("returned")
    /\ IF cage \in prog.present
       THEN Goto("page") /\ iic' = I2c!read_bytes(cage, Len(Page))
       ELSE Goto("probe") /\ iic' = I2c!responds(cage)
    /\ UNCHANGED <<card, spi>>

Printed(found) ==
    LET cages == Append(prog.report.cages, found)
        more  == Len(cages) < Len(Cages)
    IN  /\ prog' = [prog EXCEPT !.report.cages = cages,
                                !.pc = IF more THEN "cage" ELSE "passed"]
        /\ iic' = IF more THEN I2c!ResetOnly(Cages[Len(cages) + 1])
                          ELSE I2c!Unused
        /\ UNCHANGED spi

report_empty ==
    /\ prog.pc = "probe"
    /\ \/ I2c!At("returned") /\ Fail
       \/ I2c!At("raised") /\ Printed("empty")
    /\ UNCHANGED card

report_page ==
    /\ prog.pc = "page"
    /\ \/ I2c!At("raised") /\ Fail
       \/ /\ I2c!At("returned")
          /\ IF Idle(iic.out) THEN Fail ELSE Printed(iic.out)
    /\ UNCHANGED card

Program == \/ check_identity \/ report_flash \/ report_jedec \/ report_status
           \/ check_sideband \/ read_present \/ report_cage \/ report_empty
           \/ report_page

Drive == \/ Spi!Drive /\ UNCHANGED <<ctl, iic, prog>>
         \/ I2c!Drive /\ UNCHANGED <<core, spi, prog>>

-----------------------------------------------------------------------------
(* Someone at a prompt calls the flash driver again, whatever the last     *)
(* call did.                                                               *)
Prompt ==
    /\ prog.pc = "prompt" /\ prog.runs < MaxRuns
    /\ Spi!At("idle") \/ Spi!At("returned") \/ Spi!At("raised")
    /\ spi' \in {Spi!reset, Spi!jedec_id, Spi!status}
    /\ prog' = [prog EXCEPT !.runs = @ + 1]
    /\ UNCHANGED <<card, iic>>

Kill ==
    /\ ~Ended /\ prog.pc # "prompt"
    /\ Goto("killed") /\ spi' = Spi!Unused /\ iic' = I2c!Unused
    /\ UNCHANGED card

Rerun ==
    /\ Ended /\ prog.runs < MaxRuns
    /\ prog' = [Start EXCEPT !.runs = prog.runs + 1]
    /\ link' = TRUE
    /\ spi' = Spi!Unused /\ iic' = I2c!Unused
    /\ UNCHANGED <<core, ctl>>

LoseLink ==
    /\ link /\ link' = FALSE
    /\ UNCHANGED <<core, spi, ctl, iic, prog>>

Devices == \/ Spi!Shift /\ UNCHANGED <<ctl, iic, prog>>
           \/ I2c!Bus /\ UNCHANGED <<core, spi, prog>>

Host == UNCHANGED board /\ (Program \/ Drive)
Next == \/ Host
        \/ UNCHANGED board /\ (Devices \/ Prompt \/ Kill \/ Rerun \/ LoseLink)

(* The host's processor runs the program.  Nothing is assumed of the card. *)
Fairness == WF_vars(Host)
Spec == Init /\ [][Next]_vars /\ Fairness

-----------------------------------------------------------------------------
(***************************************************************************)
(* Properties.                                                             *)
(***************************************************************************)
TypeOK ==
    /\ link \in BOOLEAN /\ board \in Boards
    /\ core.run \in BOOLEAN /\ core.sel \in BOOLEAN
    /\ core.rx \in Seq(Bytes) /\ Len(core.tx) + Len(core.rx) <= Len(Id) + 1
    /\ spi.got \in Seq(Bytes)
    /\ \A c \in Cage : /\ ctl[c].rx \in Seq(Bytes)
                       /\ Len(ctl[c].rx) <= FIFO_DEPTH
                       /\ Len(ctl[c].tx) <= 4
    /\ iic.cage \in Cage /\ iic.out \in Seq(Bytes)
    /\ prog.runs \in 0 .. MaxRuns /\ prog.present \subseteq Cage

(* "Clock len(out) bytes out and return the len(out) bytes clocked in"     *)
(* (qspi.py): while the card answers, what a transfer returns is what the  *)
(* flash answered to these very bytes, after whatever earlier call.        *)
Answer == CASE spi.out = <<"RDID", "0", "0", "0">> -> <<Zeros>> \o Id
            [] spi.out = <<"RDSR", "0">> -> <<Zeros, Sr>>
            [] OTHER -> <<>>
TransferExact ==
    link /\ board.flash /\ Spi!Returned => spi.got = Answer

(* A run that exits with status zero has printed the identity and status   *)
(* of the flash that is there, even if the link failed during the run.     *)
FlashReportTrue ==
    prog.pc = "passed" => /\ board.flash
                          /\ prog.report.flash = Id
                          /\ prog.report.status = <<Sr>>

(* And, if the link is still there, the contents of every module that the  *)
(* sideband announces, each byte in its place.                             *)
CageReportTrue ==
    prog.pc = "passed" /\ link =>
        \A i \in 1 .. Len(Cages) :
            IF Cages[i] \in board.modprs
            THEN Cages[i] \in board.seated /\ prog.report.cages[i] = Page
            ELSE prog.report.cages[i] = "empty"

(* A run that ends by itself leaves the flash deselected and its clock     *)
(* stopped, also when it gave up on a transfer.                            *)
FlashReleased ==
    prog.pc \in {"passed", "failed"} /\ link => ~core.sel /\ ~core.run

(* What the controllers demand of a driver (host/tests/test_protocols.py): *)
(* bytes are queued while the clock is held, the clock is released with a  *)
(* slave selected and bytes to send, and a read is queued on an enabled    *)
(* controller whose bus nobody else is using.                              *)
SequenceKept ==
    [][/\ Len(core'.tx) > Len(core.tx) => ~core.run
       /\ ~core.run /\ core'.run => core.sel /\ core.tx # <<>>
       /\ \A c \in Cage : Len(ctl'[c].tx) > Len(ctl[c].tx) =>
             ctl[c].en /\ ~ctl[c].held /\ ctl[c].read = I2c!NoRead]_vars

(* Every wait has a deadline: a run ends, whatever the card does or does   *)
(* not do.                                                                 *)
RunEnds == prog.pc = "identity" ~> Ended
=============================================================================
