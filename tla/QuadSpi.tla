------------------------------ MODULE QuadSpi ------------------------------
(***************************************************************************)
(* The driver of the AXI Quad SPI controller (host/alivu13p/qspi.py), the  *)
(* controller as the driver uses it, and the configuration flash behind    *)
(* it.  Every register access is a step of its own: the controller goes on *)
(* shifting between two of them, and the link to the card may be gone at   *)
(* any of them, when a read gives all ones and a write vanishes.           *)
(***************************************************************************)
EXTENDS Naturals, Sequences

CONSTANTS Id,       \* the JEDEC identity of the flash: three bytes
          Sr,       \* its status register
          Ones,     \* a byte of ones: an idle bus, or a link that is gone
          Zeros     \* a byte of zeros: what is clocked in with no answer

VARIABLES link,     \* TRUE while the card answers register accesses
          fitted,   \* whether a flash is on the bus
          core,     \* the controller and the flash it has selected
          spi       \* the driver

(* The controller: its clock runs, a slave is selected, its two FIFOs; and *)
(* what the flash has heard since it was selected.                         *)
ResetCore == [run |-> FALSE, sel |-> FALSE, tx |-> <<>>, rx |-> <<>>,
              heard |-> <<>>]

(* Register writes.                                                        *)
SRR == [reg |-> "SRR"]
SPICR(run, clear) == [reg |-> "SPICR", run |-> run, clear |-> clear]
SPISSR(sel) == [reg |-> "SPISSR", sel |-> sel]
SPIDTR(byte) == [reg |-> "SPIDTR", byte |-> byte]

Written(c, w) ==
    CASE w.reg = "SRR"    -> ResetCore
      [] w.reg = "SPICR"  -> [c EXCEPT !.run = w.run,
                                       !.tx = IF w.clear THEN <<>> ELSE @,
                                       !.rx = IF w.clear THEN <<>> ELSE @]
      [] w.reg = "SPISSR" -> [c EXCEPT !.sel = w.sel,
                                       !.heard = IF w.sel THEN @ ELSE <<>>]
      [] w.reg = "SPIDTR" -> [c EXCEPT !.tx = Append(@, w.byte)]

(* SPISR.                                                                  *)
TxEmpty == link => core.tx = <<>>
RxEmpty == link => core.rx = <<>>

(* What the flash answers to the last byte it has heard: nothing while the *)
(* opcode goes out.                                                        *)
Reply(heard) ==
    LET n == Len(heard) - 1
    IN  CASE ~fitted -> Ones
          [] fitted /\ n \in 1 .. Len(Id) /\ heard[1] = "RDID" -> Id[n]
          [] fitted /\ n > 0 /\ heard[1] = "RDSR" -> Sr
          [] OTHER -> Zeros

(* The controller exchanges one byte.                                      *)
Shift ==
    /\ core.run /\ core.tx # <<>>
    /\ LET heard == IF core.sel THEN Append(core.heard, Head(core.tx)) ELSE <<>>
       IN core' = [core EXCEPT !.tx = Tail(@), !.heard = heard,
                    !.rx = Append(@, IF core.sel THEN Reply(heard) ELSE Ones)]
    /\ UNCHANGED <<link, fitted, spi>>

-----------------------------------------------------------------------------
(* The driver: the writes it is about to make, what it does after them,    *)
(* the bytes it sends and those it has got.                                *)
Driver(at, todo, out, got) == [at |-> at, todo |-> todo, out |-> out,
                               got |-> got]
Unused == Driver("idle", <<>>, <<>>, <<>>)

reset == Driver("returned", <<SRR, SPICR(FALSE, TRUE), SPISSR(FALSE)>>,
                <<>>, <<>>)

Load(out) == [i \in 1 .. Len(out) |-> SPIDTR(out[i])]

(* Mutant: the clock runs while the FIFO is loaded.                        *)
transfer_running(out) ==
    Driver("sending", <<SPICR(TRUE, TRUE), SPISSR(TRUE)>> \o Load(out)
                      \o <<SPICR(TRUE, FALSE)>>, out, <<>>)
(* Mutant: the FIFOs keep what an abandoned transfer left in them.         *)
transfer_unclean(out) ==
    Driver("sending", <<SPICR(FALSE, FALSE), SPISSR(TRUE)>> \o Load(out)
                      \o <<SPICR(TRUE, FALSE)>>, out, <<>>)
transfer(out) ==
    Driver("sending", <<SPICR(FALSE, TRUE), SPISSR(TRUE)>> \o Load(out)
                      \o <<SPICR(TRUE, FALSE)>>, out, <<>>)

jedec_id == transfer(<<"RDID", "0", "0", "0">>)
status   == transfer(<<"RDSR", "0">>)

WriteReg ==
    /\ spi.todo # <<>>
    /\ core' = IF link THEN Written(core, Head(spi.todo)) ELSE core
    /\ spi' = [spi EXCEPT !.todo = Tail(@)]
    /\ UNCHANGED <<link, fitted>>

At(label) == spi.at = label /\ spi.todo = <<>>

(* Mutant: the slave stays selected.                                       *)
Stop_selected == <<SPICR(FALSE, FALSE)>>
Stop == <<SPICR(FALSE, FALSE), SPISSR(FALSE)>>

(* Mutant: a transfer that does not end is waited for.                     *)
AwaitSent_forever ==
    /\ At("sending") /\ TxEmpty
    /\ spi' = [spi EXCEPT !.at = "draining", !.todo = Stop]
    /\ UNCHANGED <<link, fitted, core>>

(* SPISR is read until the transmit FIFO is empty; if it is not, the       *)
(* deadline may have passed, whatever happens on the bus meanwhile.        *)
AwaitSent ==
    /\ At("sending")
    /\ spi' = [spi EXCEPT !.at = IF TxEmpty THEN "draining" ELSE "late",
                          !.todo = Stop]
    /\ UNCHANGED <<link, fitted, core>>

Raise ==
    /\ At("late")
    /\ spi' = [spi EXCEPT !.at = "raised"]
    /\ UNCHANGED <<link, fitted, core>>

Drain ==
    /\ At("draining")
    /\ spi' = [spi EXCEPT !.at = IF RxEmpty THEN "returned" ELSE "reading"]
    /\ UNCHANGED <<link, fitted, core>>

ReadByte ==
    /\ At("reading")
    /\ LET got == Append(spi.got, IF link THEN Head(core.rx) ELSE Ones)
       IN spi' = [spi EXCEPT !.got = got,
            !.at = IF Len(got) > Len(spi.out) THEN "raised" ELSE "draining"]
    /\ core' = IF link THEN [core EXCEPT !.rx = Tail(@)] ELSE core
    /\ UNCHANGED <<link, fitted>>

Drive == WriteReg \/ AwaitSent \/ Raise \/ Drain \/ ReadByte

(* jedec_id insists on four bytes; status takes the second, and an answer  *)
(* too short for that raises as well.                                      *)
Returned == At("returned")
Failed(least) == At("raised") \/ (At("returned") /\ Len(spi.got) < least)
=============================================================================
