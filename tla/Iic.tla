-------------------------------- MODULE Iic --------------------------------
(***************************************************************************)
(* The driver of the AXI IIC controllers (host/alivu13p/i2c.py), one       *)
(* controller per QSFP cage as the driver uses it in dynamic mode, and the *)
(* bus with the module that may be seated on it.  A device may be slower   *)
(* than the driver's patience, may not be there, and may hold the bus.     *)
(***************************************************************************)
EXTENDS Naturals, Sequences

CONSTANTS Cage,         \* the cages, each with its controller and bus
          Page,         \* the identity bytes of a module, in order
          FIFO_DEPTH,   \* bytes the receive FIFO holds
          Ones, Garbled \* a byte of ones; a byte nobody sent

VARIABLES link,     \* TRUE while the card answers register accesses
          seated,   \* the cages that hold a module that answers
          ctl,      \* per cage: the controller and its bus
          iic       \* the driver

(* The controller: enabled, its FIFOs, its receive threshold, the read     *)
(* under way on the bus, and whether a device holds the bus.               *)
NoRead == [at |-> 0, left |-> 0]
ResetCtl(held) == [en |-> FALSE, tx |-> <<>>, rx |-> <<>>, pirq |-> 0,
                   read |-> NoRead, held |-> held]

(* Register writes; the four words of a combined read.                     *)
SOFTR == [reg |-> "SOFTR"]
CR(en) == [reg |-> "CR", en |-> en]
RX_FIFO_PIRQ(n) == [reg |-> "RX_FIFO_PIRQ", n |-> n]
TX_FIFO(word) == [reg |-> "TX_FIFO", word |-> word]
Words(offset, count) == <<[kind |-> "address write"],
                          [kind |-> "offset", n |-> offset],
                          [kind |-> "address read"],
                          [kind |-> "count", n |-> count]>>

(* A reset in the middle of a read may leave the module holding the bus.   *)
Written(c, w) ==
    CASE w.reg = "SOFTR" -> {ResetCtl(h) : h \in {c.held} \cup
                                (IF c.read = NoRead THEN {} ELSE {TRUE})}
      [] w.reg = "CR" -> {[c EXCEPT !.en = w.en,
                                    !.tx = IF w.en THEN @ ELSE <<>>]}
      [] w.reg = "RX_FIFO_PIRQ" -> {[c EXCEPT !.pirq = w.n]}
      [] w.reg = "TX_FIFO" -> {[c EXCEPT !.tx = Append(@, w.word)]}

(* SR: bus busy, receive FIFO empty.                                       *)
Busy(c) == link => ctl[c].held \/ ctl[c].tx # <<>> \/ ctl[c].read # NoRead
RxEmpty(c) == link => ctl[c].rx = <<>>

(* The controller addresses the device.  Without an acknowledgement it     *)
(* drops the words; on a bus that is held the device hears nonsense.       *)
Addressed(c) ==
    /\ ctl[c].en /\ ctl[c].read = NoRead /\ Len(ctl[c].tx) = 4
    /\ ctl' = [ctl EXCEPT ![c].tx = <<>>, ![c].read =
                IF c \in seated
                THEN [at |-> IF ctl[c].held THEN Len(Page) ELSE ctl[c].tx[2].n,
                      left |-> ctl[c].tx[4].n]
                ELSE NoRead]
    /\ UNCHANGED <<link, seated, iic>>

(* A byte comes in.  At the threshold the controller holds the clock.      *)
Receive(c) ==
    /\ ctl[c].read.left > 0 /\ Len(ctl[c].rx) <= ctl[c].pirq
    /\ LET at == ctl[c].read.at
       IN ctl' = [ctl EXCEPT
            ![c].rx = Append(@, IF at < Len(Page) THEN Page[at + 1]
                                                  ELSE Garbled),
            ![c].read = IF @.left = 1 THEN NoRead
                        ELSE [at |-> at + 1, left |-> @.left - 1]]
    /\ UNCHANGED <<link, seated, iic>>

ReleaseBus(c) ==
    /\ ctl[c].held
    /\ ctl' = [ctl EXCEPT ![c].held = FALSE]
    /\ UNCHANGED <<link, seated, iic>>

Bus == \E c \in Cage : Addressed(c) \/ Receive(c) \/ ReleaseBus(c)

-----------------------------------------------------------------------------
(* The driver: its cage, the writes it is about to make, what it does      *)
(* after them, the read it is in and what that read has got, and what      *)
(* read_bytes wants and has.                                               *)
Unused == [at |-> "idle", cage |-> CHOOSE c \in Cage : TRUE, todo |-> <<>>,
           offset |-> 0, count |-> 0, got |-> <<>>, want |-> 0, out |-> <<>>]

reset == <<SOFTR, CR(FALSE), CR(TRUE), RX_FIFO_PIRQ(FIFO_DEPTH - 1)>>

ResetOnly(c) == [Unused EXCEPT !.at = "returned", !.cage = c, !.todo = reset]

Read(driver, offset, count) ==
    [driver EXCEPT !.at = "settling", !.todo = reset, !.offset = offset,
                   !.count = count, !.got = <<>>]

Chunk(n) == IF n < FIFO_DEPTH THEN n ELSE FIFO_DEPTH
read_bytes(c, count) == Read([Unused EXCEPT !.cage = c, !.want = count],
                             0, Chunk(count))
(* Whether anything acknowledges: one byte, and any error means no.        *)
responds(c) == Read([Unused EXCEPT !.cage = c, !.want = 1], 0, 1)

WriteReg ==
    /\ iic.todo # <<>>
    /\ IF link THEN \E now \in Written(ctl[iic.cage], Head(iic.todo)) :
                        ctl' = [ctl EXCEPT ![iic.cage] = now]
               ELSE UNCHANGED ctl
    /\ iic' = [iic EXCEPT !.todo = Tail(@)]
    /\ UNCHANGED <<link, seated>>

At(label) == iic.at = label /\ iic.todo = <<>>
Raise == iic' = [iic EXCEPT !.at = "raised"]

(* Mutant: the bus is not waited for.                                      *)
_wait_idle_not ==
    /\ At("settling")
    /\ iic' = [iic EXCEPT !.at = "receiving",
            !.todo = [i \in 1 .. 4 |->
                        TX_FIFO(Words(iic.offset, iic.count)[i])]]
    /\ UNCHANGED <<link, seated, ctl>>

(* Wait for the bus, up to the deadline, then queue the read.              *)
_wait_idle ==
    /\ At("settling")
    /\ IF Busy(iic.cage) THEN Raise
       ELSE iic' = [iic EXCEPT !.at = "receiving",
                    !.todo = [i \in 1 .. 4 |->
                                TX_FIFO(Words(iic.offset, iic.count)[i])]]
    /\ UNCHANGED <<link, seated, ctl>>

PollRx ==
    /\ At("receiving")
    /\ IF RxEmpty(iic.cage) THEN Raise
                            ELSE iic' = [iic EXCEPT !.at = "taking"]
    /\ UNCHANGED <<link, seated, ctl>>

(* What follows a byte: more of this read, the next chunk, or the end.     *)
Taken(got) ==
    LET out == iic.out \o got
    IN  IF Len(got) < iic.count
        THEN [iic EXCEPT !.at = "receiving", !.got = got]
        ELSE IF Len(out) < iic.want
        THEN Read([iic EXCEPT !.out = out], Len(out),
                  Chunk(iic.want - Len(out)))
        ELSE [iic EXCEPT !.at = "returned", !.got = <<>>, !.out = out]

TakeByte ==
    /\ At("taking")
    /\ iic' = Taken(Append(iic.got, IF link THEN Head(ctl[iic.cage].rx)
                                            ELSE Ones))
    /\ ctl' = IF link THEN [ctl EXCEPT ![iic.cage].rx = Tail(@)] ELSE ctl
    /\ UNCHANGED <<link, seated>>

Drive == WriteReg \/ _wait_idle \/ PollRx \/ TakeByte
=============================================================================
