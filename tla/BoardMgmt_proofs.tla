-------------------------- MODULE BoardMgmt_proofs --------------------------
(***************************************************************************)
(* What the board inventory prints is true, the flash is released, and the *)
(* controllers are driven in the order they demand, for every board, page, *)
(* list of cages and FIFO depth.                                           *)
(***************************************************************************)
EXTENDS BoardMgmt, SequenceTheorems, TLAPS

(***************************************************************************)
(* Lists of writes.  A driver has these yet to make, of those it set out   *)
(* to make.                                                                *)
(***************************************************************************)
Rest(todo, all) ==
    /\ Len(todo) <= Len(all)
    /\ \A i \in 1 .. Len(todo) : todo[i] = all[Len(all) - Len(todo) + i]

LEMMA RestWhole == ASSUME NEW all, Len(all) \in Nat PROVE Rest(all, all)
    BY DEF Rest

(* The next write, and what is left after it.                              *)
LEMMA RestTail ==
    ASSUME NEW S, NEW todo \in Seq(S), todo # <<>>,
           NEW all, Len(all) \in Nat, Rest(todo, all)
    PROVE  /\ Tail(todo) \in Seq(S) /\ Len(Tail(todo)) = Len(todo) - 1
           /\ Len(todo) \in Nat \ {0}
           /\ Rest(Tail(todo), all)
           /\ Head(todo) = all[Len(all) - Len(todo) + 1]
           /\ Head(todo) \in S
<1>1. Len(todo) \in Nat /\ Len(todo) > 0
    BY EmptySeq
<1>2. Tail(todo) \in Seq(S) /\ Len(Tail(todo)) = Len(todo) - 1
    BY <1>1
<1>3. \A i \in 1 .. Len(todo) - 1 : Tail(todo)[i] = todo[i + 1]
    BY <1>1
<1>4. Rest(Tail(todo), all)
    <2>1. Len(Tail(todo)) <= Len(all)
        BY <1>1, <1>2 DEF Rest
    <2>2. ASSUME NEW i \in 1 .. Len(Tail(todo))
          PROVE  Tail(todo)[i] = all[Len(all) - Len(Tail(todo)) + i]
        <3>1. i + 1 \in 1 .. Len(todo) /\ i \in 1 .. Len(todo) - 1
            BY <1>1, <1>2
        <3>2. todo[i + 1] = all[Len(all) - Len(todo) + (i + 1)]
            BY <3>1 DEF Rest
        <3>3. Len(all) - Len(todo) + (i + 1) = Len(all) - Len(Tail(todo)) + i
            BY <1>1, <1>2
        <3> QED
            BY <1>3, <3>1, <3>2, <3>3
    <2> QED
        BY <2>1, <2>2 DEF Rest
<1>5. Head(todo) = todo[1] /\ 1 \in 1 .. Len(todo)
    BY <1>1
<1> QED
    BY <1>1, <1>2, <1>4, <1>5 DEF Rest

-----------------------------------------------------------------------------
(***************************************************************************)
(* The flash.  What the driver finds of the controller at each of its      *)
(* steps, while the card answers: where it stands in its writes says how   *)
(* far the controller is, and the bytes the flash has heard, those queued  *)
(* for it and those it has answered always add up.                         *)
(***************************************************************************)
Cmd == {"RDID", "RDSR", "0"}
Outs == {<<>>, <<"RDID", "0", "0", "0">>, <<"RDSR", "0">>}
SpiWrites == {Spi!SRR} \cup [reg : {"SPICR"}, run : BOOLEAN, clear : BOOLEAN]
             \cup [reg : {"SPISSR"}, sel : BOOLEAN] \cup [reg : {"SPIDTR"}, byte : Cmd]
CoreType == [run : BOOLEAN, sel : BOOLEAN, tx : Seq(Cmd), rx : Seq(Bytes),
             heard : Seq(Cmd)]
SpiType == [at : {"idle", "returned", "sending", "draining", "reading", "late",
                  "raised"},
            todo : Seq(SpiWrites), out : Outs, got : Seq(Bytes)]

(* The flash's answer to the i-th byte of a transfer, and bytes that are   *)
(* the answers from there on.                                              *)
Expected(fl, out, i) ==
    IF ~fl THEN Ones
    ELSE IF i = 1 THEN Zeros ELSE IF out[1] = "RDID" THEN Id[i - 1] ELSE Sr
Answers(fl, bytes, k, out) == \A i \in 1 .. Len(bytes) : bytes[i] = Expected(fl, out, k + i)

(* A transfer's bytes, in the two FIFOs.                                   *)
Fits(tx, rx) == Len(tx) + Len(rx) <= 4

Released(c) == ~c.run /\ ~c.sel /\ c.heard = <<>>

(* n writes before the clock is released: the clock is held, the slave is  *)
(* selected once its write is made, and each byte then queued is there.    *)
Loading(c, n, out) ==
    /\ ~c.run /\ c.heard = <<>>
    /\ n >= Len(out) + 2 => ~c.sel
    /\ n <= Len(out) + 1 => c.sel /\ Len(c.tx) = Len(out) + 1 - n
    /\ n = Len(out) + 2 => c.tx = <<>>
    /\ n <= Len(out) + 2 => c.rx = <<>> /\ (c.tx # <<>> => c.tx[1] = out[1])

Exchanging(fl, c, out) ==
    /\ c.run /\ c.sel
    /\ Len(c.heard) + Len(c.tx) = Len(out) /\ Len(c.rx) = Len(c.heard)
    /\ c.heard = <<>> => c.tx[1] = out[1]
    /\ c.heard # <<>> => c.heard[1] = out[1]
    /\ Answers(fl, c.rx, 0, out)

Awaited(fl, got, rx, out) ==
    /\ Len(got) + Len(rx) = Len(out)
    /\ Answers(fl, got, 0, out) /\ Answers(fl, rx, Len(got), out)
Draining(fl, c, got, out) == c.tx = <<>> /\ Awaited(fl, got, c.rx, out)

Driven(fl, c, d) ==
    /\ d.at = "idle" => d.todo = <<>>
    /\ d.at = "returned" /\ d.out = <<>> =>
        /\ d.got = <<>> /\ Rest(d.todo, Spi!reset.todo)
        /\ Len(d.todo) < 3 => Released(c) /\ c.tx = <<>> /\ c.rx = <<>>
    /\ d.at = "returned" /\ d.out # <<>> =>
        /\ d.todo = <<>> /\ Released(c)
        /\ Len(d.got) = Len(d.out) /\ Answers(fl, d.got, 0, d.out)
    /\ d.at = "raised" => d.todo = <<>> /\ Released(c)
    /\ d.at = "sending" =>
        /\ d.out # <<>> /\ d.got = <<>> /\ Rest(d.todo, Spi!transfer(d.out).todo)
        /\ IF d.todo = <<>> THEN Exchanging(fl, c, d.out)
                            ELSE Loading(c, Len(d.todo), d.out)
    /\ d.at \in {"late", "draining"} =>
        /\ Rest(d.todo, Spi!Stop)
        /\ Len(d.todo) < 2 => ~c.run
        /\ d.todo = <<>> => Released(c)
    /\ d.at = "reading" => d.todo = <<>> /\ Released(c) /\ c.rx # <<>>
    /\ d.at \in {"draining", "reading"} => d.out # <<>> /\ Draining(fl, c, d.got, d.out)

SpiInv ==
    /\ core \in CoreType /\ spi \in SpiType
    /\ Fits(core.tx, core.rx)
    /\ link => Driven(board.flash, core, spi)

-----------------------------------------------------------------------------
(***************************************************************************)
(* The cages.  During a read, while the card answers, the bytes on their   *)
(* way are those of the page: what the read has got, what the receive FIFO *)
(* holds and what the bus has yet to bring follow one another without gap. *)
(***************************************************************************)
IicWords == {[kind |-> "address write"], [kind |-> "address read"]}
            \cup [kind : {"offset", "count"}, n : Nat]
IicWrites == {I2c!SOFTR} \cup [reg : {"CR"}, en : BOOLEAN]
             \cup [reg : {"RX_FIFO_PIRQ"}, n : Nat]
             \cup [reg : {"TX_FIFO"}, word : IicWords]
CtlType == [en : BOOLEAN, tx : Seq(IicWords), rx : Seq(Bytes),
            pirq : 0 .. FIFO_DEPTH - 1, read : [at : Nat, left : Nat],
            held : BOOLEAN]
IicType == [at : {"idle", "returned", "raised", "settling", "receiving", "taking"},
            cage : Cage, todo : Seq(IicWrites), offset : Nat, count : Nat,
            got : Seq(Bytes), want : Nat, out : Seq(Bytes)]

(* A full queue is a combined read.                                        *)
Queue(tx) == /\ Len(tx) <= 4
             /\ Len(tx) >= 2 => tx[2].n \in Nat
             /\ Len(tx) >= 4 => tx[4].n \in Nat
Sized(tx, rx) == Queue(tx) /\ Len(rx) <= FIFO_DEPTH
Queued(offset, count) == [i \in 1 .. 4 |-> I2c!TX_FIFO(I2c!Words(offset, count)[i])]

OfPage(bytes, k) == \A i \in 1 .. Len(bytes) : bytes[i] = Page[k + i]
Quiet(k) == k.rx = <<>> /\ k.read = I2c!NoRead

(* The read is queued whole and nothing has come of it yet; or it is taken *)
(* from the queue, and what has come of it is the page from its offset on, *)
(* with n bytes come in and the rest, if any, still to come.               *)
Asked(k, i) == /\ Quiet(k) /\ i.got = <<>>
               /\ ~k.held /\ Len(k.tx) = 4
               /\ k.tx[2].n = i.offset /\ k.tx[4].n = i.count
Arrived(st, k, i, n) ==
    /\ k.tx = <<>>
    /\ n <= i.count
    /\ OfPage(i.got, i.offset) /\ OfPage(k.rx, i.offset + Len(i.got))
    /\ n > 0 => i.cage \in st
    /\ k.read # I2c!NoRead =>
          /\ i.cage \in st /\ n < i.count
          /\ k.read = [at |-> i.offset + n, left |-> i.count - n]
Arriving(st, k, i) == Arrived(st, k, i, Len(i.got) + Len(k.rx))

Chunked(i) == /\ i.offset = Len(i.out) /\ i.offset + i.count <= i.want
              /\ Len(i.got) < i.count

Reading(st, k, i) ==
    /\ OfPage(i.out, 0) /\ (i.out # <<>> => i.cage \in st)
    /\ i.at \in {"idle", "raised"} => i.todo = <<>>
    /\ i.at = "returned" => Len(i.out) = i.want /\ Rest(i.todo, I2c!reset)
    /\ i.at \in {"settling", "receiving", "taking"} => Chunked(i)
    /\ i.at = "settling" =>
        /\ i.got = <<>> /\ Rest(i.todo, I2c!reset)
        /\ Len(i.todo) < 4 => Quiet(k) /\ k.tx = <<>>
        /\ Len(i.todo) < 2 => k.en
    /\ i.at = "receiving" =>
        /\ Rest(i.todo, Queued(i.offset, i.count))
        /\ i.todo = <<>> => Asked(k, i) \/ Arriving(st, k, i)
        /\ i.todo # <<>> =>
             /\ k.en /\ Quiet(k) /\ ~k.held /\ i.got = <<>>
             /\ Len(k.tx) = 4 - Len(i.todo)
             /\ Len(k.tx) >= 2 => k.tx[2].n = i.offset
    /\ i.at = "taking" => i.todo = <<>> /\ Arriving(st, k, i) /\ k.rx # <<>>

IicInv ==
    /\ ctl \in [Cage -> CtlType] /\ iic \in IicType
    /\ \A c \in Cage : Sized(ctl[c].tx, ctl[c].rx)
    /\ iic.want <= Len(Page)
    /\ link => Reading(board.seated, ctl[iic.cage], iic)

-----------------------------------------------------------------------------
(***************************************************************************)
(* The program.  Where it stands says what its two drivers are doing, and  *)
(* what it has printed is true of the board.                               *)
(***************************************************************************)
Pcs == {"identity", "flash", "jedec", "status", "sideband", "present", "cage",
        "page", "probe", "passed", "failed", "killed", "prompt"}
Found == Seq(Bytes) \cup {"empty"}
ProgType == [pc : Pcs, runs : 0 .. MaxRuns, present : SUBSET Cage,
             report : [flash : Seq(Bytes), status : Seq(Bytes), cages : Seq(Found)]]

Shown == {"sideband", "present", "cage", "page", "probe", "passed"}
Visits == {"cage", "page", "probe"}

FlashPart ==
    /\ spi.at = "idle" => spi = Spi!Unused
    /\ prog.pc \in {"identity", "killed"} => spi.at = "idle"
    /\ prog.pc = "flash" => spi.at = "returned" /\ spi.out = <<>>
    /\ prog.pc = "jedec" => spi.at # "idle" /\ spi.out = <<"RDID", "0", "0", "0">>
    /\ prog.pc = "status" => spi.at # "idle" /\ spi.out = <<"RDSR", "0">>
    /\ prog.pc \in Shown => spi.at = "returned" /\ spi.todo = <<>>
    /\ prog.pc = "failed" => spi.at \in {"idle", "returned", "raised"} /\ spi.todo = <<>>
    /\ prog.pc \in Shown \cup {"failed"} /\ link => Released(core)
    /\ prog.pc = "prompt" /\ spi.at = "idle" => Released(core)
    /\ prog.pc \notin {"identity", "failed", "killed", "prompt"} =>
           board.identity = "BM, startup over"
    /\ prog.pc # "prompt" /\ board.identity # "BM, startup over" => Released(core)

FlashSaid ==
    /\ prog.pc = "status" /\ link => board.flash /\ prog.report.flash = Id
    /\ prog.pc = "sideband" /\ link => /\ board.flash /\ prog.report.flash = Id
                                       /\ prog.report.status = <<Sr>>
    /\ prog.pc \in Shown \ {"sideband"} => /\ board.flash /\ prog.report.flash = Id
                                           /\ prog.report.status = <<Sr>>

CagePart ==
    /\ prog.pc \in Visits => /\ Len(prog.report.cages) < Len(Cages)
                             /\ iic.cage = Cages[Len(prog.report.cages) + 1]
    /\ prog.pc = "cage" => iic.at = "returned"
    /\ prog.pc \in {"page", "probe"} => iic.at # "idle"
    /\ prog.pc = "page" => /\ cage \in prog.present
                           /\ iic.want = Len(Page)
    /\ prog.pc = "probe" => cage \notin prog.present
    /\ prog.pc \notin Visits \cup {"failed"} => iic = I2c!Unused
    /\ prog.pc = "failed" => iic.at \in {"idle", "returned", "raised"} /\ iic.todo = <<>>
    /\ prog.pc \notin Visits \cup {"passed", "failed", "killed"} => prog.report.cages = <<>>
    /\ prog.pc = "passed" => Len(prog.report.cages) = Len(Cages)

CagesSaid ==
    prog.pc \in Visits \cup {"passed"} /\ link =>
        /\ prog.present = board.modprs
        /\ \A i \in 1 .. Len(prog.report.cages) :
             IF Cages[i] \in board.modprs
             THEN Cages[i] \in board.seated /\ prog.report.cages[i] = Page
             ELSE prog.report.cages[i] = "empty"

ProgInv == /\ link \in BOOLEAN /\ board \in Boards /\ prog \in ProgType
           /\ FlashPart /\ FlashSaid /\ CagePart /\ CagesSaid

IInv == SpiInv /\ IicInv /\ ProgInv

-----------------------------------------------------------------------------
(***************************************************************************)
(* The flash: each step of the driver, of the controller and of the        *)
(* program keeps SpiInv.                                                   *)
(***************************************************************************)
LEMMA Constants ==
    /\ FIFO_DEPTH \in Nat \ {0} /\ MaxRuns \in Nat \ {0}
    /\ Id \in Seq(Bytes) /\ Len(Id) = 3 /\ Sr \in Bytes /\ Ones \in Bytes
    /\ Zeros \in Bytes /\ Garbled \in Bytes
    /\ Page \in Seq(Bytes) /\ Len(Page) \in Nat \ {0}
    /\ Cages \in Seq(Cage) /\ Len(Cages) \in Nat \ {0}
    /\ \A b \in Boards : b.modprs \subseteq Cage
<1>1. Sr \in Bytes /\ Ones \in Bytes /\ Zeros \in Bytes /\ Garbled \in Bytes
    BY DEF Bytes
<1>2. Len(Page) \in Nat \ {0} /\ Len(Cages) \in Nat \ {0}
    BY BoardAssumption, EmptySeq
<1> QED
    BY BoardAssumption, <1>1, <1>2

(* The writes of a driver's call, one by one.                              *)
LEMMA ResetList == /\ Len(Spi!reset.todo) = 3
                   /\ Spi!reset.todo[1] = Spi!SRR
                   /\ Spi!reset.todo[2] = Spi!SPICR(FALSE, TRUE)
                   /\ Spi!reset.todo[3] = Spi!SPISSR(FALSE)
                   /\ Spi!reset.todo \in Seq(SpiWrites)
    BY DEF Spi!reset, Spi!Driver, SpiWrites, Spi!SPICR, Spi!SPISSR

LEMMA StopList == /\ Len(Spi!Stop) = 2
                  /\ Spi!Stop[1] = Spi!SPICR(FALSE, FALSE)
                  /\ Spi!Stop[2] = Spi!SPISSR(FALSE)
                  /\ Spi!Stop \in Seq(SpiWrites)
    BY DEF Spi!Stop, SpiWrites, Spi!SPICR, Spi!SPISSR

LEMMA OutsAre ==
    ASSUME NEW out \in Outs, out # <<>>
    PROVE  /\ out \in Seq(Cmd) /\ Len(out) \in {2, 4} /\ Len(out) \in Nat
           /\ out = <<"RDID", "0", "0", "0">> \/ out = <<"RDSR", "0">>
           /\ out = <<"RDID", "0", "0", "0">> => out[1] = "RDID" /\ Len(out) = 4
           /\ out = <<"RDSR", "0">> => out[1] = "RDSR" /\ Len(out) = 2
           /\ \A i \in 1 .. Len(out) : out[i] \in Cmd
<1>1. CASE out = <<"RDID", "0", "0", "0">>
    BY <1>1 DEF Cmd
<1>2. CASE out = <<"RDSR", "0">>
    BY <1>2 DEF Cmd
<1> QED
    BY <1>1, <1>2 DEF Outs

LEMMA Between ==
    ASSUME NEW S, NEW a \in S, NEW b \in S, NEW s \in Seq(S), NEW z \in S,
           NEW all, all = <<a, b>> \o s \o <<z>>
    PROVE  /\ all \in Seq(S) /\ Len(all) = Len(s) + 3
           /\ all[1] = a /\ all[2] = b /\ all[Len(s) + 3] = z
           /\ \A i \in 1 .. Len(s) : all[i + 2] = s[i]
<1> DEFINE t == <<a, b>> \o s
<1>1. <<a, b>> \in Seq(S) /\ Len(<<a, b>>) = 2 /\ <<a, b>>[1] = a /\ <<a, b>>[2] = b
    OBVIOUS
<1>2. <<z>> \in Seq(S) /\ Len(<<z>>) = 1 /\ <<z>>[1] = z
    OBVIOUS
<1>3. Len(s) \in Nat
    OBVIOUS
<1>4. /\ t \in Seq(S) /\ Len(t) = 2 + Len(s)
      /\ \A i \in 1 .. Len(t) : t[i] = IF i <= 2 THEN <<a, b>>[i] ELSE s[i - 2]
    BY <1>1, ConcatProperties
<1> HIDE DEF t
<1>5. /\ t \o <<z>> \in Seq(S) /\ Len(t \o <<z>>) = Len(t) + 1
      /\ \A i \in 1 .. Len(t) + 1 :
           (t \o <<z>>)[i] = IF i <= Len(t) THEN t[i] ELSE <<z>>[i - Len(t)]
    BY <1>2, <1>4, ConcatProperties
<1>6. t[1] = a /\ t[2] = b /\ \A i \in 1 .. Len(s) : t[i + 2] = s[i]
    BY <1>1, <1>3, <1>4
<1>7. /\ (t \o <<z>>)[1] = a /\ (t \o <<z>>)[2] = b /\ (t \o <<z>>)[Len(s) + 3] = z
      /\ \A i \in 1 .. Len(s) : (t \o <<z>>)[i + 2] = s[i]
    BY <1>2, <1>3, <1>4, <1>5, <1>6
<1> QED
    BY <1>3, <1>4, <1>5, <1>7 DEF t

LEMMA TransferList ==
    ASSUME NEW out \in Outs, out # <<>>
    PROVE  LET all == Spi!transfer(out).todo IN
           /\ Len(all) = Len(out) + 3
           /\ all[1] = Spi!SPICR(FALSE, TRUE) /\ all[2] = Spi!SPISSR(TRUE)
           /\ \A i \in 1 .. Len(out) : all[i + 2] = Spi!SPIDTR(out[i])
           /\ all[Len(out) + 3] = Spi!SPICR(TRUE, FALSE)
           /\ all \in Seq(SpiWrites)
<1>1. /\ Spi!SPICR(FALSE, TRUE) \in SpiWrites /\ Spi!SPISSR(TRUE) \in SpiWrites
      /\ Spi!SPICR(TRUE, FALSE) \in SpiWrites
      /\ \A b \in Cmd : Spi!SPIDTR(b) \in SpiWrites
    BY DEF SpiWrites, Spi!SPICR, Spi!SPISSR, Spi!SPIDTR
<1>2. Len(out) \in Nat /\ \A i \in 1 .. Len(out) : out[i] \in Cmd
    BY OutsAre
<1>3. /\ Spi!Load(out) \in Seq(SpiWrites) /\ Len(Spi!Load(out)) = Len(out)
      /\ \A i \in 1 .. Len(out) : Spi!Load(out)[i] = Spi!SPIDTR(out[i])
    BY <1>1, <1>2 DEF Spi!Load
<1>4. Spi!transfer(out).todo = <<Spi!SPICR(FALSE, TRUE), Spi!SPISSR(TRUE)>>
                               \o Spi!Load(out) \o <<Spi!SPICR(TRUE, FALSE)>>
    BY DEF Spi!transfer, Spi!Driver
<1> DEFINE load == Spi!Load(out)
           all == Spi!transfer(out).todo
           hold == Spi!SPICR(FALSE, TRUE)
           select == Spi!SPISSR(TRUE)
           go == Spi!SPICR(TRUE, FALSE)
<1>5. /\ all \in Seq(SpiWrites) /\ Len(all) = Len(load) + 3
      /\ all[1] = hold /\ all[2] = select /\ all[Len(load) + 3] = go
      /\ \A i \in 1 .. Len(load) : all[i + 2] = load[i]
    <2>1. hold \in SpiWrites /\ select \in SpiWrites /\ go \in SpiWrites
        BY <1>1
    <2>2. load \in Seq(SpiWrites) /\ all = <<hold, select>> \o load \o <<go>>
        BY <1>3, <1>4
    <2> HIDE DEF load, all, hold, select, go
    <2> QED
        BY <2>1, <2>2, Between
<1>6. /\ Len(load) = Len(out) /\ \A i \in 1 .. Len(out) : load[i] = Spi!SPIDTR(out[i])
    BY <1>3
<1> HIDE DEF load, all
<1>7. \A i \in 1 .. Len(out) : all[i + 2] = Spi!SPIDTR(out[i])
    BY <1>5, <1>6
<1>8. Len(all) = Len(out) + 3 /\ all[Len(out) + 3] = go
    BY <1>5, <1>6
<1> QED
    BY <1>5, <1>7, <1>8 DEF all

(* What each write does to the controller, field by field.                 *)
LEMMA Resets ==
    ASSUME NEW c \in CoreType, NEW c2, c2 = Spi!Written(c, Spi!SRR)
    PROVE  c2 \in CoreType /\ Released(c2) /\ c2.tx = <<>> /\ c2.rx = <<>>
    BY DEF Spi!Written, Spi!SRR, CoreType, Spi!ResetCore, Released

LEMMA Clears ==
    ASSUME NEW c \in CoreType, NEW c2
    PROVE  c2 = Spi!Written(c, Spi!SPICR(FALSE, TRUE)) =>
             /\ c2 \in CoreType /\ ~c2.run /\ c2.sel = c.sel
             /\ c2.tx = <<>> /\ c2.rx = <<>> /\ c2.heard = c.heard
<1>1. Spi!Written(c, Spi!SPICR(FALSE, TRUE)) =
         [run |-> FALSE, sel |-> c.sel, tx |-> <<>>, rx |-> <<>>, heard |-> c.heard]
    BY DEF Spi!Written, Spi!SRR, Spi!SPICR, Spi!SPISSR, Spi!SPIDTR, CoreType
<1>2. ASSUME c2 = [run |-> FALSE, sel |-> c.sel, tx |-> <<>>, rx |-> <<>>, heard |-> c.heard]
      PROVE  /\ c2 \in CoreType /\ ~c2.run /\ c2.sel = c.sel
             /\ c2.tx = <<>> /\ c2.rx = <<>> /\ c2.heard = c.heard
    BY <1>2 DEF CoreType
<1> QED
    BY <1>1, <1>2, Zenon

LEMMA Stops ==
    ASSUME NEW c \in CoreType, NEW c2
    PROVE  c2 = Spi!Written(c, Spi!SPICR(FALSE, FALSE)) =>
             /\ c2 \in CoreType /\ ~c2.run /\ c2.sel = c.sel
             /\ c2.tx = c.tx /\ c2.rx = c.rx /\ c2.heard = c.heard
<1>1. Spi!Written(c, Spi!SPICR(FALSE, FALSE)) =
         [run |-> FALSE, sel |-> c.sel, tx |-> c.tx, rx |-> c.rx, heard |-> c.heard]
    BY DEF Spi!Written, Spi!SRR, Spi!SPICR, Spi!SPISSR, Spi!SPIDTR, CoreType
<1>2. ASSUME c2 = [run |-> FALSE, sel |-> c.sel, tx |-> c.tx, rx |-> c.rx, heard |-> c.heard]
      PROVE  /\ c2 \in CoreType /\ ~c2.run /\ c2.sel = c.sel
             /\ c2.tx = c.tx /\ c2.rx = c.rx /\ c2.heard = c.heard
    BY <1>2 DEF CoreType
<1> QED
    BY <1>1, <1>2, Zenon

LEMMA Goes ==
    ASSUME NEW c \in CoreType, NEW c2
    PROVE  c2 = Spi!Written(c, Spi!SPICR(TRUE, FALSE)) =>
             /\ c2 \in CoreType /\ c2.run /\ c2.sel = c.sel
             /\ c2.tx = c.tx /\ c2.rx = c.rx /\ c2.heard = c.heard
<1>1. Spi!Written(c, Spi!SPICR(TRUE, FALSE)) =
         [run |-> TRUE, sel |-> c.sel, tx |-> c.tx, rx |-> c.rx, heard |-> c.heard]
    BY DEF Spi!Written, Spi!SRR, Spi!SPICR, Spi!SPISSR, Spi!SPIDTR, CoreType
<1>2. ASSUME c2 = [run |-> TRUE, sel |-> c.sel, tx |-> c.tx, rx |-> c.rx, heard |-> c.heard]
      PROVE  /\ c2 \in CoreType /\ c2.run /\ c2.sel = c.sel
             /\ c2.tx = c.tx /\ c2.rx = c.rx /\ c2.heard = c.heard
    BY <1>2 DEF CoreType
<1> QED
    BY <1>1, <1>2, Zenon

LEMMA Selects ==
    ASSUME NEW c \in CoreType, NEW c2
    PROVE  c2 = Spi!Written(c, Spi!SPISSR(TRUE)) =>
             /\ c2 \in CoreType /\ c2.run = c.run /\ c2.sel
             /\ c2.tx = c.tx /\ c2.rx = c.rx /\ c2.heard = c.heard
<1>1. Spi!Written(c, Spi!SPISSR(TRUE)) =
         [run |-> c.run, sel |-> TRUE, tx |-> c.tx, rx |-> c.rx, heard |-> c.heard]
    BY DEF Spi!Written, Spi!SRR, Spi!SPICR, Spi!SPISSR, Spi!SPIDTR, CoreType
<1>2. ASSUME c2 = [run |-> c.run, sel |-> TRUE, tx |-> c.tx, rx |-> c.rx, heard |-> c.heard]
      PROVE  /\ c2 \in CoreType /\ c2.run = c.run /\ c2.sel
             /\ c2.tx = c.tx /\ c2.rx = c.rx /\ c2.heard = c.heard
    BY <1>2 DEF CoreType
<1> QED
    BY <1>1, <1>2, Zenon

LEMMA Deselects ==
    ASSUME NEW c \in CoreType, NEW c2
    PROVE  c2 = Spi!Written(c, Spi!SPISSR(FALSE)) =>
             /\ c2 \in CoreType /\ c2.run = c.run /\ ~c2.sel
             /\ c2.tx = c.tx /\ c2.rx = c.rx /\ c2.heard = <<>>
<1>1. Spi!Written(c, Spi!SPISSR(FALSE)) =
         [run |-> c.run, sel |-> FALSE, tx |-> c.tx, rx |-> c.rx, heard |-> <<>>]
    BY DEF Spi!Written, Spi!SRR, Spi!SPICR, Spi!SPISSR, Spi!SPIDTR, CoreType
<1>2. ASSUME c2 = [run |-> c.run, sel |-> FALSE, tx |-> c.tx, rx |-> c.rx, heard |-> <<>>]
      PROVE  /\ c2 \in CoreType /\ c2.run = c.run /\ ~c2.sel
             /\ c2.tx = c.tx /\ c2.rx = c.rx /\ c2.heard = <<>>
    BY <1>2 DEF CoreType
<1> QED
    BY <1>1, <1>2, Zenon

LEMMA Queues ==
    ASSUME NEW c \in CoreType, NEW b \in Cmd, NEW c2
    PROVE  c2 = Spi!Written(c, Spi!SPIDTR(b)) =>
             /\ c2 \in CoreType /\ c2.run = c.run /\ c2.sel = c.sel
             /\ c2.tx = Append(c.tx, b) /\ c2.rx = c.rx /\ c2.heard = c.heard
<1>1. Spi!Written(c, Spi!SPIDTR(b)) =
         [run |-> c.run, sel |-> c.sel, tx |-> Append(c.tx, b), rx |-> c.rx,
               heard |-> c.heard]
    BY DEF Spi!Written, Spi!SRR, Spi!SPICR, Spi!SPISSR, Spi!SPIDTR, CoreType
<1>2. ASSUME c2 = [run |-> c.run, sel |-> c.sel, tx |-> Append(c.tx, b), rx |-> c.rx,
               heard |-> c.heard]
      PROVE  /\ c2 \in CoreType /\ c2.run = c.run /\ c2.sel = c.sel
             /\ c2.tx = Append(c.tx, b) /\ c2.rx = c.rx /\ c2.heard = c.heard
    BY <1>2 DEF CoreType
<1> QED
    BY <1>1, <1>2, Zenon

(* Every list a driver works through: the next of n writes is this one.    *)
LEMMA NextWrite ==
    ASSUME NEW S, NEW todo \in Seq(S), todo # <<>>, NEW all, NEW m \in Nat,
           Len(all) = m, Rest(todo, all), NEW rest, rest = Tail(todo)
    PROVE  /\ rest \in Seq(S)
           /\ Len(todo) \in 1 .. m /\ Len(rest) = Len(todo) - 1 /\ Rest(rest, all)
           /\ Head(todo) = all[m + 1 - Len(todo)]
           /\ rest = <<>> <=> Len(todo) = 1
<1>1. /\ rest \in Seq(S) /\ Len(rest) = Len(todo) - 1
      /\ Len(todo) \in Nat \ {0} /\ Rest(rest, all)
      /\ Head(todo) = all[Len(all) - Len(todo) + 1]
    BY RestTail, Zenon
<1>2. Len(todo) \in 1 .. m /\ Len(all) - Len(todo) + 1 = m + 1 - Len(todo)
    BY <1>1 DEF Rest
<1>3. rest = <<>> <=> Len(todo) = 1
    <2>1. rest = <<>> <=> Len(rest) = 0
        BY <1>1, EmptySeq
    <2> QED
        BY <1>1, <2>1
<1> QED
    BY <1>1, <1>2, <1>3

(* What the controllers demand, of one write.                              *)
InOrder(c, c2) == /\ Len(c2.tx) > Len(c.tx) => ~c.run
                  /\ ~c.run /\ c2.run => c.sel /\ c.tx # <<>>
Kept(fl, c, c2, d2) == /\ c2 \in CoreType /\ Fits(c2.tx, c2.rx)
                   /\ Driven(fl, c2, d2) /\ InOrder(c, c2)

LEMMA WriteOfReset ==
    ASSUME NEW fl, NEW c \in CoreType, NEW d \in SpiType,
           NEW todo, todo = d.todo, todo # <<>>,
           Driven(fl, c, d), d.at = "returned",
           NEW w, w = Head(todo), NEW c2, c2 = Spi!Written(c, w),
           NEW rest, rest = Tail(todo), NEW d2, d2 = [d EXCEPT !.todo = rest]
    PROVE  Kept(fl, c, c2, d2)
<1> DEFINE all == Spi!reset.todo
<1>1. /\ d.out = <<>> /\ d.got = <<>> /\ Rest(todo, all)
      /\ Len(todo) < 3 => Released(c) /\ c.tx = <<>> /\ c.rx = <<>>
    BY Zenon DEF Driven
<1>2. Len(all) = 3
    BY ResetList
<1>3. /\ all[1] = Spi!SRR /\ all[2] = Spi!SPICR(FALSE, TRUE)
      /\ all[3] = Spi!SPISSR(FALSE)
    BY ResetList
<1> HIDE DEF all
<1>10. d2.at = "returned" /\ d2.out = <<>> /\ d2.got = <<>> /\ d2.todo = rest
    BY <1>1 DEF SpiType
<1>4. /\ Len(todo) \in 1 .. 3 /\ Len(rest) = Len(todo) - 1 /\ Rest(rest, all)
      /\ Head(todo) = all[3 + 1 - Len(todo)]
    <2>1. 3 \in Nat /\ todo \in Seq(SpiWrites)
        BY DEF SpiType
    <2> QED
        BY <1>1, <1>2, <2>1, NextWrite, ZenonT(60)
<1>5. c2 \in CoreType /\ Released(c2) /\ c2.tx = <<>> /\ c2.rx = <<>>
    <2>1. CASE Len(todo) = 3
        <3>1. w = all[1]
            BY <1>4, <2>1
        <3>2. w = Spi!SRR
            BY <1>3, <3>1, Zenon
        <3> QED
            BY <3>2, Resets
    <2>2. CASE Len(todo) = 2
        <3>1. w = all[2]
            BY <1>4, <2>2
        <3>2. w = Spi!SPICR(FALSE, TRUE)
            BY <1>3, <3>1, Zenon
        <3>3. Released(c)
            BY <1>1, <2>2
        <3>4. /\ c2 \in CoreType /\ ~c2.run /\ c2.sel = c.sel
              /\ c2.tx = <<>> /\ c2.rx = <<>> /\ c2.heard = c.heard
            BY <3>2, Clears, Zenon
        <3> QED
            BY <3>3, <3>4 DEF Released
    <2>3. CASE Len(todo) = 1
        <3>1. w = all[3]
            BY <1>4, <2>3
        <3>2. w = Spi!SPISSR(FALSE)
            BY <1>3, <3>1, Zenon
        <3>3. Released(c) /\ c.tx = <<>> /\ c.rx = <<>>
            BY <1>1, <2>3
        <3>4. /\ c2 \in CoreType /\ c2.run = c.run /\ ~c2.sel
              /\ c2.tx = c.tx /\ c2.rx = c.rx /\ c2.heard = <<>>
            BY <3>2, Deselects, Zenon
        <3> QED
            BY <3>3, <3>4 DEF Released
    <2> QED
        BY <1>4, <2>1, <2>2, <2>3
<1>6. Driven(fl, c2, d2)
    BY <1>10, <1>4, <1>5 DEF Driven, all
<1>7. Len(c2.tx) = 0 /\ Len(c.tx) \in Nat /\ ~c2.run
    BY <1>5 DEF CoreType, Released
<1>8. InOrder(c, c2)
    BY <1>7 DEF InOrder
<1>9. Fits(c2.tx, c2.rx)
    <2>1. Fits(<<>>, <<>>)
        BY DEF Fits
    <2> QED
        BY <1>5, <2>1
<1> QED
    BY <1>5, <1>6, <1>8, <1>9, Zenon DEF Kept

LEMMA WriteOfStop ==
    ASSUME NEW fl, NEW c \in CoreType, NEW d \in SpiType,
           NEW todo, todo = d.todo, todo # <<>>,
           Driven(fl, c, d), Fits(c.tx, c.rx), d.at \in {"late", "draining"},
           NEW w, w = Head(todo), NEW c2, c2 = Spi!Written(c, w),
           NEW rest, rest = Tail(todo), NEW d2, d2 = [d EXCEPT !.todo = rest]
    PROVE  Kept(fl, c, c2, d2)
<1> DEFINE all == Spi!Stop
<1>1. /\ Rest(todo, all)
      /\ Len(todo) < 2 => ~c.run
      /\ d.at = "draining" => d.out # <<>> /\ Draining(fl, c, d.got, d.out)
    BY Zenon DEF Driven
<1>2. Len(all) = 2
    BY StopList
<1>3. all[1] = Spi!SPICR(FALSE, FALSE) /\ all[2] = Spi!SPISSR(FALSE)
    BY StopList
<1> HIDE DEF all
<1>4. d2.at = d.at /\ d2.out = d.out /\ d2.got = d.got /\ d2.todo = rest
    BY DEF SpiType
<1>5. /\ Len(todo) \in 1 .. 2 /\ Len(rest) = Len(todo) - 1 /\ Rest(rest, all)
      /\ Head(todo) = all[2 + 1 - Len(todo)]
      /\ rest = <<>> <=> Len(todo) = 1
    <2>1. 2 \in Nat /\ todo \in Seq(SpiWrites)
        BY DEF SpiType
    <2> QED
        BY <1>1, <1>2, <2>1, NextWrite, ZenonT(60)
<1>6. /\ c2 \in CoreType /\ c2.tx = c.tx /\ c2.rx = c.rx /\ ~c2.run
      /\ rest = <<>> => Released(c2)
    <2>1. CASE Len(todo) = 2
        <3>1. w = all[1] /\ rest # <<>>
            BY <1>5, <2>1
        <3>2. w = Spi!SPICR(FALSE, FALSE)
            BY <1>3, <3>1, Zenon
        <3> QED
            BY <3>1, <3>2, Stops, Zenon
    <2>2. CASE Len(todo) = 1
        <3>1. w = all[2] /\ ~c.run
            BY <1>1, <1>5, <2>2
        <3>2. w = Spi!SPISSR(FALSE)
            BY <1>3, <3>1, Zenon
        <3>3. /\ c2 \in CoreType /\ c2.run = c.run /\ ~c2.sel
              /\ c2.tx = c.tx /\ c2.rx = c.rx /\ c2.heard = <<>>
            BY <3>2, Deselects, Zenon
        <3> QED
            BY <3>1, <3>3 DEF Released
    <2> QED
        BY <1>5, <2>1, <2>2
<1>7. d.at = "draining" => Draining(fl, c2, d2.got, d2.out)
    BY <1>1, <1>4, <1>6 DEF Draining
<1>8. Driven(fl, c2, d2)
    BY <1>1, <1>4, <1>5, <1>6, <1>7 DEF Driven, all
<1>9. InOrder(c, c2)
    BY <1>6 DEF InOrder, CoreType
<1> QED
    BY <1>6, <1>8, <1>9 DEF Kept

LEMMA WriteOfTransfer ==
    ASSUME NEW fl, NEW c \in CoreType, NEW d \in SpiType,
           NEW todo, todo = d.todo, todo # <<>>,
           Driven(fl, c, d), Fits(c.tx, c.rx), d.at = "sending",
           NEW w, w = Head(todo), NEW c2, c2 = Spi!Written(c, w),
           NEW rest, rest = Tail(todo), NEW d2, d2 = [d EXCEPT !.todo = rest]
    PROVE  Kept(fl, c, c2, d2)
<1>1. PICK out \in Outs : out = d.out
    BY DEF SpiType
<1> DEFINE all == Spi!transfer(out).todo
           L == Len(out)
<1>2. /\ out # <<>> /\ d.got = <<>> /\ Rest(todo, all)
      /\ Loading(c, Len(todo), out)
    BY <1>1, Zenon DEF Driven
<1>3. L \in {2, 4} /\ \A i \in 1 .. L : out[i] \in Cmd
    BY <1>2, OutsAre
<1>4. /\ Len(all) = L + 3
      /\ all[1] = Spi!SPICR(FALSE, TRUE) /\ all[2] = Spi!SPISSR(TRUE)
      /\ all[L + 3] = Spi!SPICR(TRUE, FALSE)
    BY <1>2, TransferList, Zenon
<1>5. \A i \in 1 .. L : all[i + 2] = Spi!SPIDTR(out[i])
    BY <1>2, TransferList, Zenon
<1> HIDE DEF all
<1>6. d2.at = d.at /\ d2.out = out /\ d2.got = <<>> /\ d2.todo = rest
    BY <1>1, <1>2 DEF SpiType
<1>7. PICK n \in 1 .. L + 3 :
         /\ n = Len(todo) /\ Len(rest) = n - 1 /\ Rest(rest, all)
         /\ w = all[L + 4 - n]
         /\ rest = <<>> <=> n = 1
    <2>1. PICK m \in Nat : m = L + 3
        BY <1>3
    <2>2. Len(all) = m /\ todo \in Seq(SpiWrites) /\ Rest(todo, all)
        BY <1>2, <1>4, <2>1, Zenon DEF SpiType
    <2>3. /\ Len(todo) \in 1 .. m /\ Len(rest) = Len(todo) - 1 /\ Rest(rest, all)
          /\ Head(todo) = all[m + 1 - Len(todo)]
          /\ rest = <<>> <=> Len(todo) = 1
        <3> HIDE DEF L
        <3> QED
            BY <2>2, NextWrite, ZenonT(40)
    <2>4. PICK n \in 1 .. m : n = Len(todo)
        BY <2>3
    <2>5. m + 1 - n = L + 4 - n /\ n \in 1 .. L + 3
        BY <1>3, <2>1, <2>4
    <2> QED
        BY <2>3, <2>4, <2>5
<1>8. PICK tx \in Seq(Cmd) : tx = c.tx
    BY DEF CoreType
<1>9. \/ rest # <<>> /\ Loading(c2, n - 1, out)
      \/ rest = <<>> /\ Exchanging(fl, c2, out)
      => Driven(fl, c2, d2)
    BY <1>2, <1>6, <1>7, Zenon DEF Driven, all
<1>14. Fits(<<>>, <<>>)
    BY DEF Fits
<1>15. Loading(c, n, out)
    BY <1>2, <1>7, Zenon
<1>10. CASE n = L + 3
    <2>1. w = all[1] /\ n - 1 >= L + 2 /\ rest # <<>>
        BY <1>3, <1>7, <1>10
    <2>2. w = Spi!SPICR(FALSE, TRUE)
        BY <1>4, <2>1, Zenon
    <2>3. /\ c2 \in CoreType /\ ~c2.run /\ c2.sel = c.sel
          /\ c2.tx = <<>> /\ c2.rx = <<>> /\ c2.heard = c.heard
        BY <2>2, Clears, Zenon
    <2>4. Loading(c2, n - 1, out)
        BY <1>2, <1>3, <1>7, <1>10, <2>3 DEF Loading
    <2>5. InOrder(c, c2)
        BY <2>3 DEF InOrder, CoreType
    <2> QED
        BY <1>9, <2>1, <2>3, <2>4, <2>5, <1>14, Zenon DEF Kept
<1>11. CASE n = L + 2
    <2>1. w = all[2] /\ n - 1 >= L + 1 /\ n - 1 < L + 2 /\ rest # <<>>
        BY <1>3, <1>7, <1>11
    <2>2. w = Spi!SPISSR(TRUE)
        BY <1>4, <2>1, Zenon
    <2>3. /\ c2 \in CoreType /\ c2.run = c.run /\ c2.sel
          /\ c2.tx = c.tx /\ c2.rx = c.rx /\ c2.heard = c.heard
        BY <2>2, Selects, Zenon
    <2>4. Loading(c2, n - 1, out)
        BY <1>2, <1>3, <1>7, <1>11, <2>3 DEF Loading
    <2>6. c.tx = <<>> /\ c.rx = <<>>
        BY <1>3, <1>11, <1>15 DEF Loading
    <2>5. InOrder(c, c2)
        BY <2>3 DEF InOrder, CoreType
    <2> QED
        BY <1>9, <2>1, <2>3, <2>4, <2>5, <1>14, <2>6, Zenon DEF Kept
<1>12. CASE n \in 2 .. L + 1
    <2>1. PICK i \in 1 .. L : i = L + 2 - n
        BY <1>3, <1>12
    <2>2. w = Spi!SPIDTR(out[i]) /\ out[i] \in Cmd
        <3>1. L + 4 - n = i + 2
            BY <1>3, <2>1
        <3> QED
            BY <1>3, <1>5, <1>7, <3>1, Zenon
    <2>3. /\ c2 \in CoreType /\ c2.run = c.run /\ c2.sel = c.sel
          /\ c2.tx = Append(c.tx, out[i]) /\ c2.rx = c.rx /\ c2.heard = c.heard
        BY <2>2, Queues, Zenon
    <2>6. /\ ~c.run /\ c.sel /\ c.heard = <<>> /\ c.rx = <<>>
          /\ Len(tx) = L + 1 - n /\ (tx # <<>> => tx[1] = out[1])
        <3>1. /\ ~c.run /\ c.sel /\ c.heard = <<>> /\ c.rx = <<>>
              /\ Len(c.tx) = L + 1 - n /\ (c.tx # <<>> => c.tx[1] = out[1])
            BY <1>3, <1>12, <1>15 DEF Loading
        <3> QED
            BY <1>8, <3>1, Zenon
    <2>12. PICK byte \in Cmd : byte = out[i]
        BY <1>3
    <2>7. PICK more \in Seq(Cmd) : more = Append(tx, byte)
        BY AppendProperties
    <2>8. /\ Len(more) = L + 2 - n /\ more[1] = out[1]
          /\ rest # <<>>
        <3>1. Len(tx) \in Nat /\ Len(more) = Len(tx) + 1
            BY <2>7
        <3>2. n # 1
            BY <1>3, <1>12
        <3>3. Len(more) = L + 2 - n /\ rest # <<>>
            BY <1>3, <1>7, <2>6, <3>1, <3>2
        <3>4. CASE tx = <<>>
            <4>1. i = 1
                BY <1>3, <2>1, <2>6, <3>4
            <4>2. byte = out[1]
                BY <2>12, <4>1
            <4> QED
                BY <2>7, <3>3, <3>4, <4>2
        <3>5. CASE tx # <<>>
            <4>1. Len(tx) > 0
                BY <3>5, EmptySeq
            <4> QED
                BY <2>6, <2>7, <3>3, <3>5, <4>1
        <3> QED
            BY <3>4, <3>5
    <2>9. c2.tx = more
        BY <1>8, <2>3, <2>7, <2>12, Zenon
    <2>11. /\ ~(n - 1 >= L + 2) /\ ~(n - 1 = L + 2) /\ Len(more) = L + 1 - (n - 1)
        BY <1>3, <1>12, <2>8
    <2>4. Loading(c2, n - 1, out)
        BY <2>3, <2>6, <2>8, <2>9, <2>11, Zenon DEF Loading
    <2>10. Fits(more, <<>>)
        <3>3. L = 2 \/ L = 4
            BY <1>3
        <3> HIDE DEF L
        <3>1. L + 2 - n <= 4
            BY <1>12, <3>3
        <3>2. Len(more) <= 4
            BY <2>8, <3>1, Zenon
        <3> QED
            BY <3>2 DEF Fits
    <2>5. InOrder(c, c2)
        BY <1>2, <2>3 DEF InOrder, Loading
    <2> QED
        BY <1>9, <2>3, <2>4, <2>5, <2>6, <2>8, <2>9, <2>10, Zenon DEF Kept
<1>13. CASE n = 1
    <2>1. w = all[L + 3] /\ rest = <<>>
        BY <1>3, <1>7, <1>13
    <2>2. w = Spi!SPICR(TRUE, FALSE)
        BY <1>4, <2>1, Zenon
    <2>3. /\ c2 \in CoreType /\ c2.run /\ c2.sel = c.sel
          /\ c2.tx = c.tx /\ c2.rx = c.rx /\ c2.heard = c.heard
        BY <2>2, Goes, Zenon
    <2>6. /\ ~c.run /\ c.sel /\ c.heard = <<>> /\ c.rx = <<>>
          /\ Len(tx) = L /\ tx[1] = out[1] /\ tx # <<>>
        <3>1. /\ ~c.run /\ c.sel /\ c.heard = <<>> /\ c.rx = <<>>
              /\ Len(c.tx) = L + 1 - n /\ (c.tx # <<>> => c.tx[1] = out[1])
            BY <1>3, <1>13, <1>15 DEF Loading
        <3>2. Len(tx) = L + 1 - n /\ (tx # <<>> => tx[1] = out[1])
            BY <1>8, <3>1, Zenon
        <3>3. Len(tx) = L /\ tx # <<>>
            BY <1>3, <1>13, <3>2
        <3> QED
            BY <3>1, <3>2, <3>3
    <2>7. Len(c2.heard) + Len(c2.tx) = L
        <3>1. Len(<<>>) + Len(tx) = L
            BY <1>3, <2>6
        <3> QED
            BY <1>8, <2>3, <2>6, <3>1, Zenon
    <2>8. Answers(fl, <<>>, 0, out)
        BY DEF Answers
    <2>4. Exchanging(fl, c2, out)
        BY <1>8, <2>3, <2>6, <2>7, <2>8, Zenon DEF Exchanging
    <2>5. InOrder(c, c2)
        BY <1>8, <2>3, <2>6 DEF InOrder
    <2> QED
        BY <1>9, <2>1, <2>3, <2>4, <2>5, Zenon DEF Kept
<1> QED
    BY <1>3, <1>7, <1>10, <1>11, <1>12, <1>13

(* What the flash answers to the bytes it has heard.                       *)
LEMMA ReplyIsByte ==
    ASSUME NEW heard \in Seq(Cmd), heard # <<>>
    PROVE  Spi!Reply(heard) \in Bytes
<1>1. Len(heard) - 1 \in Nat
    BY EmptySeq
<1>2. \A n \in 1 .. Len(Id) : Id[n] \in Bytes
    <2>1. Id \in Seq(Bytes)
        BY Constants
    <2> QED
        BY <2>1, ElementOfSeq
<1> QED
    BY <1>1, <1>2, Constants DEF Spi!Reply

LEMMA ReplyIsExpected ==
    ASSUME NEW out \in Outs, out # <<>>, NEW heard \in Seq(Cmd), heard # <<>>,
           heard[1] = out[1], Len(heard) <= Len(out)
    PROVE  Spi!Reply(heard) = Expected(board.flash, out, Len(heard))
<1>1. PICK k \in Nat : k = Len(heard) /\ k > 0 /\ k <= Len(out)
    BY EmptySeq
<1>2. CASE ~board.flash
    BY <1>2 DEF Spi!Reply, Expected
<1>3. CASE board.flash /\ k = 1
    BY <1>1, <1>3 DEF Spi!Reply, Expected
<1>4. CASE board.flash /\ k > 1 /\ out = <<"RDID", "0", "0", "0">>
    <2>1. Len(heard) - 1 \in 1 .. Len(Id) /\ heard[1] = "RDID" /\ out[1] = "RDID"
        <3>1. out[1] = "RDID" /\ Len(out) = 4 /\ Len(Id) = 3
            BY <1>4, OutsAre, Constants
        <3> QED
            BY <1>1, <1>4, <3>1
    <2> QED
        BY <1>1, <1>4, <2>1 DEF Spi!Reply, Expected
<1>5. CASE board.flash /\ k > 1 /\ out = <<"RDSR", "0">>
    <2>1. Len(heard) - 1 > 0 /\ heard[1] = "RDSR" /\ out[1] = "RDSR"
        BY <1>1, <1>5
    <2> QED
        BY <1>1, <1>5, <2>1 DEF Spi!Reply, Expected
<1> QED
    BY <1>1, <1>2, <1>3, <1>4, <1>5, OutsAre

(* The controller exchanges a byte, whoever drives it.                     *)
Exchanged(c, c2) ==
    LET heard == IF c.sel THEN Append(c.heard, Head(c.tx)) ELSE <<>>
    IN  c2 = [c EXCEPT !.tx = Tail(@), !.heard = heard,
                       !.rx = Append(@, IF c.sel THEN Spi!Reply(heard) ELSE Ones)]

LEMMA ShiftKeepsTypes ==
    ASSUME NEW c \in CoreType, c.tx # <<>>, Fits(c.tx, c.rx), NEW c2, Exchanged(c, c2)
    PROVE  /\ c2 \in CoreType /\ Fits(c2.tx, c2.rx) /\ c2.tx = Tail(c.tx)
           /\ c2.run = c.run /\ c2.sel = c.sel
           /\ InOrder(c, c2)
<1>1. PICK tx \in Seq(Cmd), rx \in Seq(Bytes), old \in Seq(Cmd) :
         tx = c.tx /\ rx = c.rx /\ old = c.heard
    BY DEF CoreType
<1>2. PICK byte \in Cmd, rest \in Seq(Cmd) : byte = Head(tx) /\ rest = Tail(tx)
    <2>1. tx # <<>>
        BY <1>1
    <2> QED
        BY <2>1, HeadTailProperties
<1>3. Len(rest) = Len(tx) - 1 /\ Len(tx) \in Nat
    BY <1>1, <1>2, HeadTailProperties
<1>4. PICK heard \in Seq(Cmd) : heard = IF c.sel THEN Append(old, byte) ELSE <<>>
    <2>1. Append(old, byte) \in Seq(Cmd) /\ <<>> \in Seq(Cmd)
        BY AppendProperties
    <2> QED
        BY <2>1
<1>5. c.sel => heard # <<>>
    BY <1>4, AppendProperties, EmptySeq
<1>6. PICK answer \in Bytes : answer = IF c.sel THEN Spi!Reply(heard) ELSE Ones
    BY <1>5, ReplyIsByte, Constants
<1>7. PICK more \in Seq(Bytes) : more = Append(rx, answer)
    BY AppendProperties
<1>8. Len(more) = Len(rx) + 1
    BY <1>7, AppendProperties
<1>9. c2 = [c EXCEPT !.tx = rest, !.heard = heard, !.rx = more]
    BY <1>1, <1>2, <1>4, <1>6, <1>7, Zenon DEF Exchanged
<1>10. /\ c2 \in CoreType /\ c2.tx = rest /\ c2.rx = more
       /\ c2.run = c.run /\ c2.sel = c.sel
    BY <1>9 DEF CoreType
<1>11. Fits(rest, more)
    <2>1. Fits(tx, rx)
        BY <1>1
    <2> QED
        BY <1>3, <1>8, <2>1 DEF Fits
<1>12. ~(Len(rest) > Len(tx))
    BY <1>3
<1>13. InOrder(c, c2)
    BY <1>1, <1>10, <1>12 DEF InOrder
<1> QED
    BY <1>1, <1>2, <1>10, <1>11, <1>13

LEMMA OneMoved ==
    ASSUME NEW n, NEW a \in Nat, NEW b \in Nat, b > 0, a + b = n,
           NEW x, x = a + 1, NEW y, y = b - 1
    PROVE  x <= n /\ x + y = n
    OBVIOUS

LEMMA ExchangeGoesOn ==
    ASSUME NEW c \in CoreType, c.tx # <<>>, NEW out \in Outs, out # <<>>,
           Exchanging(board.flash, c, out), NEW c2, Exchanged(c, c2)
    PROVE  Exchanging(board.flash, c2, out)
<1>1. PICK tx \in Seq(Cmd), rx \in Seq(Bytes), old \in Seq(Cmd) :
         tx = c.tx /\ rx = c.rx /\ old = c.heard
    BY DEF CoreType
<1>2. /\ c.run /\ c.sel /\ Len(old) + Len(tx) = Len(out) /\ Len(rx) = Len(old)
      /\ (old = <<>> => tx[1] = out[1]) /\ (old # <<>> => old[1] = out[1])
      /\ Answers(board.flash, rx, 0, out) /\ tx # <<>>
    BY <1>1, Zenon DEF Exchanging
<1>3. PICK byte \in Cmd, rest \in Seq(Cmd) : byte = Head(tx) /\ rest = Tail(tx)
    BY <1>2, HeadTailProperties
<1>4. Len(rest) = Len(tx) - 1 /\ Len(tx) \in Nat /\ Len(old) \in Nat /\ byte = tx[1]
    BY <1>2, <1>3, HeadTailProperties
<1>5. PICK heard \in Seq(Cmd) : heard = Append(old, byte)
    BY AppendProperties
<1>6. /\ Len(heard) = Len(old) + 1 /\ heard # <<>>
      /\ heard[1] = out[1]
    <2>1. /\ Len(heard) = Len(old) + 1
          /\ \A i \in 1 .. Len(old) : heard[i] = old[i]
          /\ heard[Len(old) + 1] = byte
        BY <1>5, AppendProperties
    <2>2. CASE old = <<>>
        <3>1. Len(old) = 0
            BY <2>2
        <3>2. heard[1] = byte
            BY <2>1, <3>1
        <3>3. tx[1] = out[1]
            BY <1>2, <2>2, Zenon
        <3> QED
            BY <1>4, <2>1, <3>2, <3>3
    <2>3. CASE old # <<>>
        <3>1. 1 \in 1 .. Len(old)
            BY <1>4, <2>3, EmptySeq
        <3> QED
            BY <1>2, <2>1, <2>3, <3>1
    <2>4. heard # <<>>
        BY <1>4, <2>1, EmptySeq
    <2> QED
        BY <2>1, <2>2, <2>3, <2>4
<1>7. Len(heard) <= Len(out) /\ Len(heard) + Len(rest) = Len(out)
    <2>1. Len(old) + Len(tx) = Len(out)
        BY <1>2, Zenon
    <2>2. Len(heard) = Len(old) + 1 /\ Len(rest) = Len(tx) - 1
        BY <1>4, <1>6, Zenon
    <2>3. Len(tx) > 0 /\ Len(tx) \in Nat /\ Len(old) \in Nat
        BY <1>2, EmptySeq
    <2>4. PICK n, a, b : n = Len(out) /\ a = Len(old) /\ b = Len(tx)
        OBVIOUS
    <2>5. PICK x, y : x = Len(heard) /\ y = Len(rest)
        OBVIOUS
    <2>8. a \in Nat /\ b \in Nat
        BY <2>3, <2>4, Zenon
    <2>6. a + b = n /\ x = a + 1 /\ y = b - 1 /\ b > 0
        BY <2>1, <2>2, <2>3, <2>4, <2>5, Zenon
    <2>7. x <= n /\ x + y = n
        BY <2>6, <2>8, OneMoved
    <2> QED
        BY <2>4, <2>5, <2>7, Zenon
<1>8. PICK answer \in Bytes : answer = Spi!Reply(heard)
    BY <1>6, ReplyIsByte
<1>9. answer = Expected(board.flash, out, Len(heard))
    BY <1>6, <1>7, <1>8, ReplyIsExpected, Zenon
<1>10. PICK more \in Seq(Bytes) : more = Append(rx, answer)
    BY AppendProperties
<1>11. Len(more) = Len(heard) /\ Answers(board.flash, more, 0, out)
    <2>1. /\ Len(more) = Len(rx) + 1 /\ Len(rx) \in Nat
          /\ \A i \in 1 .. Len(rx) : more[i] = rx[i]
          /\ more[Len(rx) + 1] = answer
        BY <1>10, AppendProperties
    <2>2. ASSUME NEW i \in 1 .. Len(more) PROVE more[i] = Expected(board.flash, out, 0 + i)
        <3>1. CASE i = Len(rx) + 1
            BY <1>2, <1>6, <1>9, <2>1, <3>1
        <3>2. CASE i \in 1 .. Len(rx)
            BY <1>2, <2>1, <3>2 DEF Answers
        <3> QED
            BY <2>1, <3>1, <3>2
    <2> QED
        BY <1>2, <1>6, <2>1, <2>2 DEF Answers
<1>12. /\ c2.tx = rest /\ c2.heard = heard /\ c2.rx = more
       /\ c2.run = c.run /\ c2.sel = c.sel
    <2>1. c2 = [c EXCEPT !.tx = rest, !.heard = heard, !.rx = more]
        BY <1>1, <1>2, <1>3, <1>5, <1>8, <1>10, Zenon DEF Exchanged
    <2> QED
        BY <2>1 DEF CoreType
<1> QED
    BY <1>2, <1>6, <1>7, <1>11, <1>12, Zenon DEF Exchanging

LEMMA ShiftKeepsDriven ==
    ASSUME NEW c \in CoreType, NEW d \in SpiType, Driven(board.flash, c, d), c.run, c.tx # <<>>,
           NEW c2, Exchanged(c, c2)
    PROVE  Driven(board.flash, c2, d)
<1>1. PICK out \in Outs : out = d.out
    BY DEF SpiType
<1>2. CASE d.at = "sending"
    <2>1. d.todo = <<>> /\ out # <<>> /\ Exchanging(board.flash, c, out)
        BY <1>1, <1>2, Zenon DEF Driven, Loading
    <2>2. Exchanging(board.flash, c2, out)
        BY <2>1, ExchangeGoesOn, Zenon
    <2> QED
        BY <1>1, <1>2, <2>1, <2>2 DEF Driven
<1>3. CASE d.at = "late"
    <2>1. d.todo # <<>> /\ ~(Len(d.todo) < 2) /\ Rest(d.todo, Spi!Stop)
        BY <1>3, Zenon DEF Driven, Released
    <2> QED
        BY <1>3, <2>1 DEF Driven
<1>4. CASE d.at = "returned"
    <2>1. /\ d.out = <<>> /\ d.got = <<>> /\ Rest(d.todo, Spi!reset.todo)
          /\ ~(Len(d.todo) < 3)
        BY <1>4, Zenon DEF Driven, Released
    <2> QED
        BY <1>4, <2>1 DEF Driven
<1>5. CASE d.at = "idle"
    BY <1>5 DEF Driven
<1>6. d.at \notin {"draining", "reading", "raised"}
    BY Zenon DEF Driven, Draining, Released
<1> QED
    BY <1>2, <1>3, <1>4, <1>5, <1>6 DEF SpiType

-----------------------------------------------------------------------------
(***************************************************************************)
(* The same, of the state: a step of the driver keeps SpiInv.              *)
(***************************************************************************)
LEMMA DriverWrites ==
    ASSUME SpiInv, Spi!WriteReg, board' = board
    PROVE  SpiInv' /\ InOrder(core, core')
<1>1. PICK c \in CoreType, d \in SpiType : c = core /\ d = spi
    BY DEF SpiInv
<1>2. PICK todo \in Seq(SpiWrites) : todo = d.todo /\ todo # <<>>
    BY <1>1 DEF SpiType, Spi!WriteReg
<1>3. PICK w \in SpiWrites, rest \in Seq(SpiWrites) : w = Head(todo) /\ rest = Tail(todo)
    BY <1>2, HeadTailProperties
<1>4. PICK d2 \in SpiType : d2 = [d EXCEPT !.todo = rest]
    BY DEF SpiType
<1>5. spi' = d2 /\ link' = link
    BY <1>1, <1>2, <1>3, <1>4 DEF Spi!WriteReg
<1>6. Fits(c.tx, c.rx)
    BY <1>1 DEF SpiInv
<1>7. CASE link
    <2>1. PICK c2 : c2 = Spi!Written(c, w)
        OBVIOUS
    <2>2. core' = c2
        BY <1>1, <1>2, <1>3, <1>7, <2>1 DEF Spi!WriteReg
    <2>3. Driven(board.flash, c, d)
        BY <1>1, <1>7 DEF SpiInv
    <2>4. \/ d.at = "returned" \/ d.at \in {"late", "draining"} \/ d.at = "sending"
        BY <1>2, <2>3 DEF SpiType, Driven
    <2>5. Kept(board.flash, c, c2, d2)
        BY <1>2, <1>3, <1>4, <1>6, <2>1, <2>3, <2>4,
           WriteOfReset, WriteOfStop, WriteOfTransfer, Zenon
    <2> QED
        BY <1>1, <1>5, <2>2, <2>5, Zenon DEF Kept, SpiInv
<1>8. CASE ~link
    <2>1. core' = c
        BY <1>1, <1>8 DEF Spi!WriteReg
    <2>2. InOrder(c, c)
        BY DEF InOrder, CoreType
    <2> QED
        BY <1>1, <1>5, <1>6, <1>8, <2>1, <2>2 DEF SpiInv
<1> QED
    BY <1>7, <1>8

LEMMA DriverAwaits ==
    ASSUME SpiInv, Spi!AwaitSent, board' = board
    PROVE  SpiInv' /\ core' = core
<1>1. PICK c \in CoreType, d \in SpiType : c = core /\ d = spi
    BY DEF SpiInv
<1>2. PICK at \in {"draining", "late"} : at = IF Spi!TxEmpty THEN "draining" ELSE "late"
    OBVIOUS
<1>3. PICK d2 \in SpiType : d2 = [d EXCEPT !.at = at, !.todo = Spi!Stop]
    BY StopList DEF SpiType
<1>4. spi' = d2 /\ link' = link /\ core' = c
    BY <1>1, <1>2, <1>3 DEF Spi!AwaitSent
<1>5. Fits(c.tx, c.rx)
    BY <1>1 DEF SpiInv
<1>6. ASSUME link PROVE Driven(board.flash, c, d2)
    <2>1. PICK out \in Outs : out = d.out
        BY DEF SpiType
    <2>2. d.at = "sending" /\ d.todo = <<>>
        BY <1>1 DEF Spi!AwaitSent, Spi!At
    <2>3. out # <<>> /\ d.got = <<>> /\ Exchanging(board.flash, c, out)
        BY <1>1, <1>6, <2>1, <2>2, Zenon DEF SpiInv, Driven
    <2>4. d2.at = at /\ d2.todo = Spi!Stop /\ d2.out = out /\ d2.got = <<>>
        BY <1>3, <2>1, <2>3 DEF SpiType
    <2>5. /\ Rest(Spi!Stop, Spi!Stop) /\ ~(Len(Spi!Stop) < 2) /\ Spi!Stop # <<>>
        <3>1. PICK all : all = Spi!Stop
            OBVIOUS
        <3>2. Len(all) = 2
            BY <3>1, StopList, Zenon
        <3>3. Rest(all, all) /\ ~(Len(all) < 2) /\ all # <<>>
            BY <3>2, SMTT(30) DEF Rest
        <3> QED
            BY <3>1, <3>3, Zenon
    <2>6. at = "draining" => Draining(board.flash, c, <<>>, out)
        <3>1. SUFFICES ASSUME at = "draining" PROVE Draining(board.flash, c, <<>>, out)
            OBVIOUS
        <3>2. c.tx = <<>>
            BY <1>1, <1>2, <1>6, <3>1 DEF Spi!TxEmpty
        <3>3. /\ Len(c.heard) + Len(c.tx) = Len(out) /\ Len(c.rx) = Len(c.heard)
              /\ Answers(board.flash, c.rx, 0, out)
            BY <2>3 DEF Exchanging
        <3>4. PICK rx \in Seq(Bytes), heard \in Seq(Cmd) : rx = c.rx /\ heard = c.heard
            BY DEF CoreType
        <3>5. Len(heard) + Len(<<>>) = Len(out) /\ Len(rx) = Len(heard)
            BY <3>2, <3>3, <3>4, Zenon
        <3>6. Len(<<>>) + Len(rx) = Len(out) /\ Len(<<>>) = 0
            BY <3>5
        <3>7. Answers(board.flash, <<>>, 0, out)
            BY DEF Answers
        <3> QED
            BY <3>2, <3>3, <3>4, <3>6, <3>7, Zenon DEF Draining, Awaited
    <2> QED
        BY <2>3, <2>4, <2>5, <2>6 DEF Driven
<1> QED
    BY <1>1, <1>4, <1>5, <1>6 DEF SpiInv

LEMMA DriverRaises ==
    ASSUME SpiInv, Spi!Raise, board' = board
    PROVE  SpiInv' /\ core' = core
<1>1. PICK c \in CoreType, d \in SpiType : c = core /\ d = spi
    BY DEF SpiInv
<1>2. PICK d2 \in SpiType : d2 = [d EXCEPT !.at = "raised"]
    BY DEF SpiType
<1>3. spi' = d2 /\ link' = link /\ core' = c /\ d.at = "late" /\ d.todo = <<>>
    BY <1>1, <1>2 DEF Spi!Raise, Spi!At
<1>4. ASSUME link PROVE Driven(board.flash, c, d2)
    <2>1. Driven(board.flash, c, d)
        BY <1>1, <1>4 DEF SpiInv
    <2>2. Released(c)
        BY <1>3, <2>1 DEF Driven
    <2>3. d2.at = "raised" /\ d2.todo = <<>>
        BY <1>2, <1>3 DEF SpiType
    <2> QED
        BY <2>2, <2>3 DEF Driven
<1> QED
    BY <1>1, <1>3, <1>4 DEF SpiInv

LEMMA DriverDrains ==
    ASSUME SpiInv, Spi!Drain, board' = board
    PROVE  SpiInv' /\ core' = core
<1>1. PICK c \in CoreType, d \in SpiType : c = core /\ d = spi
    BY DEF SpiInv
<1>2. PICK at \in {"returned", "reading"} : at = IF Spi!RxEmpty THEN "returned" ELSE "reading"
    OBVIOUS
<1>3. PICK d2 \in SpiType : d2 = [d EXCEPT !.at = at]
    BY DEF SpiType
<1>4. spi' = d2 /\ link' = link /\ core' = c /\ d.at = "draining" /\ d.todo = <<>>
    BY <1>1, <1>2, <1>3 DEF Spi!Drain, Spi!At
<1>5. ASSUME link PROVE Driven(board.flash, c, d2)
    <2>1. Driven(board.flash, c, d)
        BY <1>1, <1>5 DEF SpiInv
    <2>2. PICK got \in Seq(Bytes), out \in Outs, rx \in Seq(Bytes) :
             got = d.got /\ out = d.out /\ rx = c.rx
        BY DEF SpiType, CoreType
    <2>3. Released(c) /\ out # <<>> /\ Draining(board.flash, c, got, out)
        BY <1>4, <2>1, <2>2, Zenon DEF Driven
    <2>4. d2.at = at /\ d2.todo = <<>> /\ d2.got = got /\ d2.out = out
        BY <1>3, <1>4, <2>2 DEF SpiType
    <2>5. CASE at = "returned"
        <3>1. rx = <<>>
            BY <1>1, <1>2, <1>5, <2>2, <2>5 DEF Spi!RxEmpty
        <3>2. Len(got) + Len(rx) = Len(out) /\ Answers(board.flash, got, 0, out)
            BY <2>2, <2>3, Zenon DEF Draining, Awaited
        <3>3. Len(got) = Len(out)
            BY <3>1, <3>2
        <3> QED
            BY <2>3, <2>4, <2>5, <3>2, <3>3, Zenon DEF Driven
    <2>6. CASE at = "reading"
        <3>1. rx # <<>>
            BY <1>1, <1>2, <1>5, <2>2, <2>6 DEF Spi!RxEmpty
        <3> QED
            BY <2>2, <2>3, <2>4, <2>6, <3>1, Zenon DEF Driven
    <2> QED
        BY <2>5, <2>6
<1> QED
    BY <1>1, <1>4, <1>5 DEF SpiInv

(* The next byte of an answer, taken from the receive FIFO.                *)
LEMMA AnswerTaken ==
    ASSUME NEW fl, NEW out, NEW got \in Seq(Bytes), NEW rx \in Seq(Bytes), rx # <<>>,
           Awaited(fl, got, rx, out)
    PROVE  /\ Append(got, Head(rx)) \in Seq(Bytes) /\ Tail(rx) \in Seq(Bytes)
           /\ Len(Tail(rx)) < Len(rx) /\ Len(Append(got, Head(rx))) <= Len(out)
           /\ Awaited(fl, Append(got, Head(rx)), Tail(rx), out)
<1> DEFINE more == Append(got, Head(rx))
           left == Tail(rx)
<1>1. /\ Len(rx) \in Nat /\ Len(rx) > 0 /\ Len(got) \in Nat
      /\ Head(rx) = rx[1] /\ Head(rx) \in Bytes
      /\ left \in Seq(Bytes) /\ Len(left) = Len(rx) - 1
      /\ \A i \in 1 .. Len(left) : left[i] = rx[i + 1]
    BY EmptySeq, HeadTailProperties
<1>2. /\ more \in Seq(Bytes) /\ Len(more) = Len(got) + 1
      /\ \A i \in 1 .. Len(got) : more[i] = got[i]
      /\ more[Len(got) + 1] = rx[1]
    BY <1>1, AppendProperties
<1>0. /\ Len(got) + Len(rx) = Len(out)
      /\ Answers(fl, got, 0, out) /\ Answers(fl, rx, Len(got), out)
    BY DEF Awaited
<1> HIDE DEF more, left
<1>3. ASSUME NEW i \in 1 .. Len(more) PROVE more[i] = Expected(fl, out, 0 + i)
    <2>1. CASE i \in 1 .. Len(got)
        BY <1>0, <1>2, <2>1 DEF Answers
    <2>2. CASE i = Len(got) + 1
        <3>1. rx[1] = Expected(fl, out, Len(got) + 1)
            BY <1>0, <1>1 DEF Answers
        <3> QED
            BY <1>1, <1>2, <2>2, <3>1
    <2> QED
        BY <1>1, <1>2, <2>1, <2>2
<1>4. ASSUME NEW i \in 1 .. Len(left) PROVE left[i] = Expected(fl, out, Len(more) + i)
    <2>1. i + 1 \in 1 .. Len(rx) /\ Len(more) + i = Len(got) + (i + 1)
        BY <1>1, <1>2
    <2>2. rx[i + 1] = Expected(fl, out, Len(got) + (i + 1))
        BY <1>0, <2>1 DEF Answers
    <2> QED
        BY <1>1, <2>1, <2>2
<1>5. /\ Len(more) + Len(left) = Len(out) /\ Len(left) < Len(rx)
      /\ Len(more) <= Len(out)
    <2>1. Len(got) + Len(rx) = Len(out)
        BY <1>0, Zenon
    <2>2. /\ Len(rx) \in Nat /\ Len(rx) > 0 /\ Len(got) \in Nat
          /\ Len(left) = Len(rx) - 1 /\ Len(more) = Len(got) + 1
        BY <1>1, <1>2, Zenon
    <2> QED
        BY <2>1, <2>2
<1>6. Awaited(fl, more, left, out)
    BY <1>3, <1>4, <1>5 DEF Awaited, Answers
<1> QED
    BY <1>1, <1>2, <1>5, <1>6 DEF more, left

LEMMA DriverReads ==
    ASSUME SpiInv, Spi!ReadByte, board' = board
    PROVE  SpiInv' /\ InOrder(core, core')
<1>1. PICK c \in CoreType, d \in SpiType : c = core /\ d = spi
    BY DEF SpiInv
<1>2. PICK got \in Seq(Bytes), out \in Outs, rx \in Seq(Bytes), tx \in Seq(Cmd) :
         got = d.got /\ out = d.out /\ rx = c.rx /\ tx = c.tx
    BY DEF SpiType, CoreType
<1>3. link' = link /\ d.at = "reading" /\ d.todo = <<>> /\ Fits(tx, rx)
    BY <1>1, <1>2 DEF Spi!ReadByte, Spi!At, SpiInv
<1>4. CASE link
    <2>1. /\ Released(c) /\ rx # <<>> /\ out # <<>>
          /\ Draining(board.flash, c, got, out)
        BY <1>1, <1>2, <1>3, <1>4, Zenon DEF SpiInv, Driven
    <2>2. tx = <<>> /\ Awaited(board.flash, got, rx, out)
        BY <1>2, <2>1, Zenon DEF Draining
    <2>3. PICK more, left : more = Append(got, Head(rx)) /\ left = Tail(rx)
        OBVIOUS
    <2>4. /\ more \in Seq(Bytes) /\ left \in Seq(Bytes)
          /\ Len(left) < Len(rx) /\ Len(more) <= Len(out)
          /\ Awaited(board.flash, more, left, out)
        BY <2>1, <2>2, <2>3, AnswerTaken, Zenon
    <2>5. ~(Len(more) > Len(out))
        <3>1. Len(out) \in Nat
            BY <2>1, OutsAre
        <3> QED
            BY <2>4, <3>1
    <2>6. PICK d2 \in SpiType : d2 = [d EXCEPT !.got = more, !.at = "draining"]
        BY <2>4 DEF SpiType
    <2>7. PICK c2 \in CoreType : c2 = [c EXCEPT !.rx = left]
        BY <2>4 DEF CoreType
    <2>8. spi' = d2 /\ core' = c2
        BY <1>1, <1>2, <1>4, <2>3, <2>5, <2>6, <2>7 DEF Spi!ReadByte
    <2>9. /\ c2.tx = tx /\ c2.rx = left
          /\ c2.run = c.run /\ c2.sel = c.sel /\ c2.heard = c.heard
        BY <1>2, <2>7 DEF CoreType
    <2>10. d2.at = "draining" /\ d2.todo = <<>> /\ d2.got = more /\ d2.out = out
        BY <1>2, <1>3, <2>6 DEF SpiType
    <2>11. Fits(tx, left)
        BY <1>3, <2>4 DEF Fits
    <2>12. Released(c2) /\ InOrder(c, c2)
        <3>1. ~(Len(tx) > Len(tx))
            OBVIOUS
        <3> QED
            BY <1>2, <2>1, <2>9, <3>1, Zenon DEF Released, InOrder
    <2>13. Draining(board.flash, c2, more, out)
        BY <2>2, <2>4, <2>9, Zenon DEF Draining
    <2>14. Rest(<<>>, Spi!Stop)
        <3>1. PICK all : all = Spi!Stop
            OBVIOUS
        <3>2. Len(all) = 2
            BY <3>1, StopList, Zenon
        <3>3. Rest(<<>>, all)
            BY <3>2 DEF Rest
        <3> QED
            BY <3>1, <3>3
    <2>15. Driven(board.flash, c2, d2)
        BY <2>1, <2>10, <2>12, <2>13, <2>14 DEF Driven, Released
    <2> QED
        BY <1>1, <2>8, <2>9, <2>11, <2>12, <2>15, Zenon DEF SpiInv
<1>5. CASE ~link
    <2>1. PICK more \in Seq(Bytes) : more = Append(got, Ones)
        BY Constants, AppendProperties
    <2>2. PICK at \in {"raised", "draining"} :
             at = IF Len(more) > Len(out) THEN "raised" ELSE "draining"
        OBVIOUS
    <2>3. PICK d2 \in SpiType : d2 = [d EXCEPT !.got = more, !.at = at]
        BY DEF SpiType
    <2>4. spi' = d2 /\ core' = c
        BY <1>1, <1>2, <1>5, <2>1, <2>2, <2>3 DEF Spi!ReadByte
    <2>5. InOrder(c, c)
        BY DEF InOrder, CoreType
    <2> QED
        BY <1>1, <1>2, <1>3, <1>5, <2>4, <2>5 DEF SpiInv
<1> QED
    BY <1>4, <1>5

LEMMA FlashShifts ==
    ASSUME SpiInv, Spi!Shift, board' = board
    PROVE  SpiInv' /\ InOrder(core, core')
<1>1. PICK c, d, c2 : c = core /\ d = spi /\ c2 = core' /\ c \in CoreType /\ d \in SpiType
    BY DEF SpiInv
<1>2. /\ c.run /\ c.tx # <<>> /\ Exchanged(c, c2)
      /\ link' = link /\ spi' = d
    BY <1>1, Zenon DEF Spi!Shift, Exchanged
<1>3. Fits(c.tx, c.rx)
    BY <1>1 DEF SpiInv
<1>4. c2 \in CoreType /\ Fits(c2.tx, c2.rx) /\ InOrder(c, c2)
    BY <1>1, <1>2, <1>3, ShiftKeepsTypes
<1>5. link => Driven(board.flash, c2, d)
    <2>1. SUFFICES ASSUME link PROVE Driven(board.flash, c2, d)
        OBVIOUS
    <2>2. Driven(board.flash, c, d)
        BY <1>1, <2>1 DEF SpiInv
    <2> QED
        BY <1>1, <1>2, <2>2, ShiftKeepsDriven, Zenon
<1> QED
    BY <1>1, <1>2, <1>4, <1>5 DEF SpiInv

LEMMA InOrderSame == ASSUME NEW c \in CoreType PROVE InOrder(c, c)
    BY DEF InOrder, CoreType

LEMMA FlashDrives ==
    ASSUME SpiInv, Spi!Drive, board' = board
    PROVE  SpiInv' /\ InOrder(core, core') /\ link' = link
<1>1. core \in CoreType /\ InOrder(core, core)
    BY InOrderSame DEF SpiInv
<1>2. link' = link
    BY DEF Spi!Drive, Spi!WriteReg, Spi!AwaitSent, Spi!Raise, Spi!Drain, Spi!ReadByte
<1> QED
    BY <1>1, <1>2, DriverWrites, DriverAwaits, DriverRaises, DriverDrains, DriverReads,
       Zenon DEF Spi!Drive

(* Between two calls the flash is released, and a call may start.          *)
LEMMA FlashRests ==
    ASSUME SpiInv, link, spi.at \in {"returned", "raised"}, spi.todo = <<>>
    PROVE  Released(core)
<1>1. Driven(board.flash, core, spi)
    BY DEF SpiInv
<1>2. Len(spi.todo) < 3
    <2>1. Len(<<>>) < 3
        OBVIOUS
    <2> QED
        BY <2>1, Zenon
<1> QED
    BY <1>1, <1>2 DEF Driven

LEMMA CallsAre ==
    /\ Spi!Unused \in SpiType /\ Spi!reset \in SpiType
    /\ \A out \in Outs \ {<<>>} : Spi!transfer(out) \in SpiType
    /\ Spi!Unused.at = "idle" /\ Spi!Unused.todo = <<>> /\ Spi!Unused.out = <<>>
    /\ Spi!reset.at = "returned" /\ Spi!reset.out = <<>> /\ Spi!reset.got = <<>>
    /\ \A out \in Outs \ {<<>>} : /\ Spi!transfer(out).at = "sending"
                                  /\ Spi!transfer(out).out = out
                                  /\ Spi!transfer(out).got = <<>>
<1>1. Spi!Unused \in SpiType /\ Spi!Unused.at = "idle" /\ Spi!Unused.todo = <<>>
      /\ Spi!Unused.out = <<>>
    BY DEF Spi!Unused, Spi!Driver, SpiType, Outs
<1>2. /\ Spi!reset \in SpiType
      /\ Spi!reset.at = "returned" /\ Spi!reset.out = <<>> /\ Spi!reset.got = <<>>
    <2>1. PICK todo \in Seq(SpiWrites) : todo = Spi!reset.todo
        BY ResetList, Zenon
    <2>2. Spi!reset = [at |-> "returned", todo |-> todo, out |-> <<>>, got |-> <<>>]
        BY <2>1 DEF Spi!reset, Spi!Driver
    <2> QED
        BY <2>2 DEF SpiType, Outs
<1>3. ASSUME NEW out \in Outs \ {<<>>}
      PROVE  /\ Spi!transfer(out) \in SpiType /\ Spi!transfer(out).at = "sending"
             /\ Spi!transfer(out).out = out /\ Spi!transfer(out).got = <<>>
    <2>1. PICK todo \in Seq(SpiWrites) : todo = Spi!transfer(out).todo
        BY TransferList, Zenon
    <2>2. Spi!transfer(out) = [at |-> "sending", todo |-> todo, out |-> out, got |-> <<>>]
        BY <2>1 DEF Spi!transfer, Spi!Driver
    <2> QED
        BY <2>2 DEF SpiType
<1> QED
    BY <1>1, <1>2, <1>3, Zenon

LEMMA FlashStarts ==
    ASSUME SpiInv, core' = core, board' = board,
           \/ spi' \in {Spi!Unused, Spi!reset}
           \/ spi' \in {Spi!jedec_id, Spi!status} /\ (link' => Released(core))
    PROVE  SpiInv'
<1>1. PICK c \in CoreType : c = core
    BY DEF SpiInv
<1>2. Fits(c.tx, c.rx)
    BY <1>1 DEF SpiInv
<1>3. CASE spi' = Spi!Unused
    <2>1. Driven(board.flash, c, Spi!Unused)
        BY CallsAre, Zenon DEF Driven
    <2> QED
        BY <1>1, <1>2, <1>3, <2>1, CallsAre, Zenon DEF SpiInv
<1>4. CASE spi' = Spi!reset
    <2>1. PICK d \in SpiType : d = Spi!reset
        BY CallsAre
    <2>2. /\ Len(d.todo) = 3 /\ d.at = "returned" /\ d.out = <<>> /\ d.got = <<>>
          /\ d.todo = Spi!reset.todo
        BY <2>1, CallsAre, ResetList, Zenon
    <2>3. Rest(d.todo, Spi!reset.todo)
        BY <2>2, RestWhole
    <2>4. ~(Len(d.todo) < 3)
        BY <2>2
    <2>5. Driven(board.flash, c, d)
        BY <2>2, <2>3, <2>4, Zenon DEF Driven
    <2> QED
        BY <1>1, <1>2, <1>4, <2>1, <2>5, Zenon DEF SpiInv
<1>5. CASE spi' \in {Spi!jedec_id, Spi!status} /\ (link' => Released(core))
    <2>1. PICK out \in Outs \ {<<>>} : spi' = Spi!transfer(out)
        <3>1. /\ <<"RDID", "0", "0", "0">> \in Outs \ {<<>>}
              /\ <<"RDSR", "0">> \in Outs \ {<<>>}
            BY DEF Outs
        <3> QED
            BY <1>5, <3>1, Zenon DEF Spi!jedec_id, Spi!status
    <2>2. PICK d \in SpiType, todo \in Seq(SpiWrites) :
             d = Spi!transfer(out) /\ todo = d.todo
        BY CallsAre DEF SpiType
    <2>3. /\ Len(todo) = Len(out) + 3 /\ d.at = "sending" /\ d.out = out /\ d.got = <<>>
          /\ todo = Spi!transfer(out).todo /\ d.todo = todo
        BY <2>2, CallsAre, TransferList, Zenon
    <2>4. Rest(todo, Spi!transfer(out).todo)
        <3>1. Len(todo) \in Nat
            OBVIOUS
        <3> QED
            BY <2>3, <3>1, RestWhole, Zenon
    <2>5. todo # <<>> /\ (Released(c) => Loading(c, Len(todo), out))
        <3>1. PICK n \in Nat, m \in Nat : n = Len(todo) /\ m = Len(out) /\ n = m + 3
            <4>1. Len(out) \in Nat /\ Len(todo) = Len(out) + 3
                BY <2>3, OutsAre, Zenon
            <4> QED
                BY <4>1
        <3>2. todo # <<>>
            <4>1. Len(todo) # 0
                BY <3>1
            <4> QED
                BY <4>1, EmptySeq
        <3>3. n >= m + 2 /\ ~(n <= m + 1) /\ ~(n = m + 2) /\ ~(n <= m + 2)
            BY <3>1
        <3> QED
            BY <3>1, <3>2, <3>3, Zenon DEF Loading, Released
    <2>6. Released(c) => Driven(board.flash, c, d)
        BY <2>3, <2>4, <2>5, Zenon DEF Driven
    <2> QED
        BY <1>1, <1>2, <1>5, <2>1, <2>2, <2>6, Zenon DEF SpiInv
<1> QED
    BY <1>3, <1>4, <1>5

LEMMA FlashInv ==
    ASSUME SpiInv, FlashPart, [Next]_vars
    PROVE  SpiInv' /\ InOrder(core, core')
<1>1. InOrder(core, core)
    BY InOrderSame DEF SpiInv
<1>2. ASSUME UNCHANGED <<core, spi, board>>, link' => link
      PROVE  SpiInv'
    BY <1>2 DEF SpiInv
<1>3. CASE UNCHANGED board /\ Spi!Drive
    BY <1>3, FlashDrives, Zenon
<1>4. CASE UNCHANGED board /\ Spi!Shift
    BY <1>4, FlashShifts
<1>5. CASE UNCHANGED board /\ Prompt
    <2>1. link' = link /\ core' = core /\ board' = board
        BY <1>5 DEF Prompt, card
    <2>2. link => Released(core)
        BY <1>5, FlashRests DEF Prompt, Spi!At, FlashPart
    <2> QED
        BY <1>1, <1>5, <2>1, <2>2, FlashStarts DEF Prompt
<1>6. CASE UNCHANGED board /\ Program
    <2>1. link' = link /\ core' = core /\ board' = board
        BY <1>6 DEF Program, card, check_identity, report_flash, report_jedec, report_status,
              check_sideband, read_present, report_cage, report_empty, report_page
    <2>2. CASE spi' = spi
        BY <1>1, <1>2, <2>1, <2>2
    <2>3. CASE spi' = Spi!reset
        BY <1>1, <2>1, <2>3, FlashStarts
    <2>4. CASE spi' \in {Spi!jedec_id, Spi!status} /\ Spi!Returned
        <3>1. link => Released(core)
            BY <2>4, FlashRests DEF Spi!Returned, Spi!At
        <3> QED
            BY <1>1, <2>1, <2>4, <3>1, FlashStarts
    <2>5. \/ spi' = spi \/ spi' = Spi!reset
          \/ spi' \in {Spi!jedec_id, Spi!status} /\ Spi!Returned
        BY <1>6, Zenon DEF Program, check_identity, report_flash, report_jedec, report_status,
              check_sideband, read_present, report_cage, report_empty, report_page,
              Fail, Printed
    <2> QED
        BY <2>2, <2>3, <2>4, <2>5
<1>7. CASE UNCHANGED board /\ (Kill \/ Rerun)
    BY <1>1, <1>7, FlashStarts DEF Kill, Rerun, card
<1>8. CASE UNCHANGED board /\ (I2c!Drive \/ I2c!Bus) /\ UNCHANGED <<core, spi>>
    <2>1. link' = link
        BY <1>8 DEF I2c!Drive, I2c!Bus, I2c!WriteReg, I2c!_wait_idle, I2c!PollRx,
              I2c!TakeByte, I2c!Addressed, I2c!Receive, I2c!ReleaseBus
    <2> QED
        BY <1>1, <1>2, <1>8, <2>1
<1>9. CASE UNCHANGED board /\ LoseLink
    BY <1>1, <1>2, <1>9 DEF LoseLink
<1>10. CASE UNCHANGED vars
    BY <1>1, <1>2, <1>10 DEF vars
<1> QED
    BY <1>3, <1>4, <1>5, <1>6, <1>7, <1>8, <1>9, <1>10 DEF Next, Host, Drive, Devices

-----------------------------------------------------------------------------
(***************************************************************************)
(* The program.                                                            *)
(***************************************************************************)
Where == /\ link \in BOOLEAN /\ board \in Boards /\ prog \in ProgType

(* A step of a driver or of a device, which leaves the program alone.      *)
Elsewhere == UNCHANGED <<link, board, prog>>

LEMMA DriverStep ==
    ASSUME SpiInv, Spi!Drive
    PROVE  /\ spi.at # "idle" \/ spi.todo # <<>>
           /\ spi.at \in {"returned", "raised"} => spi.todo # <<>>
           /\ spi'.out = spi.out
           /\ spi.at # "idle" => spi'.at # "idle"
           /\ spi.at = "returned" => spi'.at = "returned"
<1>1. PICK d \in SpiType : d = spi
    BY DEF SpiInv
<1>2. CASE Spi!WriteReg
    BY <1>1, <1>2 DEF SpiType, Spi!WriteReg
<1>3. CASE Spi!AwaitSent
    BY <1>1, <1>3 DEF SpiType, Spi!AwaitSent, Spi!At
<1>4. CASE Spi!Raise
    BY <1>1, <1>4 DEF SpiType, Spi!Raise, Spi!At
<1>5. CASE Spi!Drain
    BY <1>1, <1>5 DEF SpiType, Spi!Drain, Spi!At
<1>6. CASE Spi!ReadByte
    BY <1>1, <1>6 DEF SpiType, Spi!ReadByte, Spi!At
<1> QED
    BY <1>2, <1>3, <1>4, <1>5, <1>6 DEF Spi!Drive

LEMMA FlashPartDrives ==
    ASSUME SpiInv, FlashPart, Where, Spi!Drive, Elsewhere
    PROVE  FlashPart'
<1>1. spi.at # "idle"
    BY DriverStep, CallsAre, Zenon DEF FlashPart
<1>2. prog.pc \notin Shown \cup {"failed", "identity", "killed"}
    BY <1>1, DriverStep DEF FlashPart
<1>3. board.identity = "BM, startup over" \/ prog.pc = "prompt"
    BY <1>2 DEF FlashPart, Shown
<1> QED
    BY <1>1, <1>2, <1>3, DriverStep DEF FlashPart, Elsewhere

LEMMA FlashPartShifts ==
    ASSUME FlashPart, Where, Spi!Shift, Elsewhere
    PROVE  FlashPart'
<1>1. ~Released(core) /\ spi' = spi
    BY DEF Spi!Shift, Released
<1>2. prog' = prog /\ link' = link /\ board' = board
    BY DEF Elsewhere
<1> QED
    BY <1>1, <1>2, Zenon DEF FlashPart

(* What a call that has returned over a card that answers has got.         *)
LEMMA Heard ==
    ASSUME SpiInv, link, Spi!Returned
    PROVE  /\ spi.out = <<>> => spi.got = <<>>
           /\ spi.out = <<"RDID", "0", "0", "0">> =>
                spi.got = IF board.flash THEN <<Zeros, Id[1], Id[2], Id[3]>>
                                         ELSE <<Ones, Ones, Ones, Ones>>
           /\ spi.out = <<"RDSR", "0">> =>
                spi.got = IF board.flash THEN <<Zeros, Sr>> ELSE <<Ones, Ones>>
<1>1. PICK got \in Seq(Bytes), out \in Outs : got = spi.got /\ out = spi.out
    BY DEF SpiInv, SpiType
<1>2. Driven(board.flash, core, spi) /\ spi.at = "returned"
    BY DEF SpiInv, Spi!Returned, Spi!At
<1>3. /\ out = <<>> => got = <<>>
      /\ out # <<>> => Len(got) = Len(out) /\ Answers(board.flash, got, 0, out)
    BY <1>1, <1>2, Zenon DEF Driven
<1>4. ASSUME out = <<"RDID", "0", "0", "0">>
      PROVE  got = IF board.flash THEN <<Zeros, Id[1], Id[2], Id[3]>>
                                  ELSE <<Ones, Ones, Ones, Ones>>
    <2>1. Len(out) = 4 /\ out[1] = "RDID" /\ out # <<>>
        BY <1>4
    <2>2. /\ Len(got) = 4
          /\ \A i \in 1 .. 4 : got[i] = Expected(board.flash, out, 0 + i)
        BY <1>3, <2>1 DEF Answers
    <2>3. \A i \in 1 .. 4 : got[i] = IF ~board.flash THEN Ones
                                     ELSE IF i = 1 THEN Zeros ELSE Id[i - 1]
        BY <2>1, <2>2 DEF Expected
    <2>4. CASE board.flash
        <3>1. got[1] = Zeros /\ got[2] = Id[1] /\ got[3] = Id[2] /\ got[4] = Id[3]
            BY <2>3, <2>4
        <3> QED
            BY <2>2, <2>4, <3>1
    <2>5. CASE ~board.flash
        BY <2>2, <2>3, <2>5
    <2> QED
        BY <2>4, <2>5
<1>5. ASSUME out = <<"RDSR", "0">>
      PROVE  got = IF board.flash THEN <<Zeros, Sr>> ELSE <<Ones, Ones>>
    <2>1. Len(out) = 2 /\ out[1] = "RDSR" /\ out # <<>>
        BY <1>5
    <2>2. /\ Len(got) = 2
          /\ \A i \in 1 .. 2 : got[i] = Expected(board.flash, out, 0 + i)
        BY <1>3, <2>1 DEF Answers
    <2>3. \A i \in 1 .. 2 : got[i] = IF ~board.flash THEN Ones
                                     ELSE IF i = 1 THEN Zeros ELSE Sr
        BY <2>1, <2>2 DEF Expected
    <2>4. CASE board.flash
        BY <2>2, <2>3, <2>4
    <2>5. CASE ~board.flash
        BY <2>2, <2>3, <2>5
    <2> QED
        BY <2>4, <2>5
<1> QED
    BY <1>1, <1>3, <1>4, <1>5, Zenon

LEMMA IdIs == Id = <<Id[1], Id[2], Id[3]>> /\ <<Zeros>> \o Id = <<Zeros, Id[1], Id[2], Id[3]>>
<1>1. Id \in Seq(Bytes) /\ Len(Id) = 3
    BY Constants
<1>2. PICK a, b, c : a = Id[1] /\ b = Id[2] /\ c = Id[3]
    OBVIOUS
<1>3. Id = <<a, b, c>>
    BY <1>1, <1>2
<1>4. <<Zeros>> \o <<a, b, c>> = <<Zeros, a, b, c>>
    <2> DEFINE S == {Zeros, a, b, c}
    <2>1. /\ <<Zeros>> \in Seq(S) /\ <<a, b, c>> \in Seq(S)
          /\ Len(<<Zeros>>) = 1 /\ Len(<<a, b, c>>) = 3
        OBVIOUS
    <2> DEFINE t == <<Zeros>> \o <<a, b, c>>
    <2> HIDE DEF S
    <2>2. /\ t \in Seq(S) /\ Len(t) = 1 + 3
          /\ \A i \in 1 .. 1 + 3 :
                t[i] = IF i <= 1 THEN <<Zeros>>[i] ELSE <<a, b, c>>[i - 1]
        BY <2>1, ConcatProperties
    <2> HIDE DEF t
    <2>3. Len(t) = 4 /\ t[1] = Zeros /\ t[2] = a /\ t[3] = b /\ t[4] = c
        BY <2>2
    <2>4. t = <<Zeros, a, b, c>>
        BY <2>2, <2>3
    <2> QED
        BY <2>4 DEF t
<1> QED
    BY <1>2, <1>3, <1>4, Zenon

LEMMA ExactTransfers == SpiInv => TransferExact
<1>1. SUFFICES ASSUME SpiInv, link, board.flash, Spi!Returned PROVE spi.got = Answer
    BY DEF TransferExact
<1>2. PICK out \in Outs : out = spi.out
    BY <1>1 DEF SpiInv, SpiType
<1>3. CASE out = <<>>
    <2>1. out # <<"RDID", "0", "0", "0">> /\ out # <<"RDSR", "0">>
        BY <1>3
    <2>2. Answer = <<>>
        BY <1>2, <2>1 DEF Answer
    <2> QED
        BY <1>1, <1>2, <1>3, <2>2, Heard, Zenon
<1>4. CASE out = <<"RDID", "0", "0", "0">>
    <2>1. Answer = <<Zeros>> \o Id
        BY <1>2, <1>4 DEF Answer
    <2>2. spi.got = <<Zeros, Id[1], Id[2], Id[3]>>
        BY <1>1, <1>2, <1>4, Heard, Zenon
    <2> QED
        BY <2>1, <2>2, IdIs, Zenon
<1>5. CASE out = <<"RDSR", "0">>
    <2>1. out # <<"RDID", "0", "0", "0">>
        BY <1>5
    <2>2. Answer = <<Zeros, Sr>>
        BY <1>2, <1>5, <2>1 DEF Answer
    <2> QED
        BY <1>1, <1>2, <1>5, <2>2, Heard, Zenon
<1> QED
    BY <1>2, <1>3, <1>4, <1>5 DEF Outs

LEMMA Goes_to ==
    ASSUME Where, NEW pc \in Pcs, Goto(pc)
    PROVE  /\ prog' \in ProgType /\ prog'.pc = pc /\ prog'.report = prog.report
           /\ prog'.present = prog.present /\ prog'.runs = prog.runs
    BY DEF Where, ProgType, Goto

(* What the rest of the invariant needs of a step of the program, of the   *)
(* flash.                                                                  *)
FlashStep == FlashPart' /\ FlashSaid' /\ Where'

LEMMA IdentityStep ==
    ASSUME SpiInv, FlashPart, Where, check_identity, UNCHANGED board
    PROVE  FlashStep
<1>1. link' = link /\ core' = core /\ board' = board /\ prog.pc = "identity" /\ spi.at = "idle"
    BY DEF check_identity, card, FlashPart
<1>2. CASE link /\ board.identity = "BM, startup over"
    <2>1. Goto("flash") /\ spi' = Spi!reset
        BY <1>2 DEF check_identity
    <2>2. prog' \in ProgType /\ prog'.pc = "flash"
        BY <2>1, Goes_to DEF Pcs
    <2>3. spi'.at = "returned" /\ spi'.out = <<>>
        BY <2>1, CallsAre, Zenon
    <2> QED
        BY <1>1, <1>2, <2>2, <2>3 DEF FlashStep, FlashPart, FlashSaid, Where, Shown
<1>3. CASE ~(link /\ board.identity = "BM, startup over")
    <2>1. Goto("failed") /\ spi' = spi
        BY <1>3 DEF check_identity, Fail
    <2>2. prog' \in ProgType /\ prog'.pc = "failed"
        BY <2>1, Goes_to DEF Pcs
    <2>3. spi.todo = <<>>
        BY <1>1, CallsAre, Zenon DEF FlashPart
    <2>4. link => Released(core)
        BY <1>1, <1>3 DEF FlashPart
    <2> QED
        BY <1>1, <2>1, <2>2, <2>3, <2>4 DEF FlashStep, FlashPart, FlashSaid, Where, Shown
<1> QED
    BY <1>2, <1>3

LEMMA ResetStep ==
    ASSUME SpiInv, FlashPart, Where, report_flash, UNCHANGED board
    PROVE  FlashStep
<1>1. /\ link' = link /\ core' = core /\ board' = board /\ prog.pc = "flash"
      /\ Goto("jedec") /\ spi' = Spi!jedec_id
    BY DEF report_flash, card
<1>2. prog' \in ProgType /\ prog'.pc = "jedec"
    BY <1>1, Goes_to DEF Pcs
<1>3. spi'.at = "sending" /\ spi'.out = <<"RDID", "0", "0", "0">>
    <2>1. <<"RDID", "0", "0", "0">> \in Outs \ {<<>>}
        BY DEF Outs
    <2> QED
        BY <1>1, <2>1, CallsAre, Zenon DEF Spi!jedec_id
<1> QED
    BY <1>1, <1>2, <1>3 DEF FlashStep, FlashPart, FlashSaid, Where, Shown

(* A run that gives up on a call leaves the flash released.                *)
LEMMA FailStep ==
    ASSUME SpiInv, FlashPart, Where, Fail, UNCHANGED <<link, core, board>>,
           spi.at \in {"returned", "raised"}, spi.todo = <<>>,
           prog.pc \notin {"identity", "failed", "killed", "prompt"}
    PROVE  FlashStep
<1>1. prog' \in ProgType /\ prog'.pc = "failed" /\ spi' = spi
    BY Goes_to DEF Fail, Pcs
<1>2. link => Released(core)
    BY FlashRests
<1>3. board.identity = "BM, startup over"
    BY DEF FlashPart
<1> QED
    BY <1>1, <1>2, <1>3 DEF FlashStep, FlashPart, FlashSaid, Where, Shown

LEMMA JedecStep ==
    ASSUME SpiInv, FlashPart, Where, report_jedec, UNCHANGED board
    PROVE  FlashStep
<1>1. /\ link' = link /\ core' = core /\ board' = board /\ prog.pc = "jedec"
      /\ spi.at \in {"returned", "raised"} /\ spi.todo = <<>>
      /\ board.identity = "BM, startup over" /\ spi.out = <<"RDID", "0", "0", "0">>
    BY DEF report_jedec, card, Spi!Failed, Spi!Returned, Spi!At, FlashPart
<1>2. CASE Fail
    BY <1>1, <1>2, FailStep
<1>3. CASE ~Fail
    <2>1. PICK raw : raw = Tail(spi.got)
        OBVIOUS
    <2>2. /\ Spi!Returned /\ Len(spi.got) = 4 /\ ~Idle(raw)
          /\ prog' = [prog EXCEPT !.pc = "status", !.report.flash = raw]
          /\ spi' = Spi!status
        BY <1>3, <2>1, Zenon DEF report_jedec
    <2>3. raw \in Seq(Bytes)
        <3>1. PICK got \in Seq(Bytes) : got = spi.got
            BY DEF SpiInv, SpiType
        <3>2. Len(got) = 4
            BY <2>2, <3>1, Zenon
        <3>3. got # <<>>
            BY <3>2
        <3> QED
            BY <2>1, <3>1, <3>3, HeadTailProperties
    <2>4. /\ prog' \in ProgType /\ prog'.pc = "status" /\ prog'.report.flash = raw
        BY <2>2, <2>3 DEF Where, ProgType, Pcs
    <2>5. spi'.at = "sending" /\ spi'.out = <<"RDSR", "0">>
        <3>1. <<"RDSR", "0">> \in Outs \ {<<>>}
            BY DEF Outs
        <3> QED
            BY <2>2, <3>1, CallsAre, Zenon DEF Spi!status
    <2>6. link => board.flash /\ raw = Id
        <3>1. SUFFICES ASSUME link PROVE board.flash /\ raw = Id
            OBVIOUS
        <3>2. CASE board.flash
            <4>1. spi.got = <<Zeros, Id[1], Id[2], Id[3]>>
                BY <1>1, <2>2, <3>1, <3>2, Heard
            <4>2. raw = <<Id[1], Id[2], Id[3]>>
                BY <2>1, <4>1
            <4> QED
                BY <3>2, <4>2, IdIs, Zenon
        <3>3. CASE ~board.flash
            <4>1. spi.got = <<Ones, Ones, Ones, Ones>>
                BY <1>1, <2>2, <3>1, <3>3, Heard
            <4>2. raw = <<Ones, Ones, Ones>>
                BY <2>1, <4>1
            <4>3. Idle(raw)
                BY <4>2 DEF Idle
            <4> QED
                BY <2>2, <4>3
        <3> QED
            BY <3>2, <3>3
    <2> QED
        BY <1>1, <2>4, <2>5, <2>6 DEF FlashStep, FlashPart, FlashSaid, Where, Shown
<1> QED
    BY <1>2, <1>3

LEMMA OneByte == ASSUME NEW b \in Bytes PROVE <<b>> \in Seq(Bytes)
    OBVIOUS

LEMMA StatusStep ==
    ASSUME SpiInv, FlashPart, FlashSaid, Where, report_status, UNCHANGED board
    PROVE  FlashStep
<1>1. /\ link' = link /\ core' = core /\ board' = board /\ prog.pc = "status"
      /\ spi.at \in {"returned", "raised"} /\ spi.todo = <<>>
      /\ board.identity = "BM, startup over" /\ spi.out = <<"RDSR", "0">>
    BY DEF report_status, card, Spi!Failed, Spi!Returned, Spi!At, FlashPart
<1>2. CASE Fail
    BY <1>1, <1>2, FailStep
<1>3. CASE ~Fail
    <2>1. PICK got, sr : got \in Seq(Bytes) /\ got = spi.got /\ sr = got[2]
        BY DEF SpiInv, SpiType
    <2>2. /\ Spi!Returned /\ Len(got) >= 2 /\ spi' = spi
          /\ prog' = [prog EXCEPT !.pc = "sideband", !.report.status = <<sr>>]
        BY <1>3, <2>1, Zenon DEF report_status
    <2>3. sr \in Bytes
        BY <2>1, <2>2
    <2>4. /\ prog' \in ProgType /\ prog'.pc = "sideband"
          /\ prog'.report.flash = prog.report.flash /\ prog'.report.status = <<sr>>
        <3>1. PICK said \in Seq(Bytes) : said = <<sr>>
            BY <2>3, OneByte, Zenon
        <3>2. prog' = [prog EXCEPT !.pc = "sideband", !.report.status = said]
            BY <2>2, <3>1
        <3>3. /\ prog' \in ProgType /\ prog'.pc = "sideband"
              /\ prog'.report.flash = prog.report.flash /\ prog'.report.status = said
            BY <3>2 DEF Where, ProgType, Pcs
        <3> QED
            BY <3>1, <3>3
    <2>5. link => board.flash /\ prog.report.flash = Id /\ sr = Sr
        <3>1. SUFFICES ASSUME link PROVE board.flash /\ prog.report.flash = Id /\ sr = Sr
            OBVIOUS
        <3>2. board.flash /\ prog.report.flash = Id
            BY <1>1, <3>1 DEF FlashSaid
        <3>3. got = <<Zeros, Sr>>
            BY <1>1, <2>1, <2>2, <3>1, <3>2, Heard
        <3>4. sr = Sr
            BY <2>1, <3>3
        <3> QED
            BY <3>2, <3>4
    <2>6. spi.at = "returned"
        BY <2>2 DEF Spi!Returned, Spi!At
    <2>7. link => Released(core)
        BY <1>1, FlashRests
    <2> QED
        BY <1>1, <2>2, <2>4, <2>5, <2>6, <2>7 DEF FlashStep, FlashPart, FlashSaid, Where, Shown
<1> QED
    BY <1>2, <1>3

LEMMA SidebandStep ==
    ASSUME SpiInv, FlashPart, FlashSaid, Where, check_sideband, UNCHANGED board
    PROVE  FlashStep
<1>1. /\ link' = link /\ core' = core /\ board' = board /\ prog.pc = "sideband"
      /\ spi.at = "returned" /\ spi.todo = <<>>
      /\ board.identity = "BM, startup over"
    BY DEF check_sideband, card, FlashPart, Shown
<1>2. CASE link /\ board.control = "good"
    <2>1. Goto("present") /\ spi' = spi
        BY <1>2 DEF check_sideband
    <2>2. prog' \in ProgType /\ prog'.pc = "present" /\ prog'.report = prog.report
        BY <2>1, Goes_to DEF Pcs
    <2> QED
        BY <1>1, <1>2, <2>1, <2>2 DEF FlashStep, FlashPart, FlashSaid, Where, Shown
<1>3. CASE ~(link /\ board.control = "good")
    BY <1>1, <1>3, FailStep DEF check_sideband
<1> QED
    BY <1>2, <1>3

(* The flash has been reported: what follows leaves it alone.              *)
LEMMA PresentMoves ==
    ASSUME Where, read_present, UNCHANGED board
    PROVE  /\ prog' \in ProgType /\ prog'.pc = "cage" /\ prog'.report = prog.report
           /\ prog'.present = IF link THEN board.modprs ELSE {}
<1>1. PICK there \in SUBSET Cage : there = IF link THEN board.modprs ELSE {}
    BY Constants DEF Where
<1>2. prog' = [prog EXCEPT !.pc = "cage", !.present = there]
    BY <1>1 DEF read_present
<1> QED
    BY <1>1, <1>2 DEF Where, ProgType, Pcs

LEMMA PrintMoves ==
    ASSUME Where, NEW found \in Found, Printed(found)
    PROVE  /\ prog' \in ProgType /\ prog'.present = prog.present
           /\ prog'.report.flash = prog.report.flash
           /\ prog'.report.status = prog.report.status
           /\ prog'.report.cages = Append(prog.report.cages, found)
           /\ prog'.pc = IF Len(Append(prog.report.cages, found)) < Len(Cages)
                         THEN "cage" ELSE "passed"
<1>1. PICK cages \in Seq(Found) : cages = Append(prog.report.cages, found)
    BY AppendProperties DEF Where, ProgType
<1>2. PICK pc \in Pcs : pc = IF Len(cages) < Len(Cages) THEN "cage" ELSE "passed"
    BY DEF Pcs
<1>3. prog' = [prog EXCEPT !.report.cages = cages, !.pc = pc]
    BY <1>1, <1>2 DEF Printed
<1>4. /\ prog' \in ProgType /\ prog'.present = prog.present
      /\ prog'.report.flash = prog.report.flash
      /\ prog'.report.status = prog.report.status
      /\ prog'.report.cages = cages /\ prog'.pc = pc
    BY <1>3 DEF Where, ProgType
<1> QED
    BY <1>1, <1>2, <1>4, Zenon

CageActions == read_present \/ report_cage \/ report_empty \/ report_page

LEMMA CagesLeaveFlash ==
    ASSUME Where, IicInv, CageActions, UNCHANGED board
    PROVE  /\ prog' \in ProgType /\ prog'.report.flash = prog.report.flash
           /\ prog'.report.status = prog.report.status
           /\ prog.pc \in {"present", "cage", "page", "probe"}
           /\ prog'.pc \in {"cage", "page", "probe", "passed", "failed"}
           /\ spi' = spi /\ UNCHANGED card
<1>1. CASE read_present
    <2>1. prog.pc = "present" /\ spi' = spi /\ UNCHANGED card
        BY <1>1 DEF read_present
    <2> QED
        BY <1>1, <2>1, PresentMoves
<1>2. ASSUME Goto("page") \/ Goto("probe") \/ Goto("failed")
      PROVE  /\ prog' \in ProgType /\ prog'.report = prog.report
             /\ prog'.pc \in {"page", "probe", "failed"}
    BY <1>2, Goes_to DEF Pcs
<1>3. CASE report_cage
    <2>1. /\ prog.pc = "cage" /\ spi' = spi /\ UNCHANGED card
          /\ Goto("page") \/ Goto("probe")
        BY <1>3 DEF report_cage
    <2> QED
        BY <1>2, <2>1
<1>4. ASSUME NEW found \in Found, Printed(found)
      PROVE  /\ prog' \in ProgType /\ prog'.report.flash = prog.report.flash
             /\ prog'.report.status = prog.report.status
             /\ prog'.pc \in {"cage", "passed"} /\ spi' = spi
    <2>1. spi' = spi
        BY <1>4 DEF Printed
    <2> QED
        BY <1>4, <2>1, PrintMoves
<1>5. CASE report_empty
    <2>1. /\ prog.pc = "probe" /\ UNCHANGED card /\ (Fail \/ Printed("empty"))
        BY <1>5 DEF report_empty
    <2>2. "empty" \in Found
        BY DEF Found
    <2> QED
        BY <1>2, <1>4, <2>1, <2>2 DEF Fail
<1>6. CASE report_page
    <2>1. PICK out \in Seq(Bytes) : out = iic.out
        BY DEF IicInv, IicType
    <2>2. /\ prog.pc = "page" /\ UNCHANGED card /\ (Fail \/ Printed(out))
        BY <1>6, <2>1, Zenon DEF report_page
    <2>3. out \in Found
        BY <2>1 DEF Found
    <2> QED
        BY <1>2, <1>4, <2>2, <2>3 DEF Fail
<1> QED
    BY <1>1, <1>3, <1>5, <1>6 DEF CageActions

LEMMA CagesStep ==
    ASSUME FlashPart, FlashSaid, Where, IicInv, CageActions, UNCHANGED board
    PROVE  FlashStep
<1>1. /\ prog' \in ProgType /\ prog'.report.flash = prog.report.flash
      /\ prog'.report.status = prog.report.status
      /\ prog.pc \in {"present", "cage", "page", "probe"}
      /\ prog'.pc \in {"cage", "page", "probe", "passed", "failed"}
      /\ spi' = spi /\ core' = core /\ link' = link /\ board' = board
    BY CagesLeaveFlash DEF card
<1>2. /\ spi.at = "returned" /\ spi.todo = <<>> /\ (link => Released(core))
      /\ board.identity = "BM, startup over"
      /\ board.flash /\ prog.report.flash = Id /\ prog.report.status = <<Sr>>
    BY <1>1 DEF FlashPart, FlashSaid, Shown
<1> QED
    BY <1>1, <1>2 DEF FlashStep, FlashPart, FlashSaid, Where, Shown

LEMMA OneMoreRun ==
    ASSUME Where, prog.runs < MaxRuns
    PROVE  prog.runs + 1 \in 0 .. MaxRuns
<1>1. PICK n \in 0 .. MaxRuns : n = prog.runs
    BY DEF Where, ProgType
<1>2. MaxRuns \in Nat /\ n < MaxRuns
    BY <1>1, Constants
<1>3. n + 1 \in 0 .. MaxRuns
    BY <1>2
<1> QED
    BY <1>1, <1>3

LEMMA PromptStep ==
    ASSUME SpiInv, FlashPart, FlashSaid, Where, Prompt, UNCHANGED board
    PROVE  FlashStep
<1>1. /\ link' = link /\ core' = core /\ board' = board /\ prog.pc = "prompt"
      /\ prog.runs < MaxRuns /\ prog' = [prog EXCEPT !.runs = @ + 1]
      /\ spi' \in {Spi!reset, Spi!jedec_id, Spi!status}
    BY DEF Prompt, card
<1>2. prog' \in ProgType /\ prog'.pc = "prompt"
    <2>1. PICK n \in 0 .. MaxRuns : n = prog.runs + 1
        BY <1>1, OneMoreRun
    <2>2. prog' = [prog EXCEPT !.runs = n]
        BY <1>1, <2>1
    <2> QED
        BY <1>1, <2>2 DEF Where, ProgType
<1>3. spi'.at # "idle"
    <2>1. /\ <<"RDID", "0", "0", "0">> \in Outs \ {<<>>} /\ <<"RDSR", "0">> \in Outs \ {<<>>}
        BY DEF Outs
    <2>2. \/ spi'.at = "returned" \/ spi'.at = "sending"
        BY <1>1, <2>1, CallsAre, Zenon DEF Spi!jedec_id, Spi!status
    <2> QED
        BY <2>2
<1> QED
    BY <1>1, <1>2, <1>3 DEF FlashStep, FlashPart, FlashSaid, Where, Shown

LEMMA KillStep ==
    ASSUME SpiInv, FlashPart, FlashSaid, Where, Kill, UNCHANGED board
    PROVE  FlashStep
<1>1. /\ link' = link /\ core' = core /\ board' = board /\ prog.pc # "prompt"
      /\ Goto("killed") /\ spi' = Spi!Unused
    BY DEF Kill, card
<1>2. prog' \in ProgType /\ prog'.pc = "killed"
    BY <1>1, Goes_to DEF Pcs
<1>3. spi'.at = "idle"
    BY <1>1, CallsAre, Zenon
<1> QED
    BY <1>1, <1>2, <1>3 DEF FlashStep, FlashPart, FlashSaid, Where, Shown

LEMMA RerunStep ==
    ASSUME SpiInv, FlashPart, FlashSaid, Where, Rerun, UNCHANGED board
    PROVE  FlashStep
<1>1. /\ link' = TRUE /\ core' = core /\ board' = board /\ prog.pc # "prompt"
      /\ prog' = [Start EXCEPT !.runs = prog.runs + 1] /\ spi' = Spi!Unused
      /\ prog.runs < MaxRuns
    BY DEF Rerun, Ended
<1>2. prog' \in ProgType /\ prog'.pc = "identity"
    <2>1. PICK n \in 0 .. MaxRuns : n = prog.runs + 1
        BY <1>1, OneMoreRun
    <2>2. prog' = [Start EXCEPT !.runs = n]
        BY <1>1, <2>1
    <2>3. prog' = [pc |-> "identity", runs |-> n, present |-> {}, report |-> NoReport]
        BY <2>2 DEF Start
    <2>4. NoReport \in [flash : Seq(Bytes), status : Seq(Bytes), cages : Seq(Found)]
        BY DEF NoReport
    <2> QED
        BY <2>3, <2>4 DEF ProgType, Pcs
<1>3. spi'.at = "idle"
    BY <1>1, CallsAre, Zenon
<1> QED
    BY <1>1, <1>2, <1>3 DEF FlashStep, FlashPart, FlashSaid, Where, Shown

LEMMA BoardWaits ==
    ASSUME FlashPart, FlashSaid, Where, UNCHANGED <<core, spi, board, prog>>,
           link' \in BOOLEAN, link' => link
    PROVE  FlashStep
<1>1. FlashPart'
    BY DEF FlashPart
<1>2. FlashSaid' /\ Where'
    BY DEF FlashSaid, Where
<1> QED
    BY <1>1, <1>2 DEF FlashStep

LEMMA FlashProgInv ==
    ASSUME SpiInv, IicInv, FlashPart, FlashSaid, Where, [Next]_vars
    PROVE  FlashStep
<1>0. link \in BOOLEAN
    BY DEF Where
<1>1. CASE UNCHANGED board /\ Spi!Drive /\ UNCHANGED <<ctl, iic, prog>>
    <2>1. Elsewhere
        BY <1>1, FlashDrives DEF Elsewhere
    <2>2. FlashPart'
        BY <1>1, <2>1, FlashPartDrives
    <2>3. FlashSaid' /\ Where'
        BY <2>1 DEF Elsewhere, FlashSaid, Where
    <2> QED
        BY <2>2, <2>3 DEF FlashStep
<1>2. CASE UNCHANGED board /\ Spi!Shift /\ UNCHANGED <<ctl, iic, prog>>
    <2>1. Elsewhere
        BY <1>2 DEF Elsewhere, Spi!Shift
    <2>2. FlashPart'
        BY <1>2, <2>1, FlashPartShifts
    <2>3. FlashSaid' /\ Where'
        BY <2>1 DEF Elsewhere, FlashSaid, Where
    <2> QED
        BY <2>2, <2>3 DEF FlashStep
<1>3. CASE UNCHANGED board /\ (I2c!Drive \/ I2c!Bus) /\ UNCHANGED <<core, spi, prog>>
    <2>1. link' = link
        BY <1>3 DEF I2c!Drive, I2c!Bus, I2c!WriteReg, I2c!_wait_idle, I2c!PollRx,
              I2c!TakeByte, I2c!Addressed, I2c!Receive, I2c!ReleaseBus
    <2> QED
        BY <1>0, <1>3, <2>1, BoardWaits
<1>4. CASE UNCHANGED board /\ LoseLink
    BY <1>4, BoardWaits DEF LoseLink
<1>5. CASE UNCHANGED vars
    BY <1>0, <1>5, BoardWaits DEF vars
<1>6. CASE UNCHANGED board /\ Program
    BY <1>6, IdentityStep, ResetStep, JedecStep, StatusStep, SidebandStep, CagesStep
       DEF Program, CageActions
<1> QED
    BY <1>1, <1>2, <1>3, <1>4, <1>5, <1>6, PromptStep, KillStep, RerunStep
       DEF Next, Host, Drive, Devices

-----------------------------------------------------------------------------
(***************************************************************************)
(* The cages: the lists of writes, and what each write does.               *)
(***************************************************************************)
LEMMA IicReset == /\ Len(I2c!reset) = 4
                  /\ I2c!reset[1] = I2c!SOFTR
                  /\ I2c!reset[2] = I2c!CR(FALSE)
                  /\ I2c!reset[3] = I2c!CR(TRUE)
                  /\ I2c!reset[4] = I2c!RX_FIFO_PIRQ(FIFO_DEPTH - 1)
                  /\ I2c!reset \in Seq(IicWrites)
<1>1. FIFO_DEPTH - 1 \in Nat
    BY Constants
<1>2. /\ I2c!SOFTR \in IicWrites /\ I2c!CR(FALSE) \in IicWrites /\ I2c!CR(TRUE) \in IicWrites
      /\ I2c!RX_FIFO_PIRQ(FIFO_DEPTH - 1) \in IicWrites
    BY <1>1 DEF IicWrites, I2c!SOFTR, I2c!CR, I2c!RX_FIFO_PIRQ
<1> DEFINE a == I2c!SOFTR
           b == I2c!CR(FALSE)
           c == I2c!CR(TRUE)
           d == I2c!RX_FIFO_PIRQ(FIFO_DEPTH - 1)
<1>3. I2c!reset = <<a, b, c, d>>
    BY DEF I2c!reset
<1>4. a \in IicWrites /\ b \in IicWrites /\ c \in IicWrites /\ d \in IicWrites
    BY <1>2
<1> HIDE DEF a, b, c, d
<1>5. /\ Len(I2c!reset) = 4 /\ I2c!reset \in Seq(IicWrites)
      /\ I2c!reset[1] = a /\ I2c!reset[2] = b /\ I2c!reset[3] = c /\ I2c!reset[4] = d
    BY <1>3, <1>4
<1> QED
    BY <1>5 DEF a, b, c, d

LEMMA QueuedList ==
    ASSUME NEW offset \in Nat, NEW count \in Nat
    PROVE  /\ Len(Queued(offset, count)) = 4
           /\ Queued(offset, count) \in Seq(IicWrites)
           /\ \A i \in 1 .. 4 : /\ I2c!Words(offset, count)[i] \in IicWords
                                /\ Queued(offset, count)[i] =
                                      I2c!TX_FIFO(I2c!Words(offset, count)[i])
           /\ I2c!Words(offset, count)[2].n = offset
           /\ I2c!Words(offset, count)[4].n = count
<1>1. PICK a \in IicWords, b \in IicWords, c \in IicWords, d \in IicWords :
         /\ I2c!Words(offset, count) = <<a, b, c, d>>
         /\ b.n = offset /\ d.n = count
    <2>1. /\ [kind |-> "address write"] \in IicWords
          /\ [kind |-> "offset", n |-> offset] \in IicWords
          /\ [kind |-> "address read"] \in IicWords
          /\ [kind |-> "count", n |-> count] \in IicWords
        BY DEF IicWords
    <2> QED
        BY <2>1 DEF I2c!Words
<1>2. \A i \in 1 .. 4 : I2c!Words(offset, count)[i] \in IicWords
    BY <1>1
<1>3. \A w \in IicWords : I2c!TX_FIFO(w) \in IicWrites
    BY DEF I2c!TX_FIFO, IicWrites
<1>4. /\ Queued(offset, count) = [i \in 1 .. 4 |-> I2c!TX_FIFO(I2c!Words(offset, count)[i])]
      /\ \A i \in 1 .. 4 : I2c!TX_FIFO(I2c!Words(offset, count)[i]) \in IicWrites
    BY <1>2, <1>3, Zenon DEF Queued
<1>5. Len(Queued(offset, count)) = 4 /\ Queued(offset, count) \in Seq(IicWrites)
    BY <1>4
<1>7. I2c!Words(offset, count)[2].n = offset /\ I2c!Words(offset, count)[4].n = count
    BY <1>1
<1> QED
    BY <1>2, <1>4, <1>5, <1>7

LEMMA IicResets ==
    ASSUME NEW k \in CtlType, NEW k2 \in I2c!Written(k, I2c!SOFTR)
    PROVE  k2 \in CtlType /\ Quiet(k2) /\ k2.tx = <<>>
<1>1. PICK h \in BOOLEAN : k2 = I2c!ResetCtl(h)
    BY DEF I2c!Written, I2c!SOFTR, CtlType
<1>2. 0 \in 0 .. FIFO_DEPTH - 1
    BY Constants
<1>3. k2 = [en |-> FALSE, tx |-> <<>>, rx |-> <<>>, pirq |-> 0,
            read |-> I2c!NoRead, held |-> h]
    BY <1>1 DEF I2c!ResetCtl
<1>4. I2c!NoRead \in [at : Nat, left : Nat]
    BY DEF I2c!NoRead
<1> QED
    BY <1>2, <1>3, <1>4 DEF CtlType, Quiet

LEMMA IicDisabling ==
    ASSUME NEW k \in CtlType, NEW w, w.reg = "CR", w.en = FALSE,
           NEW k2, k2 \in I2c!Written(k, w)
    PROVE  k2 \in CtlType /\ k2.tx = <<>> /\ k2.rx = k.rx /\ k2.read = k.read
<1>1. k2 = [k EXCEPT !.en = FALSE, !.tx = <<>>]
    BY DEF I2c!Written
<1>2. k2 = [en |-> FALSE, tx |-> <<>>, rx |-> k.rx, pirq |-> k.pirq, read |-> k.read,
            held |-> k.held]
    BY <1>1 DEF CtlType
<1> QED
    BY <1>2 DEF CtlType

LEMMA IicEnabling ==
    ASSUME NEW k \in CtlType, NEW w, w.reg = "CR", w.en = TRUE,
           NEW k2, k2 \in I2c!Written(k, w)
    PROVE  k2 \in CtlType /\ k2.en /\ k2.tx = k.tx /\ k2.rx = k.rx /\ k2.read = k.read
<1>1. k2 = [k EXCEPT !.en = TRUE, !.tx = k.tx]
    BY DEF I2c!Written
<1> QED
    BY <1>1 DEF CtlType

LEMMA IicDisables ==
    ASSUME NEW k \in CtlType, NEW k2
    PROVE  k2 \in I2c!Written(k, I2c!CR(FALSE)) =>
             k2 \in CtlType /\ k2.tx = <<>> /\ k2.rx = k.rx /\ k2.read = k.read
<1>1. PICK w : w = I2c!CR(FALSE)
    OBVIOUS
<1>2. w.reg = "CR" /\ w.en = FALSE
    BY <1>1 DEF I2c!CR
<1>3. k2 \in I2c!Written(k, w) =>
         k2 \in CtlType /\ k2.tx = <<>> /\ k2.rx = k.rx /\ k2.read = k.read
    BY <1>2, IicDisabling, Zenon
<1> QED
    BY <1>1, <1>3, Zenon

LEMMA IicEnables ==
    ASSUME NEW k \in CtlType, NEW k2
    PROVE  k2 \in I2c!Written(k, I2c!CR(TRUE)) =>
             /\ k2 \in CtlType /\ k2.en
             /\ k2.tx = k.tx /\ k2.rx = k.rx /\ k2.read = k.read
<1>1. PICK w : w = I2c!CR(TRUE)
    OBVIOUS
<1>2. w.reg = "CR" /\ w.en = TRUE
    BY <1>1 DEF I2c!CR
<1>3. k2 \in I2c!Written(k, w) =>
         k2 \in CtlType /\ k2.en /\ k2.tx = k.tx /\ k2.rx = k.rx /\ k2.read = k.read
    BY <1>2, IicEnabling, Zenon
<1> QED
    BY <1>1, <1>3, Zenon

LEMMA IicThreshold ==
    ASSUME NEW k \in CtlType, NEW k2 \in I2c!Written(k, I2c!RX_FIFO_PIRQ(FIFO_DEPTH - 1))
    PROVE  /\ k2 \in CtlType /\ k2.en = k.en
           /\ k2.tx = k.tx /\ k2.rx = k.rx /\ k2.read = k.read
<1>1. k2 = [en |-> k.en, tx |-> k.tx, rx |-> k.rx, pirq |-> FIFO_DEPTH - 1,
            read |-> k.read, held |-> k.held]
    BY DEF I2c!Written, I2c!SOFTR, I2c!CR, I2c!RX_FIFO_PIRQ, I2c!TX_FIFO, CtlType
<1>2. FIFO_DEPTH - 1 \in 0 .. FIFO_DEPTH - 1
    BY Constants
<1> QED
    BY <1>1, <1>2 DEF CtlType

LEMMA IicQueues ==
    ASSUME NEW k \in CtlType, NEW word \in IicWords,
           NEW k2 \in I2c!Written(k, I2c!TX_FIFO(word))
    PROVE  /\ k2 \in CtlType /\ k2.en = k.en /\ k2.held = k.held
           /\ k2.tx = Append(k.tx, word) /\ k2.rx = k.rx /\ k2.read = k.read
<1>1. k2 = [en |-> k.en, tx |-> Append(k.tx, word), rx |-> k.rx, pirq |-> k.pirq,
            read |-> k.read, held |-> k.held]
    BY DEF I2c!Written, I2c!SOFTR, I2c!CR, I2c!RX_FIFO_PIRQ, I2c!TX_FIFO, CtlType
<1> QED
    BY <1>1 DEF CtlType

LEMMA SizedEmpty ==
    /\ Sized(<<>>, <<>>)
    /\ \A tx, rx : Sized(tx, rx) => Sized(<<>>, rx)
<1>1. Queue(<<>>)
    BY DEF Queue
<1>2. Len(<<>>) <= FIFO_DEPTH
    BY Constants
<1> QED
    BY <1>1, <1>2, Zenon DEF Sized

(* What a controller demands, of one write.                                *)
InTurn(k, k2) == Len(k2.tx) > Len(k.tx) => k.en /\ ~k.held /\ k.read = I2c!NoRead
KeptRead(st, k, k2, i2) == /\ k2 \in CtlType /\ Sized(k2.tx, k2.rx)
                           /\ Reading(st, k2, i2) /\ InTurn(k, k2)

LEMMA InTurnSame ==
    ASSUME NEW k \in CtlType, NEW k2, k2.tx = k.tx \/ k2.tx = <<>> PROVE InTurn(k, k2)
<1>1. PICK tx \in Seq(IicWords) : tx = k.tx
    BY DEF CtlType
<1>2. ~(Len(tx) > Len(tx)) /\ ~(Len(<<>>) > Len(tx))
    OBVIOUS
<1>3. CASE k2.tx = k.tx
    BY <1>1, <1>2, <1>3, Zenon DEF InTurn
<1>4. CASE k2.tx = <<>>
    BY <1>1, <1>2, <1>4, Zenon DEF InTurn
<1> QED
    BY <1>3, <1>4

LEMMA IicWriteOfReset ==
    ASSUME NEW st, NEW k \in CtlType, NEW i \in IicType, Sized(k.tx, k.rx),
           NEW todo, todo = i.todo, todo # <<>>,
           Reading(st, k, i), i.at \in {"returned", "settling"},
           NEW w, w = Head(todo), NEW k2, k2 \in I2c!Written(k, w),
           NEW rest, rest = Tail(todo), NEW i2, i2 = [i EXCEPT !.todo = rest]
    PROVE  KeptRead(st, k, k2, i2)
<1> DEFINE all == I2c!reset
<1>1. /\ Rest(todo, all) /\ OfPage(i.out, 0) /\ (i.out # <<>> => i.cage \in st)
      /\ i.at = "returned" => Len(i.out) = i.want
      /\ i.at = "settling" => Chunked(i) /\ i.got = <<>>
      /\ i.at = "settling" /\ Len(todo) < 4 => Quiet(k) /\ k.tx = <<>>
      /\ i.at = "settling" /\ Len(todo) < 2 => k.en
    BY Zenon DEF Reading
<1>2. Len(all) = 4
    BY IicReset, Zenon
<1>3. /\ all[1] = I2c!SOFTR /\ all[2] = I2c!CR(FALSE) /\ all[3] = I2c!CR(TRUE)
      /\ all[4] = I2c!RX_FIFO_PIRQ(FIFO_DEPTH - 1)
    BY IicReset, Zenon
<1> HIDE DEF all
<1>4. /\ i2.at = i.at /\ i2.todo = rest /\ i2.out = i.out /\ i2.cage = i.cage
      /\ i2.want = i.want /\ i2.offset = i.offset /\ i2.count = i.count /\ i2.got = i.got
    BY DEF IicType
<1>5. /\ Len(todo) \in 1 .. 4 /\ Len(rest) = Len(todo) - 1 /\ Rest(rest, all)
      /\ Head(todo) = all[4 + 1 - Len(todo)]
    <2>1. 4 \in Nat /\ todo \in Seq(IicWrites) /\ Rest(todo, all)
        BY <1>1 DEF IicType
    <2> QED
        BY <1>2, <2>1, NextWrite, ZenonT(60)
<1>6. /\ k2 \in CtlType
      /\ Sized(k2.tx, k2.rx) /\ (k2.tx = k.tx \/ k2.tx = <<>>)
      /\ i.at = "settling" => Quiet(k2) /\ k2.tx = <<>>
      /\ i.at = "settling" /\ Len(rest) < 2 => k2.en
    <2>1. CASE Len(todo) = 4
        <3>1. w = all[1] /\ ~(Len(rest) < 2)
            <4>1. PICK n, m : n = Len(todo) /\ m = Len(rest)
                OBVIOUS
            <4>2. m = n - 1 /\ w = all[4 + 1 - n] /\ n = 4
                BY <1>5, <2>1, <4>1, Zenon
            <4>3. w = all[1] /\ ~(m < 2) /\ (n < 4 \/ n = 4)
                BY <4>2
            <4> QED
                BY <1>5, <2>1, <4>1, <4>3, Zenon
        <3>2. w = I2c!SOFTR
            BY <1>3, <3>1, Zenon
        <3>3. k2 \in CtlType /\ Quiet(k2) /\ k2.tx = <<>>
            BY <3>2, IicResets
        <3> QED
            BY <3>1, <3>3, SizedEmpty, Zenon DEF Quiet
    <2>2. CASE Len(todo) = 3
        <3>1. w = all[2] /\ ~(Len(rest) < 2)
            <4>1. PICK n, m : n = Len(todo) /\ m = Len(rest)
                OBVIOUS
            <4>2. m = n - 1 /\ w = all[4 + 1 - n] /\ n = 3
                BY <1>5, <2>2, <4>1, Zenon
            <4>3. w = all[2] /\ ~(m < 2) /\ (n < 4 \/ n = 4)
                BY <4>2
            <4> QED
                BY <1>5, <2>2, <4>1, <4>3, Zenon
        <3>2. w = I2c!CR(FALSE)
            BY <1>3, <3>1, Zenon
        <3>3. k2 \in CtlType /\ k2.tx = <<>> /\ k2.rx = k.rx /\ k2.read = k.read
            BY <3>2, IicDisables, Zenon
        <3>4. Len(todo) < 4
            BY <2>2
        <3> QED
            BY <1>1, <3>1, <3>3, <3>4, SizedEmpty, Zenon DEF Quiet
    <2>3. CASE Len(todo) = 2
        <3>1. w = all[3] /\ Len(todo) < 4
            BY <1>5, <2>3
        <3>2. w = I2c!CR(TRUE)
            BY <1>3, <3>1, Zenon
        <3>3. /\ k2 \in CtlType /\ k2.en
              /\ k2.tx = k.tx /\ k2.rx = k.rx /\ k2.read = k.read
            BY <3>2, IicEnables, Zenon
        <3> QED
            BY <1>1, <3>1, <3>3, Zenon DEF Quiet
    <2>4. CASE Len(todo) = 1
        <3>1. w = all[4] /\ Len(todo) < 4 /\ Len(todo) < 2
            BY <1>5, <2>4
        <3>2. w = I2c!RX_FIFO_PIRQ(FIFO_DEPTH - 1)
            BY <1>3, <3>1, Zenon
        <3>3. /\ k2 \in CtlType /\ k2.en = k.en
              /\ k2.tx = k.tx /\ k2.rx = k.rx /\ k2.read = k.read
            BY <3>2, IicThreshold
        <3> QED
            BY <1>1, <3>1, <3>3, Zenon DEF Quiet
    <2> QED
        BY <1>5, <2>1, <2>2, <2>3, <2>4
<1>7. InTurn(k, k2)
    BY <1>6, InTurnSame
<1>8. Reading(st, k2, i2)
    <2>1. /\ OfPage(i2.out, 0) /\ (i2.out # <<>> => i2.cage \in st)
          /\ Rest(i2.todo, all)
        BY <1>1, <1>4, <1>5
    <2>2. CASE i.at = "returned"
        BY <1>1, <1>4, <2>1, <2>2 DEF Reading, all
    <2>3. CASE i.at = "settling"
        <3>1. Chunked(i2)
            BY <1>1, <1>4, <2>3 DEF Chunked
        <3> QED
            BY <1>1, <1>4, <1>6, <2>1, <2>3, <3>1 DEF Reading, all
    <2> QED
        BY <2>2, <2>3
<1> QED
    BY <1>6, <1>7, <1>8, Zenon DEF KeptRead

(* The first j words of a read are queued.                                 *)
ReadTo(tx, offset, count, j) ==
    /\ Len(tx) = j
    /\ j >= 2 => tx[2].n = offset
    /\ j = 4 => tx[4].n = count

LEMMA ReadQueued ==
    ASSUME NEW offset \in Nat, NEW count \in Nat, NEW j \in 1 .. 4,
           NEW tx \in Seq(IicWords), ReadTo(tx, offset, count, j - 1),
           NEW more, more = Append(tx, I2c!Words(offset, count)[j])
    PROVE  more \in Seq(IicWords) /\ Queue(more) /\ ReadTo(more, offset, count, j)
<1>0. Len(tx) = j - 1 /\ (j - 1 >= 2 => tx[2].n = offset)
    BY DEF ReadTo
<1>1. PICK word \in IicWords :
         /\ word = I2c!Words(offset, count)[j]
         /\ j = 2 => word.n = offset
         /\ j = 4 => word.n = count
    BY QueuedList, SMTT(30)
<1>2. /\ more \in Seq(IicWords) /\ Len(more) = j
      /\ \A i \in 1 .. j - 1 : more[i] = tx[i]
      /\ more[j] = word
    BY <1>0, <1>1, AppendProperties
<1>3. j >= 2 => more[2].n = offset
    <2>0. SUFFICES ASSUME j >= 2 PROVE more[2].n = offset
        OBVIOUS
    <2>1. CASE j = 2
        BY <1>1, <1>2, <2>1
    <2>2. CASE j > 2
        <3>1. 2 \in 1 .. j - 1 /\ j - 1 >= 2
            BY <2>2
        <3> QED
            BY <1>0, <1>2, <3>1
    <2>3. j = 2 \/ j > 2
        BY <2>0
    <2> QED
        BY <2>1, <2>2, <2>3, Zenon
<1>4. j = 4 => more[4].n = count
    BY <1>1, <1>2
<1>5. Queue(more)
    BY <1>2, <1>3, <1>4 DEF Queue
<1> QED
    BY <1>2, <1>3, <1>4, <1>5 DEF ReadTo

LEMMA IicWriteOfRead ==
    ASSUME NEW st, NEW k \in CtlType, NEW i \in IicType, Sized(k.tx, k.rx),
           NEW todo, todo = i.todo, todo # <<>>,
           Reading(st, k, i), i.at = "receiving",
           NEW w, w = Head(todo), NEW k2, k2 \in I2c!Written(k, w),
           NEW rest, rest = Tail(todo), NEW i2, i2 = [i EXCEPT !.todo = rest]
    PROVE  KeptRead(st, k, k2, i2)
<1>1. PICK offset \in Nat, count \in Nat, tx \in Seq(IicWords) :
         offset = i.offset /\ count = i.count /\ tx = k.tx
    BY DEF IicType, CtlType
<1> DEFINE all == Queued(offset, count)
<1>2. /\ Rest(todo, all) /\ OfPage(i.out, 0) /\ (i.out # <<>> => i.cage \in st)
      /\ Chunked(i) /\ k.en /\ Quiet(k) /\ ~k.held /\ i.got = <<>>
      /\ Len(tx) = 4 - Len(todo)
      /\ Len(tx) >= 2 => tx[2].n = offset
    BY <1>1, Zenon DEF Reading
<1>3. Len(all) = 4
    BY QueuedList, Zenon
<1>4. \A j \in 1 .. 4 : /\ I2c!Words(offset, count)[j] \in IicWords
                        /\ all[j] = I2c!TX_FIFO(I2c!Words(offset, count)[j])
    BY QueuedList, ZenonT(60)
<1> HIDE DEF all
<1>5. /\ i2.at = i.at /\ i2.todo = rest /\ i2.out = i.out /\ i2.cage = i.cage
      /\ i2.want = i.want /\ i2.offset = i.offset /\ i2.count = i.count /\ i2.got = i.got
    BY DEF IicType
<1>6. /\ Len(todo) \in 1 .. 4 /\ Len(rest) = Len(todo) - 1 /\ Rest(rest, all)
      /\ Head(todo) = all[4 + 1 - Len(todo)]
      /\ rest \in Seq(IicWrites)
    <2>1. 4 \in Nat /\ todo \in Seq(IicWrites) /\ Rest(todo, all)
        BY <1>2 DEF IicType
    <2> QED
        BY <1>3, <2>1, NextWrite, ZenonT(60)
<1>7. PICK j \in 1 .. 4 :
         /\ Len(tx) = j - 1 /\ w = all[j] /\ Len(rest) = 4 - j
         /\ j = 4 => rest = <<>>
         /\ j # 4 => rest # <<>>
    <2>1. PICK n \in 1 .. 4 : n = Len(todo)
        BY <1>6
    <2>2. PICK m : m = Len(rest)
        OBVIOUS
    <2>0. Len(tx) = 4 - Len(todo)
        BY <1>2, Zenon
    <2>3. m = n - 1 /\ w = all[4 + 1 - n] /\ Len(tx) = 4 - n
        BY <1>6, <2>0, <2>1, <2>2, Zenon
    <2>4. PICK j \in 1 .. 4 : j = 5 - n
        <3>1. 5 - n \in 1 .. 4
            OBVIOUS
        <3> QED
            BY <3>1
    <2>5. Len(tx) = j - 1 /\ m = 4 - j /\ w = all[j]
        BY <2>3, <2>4
    <2>6. rest = <<>> <=> m = 0
        BY <1>6, <2>2, EmptySeq, Zenon
    <2>7. (j = 4 => rest = <<>>) /\ (j # 4 => rest # <<>>)
        BY <2>4, <2>5, <2>6
    <2> QED
        BY <2>2, <2>5, <2>7, Zenon
<1>8. PICK more : more = Append(tx, I2c!Words(offset, count)[j])
    OBVIOUS
<1>9. more \in Seq(IicWords) /\ Queue(more) /\ ReadTo(more, offset, count, j)
    <2>1. Len(tx) = j - 1 /\ (Len(tx) >= 2 => tx[2].n = offset)
        BY <1>2, <1>7, Zenon
    <2>2. ReadTo(tx, offset, count, j - 1)
        BY <2>1 DEF ReadTo
    <2> QED
        BY <1>8, <2>2, ReadQueued
<1>10. /\ k2 \in CtlType /\ k2.en = k.en /\ k2.held = k.held
       /\ k2.tx = more /\ k2.rx = k.rx /\ k2.read = k.read
    <2>1. PICK word \in IicWords : word = I2c!Words(offset, count)[j]
        BY <1>4
    <2>2. w = I2c!TX_FIFO(word)
        BY <1>4, <1>7, <2>1
    <2> QED
        BY <1>1, <1>8, <2>1, <2>2, IicQueues
<1>11. Sized(k2.tx, k2.rx)
    BY <1>9, <1>10, Zenon DEF Sized
<1>12. InTurn(k, k2)
    BY <1>2, Zenon DEF InTurn, Quiet
<1>13. /\ OfPage(i2.out, 0) /\ (i2.out # <<>> => i2.cage \in st) /\ Chunked(i2)
       /\ Rest(i2.todo, Queued(i2.offset, i2.count)) /\ i2.at = "receiving"
    BY <1>1, <1>2, <1>5, <1>6 DEF Chunked, all
<1>14. /\ Quiet(k2) /\ ~k2.held /\ i2.got = <<>> /\ k2.en
    BY <1>2, <1>5, <1>10 DEF Quiet
<1>15. CASE j = 4
    <2>1. Len(more) = 4 /\ more[2].n = offset /\ more[4].n = count
        BY <1>9, <1>15 DEF ReadTo
    <2>2. Asked(k2, i2)
        BY <1>1, <1>5, <1>10, <1>14, <2>1, Zenon DEF Asked
    <2> QED
        BY <1>5, <1>7, <1>10, <1>11, <1>12, <1>13, <1>15, <2>2, Zenon DEF KeptRead, Reading
<1>16. CASE j # 4
    <2>1. Len(more) = 4 - Len(rest) /\ (Len(more) >= 2 => more[2].n = offset)
        BY <1>7, <1>9 DEF ReadTo
    <2> QED
        BY <1>1, <1>5, <1>7, <1>9, <1>10, <1>11, <1>12, <1>13, <1>14, <1>16, <2>1, Zenon
           DEF KeptRead, Reading
<1> QED
    BY <1>15, <1>16

(* The same, of the state.                                                 *)
CtlOrder == \A c \in Cage : InTurn(ctl[c], ctl'[c])

LEMMA IicMoves ==
    ASSUME IicInv, board' = board, link' => link,
           NEW c \in Cage, NEW k2 \in CtlType, ctl' = [ctl EXCEPT ![c] = k2],
           Sized(k2.tx, k2.rx), InTurn(ctl[c], k2),
           iic' \in IicType, iic'.want <= Len(Page),
           link => Reading(board.seated, ctl'[iic'.cage], iic')
    PROVE  IicInv' /\ CtlOrder
<1>1. ctl \in [Cage -> CtlType] /\ \A x \in Cage : Sized(ctl[x].tx, ctl[x].rx)
    BY DEF IicInv
<1>2. ctl' \in [Cage -> CtlType] /\ ctl'[c] = k2 /\ \A x \in Cage \ {c} : ctl'[x] = ctl[x]
    BY <1>1
<1>3. \A x \in Cage : Sized(ctl'[x].tx, ctl'[x].rx)
    BY <1>1, <1>2
<1>4. CtlOrder
    BY <1>1, <1>2, InTurnSame DEF CtlOrder
<1> QED
    BY <1>2, <1>3, <1>4 DEF IicInv

LEMMA IicStays ==
    ASSUME IicInv, board' = board, ctl' = ctl,
           iic' \in IicType, iic'.want <= Len(Page),
           link' => Reading(board.seated, ctl[iic'.cage], iic')
    PROVE  IicInv' /\ CtlOrder
<1>1. ctl \in [Cage -> CtlType]
    BY DEF IicInv
<1>2. CtlOrder
    BY <1>1, InTurnSame DEF CtlOrder
<1> QED
    BY <1>2 DEF IicInv

LEMMA IicDriverWrites ==
    ASSUME IicInv, I2c!WriteReg, board' = board
    PROVE  IicInv' /\ CtlOrder
<1>1. PICK c \in Cage, i \in IicType, k \in CtlType : i = iic /\ c = i.cage /\ k = ctl[c]
    BY DEF IicInv, IicType
<1>2. PICK todo \in Seq(IicWrites) : todo = i.todo /\ todo # <<>>
    BY <1>1 DEF IicType, I2c!WriteReg
<1>3. PICK w \in IicWrites, rest \in Seq(IicWrites) : w = Head(todo) /\ rest = Tail(todo)
    BY <1>2, HeadTailProperties
<1>4. PICK i2 \in IicType : i2 = [i EXCEPT !.todo = rest]
    BY DEF IicType
<1>5. iic' = i2 /\ link' = link /\ i2.cage = c /\ i2.want = i.want
    BY <1>1, <1>2, <1>3, <1>4 DEF I2c!WriteReg, IicType
<1>6. Sized(k.tx, k.rx) /\ i.want <= Len(Page) /\ ctl \in [Cage -> CtlType]
    BY <1>1 DEF IicInv
<1>7. CASE link
    <2>1. PICK k2 \in I2c!Written(k, w) : ctl' = [ctl EXCEPT ![c] = k2]
        BY <1>1, <1>2, <1>3, <1>7 DEF I2c!WriteReg
    <2>2. Reading(board.seated, k, i)
        BY <1>1, <1>7 DEF IicInv
    <2>3. i.at \in {"returned", "settling"} \/ i.at = "receiving"
        BY <1>2, <2>2 DEF IicType, Reading
    <2>4. KeptRead(board.seated, k, k2, i2)
        BY <1>2, <1>3, <1>4, <1>6, <2>2, <2>3, IicWriteOfReset, IicWriteOfRead, Zenon
    <2>5. ctl'[c] = k2
        BY <1>6, <2>1
    <2>6. /\ k2 \in CtlType /\ Sized(k2.tx, k2.rx) /\ InTurn(ctl[c], k2)
          /\ Reading(board.seated, k2, i2)
        BY <1>1, <2>4, Zenon DEF KeptRead
    <2> QED
        BY <1>5, <1>6, <2>1, <2>5, <2>6, IicMoves
<1>8. CASE ~link
    <2>1. ctl' = ctl
        BY <1>8 DEF I2c!WriteReg
    <2> QED
        BY <1>5, <1>6, <1>8, <2>1, IicStays
<1> QED
    BY <1>7, <1>8

LEMMA IicDriverWaits ==
    ASSUME IicInv, I2c!_wait_idle, board' = board
    PROVE  IicInv' /\ CtlOrder
<1>1. PICK c \in Cage, i \in IicType, k \in CtlType : i = iic /\ c = i.cage /\ k = ctl[c]
    BY DEF IicInv, IicType
<1>2. ctl' = ctl /\ link' = link /\ i.at = "settling" /\ i.todo = <<>>
    BY <1>1 DEF I2c!_wait_idle, I2c!At
<1>3. i.want <= Len(Page)
    BY <1>1 DEF IicInv
<1>4. link => /\ OfPage(i.out, 0) /\ (i.out # <<>> => i.cage \in board.seated)
              /\ Chunked(i) /\ i.got = <<>>
              /\ Len(<<>>) < 4 => Quiet(k) /\ k.tx = <<>>
              /\ Len(<<>>) < 2 => k.en
    BY <1>1, <1>2, Zenon DEF IicInv, Reading
<1>5. Len(<<>>) < 4 /\ Len(<<>>) < 2 /\ Len(<<>>) = 4 - 4 /\ ~(Len(<<>>) >= 2)
    OBVIOUS
<1>6. CASE I2c!Busy(iic.cage)
    <2>1. PICK i2 \in IicType : i2 = [i EXCEPT !.at = "raised"]
        BY DEF IicType
    <2>2. iic' = i2
        BY <1>1, <1>6, <2>1 DEF I2c!_wait_idle, I2c!Raise
    <2>3. /\ i2.at = "raised" /\ i2.todo = <<>> /\ i2.out = i.out /\ i2.cage = i.cage
          /\ i2.want = i.want
        BY <1>2, <2>1 DEF IicType
    <2>4. link => Reading(board.seated, k, i2)
        BY <1>4, <2>3 DEF Reading
    <2> QED
        BY <1>1, <1>2, <1>3, <2>2, <2>3, <2>4, IicStays
<1>7. CASE ~I2c!Busy(iic.cage)
    <2>1. PICK offset \in Nat, count \in Nat : offset = i.offset /\ count = i.count
        BY DEF IicType
    <2>2. PICK all \in Seq(IicWrites) : all = Queued(offset, count) /\ Len(all) = 4
        BY QueuedList, ZenonT(60)
    <2>3. PICK i2 \in IicType : i2 = [i EXCEPT !.at = "receiving", !.todo = all]
        BY DEF IicType
    <2>4. iic' = i2
        BY <1>1, <1>7, <2>1, <2>2, <2>3 DEF I2c!_wait_idle, Queued
    <2>5. /\ i2.at = "receiving" /\ i2.todo = all /\ i2.out = i.out /\ i2.cage = i.cage
          /\ i2.want = i.want /\ i2.offset = offset /\ i2.count = count /\ i2.got = i.got
        BY <2>1, <2>3 DEF IicType
    <2>6. link => Reading(board.seated, k, i2)
        <3>1. SUFFICES ASSUME link PROVE Reading(board.seated, k, i2)
            OBVIOUS
        <3>2. ~k.held
            BY <1>1, <1>7, <3>1 DEF I2c!Busy
        <3>3. Rest(all, Queued(offset, count)) /\ all # <<>>
            <4>1. Len(all) \in Nat /\ Len(all) # 0
                BY <2>2
            <4>2. all # <<>>
                BY <4>1, EmptySeq
            <4> QED
                BY <2>2, <4>1, <4>2, RestWhole
        <3>4. Chunked(i2)
            BY <1>4, <2>1, <2>5, <3>1 DEF Chunked
        <3>5. /\ OfPage(i.out, 0) /\ (i.out # <<>> => i.cage \in board.seated)
              /\ i.got = <<>> /\ Quiet(k) /\ k.tx = <<>> /\ k.en
            BY <1>4, <1>5, <3>1
        <3>6. Len(k.tx) = 4 - Len(all) /\ ~(Len(k.tx) >= 2)
            BY <1>5, <2>2, <3>5, Zenon
        <3> QED
            BY <2>2, <2>5, <3>2, <3>3, <3>4, <3>5, <3>6, Zenon DEF Reading
    <2> QED
        BY <1>1, <1>2, <1>3, <2>4, <2>5, <2>6, IicStays
<1> QED
    BY <1>6, <1>7

LEMMA IicDriverPolls ==
    ASSUME IicInv, I2c!PollRx, board' = board
    PROVE  IicInv' /\ CtlOrder
<1>1. PICK c \in Cage, i \in IicType, k \in CtlType : i = iic /\ c = i.cage /\ k = ctl[c]
    BY DEF IicInv, IicType
<1>2. ctl' = ctl /\ link' = link /\ i.at = "receiving" /\ i.todo = <<>>
    BY <1>1 DEF I2c!PollRx, I2c!At
<1>3. i.want <= Len(Page)
    BY <1>1 DEF IicInv
<1>4. link => /\ OfPage(i.out, 0) /\ (i.out # <<>> => i.cage \in board.seated)
              /\ Chunked(i)
              /\ Asked(k, i) \/ Arriving(board.seated, k, i)
    BY <1>1, <1>2, Zenon DEF IicInv, Reading
<1>5. PICK at \in {"raised", "taking"} :
         at = IF I2c!RxEmpty(iic.cage) THEN "raised" ELSE "taking"
    OBVIOUS
<1>6. PICK i2 \in IicType : i2 = [i EXCEPT !.at = at]
    BY DEF IicType
<1>7. iic' = i2
    BY <1>1, <1>5, <1>6 DEF I2c!PollRx, I2c!Raise
<1>8. /\ i2.at = at /\ i2.todo = <<>> /\ i2.out = i.out /\ i2.cage = i.cage
      /\ i2.want = i.want /\ i2.offset = i.offset /\ i2.count = i.count /\ i2.got = i.got
    BY <1>2, <1>6 DEF IicType
<1>9. link => Reading(board.seated, k, i2)
    <2>1. SUFFICES ASSUME link PROVE Reading(board.seated, k, i2)
        OBVIOUS
    <2>2. CASE at = "raised"
        BY <1>4, <1>8, <2>1, <2>2 DEF Reading
    <2>3. CASE at = "taking"
        <3>1. k.rx # <<>>
            BY <1>1, <1>5, <2>1, <2>3 DEF I2c!RxEmpty
        <3>2. Arriving(board.seated, k, i)
            BY <1>4, <2>1, <3>1, Zenon DEF Asked, Quiet
        <3>3. Arriving(board.seated, k, i2)
            BY <1>8, <3>2 DEF Arriving, Arrived
        <3>4. Chunked(i2)
            BY <1>4, <1>8, <2>1 DEF Chunked
        <3> QED
            BY <1>4, <1>8, <2>1, <2>3, <3>1, <3>3, <3>4 DEF Reading
    <2> QED
        BY <2>2, <2>3
<1> QED
    BY <1>1, <1>2, <1>3, <1>7, <1>8, <1>9, IicStays

(* A byte of the page, taken from the receive FIFO; and a chunk put after  *)
(* those before it.                                                        *)
Follow(got, rx, a) == OfPage(got, a) /\ OfPage(rx, a + Len(got))

LEMMA PageTaken ==
    ASSUME NEW got \in Seq(Bytes), NEW rx \in Seq(Bytes), rx # <<>>, NEW a \in Nat,
           Follow(got, rx, a)
    PROVE  /\ Append(got, Head(rx)) \in Seq(Bytes) /\ Tail(rx) \in Seq(Bytes)
           /\ Len(Append(got, Head(rx))) = Len(got) + 1
           /\ Len(Append(got, Head(rx))) + Len(Tail(rx)) = Len(got) + Len(rx)
           /\ Len(Tail(rx)) <= Len(rx)
           /\ Follow(Append(got, Head(rx)), Tail(rx), a)
<1> DEFINE more == Append(got, Head(rx))
           left == Tail(rx)
<1>1. /\ Len(rx) \in Nat /\ Len(rx) > 0 /\ Len(got) \in Nat
      /\ Head(rx) = rx[1] /\ Head(rx) \in Bytes
      /\ left \in Seq(Bytes) /\ Len(left) = Len(rx) - 1
      /\ \A i \in 1 .. Len(left) : left[i] = rx[i + 1]
    BY EmptySeq, HeadTailProperties
<1>2. /\ more \in Seq(Bytes) /\ Len(more) = Len(got) + 1
      /\ \A i \in 1 .. Len(got) : more[i] = got[i]
      /\ more[Len(got) + 1] = rx[1]
    BY <1>1, AppendProperties
<1> HIDE DEF more, left
<1>3. /\ \A i \in 1 .. Len(got) : got[i] = Page[a + i]
      /\ \A i \in 1 .. Len(rx) : rx[i] = Page[a + Len(got) + i]
    BY DEF Follow, OfPage
<1>4. ASSUME NEW i \in 1 .. Len(more) PROVE more[i] = Page[a + i]
    <2>1. CASE i \in 1 .. Len(got)
        BY <1>2, <1>3, <2>1
    <2>2. CASE i = Len(got) + 1
        <3>1. rx[1] = Page[a + Len(got) + 1] /\ a + Len(got) + 1 = a + i
            BY <1>1, <1>3, <2>2
        <3> QED
            BY <1>2, <2>2, <3>1
    <2> QED
        BY <1>1, <1>2, <2>1, <2>2
<1>5. ASSUME NEW i \in 1 .. Len(left) PROVE left[i] = Page[a + Len(more) + i]
    <2>1. i + 1 \in 1 .. Len(rx) /\ a + Len(more) + i = a + Len(got) + (i + 1)
        BY <1>1, <1>2
    <2>2. rx[i + 1] = Page[a + Len(got) + (i + 1)]
        BY <1>3, <2>1
    <2> QED
        BY <1>1, <2>1, <2>2
<1>6. Follow(more, left, a)
    BY <1>4, <1>5 DEF Follow, OfPage
<1>7. /\ Len(more) = Len(got) + 1 /\ Len(more) + Len(left) = Len(got) + Len(rx)
      /\ Len(left) <= Len(rx)
    BY <1>1, <1>2
<1> QED
    BY <1>1, <1>2, <1>6, <1>7 DEF more, left

LEMMA PageJoined ==
    ASSUME NEW out \in Seq(Bytes), NEW got \in Seq(Bytes),
           OfPage(out, 0), OfPage(got, Len(out))
    PROVE  OfPage(out \o got, 0)
<1>1. /\ Len(out) \in Nat /\ Len(got) \in Nat
      /\ \A i \in 1 .. Len(out) : out[i] = Page[0 + i]
      /\ \A i \in 1 .. Len(got) : got[i] = Page[Len(out) + i]
    BY DEF OfPage
<1>2. PICK all \in Seq(Bytes) :
         /\ all = out \o got
         /\ Len(all) = Len(out) + Len(got)
         /\ \A i \in 1 .. Len(out) + Len(got) :
              all[i] = IF i <= Len(out) THEN out[i] ELSE got[i - Len(out)]
    <2>1. out \o got \in Seq(Bytes)
        BY ConcatProperties
    <2> QED
        BY <2>1, ConcatProperties
<1>3. ASSUME NEW i \in 1 .. Len(all) PROVE all[i] = Page[0 + i]
    <2>1. CASE i <= Len(out)
        BY <1>1, <1>2, <2>1
    <2>2. CASE i > Len(out)
        <3>1. i - Len(out) \in 1 .. Len(got) /\ Len(out) + (i - Len(out)) = 0 + i
            BY <1>1, <1>2, <2>2
        <3>2. got[i - Len(out)] = Page[Len(out) + (i - Len(out))]
            BY <1>1, <3>1
        <3>3. all[i] = got[i - Len(out)]
            BY <1>1, <1>2, <2>2
        <3> QED
            BY <3>1, <3>2, <3>3
    <2> QED
        BY <1>1, <1>2, <2>1, <2>2
<1> QED
    BY <1>2, <1>3 DEF OfPage

LEMMA ChunkFits ==
    ASSUME NEW n \in Nat, n > 0
    PROVE  I2c!Chunk(n) \in Nat /\ I2c!Chunk(n) > 0 /\ I2c!Chunk(n) <= n
    BY Constants DEF I2c!Chunk

LEMMA NoByte == <<>> \in Seq(Bytes)
    OBVIOUS

LEMMA NoWord == <<>> \in Seq(IicWords)
    OBVIOUS

(* What the driver does after a byte.                                      *)
LEMMA TakenIs ==
    ASSUME iic \in IicType, NEW more \in Seq(Bytes), NEW i2, i2 = I2c!Taken(more)
    PROVE  /\ i2 \in IicType /\ i2.cage = iic.cage /\ i2.want = iic.want
           /\ Len(more) < iic.count =>
                /\ i2.at = "receiving" /\ i2.got = more /\ i2.todo = iic.todo
                /\ i2.offset = iic.offset /\ i2.count = iic.count /\ i2.out = iic.out
           /\ ~(Len(more) < iic.count) /\ Len(iic.out \o more) < iic.want =>
                /\ i2.at = "settling" /\ i2.got = <<>> /\ i2.todo = I2c!reset
                /\ i2.offset = Len(iic.out \o more) /\ i2.out = iic.out \o more
                /\ i2.count = I2c!Chunk(iic.want - Len(iic.out \o more))
           /\ ~(Len(more) < iic.count) /\ ~(Len(iic.out \o more) < iic.want) =>
                /\ i2.at = "returned" /\ i2.got = <<>> /\ i2.todo = iic.todo
                /\ i2.out = iic.out \o more
<1>1. PICK out \in Seq(Bytes) : out = iic.out \o more
    <2>1. iic.out \in Seq(Bytes)
        BY DEF IicType
    <2> QED
        BY <2>1, ConcatProperties
<1>0. PICK none \in Seq(Bytes) : none = <<>>
    BY NoByte, Zenon
<1>2. CASE Len(more) < iic.count
    <2>1. i2 = [iic EXCEPT !.at = "receiving", !.got = more]
        BY <1>2, Zenon DEF I2c!Taken
    <2>2. /\ i2 \in IicType /\ i2.cage = iic.cage /\ i2.want = iic.want
          /\ i2.at = "receiving" /\ i2.got = more /\ i2.todo = iic.todo
          /\ i2.offset = iic.offset /\ i2.count = iic.count /\ i2.out = iic.out
        BY <2>1 DEF IicType
    <2> QED
        BY <1>2, <2>2, Zenon
<1>3. CASE ~(Len(more) < iic.count) /\ Len(out) < iic.want
    <2>1. PICK n \in Nat, m \in Nat : n = Len(out) /\ m = iic.want - n /\ m > 0
        <3>1. PICK want \in Nat : want = iic.want
            BY DEF IicType
        <3>2. Len(out) < want
            BY <1>3, <3>1, Zenon
        <3> QED
            BY <3>1, <3>2
    <2>2. PICK count \in Nat : count = I2c!Chunk(m)
        BY <2>1, ChunkFits
    <2>3. PICK todo \in Seq(IicWrites) : todo = I2c!reset
        BY IicReset, Zenon
    <2>4. i2 = I2c!Read([iic EXCEPT !.out = out], Len(out), I2c!Chunk(iic.want - Len(out)))
        BY <1>1, <1>3, Zenon DEF I2c!Taken
    <2>5. i2 = I2c!Read([iic EXCEPT !.out = out], n, count)
        BY <2>1, <2>2, <2>4, Zenon
    <2>6. i2 = [[iic EXCEPT !.out = out] EXCEPT !.at = "settling", !.todo = todo,
                  !.offset = n, !.count = count, !.got = none]
        BY <1>0, <2>3, <2>5, Zenon DEF I2c!Read
    <2>7. /\ i2 \in IicType /\ i2.cage = iic.cage /\ i2.want = iic.want
          /\ i2.at = "settling" /\ i2.got = none /\ i2.todo = todo
          /\ i2.offset = n /\ i2.out = out /\ i2.count = count
        BY <2>6, ZenonT(60) DEF IicType
    <2> QED
        BY <1>0, <1>1, <1>3, <2>1, <2>2, <2>3, <2>7, Zenon
<1>4. CASE ~(Len(more) < iic.count) /\ ~(Len(out) < iic.want)
    <2>1. i2 = [iic EXCEPT !.at = "returned", !.got = none, !.out = out]
        BY <1>0, <1>1, <1>4, Zenon DEF I2c!Taken
    <2>2. /\ i2 \in IicType /\ i2.cage = iic.cage /\ i2.want = iic.want
          /\ i2.at = "returned" /\ i2.got = none /\ i2.todo = iic.todo /\ i2.out = out
        BY <2>1 DEF IicType
    <2> QED
        BY <1>0, <1>1, <1>4, <2>2, Zenon
<1> QED
    BY <1>2, <1>3, <1>4

LEMMA IicDriverTakes ==
    ASSUME IicInv, I2c!TakeByte, board' = board
    PROVE  IicInv' /\ CtlOrder
<1>1. PICK c \in Cage, i \in IicType, k \in CtlType : i = iic /\ c = i.cage /\ k = ctl[c]
    BY DEF IicInv, IicType
<1>2. PICK got \in Seq(Bytes), rx \in Seq(Bytes), out \in Seq(Bytes),
          offset \in Nat, count \in Nat, want \in Nat :
         /\ got = i.got /\ rx = k.rx /\ out = i.out
         /\ offset = i.offset /\ count = i.count /\ want = i.want
    BY DEF IicType, CtlType
<1>3. /\ link' = link /\ i.at = "taking" /\ i.todo = <<>> /\ want <= Len(Page)
      /\ Sized(k.tx, rx) /\ ctl \in [Cage -> CtlType]
    BY <1>1, <1>2 DEF I2c!TakeByte, I2c!At, IicInv
<1>4. CASE ~link
    <2>1. PICK more \in Seq(Bytes) : more = Append(got, Ones)
        BY Constants, AppendProperties
    <2>2. ctl' = ctl /\ iic' = I2c!Taken(more)
        BY <1>1, <1>2, <1>4, <2>1 DEF I2c!TakeByte
    <2>3. iic' \in IicType /\ iic'.want = want
        BY <1>1, <1>2, <2>2, TakenIs, Zenon
    <2> QED
        BY <1>3, <1>4, <2>2, <2>3, IicStays
<1>5. CASE link
    <2>1. PICK more, left : more = Append(got, Head(rx)) /\ left = Tail(rx)
        OBVIOUS
    <2>2. /\ OfPage(out, 0) /\ (out # <<>> => c \in board.seated)
          /\ Chunked(i) /\ Arriving(board.seated, k, i) /\ rx # <<>>
        BY <1>1, <1>2, <1>3, <1>5, Zenon DEF IicInv, Reading
    <2>3. PICK n \in Nat : n = Len(got) + Len(rx)
        OBVIOUS
    <2>4. /\ k.tx = <<>> /\ n <= count /\ Follow(got, rx, offset)
          /\ n > 0 => c \in board.seated
          /\ k.read # I2c!NoRead =>
                /\ c \in board.seated /\ n < count
                /\ k.read = [at |-> offset + n, left |-> count - n]
        BY <1>1, <1>2, <2>2, <2>3, Zenon DEF Arriving, Arrived, Follow
    <2>5. /\ more \in Seq(Bytes) /\ left \in Seq(Bytes)
          /\ Len(more) = Len(got) + 1 /\ Len(more) + Len(left) = n
          /\ Len(left) <= Len(rx) /\ Follow(more, left, offset)
        BY <2>1, <2>2, <2>3, <2>4, PageTaken, Zenon
    <2>6. PICK k2 \in CtlType : k2 = [k EXCEPT !.rx = left]
        BY <2>5 DEF CtlType
    <2>7. /\ k2.tx = <<>> /\ k2.rx = left /\ k2.read = k.read
        BY <2>4, <2>6 DEF CtlType
    <2>8. PICK i2 : i2 = I2c!Taken(more)
        OBVIOUS
    <2>9. iic' = i2 /\ ctl' = [ctl EXCEPT ![c] = k2]
        BY <1>1, <1>2, <1>5, <2>1, <2>6, <2>8 DEF I2c!TakeByte
    <2>10. i2 \in IicType /\ i2.cage = c /\ i2.want = want
        BY <1>1, <1>2, <2>5, <2>8, TakenIs, Zenon
    <2>11. Sized(k2.tx, k2.rx) /\ InTurn(ctl[c], k2)
        <3>1. Len(left) <= FIFO_DEPTH
            <4>1. Len(rx) <= FIFO_DEPTH
                BY <1>3, Zenon DEF Sized
            <4> QED
                BY <2>5, <4>1, Constants
        <3>2. Queue(<<>>)
            BY DEF Queue
        <3> QED
            BY <1>1, <2>7, <3>1, <3>2, InTurnSame, Zenon DEF Sized
    <2>12. /\ offset = Len(out) /\ offset + count <= want /\ Len(got) < count
        BY <1>2, <2>2, Zenon DEF Chunked
    <2>13. n > 0 /\ c \in board.seated /\ Len(more) <= count
        <3>1. Len(rx) > 0
            BY <2>2, EmptySeq
        <3>2. n > 0
            BY <2>3, <3>1
        <3>3. Len(more) <= count
            BY <2>5, <2>12
        <3> QED
            BY <2>4, <3>2, <3>3
    <2>14. Reading(board.seated, k2, i2)
        <3>1. CASE Len(more) < count
            <4>1. /\ i2.at = "receiving" /\ i2.got = more /\ i2.todo = <<>>
                  /\ i2.offset = offset /\ i2.count = count /\ i2.out = out
                BY <1>1, <1>2, <1>3, <2>5, <2>8, <3>1, TakenIs, ZenonT(60)
            <4>2. Arriving(board.seated, k2, i2)
                BY <2>4, <2>5, <2>7, <2>10, <4>1, Zenon DEF Arriving, Arrived, Follow
            <4>3. Chunked(i2)
                BY <2>10, <2>12, <3>1, <4>1, Zenon DEF Chunked
            <4>4. Rest(<<>>, Queued(offset, count))
                <5>1. PICK all : all = Queued(offset, count)
                    OBVIOUS
                <5>2. Len(all) = 4
                    BY <5>1, QueuedList, Zenon
                <5>3. Rest(<<>>, all)
                    BY <5>2 DEF Rest
                <5> QED
                    BY <5>1, <5>3
            <4> QED
                BY <2>2, <2>10, <4>1, <4>2, <4>3, <4>4, Zenon DEF Reading
        <3>2. PICK all \in Seq(Bytes) : all = out \o more
            BY <2>5, ConcatProperties
        <3>3. ASSUME ~(Len(more) < count)
              PROVE  /\ OfPage(all, 0)
                     /\ Len(all) <= want /\ Len(all) \in Nat
            <4>1. OfPage(more, Len(out))
                BY <2>5, <2>12, Zenon DEF Follow
            <4>2. OfPage(all, 0)
                BY <2>2, <2>5, <3>2, <4>1, PageJoined, Zenon
            <4>3. Len(all) = Len(out) + Len(more) /\ Len(out) \in Nat /\ Len(more) \in Nat
                <5>1. Len(out \o more) = Len(out) + Len(more)
                    BY <2>5, ConcatProperties, ZenonT(60)
                <5>2. Len(out) \in Nat /\ Len(more) \in Nat
                    BY <2>5
                <5> QED
                    BY <3>2, <5>1, <5>2, Zenon
            <4>4. Len(all) <= want
                BY <2>12, <2>13, <4>3
            <4> QED
                BY <4>2, <4>4
        <3>4. CASE ~(Len(more) < count) /\ Len(all) < want
            <4>1. PICK m \in Nat : m = want - Len(all) /\ m > 0
                <5>1. PICK n2 \in Nat : n2 = Len(all) /\ n2 < want
                    BY <3>4
                <5>2. want - n2 \in Nat /\ want - n2 > 0
                    BY <5>1
                <5> QED
                    BY <5>1, <5>2, Zenon
            <4>2. /\ i2.at = "settling" /\ i2.got = <<>> /\ i2.todo = I2c!reset
                  /\ i2.offset = Len(all) /\ i2.out = all /\ i2.count = I2c!Chunk(m)
                BY <1>1, <1>2, <2>5, <2>8, <3>2, <3>4, <4>1, TakenIs, ZenonT(60)
            <4>3. Chunked(i2)
                <5>1. PICK least \in Nat : least = I2c!Chunk(m) /\ least > 0 /\ least <= m
                    BY <4>1, ChunkFits
                <5>2. Len(all) + least <= want /\ Len(<<>>) < least
                    BY <4>1, <5>1
                <5> QED
                    BY <2>10, <4>2, <5>1, <5>2, Zenon DEF Chunked
            <4>4. /\ Rest(I2c!reset, I2c!reset)
                  /\ ~(Len(I2c!reset) < 4) /\ ~(Len(I2c!reset) < 2)
                <5>1. PICK list : list = I2c!reset
                    OBVIOUS
                <5>2. Len(list) = 4
                    BY <5>1, IicReset, Zenon
                <5>3. Rest(list, list) /\ ~(Len(list) < 4) /\ ~(Len(list) < 2)
                    BY <5>2 DEF Rest
                <5> QED
                    BY <5>1, <5>3, Zenon
            <4> QED
                BY <2>10, <2>13, <3>3, <3>4, <4>2, <4>3, <4>4, Zenon DEF Reading
        <3>5. CASE ~(Len(more) < count) /\ ~(Len(all) < want)
            <4>1. /\ i2.at = "returned" /\ i2.todo = <<>> /\ i2.out = all
                BY <1>1, <1>2, <1>3, <2>5, <2>8, <3>2, <3>5, TakenIs, Zenon
            <4>2. Len(all) = want
                BY <3>3, <3>5
            <4>3. Rest(<<>>, I2c!reset)
                <5>1. PICK list : list = I2c!reset
                    OBVIOUS
                <5>2. Len(list) = 4
                    BY <5>1, IicReset, Zenon
                <5>3. Rest(<<>>, list)
                    BY <5>2 DEF Rest
                <5> QED
                    BY <5>1, <5>3
            <4> QED
                BY <2>10, <2>13, <3>3, <3>5, <4>1, <4>2, <4>3, Zenon DEF Reading
        <3> QED
            BY <3>1, <3>4, <3>5
    <2>15. ctl'[c] = k2
        BY <1>3, <2>9
    <2> QED
        BY <1>3, <2>6, <2>9, <2>10, <2>11, <2>14, <2>15, IicMoves
<1> QED
    BY <1>4, <1>5

-----------------------------------------------------------------------------
(* The bus moves, whatever the driver is doing.                            *)
LEMMA BusMoves ==
    ASSUME IicInv, board' = board, link' = link, iic' = iic,
           NEW c \in Cage, NEW k2 \in CtlType, ctl' = [ctl EXCEPT ![c] = k2],
           Sized(k2.tx, k2.rx), k2.tx = ctl[c].tx \/ k2.tx = <<>>,
           iic.cage = c /\ Reading(board.seated, ctl[c], iic) => Reading(board.seated, k2, iic)
    PROVE  IicInv' /\ CtlOrder
<1>1. /\ ctl \in [Cage -> CtlType] /\ iic \in IicType /\ iic.want <= Len(Page)
      /\ iic.cage \in Cage
      /\ link => Reading(board.seated, ctl[iic.cage], iic)
    BY DEF IicInv, IicType
<1>2. InTurn(ctl[c], k2)
    BY <1>1, InTurnSame
<1>3. link => Reading(board.seated, ctl'[iic.cage], iic)
    <2>1. CASE iic.cage = c
        BY <1>1, <2>1
    <2>2. CASE iic.cage # c
        BY <1>1, <2>2
    <2> QED
        BY <2>1, <2>2
<1> QED
    BY <1>1, <1>2, <1>3, IicMoves

LEMMA IicAddressed ==
    ASSUME IicInv, NEW c \in Cage, I2c!Addressed(c), board' = board
    PROVE  IicInv' /\ CtlOrder
<1>1. PICK k \in CtlType, i \in IicType : k = ctl[c] /\ i = iic
    BY DEF IicInv
<1>2. PICK tx \in Seq(IicWords), rx \in Seq(Bytes) : tx = k.tx /\ rx = k.rx
    BY DEF CtlType
<1>3. /\ link' = link /\ iic' = iic /\ k.en /\ k.read = I2c!NoRead /\ Len(tx) = 4
      /\ ctl \in [Cage -> CtlType] /\ Sized(tx, rx)
    BY <1>1, <1>2 DEF I2c!Addressed, IicInv
<1>4. PICK at \in Nat, left \in Nat :
         /\ at = (IF k.held THEN Len(Page) ELSE tx[2].n)
         /\ left = tx[4].n
    <2>1. tx[2].n \in Nat /\ tx[4].n \in Nat
        <3>1. Queue(tx)
            BY <1>3, Zenon DEF Sized
        <3> QED
            BY <1>3, <3>1 DEF Queue
    <2>2. Len(Page) \in Nat
        BY Constants
    <2> QED
        BY <2>1, <2>2
<1>5. PICK read \in [at : Nat, left : Nat] :
         read = IF c \in board.seated THEN [at |-> at, left |-> left] ELSE I2c!NoRead
    <2>1. /\ [at |-> at, left |-> left] \in [at : Nat, left : Nat]
          /\ I2c!NoRead \in [at : Nat, left : Nat]
        BY DEF I2c!NoRead
    <2> QED
        BY <2>1, Zenon
<1>6. PICK k2 \in CtlType : k2 = [k EXCEPT !.tx = <<>>, !.read = read]
    <2>1. PICK none \in Seq(IicWords) : none = <<>>
        BY NoWord, Zenon
    <2>2. [k EXCEPT !.tx = none, !.read = read] \in CtlType
        BY DEF CtlType
    <2> QED
        BY <2>1, <2>2
<1>7. ctl' = [ctl EXCEPT ![c] = k2]
    BY <1>1, <1>2, <1>3, <1>4, <1>5, <1>6, Zenon DEF I2c!Addressed
<1>8. /\ k2.tx = <<>> /\ k2.rx = rx /\ k2.read = read /\ k2.en = k.en /\ k2.held = k.held
    BY <1>2, <1>6 DEF CtlType
<1>9. Sized(<<>>, rx)
    BY <1>3, SizedEmpty, Zenon
<1>10. ASSUME i.cage = c, Reading(board.seated, k, i) PROVE Reading(board.seated, k2, i)
    <2>0. Len(tx) = 4
        BY <1>3, Zenon
    <2>1. tx # <<>>
        <3>1. Len(<<>>) # 4
            OBVIOUS
        <3> QED
            BY <2>0, <3>1, Zenon
    <2>2. CASE i.at \in {"idle", "raised", "returned"}
        BY <1>10, <2>2 DEF Reading
    <2>3. CASE i.at = "settling"
        <3>1. ~(Len(i.todo) < 4)
            BY <1>2, <1>10, <2>1, <2>3, Zenon DEF Reading
        <3>2. ~(Len(i.todo) < 2)
            <4>1. PICK todo \in Seq(IicWrites) : todo = i.todo
                BY DEF IicType
            <4>2. ~(Len(todo) < 4) /\ Len(todo) \in Nat
                BY <3>1, <4>1
            <4>3. ~(Len(todo) < 2)
                BY <4>2
            <4> QED
                BY <4>1, <4>3
        <3> QED
            BY <1>10, <2>3, <3>1, <3>2, Zenon DEF Reading
    <2>4. CASE i.at = "receiving"
        <3>1. i.todo = <<>>
            <4>1. SUFFICES ASSUME i.todo # <<>> PROVE FALSE
                OBVIOUS
            <4>2. PICK todo \in Seq(IicWrites) : todo = i.todo
                BY DEF IicType
            <4>3. Len(tx) = 4 - Len(todo)
                BY <1>2, <1>10, <2>4, <4>1, <4>2, Zenon DEF Reading
            <4>4. todo # <<>>
                BY <4>1, <4>2
            <4>5. Len(todo) > 0
                BY <4>4, EmptySeq
            <4>6. PICK n \in Nat : n = Len(todo)
                OBVIOUS
            <4>7. 4 = 4 - n /\ n > 0
                BY <2>0, <4>3, <4>5, <4>6, Zenon
            <4> QED
                BY <4>7
        <3>2. Asked(k, i)
            BY <1>2, <1>10, <2>1, <2>4, <3>1, Zenon DEF Reading, Arriving, Arrived
        <3>3. PICK offset \in Nat, count \in Nat : offset = i.offset /\ count = i.count
            BY DEF IicType
        <3>4. /\ at = offset /\ left = count /\ rx = <<>> /\ i.got = <<>>
            BY <1>2, <1>4, <3>2, <3>3 DEF Asked, Quiet
        <3>5. count > 0
            <4>1. Len(<<>>) < count
                BY <1>10, <2>4, <3>3, <3>4, Zenon DEF Reading, Chunked
            <4> QED
                BY <4>1
        <3>6. Arrived(board.seated, k2, i, 0)
            <4>1. OfPage(<<>>, offset) /\ OfPage(<<>>, offset + Len(<<>>))
                BY DEF OfPage
            <4>2. 0 <= count /\ ~(0 > 0) /\ 0 < count /\ offset + 0 = offset /\ count - 0 = count
                BY <3>5
            <4>3. i.cage \in board.seated \/ read = I2c!NoRead
                BY <1>5, <1>10
            <4> QED
                BY <1>5, <1>8, <3>3, <3>4, <4>1, <4>2, <4>3, Zenon DEF Arrived
        <3>7. Arriving(board.seated, k2, i)
            <4>1. Len(<<>>) + Len(<<>>) = 0
                OBVIOUS
            <4>2. k2.rx = <<>> /\ i.got = <<>>
                BY <1>8, <3>4
            <4>3. Len(i.got) + Len(k2.rx) = 0
                <5>1. PICK a, b : a = i.got /\ b = k2.rx
                    OBVIOUS
                <5>2. a = <<>> /\ b = <<>>
                    BY <4>2, <5>1
                <5>3. Len(a) + Len(b) = 0
                    BY <5>2
                <5> QED
                    BY <5>1, <5>3, Zenon
            <4> QED
                BY <3>6, <4>3, Zenon DEF Arriving
        <3> QED
            BY <1>10, <2>4, <3>1, <3>7, Zenon DEF Reading
    <2>5. i.at # "taking"
        BY <1>2, <1>10, <2>1, Zenon DEF Reading, Arriving, Arrived
    <2> QED
        BY <2>2, <2>3, <2>4, <2>5 DEF IicType
<1> QED
    BY <1>1, <1>3, <1>7, <1>8, <1>9, <1>10, BusMoves

LEMMA PageGrows ==
    ASSUME NEW rx \in Seq(Bytes), NEW a \in Nat, OfPage(rx, a),
           NEW byte \in Bytes, byte = Page[a + Len(rx) + 1]
    PROVE  OfPage(Append(rx, byte), a)
<1>1. \A i \in 1 .. Len(rx) : rx[i] = Page[a + i]
    BY DEF OfPage
<1> DEFINE more == Append(rx, byte)
<1>2. /\ Len(rx) \in Nat /\ Len(more) = Len(rx) + 1
      /\ \A i \in 1 .. Len(rx) : more[i] = rx[i]
      /\ more[Len(rx) + 1] = byte
    BY AppendProperties
<1> HIDE DEF more
<1>3. \A i \in 1 .. Len(more) : more[i] = Page[a + i]
    <2>1. PICK n \in Nat : n = Len(rx)
        BY <1>2
    <2>2. ASSUME NEW i \in 1 .. n + 1 PROVE more[i] = Page[a + i]
        <3>1. CASE i \in 1 .. n
            BY <1>1, <1>2, <2>1, <3>1
        <3>2. CASE i = n + 1
            <4>1. a + n + 1 = a + i
                BY <2>1, <3>2
            <4> QED
                BY <1>2, <2>1, <3>2, <4>1
        <3> QED
            BY <2>1, <3>1, <3>2
    <2> QED
        BY <1>2, <2>1, <2>2
<1>4. OfPage(more, a)
    BY <1>3 DEF OfPage
<1> QED
    BY <1>4 DEF more

LEMMA IicReceives ==
    ASSUME IicInv, NEW c \in Cage, I2c!Receive(c), board' = board
    PROVE  IicInv' /\ CtlOrder
<1>1. PICK k \in CtlType, i \in IicType : k = ctl[c] /\ i = iic
    BY DEF IicInv
<1>2. PICK rx \in Seq(Bytes), tx \in Seq(IicWords), at \in Nat, left \in Nat,
          pirq \in 0 .. FIFO_DEPTH - 1 :
         /\ rx = k.rx /\ tx = k.tx /\ at = k.read.at /\ left = k.read.left /\ pirq = k.pirq
         /\ k.read = [at |-> at, left |-> left]
    BY DEF CtlType
<1>3. /\ link' = link /\ iic' = iic /\ left > 0 /\ Len(rx) <= pirq
      /\ ctl \in [Cage -> CtlType] /\ Sized(tx, rx) /\ i.want <= Len(Page)
    BY <1>1, <1>2 DEF I2c!Receive, IicInv
<1>4. PICK byte \in Bytes : byte = IF at < Len(Page) THEN Page[at + 1] ELSE Garbled
    <2>1. at < Len(Page) => Page[at + 1] \in Bytes
        <3>1. Page \in Seq(Bytes)
            BY Constants
        <3> QED
            BY <3>1, ElementOfSeq
    <2> QED
        BY <2>1, Constants
<1>5. PICK more \in Seq(Bytes) : more = Append(rx, byte)
    BY AppendProperties
<1>6. PICK read \in [at : Nat, left : Nat] :
         read = IF left = 1 THEN I2c!NoRead ELSE [at |-> at + 1, left |-> left - 1]
    <2>1. /\ left # 1 => [at |-> at + 1, left |-> left - 1] \in [at : Nat, left : Nat]
          /\ I2c!NoRead \in [at : Nat, left : Nat]
        <3>1. left # 1 => left - 1 \in Nat
            BY <1>3
        <3> QED
            BY <3>1 DEF I2c!NoRead
    <2> QED
        BY <2>1, Zenon
<1>7. PICK k2 \in CtlType : k2 = [k EXCEPT !.rx = more, !.read = read]
    BY DEF CtlType
<1>8. ctl' = [ctl EXCEPT ![c] = k2]
    BY <1>1, <1>2, <1>3, <1>4, <1>5, <1>6, <1>7, Zenon DEF I2c!Receive
<1>9. k2.tx = tx /\ k2.rx = more /\ k2.read = read /\ k2.en = k.en /\ k2.held = k.held
    BY <1>2, <1>7 DEF CtlType
<1>10. Len(more) = Len(rx) + 1
    BY <1>5, AppendProperties
<1>11. Sized(tx, more)
    <2>1. Len(more) <= FIFO_DEPTH
        <3>1. Len(rx) <= pirq
            BY <1>3, Zenon
        <3> QED
            BY <1>10, <3>1, Constants
    <2> QED
        BY <1>3, <2>1, Zenon DEF Sized
<1>12. k.read # I2c!NoRead
    <2>1. PICK none : none = I2c!NoRead
        OBVIOUS
    <2>2. none.left = 0
        BY <2>1 DEF I2c!NoRead
    <2> QED
        BY <1>2, <1>3, <2>1, <2>2
<1>13. ASSUME i.cage = c, Reading(board.seated, k, i) PROVE Reading(board.seated, k2, i)
    <2>1. ~Quiet(k)
        BY <1>12 DEF Quiet
    <2>2. CASE i.at \in {"idle", "raised", "returned"}
        BY <1>13, <2>2 DEF Reading
    <2>3. CASE i.at = "settling"
        <3>1. ~(Len(i.todo) < 4)
            BY <1>13, <2>1, <2>3, Zenon DEF Reading
        <3>2. ~(Len(i.todo) < 2)
            <4>1. PICK todo \in Seq(IicWrites) : todo = i.todo
                BY DEF IicType
            <4>2. ~(Len(todo) < 4) /\ Len(todo) \in Nat
                BY <3>1, <4>1
            <4>3. ~(Len(todo) < 2)
                BY <4>2
            <4> QED
                BY <4>1, <4>3
        <3> QED
            BY <1>13, <2>3, <3>1, <3>2, Zenon DEF Reading
    <2>4. ASSUME Chunked(i), Arriving(board.seated, k, i)
          PROVE  Arriving(board.seated, k2, i)
        <3>1. PICK got \in Seq(Bytes), out \in Seq(Bytes), offset \in Nat, count \in Nat,
                  want \in Nat :
                 /\ got = i.got /\ out = i.out /\ offset = i.offset /\ count = i.count
                 /\ want = i.want
            BY DEF IicType
        <3>2. PICK n \in Nat : n = Len(got) + Len(rx)
            OBVIOUS
        <3>3. Arrived(board.seated, k, i, n)
            BY <1>2, <2>4, <3>1, <3>2, Zenon DEF Arriving
        <3>4. /\ tx = <<>> /\ n < count /\ OfPage(got, offset)
              /\ OfPage(rx, offset + Len(got)) /\ c \in board.seated
              /\ k.read = [at |-> offset + n, left |-> count - n]
            BY <1>2, <1>12, <1>13, <3>1, <3>3, Zenon DEF Arrived
        <3>5. at = offset + n /\ left = count - n
            BY <1>2, <3>4
        <3>6. offset + count <= want /\ want <= Len(Page)
            BY <1>3, <2>4, <3>1, Zenon DEF Chunked
        <3>7. at < Len(Page) /\ at + 1 = offset + Len(got) + Len(rx) + 1
            <4>1. n < count
                BY <3>4, Zenon
            <4> QED
                BY <3>2, <3>5, <3>6, <4>1, Constants
        <3>8. OfPage(more, offset + Len(got))
            <4>1. byte = Page[offset + Len(got) + Len(rx) + 1]
                BY <1>4, <3>7
            <4>2. offset + Len(got) \in Nat
                OBVIOUS
            <4> QED
                BY <1>5, <3>4, <4>1, <4>2, PageGrows, Zenon
        <3>9. Len(got) + Len(more) = n + 1
            BY <1>10, <3>2
        <3>10. /\ n + 1 <= count
               /\ left # 1 => n + 1 < count
               /\ at + 1 = offset + (n + 1) /\ left - 1 = count - (n + 1)
            <4>1. n < count
                BY <3>4, Zenon
            <4> QED
                BY <3>5, <4>1
        <3>11. read # I2c!NoRead =>
                  n + 1 < count /\ read = [at |-> offset + (n + 1), left |-> count - (n + 1)]
            BY <1>6, <3>10, Zenon
        <3>12. Arrived(board.seated, k2, i, n + 1)
            BY <1>9, <1>13, <3>1, <3>4, <3>8, <3>10, <3>11, Zenon DEF Arrived
        <3> QED
            BY <1>9, <3>1, <3>9, <3>12, Zenon DEF Arriving
    <2>5. CASE i.at = "receiving"
        <3>1. i.todo = <<>> /\ Arriving(board.seated, k, i) /\ Chunked(i)
            BY <1>13, <2>1, <2>5, Zenon DEF Reading, Asked
        <3> QED
            BY <1>13, <2>4, <2>5, <3>1, Zenon DEF Reading
    <2>6. CASE i.at = "taking"
        <3>1. Arriving(board.seated, k, i) /\ Chunked(i)
            BY <1>13, <2>6, Zenon DEF Reading
        <3>2. more # <<>>
            <4>1. Len(more) # 0
                BY <1>10
            <4> QED
                BY <4>1, EmptySeq
        <3> QED
            BY <1>9, <1>13, <2>4, <2>6, <3>1, <3>2, Zenon DEF Reading
    <2> QED
        BY <2>2, <2>3, <2>5, <2>6 DEF IicType
<1> QED
    BY <1>1, <1>2, <1>3, <1>8, <1>9, <1>11, <1>13, BusMoves

LEMMA IicReleased ==
    ASSUME IicInv, NEW c \in Cage, I2c!ReleaseBus(c), board' = board
    PROVE  IicInv' /\ CtlOrder
<1>1. PICK k \in CtlType, i \in IicType : k = ctl[c] /\ i = iic
    BY DEF IicInv
<1>2. PICK k2 \in CtlType : k2 = [k EXCEPT !.held = FALSE]
    BY DEF CtlType
<1>3. /\ link' = link /\ iic' = iic /\ k.held
      /\ ctl \in [Cage -> CtlType] /\ Sized(k.tx, k.rx)
      /\ ctl' = [ctl EXCEPT ![c] = k2]
    BY <1>1, <1>2 DEF I2c!ReleaseBus, IicInv
<1>4. k2.tx = k.tx /\ k2.rx = k.rx /\ k2.read = k.read /\ k2.en = k.en
    BY <1>2 DEF CtlType
<1>5. ASSUME i.cage = c, Reading(board.seated, k, i) PROVE Reading(board.seated, k2, i)
    <2>1. Arriving(board.seated, k, i) => Arriving(board.seated, k2, i)
        BY <1>4 DEF Arriving, Arrived
    <2>2. Quiet(k) => Quiet(k2)
        BY <1>4 DEF Quiet
    <2>3. ~Asked(k, i)
        BY <1>3 DEF Asked
    <2>4. i.at = "receiving" => i.todo = <<>>
        BY <1>3, <1>5, Zenon DEF Reading
    <2> QED
        BY <1>4, <1>5, <2>1, <2>2, <2>3, <2>4, Zenon DEF Reading
<1> QED
    BY <1>1, <1>3, <1>4, <1>5, BusMoves

-----------------------------------------------------------------------------
(* The calls the program makes of the IIC driver.                          *)
LEMMA CagesAre ==
    ASSUME NEW j \in 1 .. Len(Cages) PROVE Cages[j] \in Cage
    BY DEF Cage

LEMMA UnusedIs ==
    /\ I2c!Unused \in IicType /\ I2c!Unused.at = "idle" /\ I2c!Unused.todo = <<>>
    /\ I2c!Unused.out = <<>> /\ I2c!Unused.want = 0
<1>1. PICK c \in Cage : c = CHOOSE x \in Cage : TRUE
    <2>1. Cages[1] \in Cage
        BY CagesAre, Constants
    <2> QED
        BY <2>1
<1>2. I2c!Unused = [at |-> "idle", cage |-> c, todo |-> <<>>, offset |-> 0, count |-> 0,
                    got |-> <<>>, want |-> 0, out |-> <<>>]
    BY <1>1 DEF I2c!Unused
<1>3. <<>> \in Seq(IicWrites) /\ <<>> \in Seq(Bytes)
    OBVIOUS
<1> QED
    BY <1>2, <1>3 DEF IicType

LEMMA ResetOnlyIs ==
    ASSUME NEW c \in Cage, NEW i, i = I2c!ResetOnly(c)
    PROVE  /\ i \in IicType /\ i.at = "returned" /\ i.cage = c /\ i.todo = I2c!reset
           /\ i.out = <<>> /\ i.want = 0
<1>1. PICK u \in IicType : u = I2c!Unused /\ u.out = <<>> /\ u.want = 0
    BY UnusedIs
<1>2. PICK todo \in Seq(IicWrites) : todo = I2c!reset
    BY IicReset, Zenon
<1>3. i = [u EXCEPT !.at = "returned", !.cage = c, !.todo = todo]
    BY <1>1, <1>2, Zenon DEF I2c!ResetOnly
<1>4. /\ i \in IicType /\ i.at = "returned" /\ i.cage = c /\ i.todo = todo
      /\ i.out = u.out /\ i.want = u.want
    BY <1>3 DEF IicType
<1> QED
    BY <1>1, <1>2, <1>4, Zenon

(* A call of read_bytes or responds, and the read it begins with.          *)
Called(c, want) == [I2c!Unused EXCEPT !.cage = c, !.want = want]
Bare(v, c, want) == v.cage = c /\ v.want = want /\ v.out = <<>>
Begun(i, v, offset, count) ==
    /\ i.at = "settling" /\ i.cage = v.cage
    /\ i.todo = I2c!reset /\ i.out = v.out /\ i.want = v.want
    /\ i.got = <<>> /\ i.offset = offset /\ i.count = count

LEMMA CallIs ==
    ASSUME NEW c \in Cage, NEW want \in Nat, NEW v, v = Called(c, want)
    PROVE  v \in IicType /\ Bare(v, c, want)
<1>1. PICK u \in IicType : u = I2c!Unused /\ u.out = <<>>
    BY UnusedIs
<1>2. v = [u EXCEPT !.cage = c, !.want = want]
    BY <1>1, Zenon DEF Called
<1>3. v \in IicType /\ v.cage = c /\ v.want = want /\ v.out = u.out
    BY <1>2 DEF IicType
<1> QED
    BY <1>1, <1>3, Zenon DEF Bare

LEMMA ReadIs ==
    ASSUME NEW v \in IicType, NEW offset \in Nat, NEW count \in Nat,
           NEW i, i = I2c!Read(v, offset, count)
    PROVE  i \in IicType /\ Begun(i, v, offset, count)
<1>1. PICK todo \in Seq(IicWrites) : todo = I2c!reset
    BY IicReset, Zenon
<1>2. PICK none \in Seq(Bytes) : none = <<>>
    BY NoByte, Zenon
<1>3. i = [v EXCEPT !.at = "settling", !.todo = todo,
              !.offset = offset, !.count = count, !.got = none]
    BY <1>1, <1>2, Zenon DEF I2c!Read
<1>4. /\ i \in IicType /\ i.at = "settling" /\ i.cage = v.cage /\ i.todo = todo
      /\ i.out = v.out /\ i.want = v.want /\ i.got = none /\ i.offset = offset
      /\ i.count = count
    BY <1>3, ZenonT(60) DEF IicType
<1> QED
    BY <1>1, <1>2, <1>4, Zenon DEF Begun

LEMMA FreshReads ==
    ASSUME NEW st, NEW k, NEW i \in IicType, i.out = <<>>,
           \/ i.at = "idle" /\ i.todo = <<>>
           \/ i.at = "returned" /\ i.todo = I2c!reset /\ i.want = 0
           \/ /\ i.at = "settling" /\ i.todo = I2c!reset /\ i.got = <<>>
              /\ i.offset = 0 /\ i.count > 0 /\ i.count <= i.want
    PROVE  Reading(st, k, i)
<1>1. OfPage(<<>>, 0) /\ Len(<<>>) = 0
    BY DEF OfPage
<1>2. PICK list : list = I2c!reset
    OBVIOUS
<1>3. Len(list) = 4
    BY <1>2, IicReset, Zenon
<1>4. Rest(list, list) /\ ~(Len(list) < 4) /\ ~(Len(list) < 2)
    BY <1>3 DEF Rest
<1>5. CASE i.at = "idle" /\ i.todo = <<>>
    BY <1>1, <1>5 DEF Reading
<1>6. CASE i.at = "returned" /\ i.todo = I2c!reset /\ i.want = 0
    BY <1>1, <1>2, <1>4, <1>6 DEF Reading
<1>7. CASE /\ i.at = "settling" /\ i.todo = I2c!reset /\ i.got = <<>>
           /\ i.offset = 0 /\ i.count > 0 /\ i.count <= i.want
    <2>1. PICK count \in Nat, want \in Nat : count = i.count /\ want = i.want
        BY DEF IicType
    <2>2. 0 + count <= want /\ 0 < count
        BY <1>7, <2>1
    <2>3. Chunked(i)
        BY <1>1, <1>7, <2>1, <2>2, Zenon DEF Chunked
    <2> QED
        BY <1>1, <1>2, <1>4, <1>7, <2>3, Zenon DEF Reading
<1> QED
    BY <1>5, <1>6, <1>7

LEMMA IicStarts ==
    ASSUME IicInv, board' = board, ctl' = ctl, NEW c \in Cage,
           iic' \in {I2c!Unused, I2c!ResetOnly(c), I2c!read_bytes(c, Len(Page)),
                     I2c!responds(c)}
    PROVE  IicInv' /\ CtlOrder /\ iic'.cage \in Cage
<1>1. PICK L \in Nat : L = Len(Page) /\ L > 0
    BY Constants
<1>2. /\ iic' \in IicType /\ iic'.want <= L
      /\ \A st, k : Reading(st, k, iic')
    <2>1. CASE iic' = I2c!Unused
        <3>1. PICK i : i = iic'
            OBVIOUS
        <3>2. /\ i \in IicType /\ i.out = <<>> /\ i.at = "idle" /\ i.todo = <<>> /\ i.want = 0
            BY <2>1, <3>1, UnusedIs, Zenon
        <3>3. i.want <= L
            BY <1>1, <3>2
        <3> QED
            BY <3>1, <3>2, <3>3, FreshReads, Zenon
    <2>2. CASE iic' = I2c!ResetOnly(c)
        <3>1. PICK i : i = iic'
            OBVIOUS
        <3>2. /\ i \in IicType /\ i.at = "returned" /\ i.cage = c /\ i.todo = I2c!reset
              /\ i.out = <<>> /\ i.want = 0
            BY <2>2, <3>1, ResetOnlyIs, Zenon
        <3>3. i.want <= L
            BY <1>1, <3>2
        <3> QED
            BY <3>1, <3>2, <3>3, FreshReads, Zenon
    <2>3. ASSUME NEW want \in Nat, NEW count \in Nat, want <= L, count > 0, count <= want,
                 iic' = I2c!Read(Called(c, want), 0, count)
          PROVE  /\ iic' \in IicType /\ iic'.want <= L
                 /\ \A st, k : Reading(st, k, iic')
        <3>1. PICK i : i = iic'
            OBVIOUS
        <3>2. /\ i \in IicType /\ i.at = "settling" /\ i.cage = c /\ i.todo = I2c!reset
              /\ i.out = <<>> /\ i.want = want /\ i.got = <<>> /\ i.offset = 0
              /\ i.count = count
            <4>1. PICK v : v = Called(c, want)
                OBVIOUS
            <4>2. v \in IicType /\ Bare(v, c, want)
                BY <4>1, CallIs, Zenon
            <4>3. PICK zero \in Nat : zero = 0
                OBVIOUS
            <4>4. i = I2c!Read(v, zero, count)
                BY <2>3, <3>1, <4>1, <4>3, Zenon
            <4>5. i \in IicType /\ Begun(i, v, zero, count)
                BY <4>2, <4>4, ReadIs, Zenon
            <4> QED
                BY <4>2, <4>3, <4>5, Zenon DEF Begun, Bare
        <3>3. \A st, k : Reading(st, k, i)
            BY <2>3, <3>2, FreshReads, Zenon
        <3> QED
            BY <2>3, <3>1, <3>2, <3>3, Zenon
    <2>4. CASE iic' = I2c!read_bytes(c, Len(Page))
        <3>1. PICK count \in Nat : count = I2c!Chunk(L) /\ count > 0 /\ count <= L
            BY <1>1, ChunkFits
        <3>2. iic' = I2c!Read(Called(c, L), 0, count)
            BY <1>1, <2>4, <3>1, Zenon DEF I2c!read_bytes, Called
        <3>3. L <= L
            OBVIOUS
        <3> QED
            BY <2>3, <3>1, <3>2, <3>3, Zenon
    <2>5. CASE iic' = I2c!responds(c)
        <3>1. PICK one \in Nat : one = 1
            OBVIOUS
        <3>2. one <= L /\ one > 0 /\ one <= one
            BY <1>1, <3>1
        <3>3. iic' = I2c!Read(Called(c, one), 0, one)
            BY <2>5, <3>1, Zenon DEF I2c!responds, Called
        <3> QED
            BY <2>3, <3>2, <3>3, Zenon
    <2> QED
        BY <2>1, <2>2, <2>4, <2>5
<1>3. iic'.cage \in Cage
    BY <1>2 DEF IicType
<1> QED
    BY <1>1, <1>2, <1>3, IicStays

LEMMA IicDrives ==
    ASSUME IicInv, I2c!Drive, board' = board
    PROVE  IicInv' /\ CtlOrder
    BY IicDriverWrites, IicDriverWaits, IicDriverPolls, IicDriverTakes, Zenon DEF I2c!Drive

LEMMA IicBus ==
    ASSUME IicInv, I2c!Bus, board' = board
    PROVE  IicInv' /\ CtlOrder
    BY IicAddressed, IicReceives, IicReleased, Zenon DEF I2c!Bus

LEMMA IicSame ==
    ASSUME IicInv, UNCHANGED <<ctl, iic, board>>, link' => link
    PROVE  IicInv' /\ CtlOrder
<1>1. iic' \in IicType /\ iic'.want <= Len(Page)
    BY DEF IicInv
<1>2. link' => Reading(board.seated, ctl[iic'.cage], iic')
    BY DEF IicInv
<1> QED
    BY <1>1, <1>2, IicStays

(* The cage the program is at, and the one after it.                       *)
LEMMA CageIs ==
    ASSUME Where, CagePart, prog.pc \in Visits
    PROVE  cage \in Cage /\ iic.cage = cage /\ Len(prog.report.cages) \in Nat
<1>1. PICK cages \in Seq(Found) : cages = prog.report.cages
    BY DEF Where, ProgType
<1>2. PICK n \in Nat : n = Len(cages)
    BY <1>1
<1>3. n < Len(Cages) /\ iic.cage = Cages[n + 1]
    BY <1>1, <1>2, Zenon DEF CagePart
<1>4. n + 1 \in 1 .. Len(Cages)
    BY <1>2, <1>3, Constants
<1>5. Cages[n + 1] \in Cage
    BY <1>4, CagesAre
<1> QED
    BY <1>1, <1>2, <1>3, <1>5, Zenon DEF cage

LEMMA NextCage ==
    ASSUME Where, NEW found \in Found, Printed(found)
    PROVE  \E c \in Cage : iic' \in {I2c!Unused, I2c!ResetOnly(c)}
<1>1. PICK cages \in Seq(Found) : cages = Append(prog.report.cages, found)
    BY AppendProperties DEF Where, ProgType
<1>2. PICK n \in Nat : n = Len(cages)
    BY <1>1
<1>3. iic' = IF n < Len(Cages) THEN I2c!ResetOnly(Cages[n + 1]) ELSE I2c!Unused
    BY <1>1, <1>2, Zenon DEF Printed
<1>4. CASE n < Len(Cages)
    <2>1. n + 1 \in 1 .. Len(Cages)
        BY <1>2, <1>4, Constants
    <2>2. Cages[n + 1] \in Cage
        BY <2>1, CagesAre
    <2> QED
        BY <1>3, <1>4, <2>2, Zenon
<1>5. CASE ~(n < Len(Cages))
    <2>1. Cages[1] \in Cage
        BY CagesAre, Constants
    <2> QED
        BY <1>3, <1>5, <2>1, Zenon
<1> QED
    BY <1>4, <1>5

LEMMA IicProgram ==
    ASSUME IicInv, Where, CagePart, Program, UNCHANGED board
    PROVE  IicInv' /\ CtlOrder
<1>1. link' = link /\ ctl' = ctl
    BY DEF Program, card, check_identity, report_flash, report_jedec, report_status,
          check_sideband, read_present, report_cage, report_empty, report_page
<1>2. CASE iic' = iic
    BY <1>1, <1>2, IicSame
<1>3. ASSUME NEW c \in Cage,
             iic' \in {I2c!Unused, I2c!ResetOnly(c), I2c!read_bytes(c, Len(Page)),
                       I2c!responds(c)}
      PROVE  IicInv' /\ CtlOrder
    BY <1>1, <1>3, IicStarts
<1>4. CASE read_present
    <2>1. Cages[1] \in Cage
        BY CagesAre, Constants
    <2>2. iic' = I2c!ResetOnly(Cages[1])
        BY <1>4 DEF read_present
    <2> QED
        BY <1>3, <2>1, <2>2, Zenon
<1>5. CASE report_cage
    <2>1. cage \in Cage
        BY <1>5, CageIs DEF report_cage, Visits
    <2>2. iic' = I2c!read_bytes(cage, Len(Page)) \/ iic' = I2c!responds(cage)
        BY <1>5, Zenon DEF report_cage
    <2> QED
        BY <1>3, <2>1, <2>2, Zenon
<1>6. ASSUME NEW found \in Found, Printed(found) PROVE IicInv' /\ CtlOrder
    <2>1. PICK c \in Cage : iic' \in {I2c!Unused, I2c!ResetOnly(c)}
        BY <1>6, NextCage
    <2> QED
        BY <1>3, <2>1, Zenon
<1>7. CASE report_empty
    <2>1. "empty" \in Found /\ (Fail \/ Printed("empty"))
        BY <1>7 DEF report_empty, Found
    <2> QED
        BY <1>2, <1>6, <2>1 DEF Fail
<1>8. CASE report_page
    <2>1. iic.out \in Found
        BY DEF IicInv, IicType, Found
    <2>2. Fail \/ Printed(iic.out)
        BY <1>8, Zenon DEF report_page
    <2> QED
        BY <1>2, <1>6, <2>1, <2>2 DEF Fail
<1>9. check_identity \/ report_flash \/ report_jedec \/ report_status \/ check_sideband
         => iic' = iic
    BY Zenon DEF check_identity, report_flash, report_jedec, report_status, check_sideband, Fail
<1> QED
    BY <1>2, <1>4, <1>5, <1>7, <1>8, <1>9 DEF Program

LEMMA IicNext ==
    ASSUME IicInv, Where, CagePart, [Next]_vars
    PROVE  IicInv' /\ CtlOrder
<1>1. CASE UNCHANGED board /\ (Spi!Drive \/ Spi!Shift) /\ UNCHANGED <<ctl, iic, prog>>
    <2>1. link' = link
        BY <1>1 DEF Spi!Drive, Spi!WriteReg, Spi!AwaitSent, Spi!Raise, Spi!Drain,
              Spi!ReadByte, Spi!Shift
    <2> QED
        BY <1>1, <2>1, IicSame
<1>2. CASE UNCHANGED board /\ I2c!Drive
    BY <1>2, IicDrives
<1>3. CASE UNCHANGED board /\ I2c!Bus
    BY <1>3, IicBus
<1>4. CASE UNCHANGED board /\ Program
    BY <1>4, IicProgram
<1>5. CASE UNCHANGED board /\ (Prompt \/ LoseLink)
    BY <1>5, IicSame DEF Prompt, LoseLink, card
<1>6. CASE UNCHANGED board /\ (Kill \/ Rerun)
    <2>1. Cages[1] \in Cage
        BY CagesAre, Constants
    <2>2. ctl' = ctl /\ board' = board /\ iic' = I2c!Unused
        BY <1>6 DEF Kill, Rerun, card
    <2>3. \A c \in Cage : IicInv' /\ CtlOrder
        BY <2>2, IicStarts, Zenon
    <2> QED
        BY <2>1, <2>3
<1>7. CASE UNCHANGED vars
    BY <1>7, IicSame DEF vars
<1> QED
    BY <1>1, <1>2, <1>3, <1>4, <1>5, <1>6, <1>7 DEF Next, Host, Drive, Devices

-----------------------------------------------------------------------------
(***************************************************************************)
(* The cages, as the program goes from one to the next.                    *)
(***************************************************************************)
CageStep == CagePart' /\ CagesSaid'

LEMMA IicDriverStep ==
    ASSUME IicInv, I2c!Drive
    PROVE  /\ iic.at \notin {"idle", "returned", "raised"} \/ iic.todo # <<>>
           /\ iic'.cage = iic.cage /\ iic'.want = iic.want
           /\ iic.at # "idle" => iic'.at # "idle"
           /\ iic.at = "returned" => iic'.at = "returned"
<1>1. PICK i \in IicType : i = iic
    BY DEF IicInv
<1>2. CASE I2c!WriteReg
    BY <1>1, <1>2 DEF IicType, I2c!WriteReg
<1>3. CASE I2c!_wait_idle
    BY <1>1, <1>3 DEF IicType, I2c!_wait_idle, I2c!Raise, I2c!At
<1>4. CASE I2c!PollRx
    BY <1>1, <1>4 DEF IicType, I2c!PollRx, I2c!Raise, I2c!At
<1>5. CASE I2c!TakeByte
    <2>1. iic.at = "taking"
        BY <1>5 DEF I2c!TakeByte, I2c!At
    <2>2. PICK more \in Seq(Bytes) : iic' = I2c!Taken(more)
        <3>1. PICK k \in CtlType : k = ctl[iic.cage]
            BY DEF IicInv, IicType
        <3>2. PICK rx \in Seq(Bytes), got \in Seq(Bytes) : rx = k.rx /\ got = iic.got
            BY <1>1 DEF IicType, CtlType
        <3>3. CASE link
            <4>1. iic' = I2c!Taken(Append(got, Head(rx)))
                BY <1>5, <3>1, <3>2, <3>3 DEF I2c!TakeByte
            <4>2. rx # <<>>
                BY <1>1, <1>5, <2>1, <3>1, <3>2, <3>3, Zenon DEF IicInv, Reading
            <4>3. Append(got, Head(rx)) \in Seq(Bytes)
                BY <4>2, HeadTailProperties, AppendProperties
            <4> QED
                BY <4>1, <4>3
        <3>4. CASE ~link
            <4>1. iic' = I2c!Taken(Append(got, Ones))
                BY <1>5, <3>1, <3>2, <3>4 DEF I2c!TakeByte
            <4>2. Append(got, Ones) \in Seq(Bytes)
                BY Constants, AppendProperties
            <4> QED
                BY <4>1, <4>2
        <3> QED
            BY <3>3, <3>4
    <2>3. PICK i2 : i2 = I2c!Taken(more)
        OBVIOUS
    <2>4. i2.cage = iic.cage /\ i2.want = iic.want
        BY <1>1, <2>3, TakenIs, Zenon
    <2>5. i2.at \in {"receiving", "settling", "returned"}
        BY <1>1, <2>3, TakenIs, Zenon
    <2> QED
        BY <2>1, <2>2, <2>3, <2>4, <2>5
<1> QED
    BY <1>2, <1>3, <1>4, <1>5 DEF I2c!Drive

LEMMA CagesDrive ==
    ASSUME IicInv, CagePart, CagesSaid, I2c!Drive, Elsewhere
    PROVE  CageStep
<1>1. prog' = prog /\ link' = link /\ board' = board
    BY DEF Elsewhere
<1>2. iic # I2c!Unused
    BY IicDriverStep, UnusedIs, Zenon
<1>3. prog.pc \in Visits
    BY <1>2, IicDriverStep DEF CagePart
<1>4. CagePart'
    BY <1>1, <1>2, <1>3, IicDriverStep, Zenon DEF CagePart, cage
<1> QED
    BY <1>1, <1>4, Zenon DEF CagesSaid, CageStep

(* Whatever leaves the cages' driver and the program where they are.       *)
LEMMA CagesWait ==
    ASSUME CagePart, CagesSaid, UNCHANGED <<iic, board, prog>>, link' => link
    PROVE  CageStep
<1>1. CagePart'
    BY Zenon DEF CagePart, cage
<1>2. CagesSaid'
    BY Zenon DEF CagesSaid
<1> QED
    BY <1>1, <1>2 DEF CageStep

(* Before the cages: their driver is not in use, no cage is reported.      *)
Before == {"identity", "flash", "jedec", "status", "sideband", "present", "prompt"}

LEMMA CagesBefore ==
    ASSUME Where, CagePart, prog.pc \in Before, UNCHANGED iic,
           prog'.pc \in Before \cup {"failed"}, prog'.report.cages = prog.report.cages
    PROVE  CageStep
<1>1. iic = I2c!Unused /\ prog.report.cages = <<>>
    BY DEF CagePart, Before, Visits
<1>2. iic.at = "idle" /\ iic.todo = <<>>
    BY <1>1, UnusedIs
<1>3. prog'.pc \notin Visits \cup {"passed", "page", "probe", "cage"}
    BY DEF Before, Visits
<1>4. iic' = iic
    OBVIOUS
<1>5. CagePart'
    BY <1>1, <1>2, <1>3, <1>4 DEF CagePart, Visits
<1>6. CagesSaid'
    BY <1>3 DEF CagesSaid
<1> QED
    BY <1>5, <1>6 DEF CageStep

LEMMA CagesFail ==
    ASSUME Where, CagePart, Fail, iic.at \in {"returned", "raised"}, iic.todo = <<>>
    PROVE  CageStep
<1>1. prog'.pc = "failed" /\ iic' = iic
    BY Goes_to DEF Fail, Pcs
<1> QED
    BY <1>1 DEF CagePart, CagesSaid, CageStep, Visits

LEMMA CagesBegin ==
    ASSUME Where, CagePart, read_present, UNCHANGED board
    PROVE  CageStep
<1>1. /\ prog'.pc = "cage" /\ prog'.report = prog.report /\ link' = link /\ board' = board
      /\ prog'.present = IF link THEN board.modprs ELSE {}
      /\ prog.pc = "present" /\ iic' = I2c!ResetOnly(Cages[1])
    BY PresentMoves DEF read_present, card
<1>2. PICK cages : cages = prog'.report.cages /\ cages = <<>>
    BY <1>1 DEF CagePart, Visits
<1>3. Len(cages) = 0 /\ 0 < Len(Cages) /\ Cages[Len(cages) + 1] = Cages[1]
    BY <1>2, Constants
<1>4. Cages[1] \in Cage
    BY CagesAre, Constants
<1>5. iic'.at = "returned" /\ iic'.cage = Cages[1]
    BY <1>1, <1>4, ResetOnlyIs, Zenon
<1>6. CagePart'
    BY <1>1, <1>2, <1>3, <1>5 DEF CagePart, Visits
<1>7. \A i \in 1 .. Len(cages) : FALSE
    BY <1>3
<1>8. CagesSaid'
    BY <1>1, <1>2, <1>7 DEF CagesSaid
<1> QED
    BY <1>6, <1>8 DEF CageStep

Asks(i, c, want) == i.at = "settling" /\ i.cage = c /\ i.want = want

LEMMA CallsAsk ==
    ASSUME NEW c \in Cage
    PROVE  /\ \A i : i = I2c!read_bytes(c, Len(Page)) =>
                  i.at = "settling" /\ i.cage = c /\ i.want = Len(Page)
           /\ \A i : i = I2c!responds(c) => i.at = "settling" /\ i.cage = c
<1>1. PICK zero \in Nat, one \in Nat, L \in Nat : zero = 0 /\ one = 1 /\ L = Len(Page)
    BY Constants
<1>2. ASSUME NEW want \in Nat, NEW count \in Nat, NEW i,
             i = I2c!Read(Called(c, want), zero, count)
      PROVE  Asks(i, c, want)
    <2>1. PICK v : v = Called(c, want)
        OBVIOUS
    <2>2. v \in IicType /\ Bare(v, c, want)
        BY <2>1, CallIs, Zenon
    <2>3. i = I2c!Read(v, zero, count)
        BY <1>2, <2>1, Zenon
    <2>4. Begun(i, v, zero, count)
        BY <2>2, <2>3, ReadIs, Zenon
    <2> QED
        BY <2>2, <2>4, Zenon DEF Begun, Bare, Asks
<1>3. ASSUME NEW i, i = I2c!read_bytes(c, Len(Page))
      PROVE  i.at = "settling" /\ i.cage = c /\ i.want = Len(Page)
    <2>1. PICK count \in Nat : count = I2c!Chunk(L)
        BY <1>1, ChunkFits, Constants
    <2>2. i = I2c!Read(Called(c, L), zero, count)
        BY <1>1, <1>3, <2>1, Zenon DEF I2c!read_bytes, Called
    <2>3. Asks(i, c, L)
        BY <1>2, <2>1, <2>2
    <2> QED
        BY <1>1, <2>3, Zenon DEF Asks
<1>4. ASSUME NEW i, i = I2c!responds(c)
      PROVE  i.at = "settling" /\ i.cage = c
    <2>1. i = I2c!Read(Called(c, one), zero, one)
        BY <1>1, <1>4, Zenon DEF I2c!responds, Called
    <2>2. Asks(i, c, one)
        BY <1>2, <2>1
    <2> QED
        BY <2>2, Zenon DEF Asks
<1> QED
    BY <1>3, <1>4, Zenon

LEMMA CagesAsk ==
    ASSUME Where, CagePart, CagesSaid, report_cage, UNCHANGED board
    PROVE  CageStep
<1>1. prog.pc = "cage" /\ link' = link /\ board' = board
    BY DEF report_cage, card
<1>2. cage \in Cage /\ iic.cage = cage
    BY <1>1, CageIs DEF Visits
<1>3. PICK L \in Nat : L = Len(Page)
    BY Constants
<1>4. ASSUME NEW pc \in {"page", "probe"}, Goto(pc),
             iic'.at = "settling", iic'.cage = cage,
             pc = "page" => cage \in prog.present /\ iic'.want = L,
             pc = "probe" => cage \notin prog.present
      PROVE  CageStep
    <2>1. prog'.pc = pc /\ prog'.report = prog.report /\ prog'.present = prog.present
        BY <1>4, Goes_to DEF Pcs
    <2>2. cage' = cage
        BY <2>1 DEF cage
    <2>3. CagePart'
        BY <1>1, <1>2, <1>3, <1>4, <2>1, <2>2 DEF CagePart, Visits
    <2>4. CagesSaid'
        BY <1>1, <1>4, <2>1 DEF CagesSaid, Visits
    <2> QED
        BY <2>3, <2>4 DEF CageStep
<1>5. CASE cage \in prog.present
    <2>1. Goto("page") /\ iic' = I2c!read_bytes(cage, Len(Page))
        BY <1>5 DEF report_cage
    <2>2. PICK c \in Cage : c = cage
        BY <1>2
    <2>3. iic'.at = "settling" /\ iic'.cage = c /\ iic'.want = L
        BY <1>3, <2>1, <2>2, CallsAsk, Zenon
    <2> QED
        BY <1>4, <1>5, <2>1, <2>2, <2>3
<1>6. CASE cage \notin prog.present
    <2>1. Goto("probe") /\ iic' = I2c!responds(cage)
        BY <1>6 DEF report_cage
    <2>2. PICK c \in Cage : c = cage
        BY <1>2
    <2>3. iic'.at = "settling" /\ iic'.cage = c
        BY <1>3, <2>1, <2>2, CallsAsk, Zenon
    <2> QED
        BY <1>4, <1>6, <2>1, <2>2, <2>3
<1> QED
    BY <1>5, <1>6

(* What is printed of a cage is true of it.                                *)
TrueOf(c, found) ==
    IF c \in board.modprs THEN c \in board.seated /\ found = Page ELSE found = "empty"

LEMMA CagesPrint ==
    ASSUME Where, CagePart, CagesSaid, prog.pc \in {"page", "probe"},
           NEW found \in Found, Printed(found), UNCHANGED <<link, board>>,
           link => TrueOf(cage, found)
    PROVE  CageStep
<1>1. PICK before \in Seq(Found) : before = prog.report.cages
    BY DEF Where, ProgType
<1>2. PICK n \in Nat, N \in Nat : n = Len(before) /\ N = Len(Cages)
    BY Constants
<1>3. n < N /\ cage = Cages[n + 1]
    BY <1>1, <1>2, Zenon DEF CagePart, cage, Visits
<1>4. PICK cages \in Seq(Found) : cages = Append(before, found)
    BY AppendProperties
<1>5. /\ Len(cages) = n + 1 /\ cages[n + 1] = found
      /\ \A i \in 1 .. n : cages[i] = before[i]
    BY <1>2, <1>4, AppendProperties
<1>6. /\ prog'.present = prog.present /\ prog'.report.cages = cages
      /\ prog'.pc = IF n + 1 < N THEN "cage" ELSE "passed"
    BY <1>1, <1>2, <1>4, <1>5, PrintMoves, Zenon
<1>7. iic' = IF n + 1 < N THEN I2c!ResetOnly(Cages[n + 2]) ELSE I2c!Unused
    <2>1. n + 1 + 1 = n + 2
        BY <1>2
    <2> QED
        BY <1>1, <1>2, <1>4, <1>5, <2>1, Zenon DEF Printed
<1>8. ASSUME n + 1 < N PROVE CagePart'
    <2>1. PICK c \in Cage : c = Cages[n + 2]
        BY <1>2, <1>8, CagesAre
    <2>2. iic'.at = "returned" /\ iic'.cage = c
        BY <1>7, <1>8, <2>1, ResetOnlyIs, Zenon
    <2>3. /\ prog'.pc = "cage" /\ Len(prog'.report.cages) < Len(Cages)
          /\ iic'.cage = Cages[Len(prog'.report.cages) + 1]
        <3>1. Len(prog'.report.cages) = n + 1 /\ n + 1 + 1 = n + 2
            BY <1>2, <1>5, <1>6
        <3> QED
            BY <1>2, <1>6, <1>8, <2>1, <2>2, <3>1, Zenon
    <2> QED
        BY <2>2, <2>3 DEF CagePart, Visits
<1>9. ASSUME ~(n + 1 < N) PROVE CagePart'
    <2>1. prog'.pc = "passed" /\ iic' = I2c!Unused
        BY <1>6, <1>7, <1>9, Zenon
    <2>2. Len(prog'.report.cages) = Len(Cages)
        BY <1>2, <1>3, <1>5, <1>6, <1>9
    <2> QED
        BY <2>1, <2>2 DEF CagePart, Visits
<1>10. CagesSaid'
    <2>1. SUFFICES ASSUME link
                   PROVE  /\ prog'.present = board'.modprs
                          /\ \A i \in 1 .. Len(prog'.report.cages) :
                               IF Cages[i] \in board'.modprs
                               THEN Cages[i] \in board'.seated
                                    /\ prog'.report.cages[i] = Page
                               ELSE prog'.report.cages[i] = "empty"
        BY DEF CagesSaid
    <2>2. /\ prog.present = board.modprs
          /\ \A i \in 1 .. n : TrueOf(Cages[i], before[i])
        BY <1>1, <1>2, <2>1, Zenon DEF CagesSaid, TrueOf, Visits
    <2>3. TrueOf(Cages[n + 1], cages[n + 1])
        BY <1>3, <1>5, <2>1, Zenon
    <2>4. ASSUME NEW i \in 1 .. n + 1 PROVE TrueOf(Cages[i], cages[i])
        <3>1. CASE i \in 1 .. n
            <4>1. TrueOf(Cages[i], before[i]) /\ cages[i] = before[i]
                BY <1>5, <2>2, <3>1
            <4> QED
                BY <4>1, Zenon
        <3>2. CASE i = n + 1
            BY <2>3, <3>2, Zenon
        <3> QED
            BY <1>2, <3>1, <3>2
    <2>5. board' = board
        OBVIOUS
    <2> QED
        BY <1>5, <1>6, <2>2, <2>4, <2>5, Zenon DEF TrueOf
<1> QED
    BY <1>8, <1>9, <1>10 DEF CageStep

LEMMA PageRead ==
    ASSUME NEW bytes \in Seq(Bytes), OfPage(bytes, 0), Len(bytes) = Len(Page)
    PROVE  bytes = Page
<1>1. PICK L \in Nat : L = Len(Page)
    BY Constants
<1>2. \A i \in 1 .. L : 0 + i = i
    BY <1>1
<1>3. \A i \in 1 .. L : bytes[i] = Page[i]
    BY <1>1, <1>2 DEF OfPage
<1> QED
    BY <1>1, <1>3, Constants

LEMMA CagesRead ==
    ASSUME IicInv, Where, CagePart, CagesSaid, report_page, UNCHANGED board
    PROVE  CageStep
<1>1. prog.pc = "page" /\ link' = link /\ iic.todo = <<>>
    BY DEF report_page, card, I2c!At
<1>2. CASE Fail
    BY <1>1, <1>2, CagesFail DEF report_page, I2c!At
<1>3. CASE ~Fail
    <2>1. PICK out \in Seq(Bytes) : out = iic.out
        BY DEF IicInv, IicType
    <2>2. iic.at = "returned" /\ Printed(out)
        BY <1>3, <2>1, Zenon DEF report_page, I2c!At
    <2>3. out \in Found
        BY DEF Found
    <2>4. cage \in prog.present /\ iic.want = Len(Page) /\ iic.cage = cage
        BY <1>1, CageIs DEF CagePart, Visits
    <2>5. ASSUME link PROVE TrueOf(cage, out)
        <3>1. cage \in board.modprs
            BY <1>1, <2>4, <2>5 DEF CagesSaid, Visits
        <3>2. OfPage(out, 0) /\ (out # <<>> => cage \in board.seated) /\ Len(out) = Len(Page)
            BY <2>1, <2>2, <2>4, <2>5, Zenon DEF IicInv, Reading
        <3>3. out = Page
            BY <3>2, PageRead, Zenon
        <3>4. Page # <<>>
            BY Constants
        <3> QED
            BY <3>1, <3>2, <3>3, <3>4, Zenon DEF TrueOf
    <2> QED
        BY <1>1, <2>2, <2>3, <2>5, CagesPrint
<1> QED
    BY <1>2, <1>3

LEMMA CagesProbe ==
    ASSUME IicInv, Where, CagePart, CagesSaid, report_empty, UNCHANGED board
    PROVE  CageStep
<1>1. prog.pc = "probe" /\ link' = link /\ iic.todo = <<>>
    BY DEF report_empty, card, I2c!At
<1>2. CASE Fail
    BY <1>1, <1>2, CagesFail DEF report_empty, I2c!At
<1>3. CASE ~Fail
    <2>1. Printed("empty") /\ "empty" \in Found
        BY <1>3 DEF report_empty, Found
    <2>2. cage \notin prog.present
        BY <1>1 DEF CagePart
    <2>3. ASSUME link PROVE TrueOf(cage, "empty")
        BY <1>1, <2>2, <2>3 DEF CagesSaid, Visits, TrueOf
    <2> QED
        BY <1>1, <2>1, <2>3, CagesPrint
<1> QED
    BY <1>2, <1>3

LEMMA CagesProgram ==
    ASSUME IicInv, Where, CagePart, CagesSaid, Program, UNCHANGED board
    PROVE  CageStep
<1>1. ASSUME Goto("flash") \/ Goto("jedec") \/ Goto("present") \/ Goto("failed"),
             prog.pc \in Before, UNCHANGED iic
      PROVE  CageStep
    <2>1. /\ prog'.pc \in {"flash", "jedec", "present", "failed"}
          /\ prog'.report = prog.report
        BY <1>1, Goes_to DEF Pcs
    <2> QED
        BY <1>1, <2>1, CagesBefore DEF Before
<1>2. CASE check_identity \/ report_flash \/ check_sideband
    BY <1>1, <1>2 DEF check_identity, report_flash, check_sideband, Before, Fail
<1>3. CASE report_jedec
    <2>1. CASE Fail
        BY <1>1, <1>3, <2>1 DEF report_jedec, Before, Fail
    <2>2. CASE ~Fail
        <3>1. PICK raw : raw = Tail(spi.got)
            OBVIOUS
        <3>2. /\ prog.pc = "jedec" /\ iic' = iic
              /\ prog' = [prog EXCEPT !.pc = "status", !.report.flash = raw]
            BY <1>3, <2>2, <3>1, Zenon DEF report_jedec
        <3>3. prog'.pc = "status" /\ prog'.report.cages = prog.report.cages
            BY <3>2 DEF Where, ProgType
        <3> QED
            BY <3>2, <3>3, CagesBefore DEF Before
    <2> QED
        BY <2>1, <2>2
<1>4. CASE report_status
    <2>1. CASE Fail
        BY <1>1, <1>4, <2>1 DEF report_status, Before, Fail
    <2>2. CASE ~Fail
        <3>1. PICK said : said = <<spi.got[2]>>
            OBVIOUS
        <3>2. /\ prog.pc = "status" /\ iic' = iic
              /\ prog' = [prog EXCEPT !.pc = "sideband", !.report.status = said]
            BY <1>4, <2>2, <3>1, Zenon DEF report_status
        <3>3. prog'.pc = "sideband" /\ prog'.report.cages = prog.report.cages
            BY <3>2 DEF Where, ProgType
        <3> QED
            BY <3>2, <3>3, CagesBefore DEF Before
    <2> QED
        BY <2>1, <2>2
<1> QED
    BY <1>2, <1>3, <1>4, CagesBegin, CagesAsk, CagesProbe, CagesRead, Zenon DEF Program

LEMMA CagesNext ==
    ASSUME IicInv, Where, CagePart, CagesSaid, [Next]_vars
    PROVE  CageStep
<1>1. CASE UNCHANGED board /\ (Spi!Drive \/ Spi!Shift) /\ UNCHANGED <<ctl, iic, prog>>
    <2>1. link' = link
        BY <1>1 DEF Spi!Drive, Spi!WriteReg, Spi!AwaitSent, Spi!Raise, Spi!Drain,
              Spi!ReadByte, Spi!Shift
    <2> QED
        BY <1>1, <2>1, CagesWait
<1>2. CASE UNCHANGED board /\ I2c!Drive /\ UNCHANGED <<core, spi, prog>>
    <2>1. link' = link
        BY <1>2 DEF I2c!Drive, I2c!WriteReg, I2c!_wait_idle, I2c!PollRx, I2c!TakeByte
    <2> QED
        BY <1>2, <2>1, CagesDrive DEF Elsewhere
<1>3. CASE UNCHANGED board /\ I2c!Bus /\ UNCHANGED <<core, spi, prog>>
    <2>1. link' = link /\ iic' = iic
        BY <1>3 DEF I2c!Bus, I2c!Addressed, I2c!Receive, I2c!ReleaseBus
    <2> QED
        BY <1>3, <2>1, CagesWait
<1>4. CASE UNCHANGED board /\ Program
    BY <1>4, CagesProgram
<1>5. CASE UNCHANGED board /\ Prompt
    <2>1. PICK n : n = prog.runs + 1
        OBVIOUS
    <2>2. prog.pc = "prompt" /\ iic' = iic /\ prog' = [prog EXCEPT !.runs = n]
        BY <1>5, <2>1, Zenon DEF Prompt
    <2>3. prog'.pc = "prompt" /\ prog'.report.cages = prog.report.cages
        BY <2>2 DEF Where, ProgType
    <2> QED
        BY <2>2, <2>3, CagesBefore DEF Before
<1>6. CASE UNCHANGED board /\ LoseLink
    BY <1>6, CagesWait DEF LoseLink
<1>7. CASE UNCHANGED board /\ Kill
    <2>1. prog'.pc = "killed" /\ iic' = I2c!Unused
        BY <1>7, Goes_to DEF Kill, Pcs
    <2> QED
        BY <2>1 DEF CagePart, CagesSaid, CageStep, Visits
<1>8. CASE UNCHANGED board /\ Rerun
    <2>1. PICK n : n = prog.runs + 1
        OBVIOUS
    <2>2. prog' = [Start EXCEPT !.runs = n] /\ iic' = I2c!Unused
        BY <1>8, <2>1, Zenon DEF Rerun
    <2>3. prog'.pc = "identity" /\ prog'.report.cages = <<>>
        BY <2>2 DEF Start, NoReport
    <2> QED
        BY <2>2, <2>3 DEF CagePart, CagesSaid, CageStep, Visits
<1>9. CASE UNCHANGED vars
    BY <1>9, CagesWait DEF vars
<1> QED
    BY <1>1, <1>2, <1>3, <1>4, <1>5, <1>6, <1>7, <1>8, <1>9 DEF Next, Host, Drive, Devices

-----------------------------------------------------------------------------
(***************************************************************************)
(* The invariant, and what follows from it.                                *)
(***************************************************************************)
LEMMA StartsQuiet ==
    /\ Spi!ResetCore \in CoreType /\ Released(Spi!ResetCore)
    /\ Fits(Spi!ResetCore.tx, Spi!ResetCore.rx)
    /\ \A h \in BOOLEAN : /\ I2c!ResetCtl(h) \in CtlType
                          /\ I2c!ResetCtl(h).tx = <<>> /\ I2c!ResetCtl(h).rx = <<>>
<1>1. Spi!ResetCore \in CoreType /\ Released(Spi!ResetCore)
    BY DEF Spi!ResetCore, CoreType, Released
<1>2. Fits(Spi!ResetCore.tx, Spi!ResetCore.rx)
    <2>1. Fits(<<>>, <<>>)
        BY DEF Fits
    <2>2. Spi!ResetCore.tx = <<>> /\ Spi!ResetCore.rx = <<>>
        BY DEF Spi!ResetCore
    <2> QED
        BY <2>1, <2>2, Zenon
<1>3. ASSUME NEW h \in BOOLEAN
      PROVE  /\ I2c!ResetCtl(h) \in CtlType
             /\ I2c!ResetCtl(h).tx = <<>> /\ I2c!ResetCtl(h).rx = <<>>
    <2>1. 0 \in 0 .. FIFO_DEPTH - 1
        BY Constants
    <2>2. I2c!NoRead \in [at : Nat, left : Nat]
        BY DEF I2c!NoRead
    <2> QED
        BY <2>1, <2>2 DEF I2c!ResetCtl, CtlType
<1> QED
    BY <1>1, <1>2, <1>3

LEMMA StartsInv == Init => IInv
<1> SUFFICES ASSUME Init PROVE IInv
    OBVIOUS
<1>1. /\ link = TRUE /\ board \in Boards
      /\ core = Spi!ResetCore /\ spi = Spi!Unused
      /\ ctl = [c \in Cage |-> I2c!ResetCtl(c \in board.held)] /\ iic = I2c!Unused
      /\ prog \in {Start, [Start EXCEPT !.pc = "prompt", !.runs = 0]}
    BY DEF Init
<1>2. SpiInv
    <2>1. Driven(board.flash, Spi!ResetCore, Spi!Unused)
        BY CallsAre, Zenon DEF Driven
    <2> QED
        BY <1>1, <2>1, StartsQuiet, CallsAre, Zenon DEF SpiInv
<1>3. IicInv
    <2>1. \A c \in Cage : ctl[c] = I2c!ResetCtl(c \in board.held) /\ (c \in board.held) \in BOOLEAN
        BY <1>1
    <2>2. \A c \in Cage : ctl[c] \in CtlType /\ ctl[c].tx = <<>> /\ ctl[c].rx = <<>>
        BY <2>1, StartsQuiet, Zenon
    <2>3. \A c \in Cage : Sized(ctl[c].tx, ctl[c].rx)
        BY <2>2, SizedEmpty, Zenon
    <2>4. ctl \in [Cage -> CtlType]
        BY <1>1, <2>2
    <2>5. I2c!Unused.want <= Len(Page)
        BY UnusedIs, Constants
    <2>6. \A st, k : Reading(st, k, I2c!Unused)
        BY UnusedIs, FreshReads, Zenon
    <2>7. /\ iic \in IicType /\ iic.want <= Len(Page)
          /\ Reading(board.seated, ctl[iic.cage], iic)
        BY <1>1, <2>5, <2>6, UnusedIs, ZenonT(60)
    <2> QED
        BY <2>3, <2>4, <2>7, Zenon DEF IicInv
<1>4. /\ prog \in ProgType /\ prog.pc \in {"identity", "prompt"}
      /\ prog.report.cages = <<>>
    <2>1. NoReport \in [flash : Seq(Bytes), status : Seq(Bytes), cages : Seq(Found)]
        BY DEF NoReport
    <2>2. 0 \in 0 .. MaxRuns /\ 1 \in 0 .. MaxRuns
        BY Constants
    <2>3. Start \in ProgType /\ [Start EXCEPT !.pc = "prompt", !.runs = 0] \in ProgType
        BY <2>1, <2>2 DEF Start, ProgType, Pcs
    <2>4. /\ Start.pc = "identity" /\ Start.report = NoReport
          /\ [Start EXCEPT !.pc = "prompt", !.runs = 0].pc = "prompt"
          /\ [Start EXCEPT !.pc = "prompt", !.runs = 0].report = NoReport
        BY DEF Start
    <2>5. NoReport.cages = <<>>
        BY DEF NoReport
    <2> QED
        BY <1>1, <2>3, <2>4, <2>5
<1>5. FlashPart
    BY <1>1, <1>4, StartsQuiet, CallsAre, Zenon DEF FlashPart, Shown
<1>6. FlashSaid /\ CagesSaid
    BY <1>4 DEF FlashSaid, CagesSaid, Shown, Visits
<1>7. CagePart
    BY <1>1, <1>4 DEF CagePart, Visits
<1> QED
    BY <1>1, <1>2, <1>3, <1>4, <1>5, <1>6, <1>7 DEF IInv, ProgInv

LEMMA KeepsInv ==
    ASSUME IInv, [Next]_vars
    PROVE  IInv' /\ InOrder(core, core') /\ CtlOrder
    BY FlashInv, FlashProgInv, IicNext, CagesNext
       DEF IInv, ProgInv, Where, FlashStep, CageStep

(* The inductive invariant: what each driver finds of its controller at    *)
(* each of its steps while the card answers, where the program stands, and *)
(* that what it has printed is true of the board.                          *)
THEOREM Invariant == Spec => []IInv
<1>1. IInv /\ [Next]_vars => IInv'
    BY KeepsInv
<1> QED
    BY StartsInv, <1>1, PTL DEF Spec

(* Every variable keeps its type, and no FIFO ever holds more than it can: *)
(* the driver asks for no more than the receive FIFO holds, and queues the *)
(* four words of a read on an empty transmit FIFO (i2c.py, qspi.py).       *)
THEOREM BoardTypes == Spec => []TypeOK
<1>1. IInv => TypeOK
    <2> SUFFICES ASSUME IInv PROVE TypeOK
        OBVIOUS
    <2>1. link \in BOOLEAN /\ board \in Boards /\ prog \in ProgType
        BY DEF IInv, ProgInv
    <2>2. prog.runs \in 0 .. MaxRuns /\ prog.present \subseteq Cage
        BY <2>1 DEF ProgType
    <2>3. /\ core.run \in BOOLEAN /\ core.sel \in BOOLEAN
          /\ core.rx \in Seq(Bytes) /\ spi.got \in Seq(Bytes)
        BY Zenon DEF IInv, SpiInv, CoreType, SpiType
    <2>4. Len(core.tx) + Len(core.rx) <= Len(Id) + 1
        <3>1. Fits(core.tx, core.rx)
            BY DEF IInv, SpiInv
        <3>2. Len(Id) + 1 = 4
            BY Constants
        <3> QED
            BY <3>1, <3>2, Zenon DEF Fits
    <2>5. iic.cage \in Cage /\ iic.out \in Seq(Bytes)
        BY DEF IInv, IicInv, IicType
    <2>6. ASSUME NEW c \in Cage
          PROVE  /\ ctl[c].rx \in Seq(Bytes) /\ Len(ctl[c].rx) <= FIFO_DEPTH
                 /\ Len(ctl[c].tx) <= 4
        <3>1. ctl[c] \in CtlType /\ Sized(ctl[c].tx, ctl[c].rx)
            BY DEF IInv, IicInv
        <3> QED
            BY <3>1, Zenon DEF CtlType, Sized, Queue
    <2> QED
        BY <2>1, <2>2, <2>3, <2>4, <2>5, <2>6, Zenon DEF TypeOK
<1> QED
    BY Invariant, <1>1, PTL

(* "Clock len(out) bytes out and return the len(out) bytes clocked in"     *)
(* (qspi.py): while the card answers, a transfer that returns has read     *)
(* what the flash answered to these bytes, whatever an earlier call or run *)
(* left in the FIFOs.                                                      *)
THEOREM FlashExact == Spec => []TransferExact
<1>1. IInv => TransferExact
    BY ExactTransfers DEF IInv
<1> QED
    BY Invariant, <1>1, PTL

(* A run that ends by itself leaves the flash deselected and its clock     *)
(* stopped, also one that gave up on a transfer (the finally of qspi.py).  *)
THEOREM FlashLetGo == Spec => []FlashReleased
<1>1. IInv => FlashReleased
    BY DEF IInv, ProgInv, FlashPart, FlashReleased, Shown, Released
<1> QED
    BY Invariant, <1>1, PTL

(* A run of test_board_mgmt.py that exits with status zero has printed the *)
(* identity and status of the flash that is there.                         *)
THEOREM FlashTrue == Spec => []FlashReportTrue
<1>1. IInv => FlashReportTrue
    BY DEF IInv, ProgInv, FlashSaid, FlashReportTrue, Shown
<1> QED
    BY Invariant, <1>1, PTL

(* And, if the link is still there, the contents of every module that the  *)
(* sideband announces, each byte in its place, and "empty" for every other *)
(* cage.                                                                   *)
THEOREM CagesTrue == Spec => []CageReportTrue
<1>1. IInv => CageReportTrue
    BY DEF IInv, ProgInv, CagePart, CagesSaid, CageReportTrue
<1> QED
    BY Invariant, <1>1, PTL

(* What the controllers demand of a driver (host/tests/test_protocols.py): *)
(* no step queues a byte for the flash while the clock runs, releases the  *)
(* clock without a slave and bytes, or queues a read on a controller that  *)
(* is disabled or busy.                                                    *)
THEOREM DriversInOrder == Spec => SequenceKept
<1> DEFINE A == /\ Len(core'.tx) > Len(core.tx) => ~core.run
                /\ ~core.run /\ core'.run => core.sel /\ core.tx # <<>>
                /\ \A c \in Cage : Len(ctl'[c].tx) > Len(ctl[c].tx) =>
                      ctl[c].en /\ ~ctl[c].held /\ ctl[c].read = I2c!NoRead
<1>1. IInv /\ [Next]_vars => [A]_vars
    <2>1. ASSUME IInv, [Next]_vars PROVE A
        BY <2>1, KeepsInv, Zenon DEF InOrder, CtlOrder, InTurn
    <2> QED
        BY <2>1
<1> QED
    BY Invariant, <1>1, PTL DEF Spec, SequenceKept

=============================================================================
