------------------------------ MODULE AxiBist ------------------------------
(***************************************************************************)
(* The memory test of one DDR4 channel                                     *)
(* (designs/02_ddr4_cal/rtl/axi_bist.v) and the AXI slave it drives.       *)
(*                                                                         *)
(* A step is a clock edge at which some register changes; one action per   *)
(* state of the machine.  The slave (the memory controller) is the         *)
(* environment: at each edge it chooses which handshake completes, and its *)
(* answers may be wrong in the ways listed in Faults.  Where a word lands  *)
(* is the function decode, fixed for the life of the board, so that a      *)
(* stuck or swapped address line is a choice of decode.                    *)
(***************************************************************************)
EXTENDS BistAddress, Sequences

CONSTANTS
    pattern(_),    \* the word written for an index
    Junk,          \* a word that is no index's pattern
    None,          \* a register or a slave queue that holds nothing
    CountModulus,  \* error_count counts modulo this (2^32)
    Cell,          \* the words of the DRAM
    Decodes,       \* where the board may send each tested address
    Contents,      \* what the DRAM may hold when it comes out of reset
    Faults         \* the transient faults that may occur, of FaultKinds

FaultKinds == {"badresp", "badread", "lostwrite"}

Word   == {pattern(i) : i \in Index} \cup {Junk}
States == {"S_IDLE", "S_WADDR", "S_WDATA", "S_WRESP", "S_RADDR", "S_RDATA",
           "S_DONE"}

ASSUME PatternAssumption ==
    /\ \A i, j \in Index : pattern(i) = pattern(j) => i = j
    /\ \A i \in Index : pattern(i) # Junk /\ pattern(i) # None
    /\ Junk # None /\ None \notin Nat

ASSUME CountAssumption == CountModulus \in Nat /\ CountModulus > 2 * NWords

ASSUME BoardAssumption ==
    /\ Decodes  \subseteq [Tested -> Cell]
    /\ Contents \subseteq [Cell -> Word]
    /\ Faults   \subseteq FaultKinds

VARIABLES
    state, index, aw_done, w_done,                \* the machine
    busy, done, pass, error_count, first_bad_addr,\* what it reports
    awaddr, awvalid, wdata, wvalid, araddr, arvalid, \* what it drives
    start,                                        \* the level that starts it
    slv_aw, slv_w, slv_ar,                        \* accepted by the slave
    mem, decode,                                  \* the DRAM and its wiring
    hits, lost                                    \* history of this test:
                                                  \* addresses at which a wrong
                                                  \* answer was given, and that
                                                  \* a write was not stored

machine == <<state, index, aw_done, w_done>>
report  == <<busy, done, pass, error_count, first_bad_addr>>
drive   == <<awaddr, awvalid, wdata, wvalid, araddr, arvalid>>
slave   == <<slv_aw, slv_w, slv_ar>>
vars    == <<machine, report, drive, start, slave, mem, decode, hits, lost>>

Init ==
    /\ state = "S_IDLE" /\ index = 0 /\ aw_done = FALSE /\ w_done = FALSE
    /\ busy = FALSE /\ done = FALSE /\ pass = FALSE
    /\ error_count = 0 /\ first_bad_addr = 0
    /\ awaddr = None /\ wdata = None /\ araddr = None
    /\ awvalid = FALSE /\ wvalid = FALSE /\ arvalid = FALSE
    /\ start = FALSE
    /\ slv_aw = None /\ slv_w = None /\ slv_ar = None
    /\ mem \in Contents /\ decode \in Decodes
    /\ hits = <<>> /\ lost = FALSE

-----------------------------------------------------------------------------
(* Mutant: both passes run one word too far.                               *)
Last_too_far == NWords

(* The index at which a pass ends.                                         *)
Last == NWords - 1

(* Mutant: the done of the last test is left standing.                     *)
StartTest_keeps_done ==
    /\ state = "S_IDLE" /\ start
    /\ state' = "S_WADDR" /\ index' = 0
    /\ busy' = TRUE /\ pass' = FALSE
    /\ error_count' = 0 /\ first_bad_addr' = 0
    /\ hits' = <<>> /\ lost' = FALSE
    /\ UNCHANGED <<done, aw_done, w_done, drive, start, slave, mem, decode>>

(* S_IDLE: the start level is looked at here and, to re-arm, in S_DONE.    *)
StartTest ==
    /\ state = "S_IDLE" /\ start
    /\ state' = "S_WADDR" /\ index' = 0
    /\ busy' = TRUE /\ done' = FALSE /\ pass' = FALSE
    /\ error_count' = 0 /\ first_bad_addr' = 0
    /\ hits' = <<>> /\ lost' = FALSE
    /\ UNCHANGED <<aw_done, w_done, drive, start, slave, mem, decode>>

(* Mutant: the flags of the previous word's handshakes are left standing.  *)
IssueWrite_stale_flags ==
    /\ state = "S_WADDR"
    /\ awaddr' = addr_of_index(index) /\ awvalid' = TRUE
    /\ wdata' = pattern(index) /\ wvalid' = TRUE
    /\ state' = "S_WDATA"
    /\ UNCHANGED <<aw_done, w_done, index, report, araddr, arvalid, start,
                   slave, mem, decode, hits, lost>>

(* S_WADDR: address and data are offered together.                         *)
IssueWrite ==
    /\ state = "S_WADDR"
    /\ awaddr' = addr_of_index(index) /\ awvalid' = TRUE
    /\ wdata' = pattern(index) /\ wvalid' = TRUE
    /\ aw_done' = FALSE /\ w_done' = FALSE
    /\ state' = "S_WDATA"
    /\ UNCHANGED <<index, report, araddr, arvalid, start, slave, mem, decode,
                   hits, lost>>

(* S_WDATA: each channel retires on its own handshake, in either order or  *)
(* at the same edge.                                                       *)
HandshakeWrite ==
    /\ state = "S_WDATA"
    /\ \E awready, wready \in BOOLEAN :
        LET aw == awvalid /\ awready
            w  == wvalid /\ wready
        IN  /\ aw \/ w
            /\ awvalid' = (awvalid /\ ~aw) /\ aw_done' = (aw_done \/ aw)
            /\ wvalid' = (wvalid /\ ~w)    /\ w_done' = (w_done \/ w)
            /\ slv_aw' = IF aw THEN awaddr ELSE slv_aw
            /\ slv_w'  = IF w THEN wdata ELSE slv_w
            /\ state'  = IF (aw_done \/ aw) /\ (w_done \/ w)
                         THEN "S_WRESP" ELSE "S_WDATA"
    /\ UNCHANGED <<index, report, awaddr, wdata, araddr, arvalid, start,
                   slv_ar, mem, decode, hits, lost>>

(* Mutants: a counter one bit wide; the address of the last mismatch.      *)
CountError_wraps(bad) ==
    /\ error_count' = IF bad THEN (error_count + 1) % 2 ELSE error_count
    /\ first_bad_addr' = IF bad /\ error_count = 0 THEN addr_of_index(index)
                                                   ELSE first_bad_addr
CountError_keeps_last(bad) ==
    /\ error_count' = IF bad THEN (error_count + 1) % CountModulus
                             ELSE error_count
    /\ first_bad_addr' = IF bad THEN addr_of_index(index) ELSE first_bad_addr

(* The bookkeeping S_WRESP and S_RDATA share: count a mismatch and keep    *)
(* the address of the first one.                                           *)
CountError(bad) ==
    /\ error_count' = IF bad THEN (error_count + 1) % CountModulus
                             ELSE error_count
    /\ first_bad_addr' = IF bad /\ error_count = 0 THEN addr_of_index(index)
                                                   ELSE first_bad_addr

(* S_WRESP: the slave answers a write it has both halves of.  It may       *)
(* answer with an error, and it may fail to store the word.                *)
WriteResponse ==
    /\ state = "S_WRESP" /\ slv_aw # None /\ slv_w # None
    /\ \E okay, stored \in BOOLEAN :
        /\ okay \/ "badresp" \in Faults
        /\ stored \/ "lostwrite" \in Faults
        /\ CountError(~okay)
        /\ mem'  = IF stored THEN [mem EXCEPT ![decode[slv_aw]] = slv_w]
                             ELSE mem
        /\ hits' = IF okay THEN hits ELSE Append(hits, slv_aw)
        /\ lost' = (lost \/ ~stored)
    /\ index' = IF index = Last THEN 0 ELSE index + 1
    /\ state' = IF index = Last THEN "S_RADDR" ELSE "S_WADDR"
    /\ slv_aw' = None /\ slv_w' = None
    /\ UNCHANGED <<aw_done, w_done, busy, done, pass, drive, start, slv_ar,
                   decode>>

IssueRead ==
    /\ state = "S_RADDR"
    /\ araddr' = addr_of_index(index) /\ arvalid' = TRUE
    /\ state' = "S_RDATA"
    /\ UNCHANGED <<index, aw_done, w_done, report, awaddr, awvalid, wdata,
                   wvalid, start, slave, mem, decode, hits, lost>>

(* S_RDATA, first half: the slave takes the address.                       *)
AcceptRead ==
    /\ state = "S_RDATA" /\ arvalid
    /\ arvalid' = FALSE /\ slv_ar' = araddr
    /\ UNCHANGED <<machine, report, awaddr, awvalid, wdata, wvalid, araddr,
                   start, slv_aw, slv_w, mem, decode, hits, lost>>

(* S_RDATA, second half: the slave returns what the addressed cell holds,  *)
(* or a word corrupted on the way, with or without an error response.      *)
ReadBeat ==
    /\ state = "S_RDATA" /\ slv_ar # None
    /\ \E okay, clean \in BOOLEAN :
        LET rdata == IF clean THEN mem[decode[slv_ar]] ELSE Junk
        IN  /\ okay \/ "badresp" \in Faults
            /\ clean \/ "badread" \in Faults
            /\ CountError(rdata # pattern(index) \/ ~okay)
            /\ hits' = IF okay /\ clean THEN hits ELSE Append(hits, slv_ar)
    /\ index' = IF index = Last THEN index ELSE index + 1
    /\ state' = IF index = Last THEN "S_DONE" ELSE "S_RADDR"
    /\ slv_ar' = None
    /\ UNCHANGED <<aw_done, w_done, busy, done, pass, drive, start, slv_aw,
                   slv_w, mem, decode, lost>>

(* S_DONE: the verdict; the machine re-arms when the level has dropped.    *)
FinishTest ==
    /\ state = "S_DONE"
    /\ busy' = FALSE /\ done' = TRUE /\ pass' = (error_count = 0)
    /\ state' = IF start THEN "S_DONE" ELSE "S_IDLE"
    /\ UNCHANGED <<index, aw_done, w_done, error_count, first_bad_addr, drive,
                   start, slave, mem, decode, hits, lost>>

(* rst = ui_rst || !calib_complete: the controller is reset with the test  *)
(* and recalibrates, after which the DRAM holds anything in Contents.      *)
Reset ==
    /\ state' = "S_IDLE" /\ index' = 0 /\ aw_done' = FALSE /\ w_done' = FALSE
    /\ busy' = FALSE /\ done' = FALSE /\ pass' = FALSE
    /\ error_count' = 0 /\ first_bad_addr' = 0
    /\ awvalid' = FALSE /\ wvalid' = FALSE /\ arvalid' = FALSE
    /\ slv_aw' = None /\ slv_w' = None /\ slv_ar' = None
    /\ mem' \in Contents
    /\ hits' = <<>> /\ lost' = FALSE
    /\ UNCHANGED <<awaddr, wdata, araddr, start, decode>>

(* The operator's level, synchronised, changes whenever it likes.          *)
SetStart ==
    /\ start' = ~start
    /\ UNCHANGED <<machine, report, drive, slave, mem, decode, hits, lost>>

Clocked == \/ StartTest \/ IssueWrite \/ HandshakeWrite \/ WriteResponse
           \/ IssueRead \/ AcceptRead \/ ReadBeat \/ FinishTest

Next == Clocked \/ Reset \/ SetStart

Spec == Init /\ [][Next]_vars

(* The clock runs, and the controller accepts and answers every request    *)
(* in the end; nothing is assumed of the operator or of resets.            *)
FairSpec == Spec /\ WF_vars(Clocked)

-----------------------------------------------------------------------------
(***************************************************************************)
(* Properties.                                                             *)
(***************************************************************************)

(* What each register, the slave and the DRAM may hold.                    *)
TypeOK ==
    /\ state \in States /\ index \in Index
    /\ aw_done \in BOOLEAN /\ w_done \in BOOLEAN
    /\ busy \in BOOLEAN /\ done \in BOOLEAN /\ pass \in BOOLEAN
    /\ error_count \in 0 .. CountModulus - 1
    /\ first_bad_addr \in Tested \cup {0}
    /\ awaddr \in Tested \cup {None} /\ araddr \in Tested \cup {None}
    /\ wdata \in Word \cup {None}
    /\ awvalid \in BOOLEAN /\ wvalid \in BOOLEAN /\ arvalid \in BOOLEAN
    /\ start \in BOOLEAN
    /\ slv_aw \in Tested \cup {None} /\ slv_ar \in Tested \cup {None}
    /\ slv_w \in Word \cup {None}
    /\ mem \in [Cell -> Word] /\ decode \in Decodes
    /\ hits \in Seq(Tested \cup {None}) /\ lost \in BOOLEAN

Injective(d) == \A a, b \in Tested : d[a] = d[b] => a = b

(* On a sound channel -- no two tested addresses on one cell -- a test in  *)
(* which nothing went wrong reports no error: neither walk overwrites what *)
(* the other is about to read back (the comment on DENSE_BASE).            *)
Sound == Injective(decode) /\ hits = <<>> /\ ~lost
NoFalseFailure == Sound => error_count = 0 /\ (done => pass)

(* A pass is evidence: every wrong answer of this test was noticed, no two *)
(* tested addresses share a cell, and every cell holds its own pattern     *)
(* ("a read returning the wrong location's data fails rather than passing  *)
(* by coincidence").                                                       *)
PassSound ==
    pass => /\ hits = <<>>
            /\ Injective(decode)
            /\ \A i \in Index : mem[decode[addr_of_index(i)]] = pattern(i)

(* error_count and first_bad_addr are those of this test and of no earlier *)
(* one: no wrong answer is missed, and when answers are all that can go    *)
(* wrong the count is exact and the address is that of the first.          *)
ErrorReport ==
    /\ error_count >= Len(hits)
    /\ Injective(decode) /\ ~lost =>
        /\ error_count = Len(hits)
        /\ first_bad_addr = IF hits = <<>> THEN 0 ELSE hits[1]

(* A request is offered only in the state that watches its handshake, and  *)
(* the slave can answer only while the machine is listening: bready and    *)
(* rready are tied high, so an answer at any other time would be lost.     *)
HandshakesWatched ==
    /\ awvalid \/ wvalid => state = "S_WDATA"
    /\ arvalid => state = "S_RDATA" /\ slv_ar = None
    /\ slv_aw # None => ~awvalid /\ aw_done
    /\ slv_w # None => ~wvalid /\ w_done
    /\ slv_aw # None /\ slv_w # None => state = "S_WRESP"
    /\ slv_ar # None => state = "S_RDATA"

(* AXI: what a request offers does not change until it is accepted, and it *)
(* is withdrawn only by its acceptance or by a reset.                      *)
BusStable ==
    [][/\ awvalid => \/ awvalid' /\ awaddr' = awaddr
                     \/ ~awvalid' /\ slv_aw' = awaddr
                     \/ Reset
       /\ wvalid  => \/ wvalid' /\ wdata' = wdata
                     \/ ~wvalid' /\ slv_w' = wdata
                     \/ Reset
       /\ arvalid => \/ arvalid' /\ araddr' = araddr
                     \/ ~arvalid' /\ slv_ar' = araddr
                     \/ Reset]_vars

(* While done stays up nothing that is read out with it changes: this is   *)
(* what lets ddr4_cal_top capture the wide values without a synchroniser.  *)
VerdictStable ==
    [][done /\ done' => UNCHANGED <<pass, error_count, first_bad_addr>>]_vars

(* A test that has begun ends, whatever the operator does with the level.  *)
TestTerminates == busy ~> ~busy

(***************************************************************************)
(* What the machine looks like from outside: testing lasts until the edge  *)
(* at which the verdict appears, one edge after S_DONE is entered.         *)
(***************************************************************************)
phase == CASE state = "S_IDLE" -> "idle"
           [] state # "S_IDLE" /\ busy -> "testing"
           [] state # "S_IDLE" /\ ~busy -> "over"

Port == INSTANCE BistPort WITH MaxErrors <- 2 * NWords, Addr <- Tested

(* The machine implements the port, whatever the memory does.              *)
ImplementsPort == Port!Spec
=============================================================================
