------------------------------ MODULE Ddr4Cal ------------------------------
(***************************************************************************)
(* The DDR4 bring-up design (designs/02_ddr4_cal/rtl/ddr4_cal_top.v) and   *)
(* the script that qualifies a board with it (tools/check_ddr4_bist.tcl).  *)
(*                                                                         *)
(* Each channel's memory test runs in its own ui_clk domain, seen here     *)
(* through BistPort.  The VIO and the synchronisers run on sysclk: one     *)
(* SysEdge samples every channel.  A source that changed since the last    *)
(* edge may be caught before or after the change, each bit on its own, so  *)
(* signals that change together can arrive one edge apart, and a wide      *)
(* value caught while it changes is Torn: a number it never held.          *)
(*                                                                         *)
(* JTAG is slow: between two operations of the script the level reaches    *)
(* the tests, they act on it, and JtagEdges sysclk edges pass.             *)
(***************************************************************************)
EXTENDS Integers

CONSTANTS Channel,     \* the memory channels
          MaxErrors,   \* bound on the errors of one test
          Torn,        \* a captured value that never existed
          JtagEdges,   \* sysclk edges between two operations over JTAG
          UpsetSets    \* the kinds of upset that may happen together

UpsetKinds == {"error", "ecc", "lost"}

ASSUME CalAssumption ==
    /\ MaxErrors \in Nat /\ Torn \notin Nat
    /\ JtagEdges \in Nat /\ JtagEdges >= 3
    /\ UpsetSets \subseteq SUBSET UpsetKinds

Flag  == {"calib", "done", "pass", "busy", "ecc"}
Flags == [Flag -> BOOLEAN]

VARIABLES
    upsets,       \* what may happen to a channel, chosen once
    calib,        \* init_calib_complete, per channel
    bist,         \* the port of the channel's memory test
    ecc_latched,
    start_sync,   \* the start level as the channel sees it; the flops only
                  \* delay it
    q,            \* the two flops of each status flag, per channel
    last,         \* what the flags and errors were at the last sysclk edge
    errors_cap,   \* the captured error count
    vio_start,
    pc, edges,    \* the script, and sysclk edges since its last level arrived
    mark, disturbed   \* history, explained below

top    == <<calib, bist, ecc_latched, start_sync>>
read   == <<q, last, errors_cap>>
vars   == <<upsets, top, read, vio_start, pc, edges, mark, disturbed>>

Off == [c \in Channel |-> FALSE]
Fresh == [phase |-> "idle", busy |-> FALSE, done |-> FALSE, pass |-> FALSE,
          errors |-> 0]
Low  == [f \in Flag |-> FALSE]

(* The flags of a channel as they stand in its own domain.                 *)
status(c) == [calib |-> calib[c], done |-> bist[c].done, pass |-> bist[c].pass,
              busy |-> bist[c].busy, ecc |-> ecc_latched[c]]

(* Just programmed: configuration has initialised every flop.              *)
Init ==
    /\ upsets \in UpsetSets
    /\ calib = Off /\ ecc_latched = Off /\ start_sync = Off
    /\ bist = [c \in Channel |-> Fresh]
    /\ q = [c \in Channel |-> <<Low, Low>>]
    /\ last = [c \in Channel |-> [flags |-> Low, errors |-> 0]]
    /\ errors_cap = [c \in Channel |-> 0]
    /\ vio_start = FALSE
    /\ pc = "off" /\ edges = 0
    /\ mark = [c \in Channel |-> "none"] /\ disturbed = {}

-----------------------------------------------------------------------------
(* A channel.  History: mark is "running" while a test begun after the     *)
(* script raised start has met neither an error nor an ECC event, and      *)
(* "clean" once one has ended so; disturbed is what has happened to any    *)
(* channel since the script raised start.                                  *)
Watching == pc \in {"poll", "final"}
Disturb(kind) == disturbed' = IF Watching THEN disturbed \cup {kind}
                                          ELSE disturbed
Mark(c, m) == mark' = [mark EXCEPT ![c] = IF @ = "clean" THEN @ ELSE m]

bist_start(c) == start_sync[c] /\ calib[c]

(* Mutant: a test begins again without the level having fallen.            *)
Begin_retriggers(c) ==
    /\ bist[c].phase # "testing" /\ bist_start(c)
    /\ bist' = [bist EXCEPT ![c] = [Fresh EXCEPT !.phase = "testing",
                                                 !.busy = TRUE]]
    /\ Mark(c, IF Watching THEN "running" ELSE "none")
    /\ UNCHANGED <<calib, ecc_latched, start_sync, read, vio_start, pc, edges,
                   disturbed>>

Begin(c) ==
    /\ bist[c].phase = "idle" /\ bist_start(c)
    /\ bist' = [bist EXCEPT ![c] = [Fresh EXCEPT !.phase = "testing",
                                                 !.busy = TRUE]]
    /\ Mark(c, IF Watching THEN "running" ELSE "none")
    /\ UNCHANGED <<calib, ecc_latched, start_sync, read, vio_start, pc, edges,
                   disturbed>>

Mismatch(c) ==
    /\ "error" \in upsets
    /\ bist[c].phase = "testing" /\ bist[c].errors < MaxErrors
    /\ bist' = [bist EXCEPT ![c].errors = @ + 1]
    /\ Disturb("error") /\ Mark(c, "none")
    /\ UNCHANGED <<calib, ecc_latched, start_sync, read, vio_start, pc, edges>>

Verdict(c) ==
    /\ bist[c].phase = "testing"
    /\ bist' = [bist EXCEPT ![c].busy = FALSE, ![c].done = TRUE,
                            ![c].pass = (bist[c].errors = 0),
                            ![c].phase = IF bist_start(c) THEN "over"
                                                          ELSE "idle"]
    /\ Mark(c, IF mark[c] = "running" THEN "clean" ELSE "none")
    /\ UNCHANGED <<calib, ecc_latched, start_sync, read, vio_start, pc, edges,
                   disturbed>>

Rearm(c) ==
    /\ bist[c].phase = "over" /\ ~bist_start(c)
    /\ bist' = [bist EXCEPT ![c].phase = "idle"]
    /\ UNCHANGED <<calib, ecc_latched, start_sync, read, vio_start, pc, edges,
                   mark, disturbed>>

(* The level crosses into the channel's domain.                            *)
ShiftStart(c) ==
    /\ start_sync[c] # vio_start
    /\ start_sync' = [start_sync EXCEPT ![c] = vio_start]
    /\ UNCHANGED <<calib, bist, ecc_latched, read, vio_start, pc, edges, mark,
                   disturbed>>

Calibrate(c) ==
    /\ ~calib[c]
    /\ calib' = [calib EXCEPT ![c] = TRUE]
    /\ UNCHANGED <<bist, ecc_latched, start_sync, read, vio_start, pc, edges,
                   mark, disturbed>>

(* Calibration is lost, or the whole channel is reset: either resets the   *)
(* test, only the second clears the ECC latch.                             *)
LoseChannel(c) ==
    /\ "lost" \in upsets /\ calib[c]
    /\ calib' = [calib EXCEPT ![c] = FALSE]
    /\ bist' = [bist EXCEPT ![c] = Fresh]
    /\ ecc_latched' \in {ecc_latched, [ecc_latched EXCEPT ![c] = FALSE]}
    /\ Disturb("lost") /\ Mark(c, "none")
    /\ UNCHANGED <<start_sync, read, vio_start, pc, edges>>

(* The controller pulses its interrupt line; the latch holds it.           *)
EccEvent(c) ==
    /\ "ecc" \in upsets /\ ~ecc_latched[c]
    /\ ecc_latched' = [ecc_latched EXCEPT ![c] = TRUE]
    /\ Disturb("ecc") /\ Mark(c, "none")
    /\ UNCHANGED <<calib, bist, start_sync, read, vio_start, pc, edges>>

-----------------------------------------------------------------------------
(* One sysclk edge for all channels.                                       *)

(* What a flop may catch of the flags: each bit old or new.                *)
Catch(c) == {r \in Flags :
                \A f \in Flag : r[f] \in {status(c)[f], last[c].flags[f]}}

(* What the capture register may catch of a wide value.                    *)
CatchWide(c) == IF bist[c].errors = last[c].errors
                THEN {bist[c].errors}
                ELSE {bist[c].errors, last[c].errors, Torn}

(* The level has reached every test and every test has acted on it.        *)
LevelArrived ==
    \A c \in Channel :
        /\ start_sync[c] = vio_start
        /\ bist[c].phase = "idle" => ~bist_start(c)
        /\ bist[c].phase = "over" => bist_start(c)

SysEdge ==
    /\ \E caught \in [Channel -> UNION {Catch(c) : c \in Channel}] :
        /\ \A c \in Channel : caught[c] \in Catch(c)
        /\ q' = [c \in Channel |-> <<caught[c], q[c][1]>>]
    /\ \E wide \in [Channel -> UNION {CatchWide(c) : c \in Channel}] :
        /\ \A c \in Channel : wide[c] \in CatchWide(c)
        /\ errors_cap' = [c \in Channel |->
                IF q[c][2].done THEN wide[c] ELSE errors_cap[c]]
    /\ last' = [c \in Channel |->
                [flags |-> status(c), errors |-> bist[c].errors]]
    /\ edges' = IF edges < JtagEdges /\ LevelArrived THEN edges + 1 ELSE edges
    /\ UNCHANGED <<top, vio_start, pc, mark, disturbed>>

-----------------------------------------------------------------------------
(* The script: refresh_hw_vio samples every probe at one edge.             *)
probe(f) == {c \in Channel : q[c][2][f]}

(* Mutant: no time passes between two operations.                          *)
Operation_hasty(next) == LevelArrived /\ pc' = next /\ edges' = 0

Operation(next) ==
    LevelArrived /\ edges = JtagEdges /\ pc' = next /\ edges' = 0

NoMarks == mark' = [c \in Channel |-> "none"]

(* Someone at the Hardware Manager, or an earlier run cut short.           *)
Operator ==
    /\ pc = "off" /\ Operation("off")
    /\ vio_start' = ~vio_start
    /\ UNCHANGED <<top, read, mark, disturbed>>

ScriptBegins ==
    /\ pc = "off" /\ Operation("calib")
    /\ vio_start' = FALSE
    /\ UNCHANGED <<top, read, mark, disturbed>>

(* Wait for calibration, then insist on a test that has not run.           *)
AwaitCalibration ==
    /\ pc = "calib" /\ probe("calib") = Channel
    /\ IF probe("done") \cup probe("pass") \cup probe("busy") # {}
       THEN Operation("off") ELSE Operation("fresh")
    /\ UNCHANGED <<top, read, vio_start, mark, disturbed>>

RaiseStart ==
    /\ pc = "fresh" /\ Operation("poll")
    /\ vio_start' = TRUE
    /\ disturbed' = {k \in {"lost", "ecc"} : \E c \in Channel :
                        IF k = "lost" THEN ~calib[c] ELSE ecc_latched[c]}
    /\ UNCHANGED <<top, read, mark>>

PollDone ==
    /\ pc = "poll" /\ probe("done") = Channel
    /\ Operation("final")
    /\ UNCHANGED <<top, read, vio_start, mark, disturbed>>

(* Both waits give up after 30 s; the second lowers the level.             *)
GiveUp ==
    /\ \/ pc = "calib" /\ probe("calib") # Channel
       \/ pc = "poll" /\ probe("done") # Channel
    /\ Operation("off")
    /\ vio_start' = FALSE
    /\ NoMarks /\ disturbed' = {}
    /\ UNCHANGED <<top, read>>

(* Mutants: one passing channel is enough; ECC events are not looked at.   *)
Good_one_passes ==
    /\ probe("calib") = Channel /\ probe("pass") # {}
    /\ probe("busy") = {} /\ probe("ecc") = {}
Good_without_ecc ==
    /\ probe("calib") = Channel /\ probe("pass") = Channel
    /\ probe("busy") = {}
    /\ \A c \in Channel : errors_cap[c] = 0

(* One more refresh, and the verdict.                                      *)
Good == /\ probe("calib") = Channel /\ probe("pass") = Channel
        /\ probe("busy") = {} /\ probe("ecc") = {}
        /\ \A c \in Channel : errors_cap[c] = 0

Judge(good) ==
    /\ pc = "final" /\ Operation("off")
    /\ good = Good
    /\ vio_start' = FALSE
    /\ NoMarks /\ disturbed' = {}
    /\ UNCHANGED <<top, read>>

ChannelStep(c) == \/ Begin(c) \/ Mismatch(c) \/ Verdict(c) \/ Rearm(c)
                  \/ ShiftStart(c) \/ Calibrate(c) \/ LoseChannel(c)
                  \/ EccEvent(c)
Script == \/ ScriptBegins \/ AwaitCalibration \/ RaiseStart \/ PollDone
          \/ GiveUp \/ \E good \in BOOLEAN : Judge(good)

Next == /\ UNCHANGED upsets
        /\ (\E c \in Channel : ChannelStep(c)) \/ SysEdge \/ Operator \/ Script

Spec == Init /\ [][Next]_vars

-----------------------------------------------------------------------------
(***************************************************************************)
(* Properties.                                                             *)
(***************************************************************************)
(* "PASS: all four channels completed fresh memory tests with zero errors":*)
(* on every channel a test begun after the script raised start ran to its  *)
(* end with no error and no ECC event in it, however the flags were caught.*)
PassMeansClean == [][Judge(TRUE) => \A c \in Channel : mark[c] = "clean"]_vars

(* No false alarm: the script says FAIL only when something did happen to  *)
(* a channel, never because it read flags or counts that were under way.   *)
FailMeansDisturbed == [][Judge(FALSE) => disturbed # {}]_vars

(* The counts printed with the verdict are those of the tests, unless a    *)
(* channel was lost on the way.                                            *)
ReportExact ==
    [][pc = "final" /\ pc' = "off" /\ "lost" \notin disturbed =>
         \A c \in Channel : errors_cap[c] = bist[c].errors]_vars

(* Each channel's slice behaves as the port of its memory test.            *)
Chan(c) == INSTANCE BistPort WITH
    phase <- bist[c].phase, start <- bist_start(c), busy <- bist[c].busy,
    done <- bist[c].done, pass <- bist[c].pass,
    error_count <- bist[c].errors, first_bad_addr <- 0, Addr <- {0}
EveryPort ==
    /\ \A c \in Channel : Chan(c)!Init
    /\ [][\A c \in Channel : [Chan(c)!Next]_(Chan(c)!portVars)]_vars

(* "error_count and first_bad_addr stop changing when the BIST raises      *)
(* done, so capturing them once done has been stable for two sysclk edges  *)
(* reads a settled value" (ddr4_cal_top.v): no number is captured that     *)
(* never existed.                                                          *)
CaptureSettled == \A c \in Channel : errors_cap[c] # Torn
=============================================================================
