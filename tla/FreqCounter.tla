---------------------------- MODULE FreqCounter ----------------------------
(***************************************************************************)
(* The probe of one candidate reference clock                              *)
(* (designs/00_clk_probe/rtl/freq_counter.v).  A counter runs on the       *)
(* probed clock, which may stop or never start; its Gray code is sampled   *)
(* on the reference clock, and once a gate the difference of two samples   *)
(* is the measured frequency.                                              *)
(*                                                                         *)
(* A sample taken while the code changes may mix the old code with the     *)
(* new one, each bit on its own.                                           *)
(***************************************************************************)
EXTENDS Integers

CONSTANTS
    Modulus,           \* the counters count modulo this (2^COUNT_W)
    Code,              \* what the crossing registers hold
    encode(_),           \* the code of a count, and back
    decode(_),
    Mixtures(_, _),    \* what may be seen while one code turns into another
    GATE_CYCLES,       \* reference edges of a gate
    RESET_EDGES,       \* reference edges for which ref_rst_i holds
    Ratio,             \* probed edges between two reference edges, at most
    ALIVE              \* counts a gate that tell a clock from noise

Count == 0 .. Modulus - 1

(* "a Gray code changes one bit per increment", and it decodes to what was *)
(* encoded: mixing the codes of two neighbours gives one of them, also     *)
(* where the counter wraps.                                                *)
ASSUME GrayAssumption ==
    /\ \A c \in Code : decode(c) \in Count
    /\ \A n \in Count :
        LET next == (n + 1) % Modulus
        IN  /\ encode(n) \in Code /\ decode(encode(n)) = n
            /\ Mixtures(encode(n), encode(next)) = {encode(n), encode(next)}

(* The longest stretch between two samples that are subtracted, the first  *)
(* of which is the zero of the power-up.                                   *)
LongestGate == GATE_CYCLES + RESET_EDGES + 2

ASSUME GateAssumption ==
    /\ Modulus \in Nat /\ GATE_CYCLES \in Nat \ {0} /\ RESET_EDGES \in Nat
    /\ Ratio \in Nat /\ ALIVE \in Nat
    /\ Ratio * LongestGate + 1 < Modulus

VARIABLES
    counter,                        \* probed domain
    gray_meta, gray_sync,           \* the two flops of the crossing
    rst, gate_cnt, last_snapshot,   \* rst: edges of reset still to come
    count_o, valid_o,
    since,                          \* probed edges since the reference's last
    old_meta, old_sync, old_snap,   \* history: probed edges since the samples
                                    \* in gray_meta, gray_sync and
                                    \* last_snapshot were taken
    truth                           \* history: probed edges between the two
                                    \* samples count_o is the difference of

crossing == <<gray_meta, gray_sync, old_meta, old_sync, since>>
gate     == <<rst, gate_cnt, last_snapshot, count_o, valid_o, old_snap, truth>>
vars     == <<counter, crossing, gate>>

(* Configuration initialises every register.                               *)
Init ==
    /\ counter = 0 /\ gray_meta = encode(0) /\ gray_sync = encode(0)
    /\ rst = RESET_EDGES /\ gate_cnt = 0 /\ last_snapshot = 0
    /\ count_o = 0 /\ valid_o = FALSE
    /\ since = 0 /\ old_meta = 0 /\ old_sync = 0 /\ old_snap = 0 /\ truth = 0

-----------------------------------------------------------------------------
(* The probed clock.                                                       *)
ProbeEdge ==
    /\ since < Ratio
    /\ counter' = (counter + 1) % Modulus
    /\ since' = since + 1
    /\ old_meta' = old_meta + 1 /\ old_sync' = old_sync + 1
    /\ old_snap' = old_snap + 1
    /\ UNCHANGED <<gray_meta, gray_sync, rst, gate_cnt, last_snapshot, count_o,
                   valid_o, truth>>

(* What the first flop may catch: the last probed edge may be too close.   *)
Sampled == IF since = 0 THEN {encode(counter)}
           ELSE Mixtures(encode((counter - 1) % Modulus), encode(counter))

(* Mutant: some bits pass one flop only.                                   *)
Cross_skewed ==
    /\ gray_meta' \in Sampled
    /\ gray_sync' \in Mixtures(gray_meta, encode(counter))
    /\ old_meta' = 0 /\ old_sync' = old_meta /\ since' = 0

(* The two flops of each bit.                                              *)
Cross ==
    /\ gray_meta' \in Sampled /\ gray_sync' = gray_meta
    /\ old_meta' = 0 /\ old_sync' = old_meta /\ since' = 0

(* ref_rst_i, after configuration.                                         *)
ResetEdge ==
    /\ rst > 0 /\ rst' = rst - 1
    /\ gate_cnt' = 0 /\ last_snapshot' = 0 /\ count_o' = 0 /\ valid_o' = FALSE
    /\ Cross
    /\ UNCHANGED <<counter, old_snap, truth>>

CountEdge ==
    /\ rst = 0 /\ gate_cnt # GATE_CYCLES - 1
    /\ gate_cnt' = gate_cnt + 1
    /\ Cross
    /\ UNCHANGED <<counter, rst, last_snapshot, count_o, valid_o, old_snap,
                   truth>>

Delta == (decode(gray_sync) - last_snapshot) % Modulus

(* Mutant: every gate is measured from the same snapshot.                  *)
Snapshot_kept == last_snapshot
Snapshot == decode(gray_sync)

GateEdge ==
    /\ rst = 0 /\ gate_cnt = GATE_CYCLES - 1
    /\ gate_cnt' = 0
    /\ count_o' = Delta /\ last_snapshot' = Snapshot /\ valid_o' = TRUE
    /\ truth' = old_snap - old_sync /\ old_snap' = old_sync
    /\ Cross
    /\ UNCHANGED <<counter, rst>>

RefEdge == ResetEdge \/ CountEdge \/ GateEdge

Next == ProbeEdge \/ RefEdge

Spec == Init /\ [][Next]_vars

(* The reference clock runs; nothing is assumed of the probed one.         *)
FairSpec == Spec /\ WF_vars(RefEdge)

alive_o == valid_o /\ count_o > ALIVE

-----------------------------------------------------------------------------
(***************************************************************************)
(* Properties.                                                             *)
(***************************************************************************)

(* What each register may hold; a difference of two counts is a count.     *)
TypeOK ==
    /\ counter \in Count /\ gray_meta \in Code /\ gray_sync \in Code
    /\ rst \in 0 .. RESET_EDGES /\ gate_cnt \in 0 .. GATE_CYCLES - 1
    /\ last_snapshot \in Count /\ count_o \in Count /\ valid_o \in BOOLEAN
    /\ since \in 0 .. Ratio
    /\ old_meta \in Nat /\ old_sync \in Nat /\ old_snap \in Nat
    /\ truth \in Nat

(* "a torn sample is always either the old or the new value, never a       *)
(* third": what has crossed is a count the counter had when it was         *)
(* sampled, or the one before.                                             *)
SampleReal ==
    decode(gray_sync) \in {(counter - old_sync) % Modulus,
                           (counter - old_sync - 1) % Modulus}

(* "cycles counted during the last gate": the count is right to within one *)
(* edge however the samples fell, when the counter has wrapped, and for    *)
(* the first gate as well, which is measured from power-up.                *)
CountHonest ==
    valid_o => count_o \in {truth - 1, truth, truth + 1}

(* "a definite answer, not a timeout": a clock that stops, or never        *)
(* started, is reported, with a valid measurement, as not there.           *)
StoppedClockSeen ==
    <>[][~ProbeEdge]_vars => <>[](valid_o /\ count_o = 0 /\ ~alive_o)
=============================================================================
