------------------------------ MODULE BistPort ------------------------------
(***************************************************************************)
(* What the memory test of one channel promises to the logic that starts   *)
(* it and reads it out, with the memory and the bus left out: a test       *)
(* begins only from idle and only on the level, errors accumulate while it *)
(* is busy, the verdict appears with done and stays as it is until the     *)
(* next test or a reset, and the level must fall before another test can   *)
(* begin.  AxiBist implements it.                                          *)
(***************************************************************************)
EXTENDS Integers

CONSTANTS MaxErrors,   \* what the errors of one test are bounded by
          Addr         \* what first_bad_addr may hold

VARIABLES phase,       \* "idle", "testing" or "over"
          start, busy, done, pass, error_count, first_bad_addr

portVars == <<phase, start, busy, done, pass, error_count, first_bad_addr>>

Init ==
    /\ phase = "idle" /\ start \in BOOLEAN
    /\ busy = FALSE /\ done = FALSE /\ pass = FALSE
    /\ error_count = 0 /\ first_bad_addr = 0

Begin ==
    /\ phase = "idle" /\ start
    /\ phase' = "testing" /\ busy' = TRUE /\ done' = FALSE /\ pass' = FALSE
    /\ error_count' = 0 /\ first_bad_addr' = 0

(* An error is counted; the first one leaves its address.                  *)
Mismatch ==
    /\ phase = "testing" /\ error_count < MaxErrors
    /\ error_count' = error_count + 1
    /\ IF error_count = 0 THEN first_bad_addr' \in Addr
                          ELSE UNCHANGED first_bad_addr
    /\ UNCHANGED <<phase, busy, done, pass>>

Verdict ==
    /\ phase = "testing"
    /\ busy' = FALSE /\ done' = TRUE /\ pass' = (error_count = 0)
    /\ phase' = IF start THEN "over" ELSE "idle"
    /\ UNCHANGED <<error_count, first_bad_addr>>

Rearm ==
    /\ phase = "over" /\ ~start
    /\ phase' = "idle"
    /\ UNCHANGED <<busy, done, pass, error_count, first_bad_addr>>

PortReset ==
    /\ phase' = "idle" /\ busy' = FALSE /\ done' = FALSE /\ pass' = FALSE
    /\ error_count' = 0 /\ first_bad_addr' = 0

Quiet == UNCHANGED <<phase, busy, done, pass, error_count, first_bad_addr>>

(* The level is an input: it may change with any step.                     *)
Next == /\ start' \in BOOLEAN
        /\ Begin \/ Mismatch \/ Verdict \/ Rearm \/ PortReset \/ Quiet

Spec == Init /\ [][Next]_portVars
=============================================================================
