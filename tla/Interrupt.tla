----------------------------- MODULE Interrupt -----------------------------
(***************************************************************************)
(* The user interrupt, end to end (host/tests/test_interrupt.py through    *)
(* Event.wait of host/alivu13p/events.py): a level in a register of the    *)
(* card, the message that its rising edge makes the endpoint send, which   *)
(* may be late or lost, and the driver's flag that poll and read look at.  *)
(* A test may be killed, and the next one starts over what it left.        *)
(***************************************************************************)
EXTENDS Naturals

CONSTANT MaxTests   \* bound on the tests that are run

VARIABLES level,    \* usr_irq_req
          msi,      \* interrupt messages under way
          pending,  \* the driver's flag, set by a message
          test,     \* the test: where it is, how many began, how many passed
          arrived   \* messages that arrived, ever
irqvars == <<level, msi, pending, test, arrived>>

Init ==
    /\ level \in BOOLEAN /\ msi = 0 /\ pending = FALSE /\ arrived = 0
    /\ test = [pc |-> "start", begun |-> 1, passed |-> 0, good |-> FALSE]

(* GPIO_DATA2.                                                             *)
Write(value) ==
    /\ level' = value
    /\ msi' = IF value /\ ~level THEN msi + 1 ELSE msi

Start ==
    /\ test.pc = "start" /\ Write(FALSE)
    /\ test' = [test EXCEPT !.pc = "raise"]
    /\ UNCHANGED <<pending, arrived>>

Raise ==
    /\ test.pc = "raise" /\ Write(TRUE)
    /\ test' = [test EXCEPT !.pc = "poll"]
    /\ UNCHANGED <<pending, arrived>>

(* poll returns once the flag is up, or with nothing when the time is over.*)
poll ==
    /\ test.pc = "poll"
    /\ test' = [test EXCEPT !.pc = IF pending THEN "read" ELSE "lower",
                            !.good = pending]
    /\ UNCHANGED <<level, msi, pending, arrived>>

(* Mutant: the flag is left for the next wait.                             *)
read_not ==
    /\ test.pc = "read"
    /\ test' = [test EXCEPT !.pc = "lower"]
    /\ UNCHANGED <<level, msi, pending, arrived>>
read ==
    /\ test.pc = "read"
    /\ pending' = FALSE
    /\ test' = [test EXCEPT !.pc = "lower"]
    /\ UNCHANGED <<level, msi, arrived>>

(* The finally clause, and the verdict.                                    *)
Lower ==
    /\ test.pc = "lower" /\ Write(FALSE)
    /\ test' = [test EXCEPT !.pc = "over",
                            !.passed = IF test.good THEN @ + 1 ELSE @]
    /\ UNCHANGED <<pending, arrived>>

Kill ==
    /\ test.pc # "over"
    /\ test' = [test EXCEPT !.pc = "over"]
    /\ UNCHANGED <<level, msi, pending, arrived>>

Again ==
    /\ test.pc = "over" /\ test.begun < MaxTests
    /\ test' = [test EXCEPT !.pc = "start", !.begun = @ + 1, !.good = FALSE]
    /\ UNCHANGED <<level, msi, pending, arrived>>

Arrive ==
    /\ msi > 0 /\ msi' = msi - 1
    /\ pending' = TRUE /\ arrived' = arrived + 1
    /\ UNCHANGED <<level, test>>

Lose ==
    /\ msi > 0 /\ msi' = msi - 1
    /\ UNCHANGED <<level, pending, test, arrived>>

Next == \/ Start \/ Raise \/ poll \/ read \/ Lower \/ Kill \/ Again
        \/ Arrive \/ Lose

Spec == Init /\ [][Next]_irqvars

-----------------------------------------------------------------------------
(* Each test that passes has an interrupt of its own to show for it: none  *)
(* is counted twice, however late it came and whatever was killed.         *)
PassNeedsInterrupt == test.passed <= arrived
=============================================================================
