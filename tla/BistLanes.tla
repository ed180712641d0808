----------------------------- MODULE BistLanes -----------------------------
(***************************************************************************)
(* The read pass of axi_bist.v at byte-lane granularity: every word comes  *)
(* back with the bytes of two lanes exchanged, a fault of the read path    *)
(* alone (exchanged both ways, the bytes return to their places).          *)
(***************************************************************************)
EXTENDS BistPattern

CONSTANT NWords    \* N_WORDS

Exchange == {<<a, b>> \in Lane \X Lane : a < b}

VARIABLES exchanged,   \* the pair of lanes, fixed for the life of the board
          index, error_count, done

vars == <<exchanged, index, error_count, done>>

Init == exchanged \in Exchange /\ index = 0 /\ error_count = 0 /\ done = FALSE

(* The exchanged word differs from the pattern when the two bytes do.      *)
Mismatch == byte(index, exchanged[1]) # byte(index, exchanged[2])

ReadBeat ==
    /\ ~done
    /\ error_count' = error_count + IF Mismatch THEN 1 ELSE 0
    /\ index' = IF index = NWords - 1 THEN index ELSE index + 1
    /\ done' = (index = NWords - 1)
    /\ UNCHANGED exchanged

Spec == Init /\ [][ReadBeat]_vars

(* "Repeating the index across the word means a swapped byte lane is       *)
(* visible" (axi_bist.v): no test passes on a board that exchanges two     *)
(* lanes.                                                                  *)
SwappedLaneSeen == done => error_count > 0
=============================================================================
