----------------------------- MODULE GrayCode ------------------------------
(***************************************************************************)
(* The Gray code that carries a counter across clock domains               *)
(* (designs/00_clk_probe/rtl/freq_counter.v), bit by bit.                  *)
(***************************************************************************)
EXTENDS Integers, FiniteSets, FiniteSetsExt

CONSTANT COUNT_W    \* width of the counter

Bits  == 0 .. COUNT_W - 1
Words == [Bits -> BOOLEAN]

bit(n, i) == (n \div 2 ^ i) % 2 = 1

gray(n) == [i \in Bits |-> bit(n, i) # bit(n, i + 1)]

(* Each binary bit is the exclusive or of the Gray bits at or above it.    *)
binary(code) ==
    LET odd(i) == Cardinality({j \in Bits : j >= i /\ code[j]}) % 2 = 1
    IN  MapThenSumSet(LAMBDA i : 2 ^ i, {i \in Bits : odd(i)})

(* What may be seen of two codes while one turns into the other.           *)
Torn(a, b) == {c \in Words : \A i \in Bits : c[i] \in {a[i], b[i]}}
=============================================================================
