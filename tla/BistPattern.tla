---------------------------- MODULE BistPattern ----------------------------
(***************************************************************************)
(* The word axi_bist.v writes for an index: DATA_W / 32 copies of the      *)
(* index, copy k exclusive-ored with {16'hA5A5, k[15:0]}.  A 32-bit copy   *)
(* is its two halves of 16 bits, and a half is the set of the places where *)
(* it has a one.                                                           *)
(***************************************************************************)
EXTENDS Integers

CONSTANT Copies    \* DATA_W / 32

Constant == 42405  \* 16'hA5A5

bit(n, i) == (n \div 2 ^ i) % 2 = 1

half(n, mask) == {i \in 0 .. 15 : bit(n, i) # bit(mask, i)}

copy(index, k) == [hi |-> half(index \div 2 ^ 16, Constant),
                   lo |-> half(index % 2 ^ 16, k)]

pattern_word(index) == [k \in 0 .. Copies - 1 |-> copy(index, k)]

(***************************************************************************)
(* The word as the byte lanes it travels on: lane 4k carries the low byte  *)
(* of copy k.                                                              *)
(***************************************************************************)
Lane == 0 .. 4 * Copies - 1
byte(index, lane) ==
    LET c == copy(index, lane \div 4)
        h == IF lane % 4 < 2 THEN c.lo ELSE c.hi
    IN  IF lane % 2 = 0 THEN h \cap 0 .. 7 ELSE {i - 8 : i \in h \cap 8 .. 15}
=============================================================================
