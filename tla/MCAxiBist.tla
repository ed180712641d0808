----------------------------- MODULE MCAxiBist -----------------------------
(***************************************************************************)
(* Instances of AxiBist for TLC.  The geometry keeps the proportions of    *)
(* the real one (half = 2^12, DENSE_BASE = 2^9, SPARSE_STRIDE = 2^14,      *)
(* channel = 2^26 words): base < half, stride = 4 half, channel = half     *)
(* times stride.                                                           *)
(***************************************************************************)
EXTENDS AxiBist, BistPattern, TLC

MCCopies == 2
PatternTable == [i \in Index |-> pattern_word(i)]
MCPattern(i) == PatternTable[i]

(* A DRAM of the tested words only, wired one to one or with the first     *)
(* words of the two walks on one cell.                                     *)
TestedCells == Tested
Straight    == [a \in Tested |-> a]
Shared(i, j) == [Straight EXCEPT ![addr_of_index(i)] = addr_of_index(j)]
Wirings     == {Straight, Shared(0, Half)}

(* Out of reset nothing is known of the DRAM; the patterns of an earlier   *)
(* test are there when the level starts a second one.                      *)
JunkOnly == {[c \in Cell |-> Junk]}

(* The whole channel, and its address lines.                               *)
Channel == 0 .. AddrSpace - 1
Lines   == {b \in 0 .. 5 : 2 ^ b < AddrSpace}
Bit(a, b)       == (a \div 2 ^ b) % 2
SetBit(a, b, v) == a + (v - Bit(a, b)) * 2 ^ b

Swapped(b, c) == [a \in Tested |-> SetBit(SetBit(a, b, Bit(a, c)),
                                          c, Bit(a, b))]
SwappedBoards == {Swapped(b, c) : b, c \in Lines}

(* "A dense walk alone [...] a swapped or stuck high address line never    *)
(* changes a bit that the test observes [...] Running both covers each     *)
(* other's blind spot" (axi_bist.v): a channel with two address lines      *)
(* swapped does not pass.                                                  *)
SwappedLinesFail ==
    pass => \A b, c \in Lines : b # c => decode # Swapped(b, c)
=============================================================================
