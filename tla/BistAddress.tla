---------------------------- MODULE BistAddress ----------------------------
(***************************************************************************)
(* The two address walks of the DDR4 memory test                           *)
(* (designs/02_ddr4_cal/rtl/axi_bist.v): the low half of the index range   *)
(* walks neighbouring words, the high half strides over the whole channel. *)
(* Addresses are counted in AXI words, the unit of one single-beat burst   *)
(* (DATA_W / 8 = 64 bytes); every parameter of the code is a multiple.     *)
(***************************************************************************)
EXTENDS Integers

CONSTANTS
    NWords,        \* N_WORDS: words tested, a power of two
    Stride,        \* STRIDE: step of the dense walk
    SparseStride,  \* SPARSE_STRIDE: step of the sparse walk
    DenseBase,     \* DENSE_BASE: first word of the dense walk
    AddrSpace      \* words an ADDR_W-bit address can name

Index == 0 .. NWords - 1
Half  == NWords \div 2

ASSUME SizeAssumption ==
    /\ NWords \in Nat /\ Half \in Nat \ {0} /\ NWords = 2 * Half
    /\ Stride \in Nat \ {0} /\ SparseStride \in Nat \ {0}
    /\ DenseBase \in Nat /\ AddrSpace \in Nat \ {0}

(***************************************************************************)
(* What the comment on DENSE_BASE promises: the dense range lies strictly  *)
(* between the first two sparse points, and both walks fit the channel.    *)
(***************************************************************************)
ASSUME GeometryAssumption ==
    /\ 0 < DenseBase
    /\ DenseBase + (Half - 1) * Stride < SparseStride
    /\ Half * SparseStride <= AddrSpace

sparse(i)        == i >= Half      \* the top bit of the index
sub_index(i)     == i % Half       \* the bits below it
(* Mutant: both walks start at address zero.                               *)
addr_from_zero(i) ==
    sub_index(i) * (IF sparse(i) THEN SparseStride ELSE Stride)

addr_of_index(i) ==
    (IF sparse(i) THEN sub_index(i) * SparseStride
                  ELSE DenseBase + sub_index(i) * Stride) % AddrSpace

Tested == {addr_of_index(i) : i \in Index}
=============================================================================
