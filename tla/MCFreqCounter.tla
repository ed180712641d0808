--------------------------- MODULE MCFreqCounter ---------------------------
(* A four-bit counter for TLC: codes of four bits, mixed bit by bit.       *)
EXTENDS FreqCounter
CONSTANT COUNT_W
G == INSTANCE GrayCode
MCModulus        == 2 ^ COUNT_W
MCCode           == G!Words
MCEncode(n)      == G!gray(n)
MCDecode(c)      == G!binary(c)
MCMixtures(a, b) == G!Torn(a, b)
=============================================================================
