------------------------ MODULE FreqCounter_proofs ------------------------
(***************************************************************************)
(* What FreqCounter promises, for every width of the counter, length of    *)
(* the gate and of the reset, and ratio of the clocks; then, at every      *)
(* width, what GrayAssumption asks of the code, of GrayCode.               *)
(***************************************************************************)
EXTENDS FreqCounter, GrayCode, FiniteSetTheorems, WellFoundedInduction, TLAPS

(***************************************************************************)
(* The inductive invariant.                                                *)
(***************************************************************************)

(* x is the count the counter had old probed edges ago ...                 *)
Exact(x, old) == x = (counter - old) % Modulus

(* ... or the one before.                                                  *)
Near(x, old) == \/ x = (counter - old) % Modulus
                \/ x = (counter - old - 1) % Modulus

(* The ages of the three samples, how far apart they can be, and what the  *)
(* reset holds.                                                            *)
AgeInv ==
    /\ old_meta = since /\ old_meta <= old_sync /\ old_sync <= old_snap
    /\ old_sync <= Ratio + since
    /\ old_snap <= Ratio * (gate_cnt + RESET_EDGES - rst + 2) + since
    /\ rst > 0 => gate_cnt = 0 /\ last_snapshot = 0

SampleInv ==
    /\ Near(decode(gray_meta), old_meta)
    /\ Near(decode(gray_sync), old_sync)
    /\ Near(last_snapshot, old_snap)

(* A sample that saw no edge since the one before it cannot be late: this  *)
(* is what keeps the count of a clock that stops from being minus one.     *)
StillInv ==
    /\ old_meta = old_sync => Exact(decode(gray_meta), old_meta)
    /\ old_sync = old_snap => Exact(decode(gray_sync), old_sync)

IInv == TypeOK /\ AgeInv /\ SampleInv /\ StillInv /\ CountHonest

-----------------------------------------------------------------------------
(***************************************************************************)
(* Remainders.                                                             *)
(***************************************************************************)

LEMMA Remainder ==
    ASSUME NEW M \in Nat \ {0}, NEW a \in Int
    PROVE  /\ a % M \in 0 .. M - 1 /\ a \div M \in Int
           /\ a = M * (a \div M) + (a % M)
BY SMT

LEMMA RemainderUnique ==
    ASSUME NEW M \in Nat \ {0}, NEW r \in 0 .. M - 1, NEW s \in 0 .. M - 1,
           NEW k \in Int, r = s + M * k
    PROVE  r = s
<1>1. CASE k = 0
    BY <1>1
<1>2. CASE k >= 1
    <2>1. M * k >= M
        BY <1>2
    <2> QED
        BY <2>1
<1>3. CASE k <= -1
    <2>1. M * k <= -M
        BY <1>3
    <2> QED
        BY <2>1
<1> QED
    BY <1>1, <1>2, <1>3

(* Numbers that differ by a multiple of M have the same remainder.         *)
LEMMA Congruence ==
    ASSUME NEW M \in Nat \ {0}, NEW a \in Int, NEW b \in Int, NEW k \in Int,
           a = b + M * k
    PROVE  a % M = b % M
<1> DEFINE p == a \div M
           q == b \div M
           r == a % M
           s == b % M
<1>1. r \in 0 .. M - 1 /\ p \in Int /\ a = M * p + r
    BY Remainder
<1>2. s \in 0 .. M - 1 /\ q \in Int /\ b = M * q + s
    BY Remainder
<1> SUFFICES r = s
    OBVIOUS
<1> HIDE DEF p, q, r, s
<1>3. r = s + M * (q + k - p)
    BY <1>1, <1>2
<1>4. q + k - p \in Int
    BY <1>1, <1>2
<1> QED
    BY <1>1, <1>2, <1>3, <1>4, RemainderUnique

LEMMA RemainderOfSmall ==
    ASSUME NEW M \in Nat \ {0}, NEW a \in 0 .. M - 1
    PROVE  a % M = a
BY SMT

(* An edge of the counter ages a sample by one and leaves it what it was.  *)
LEMMA Drift ==
    ASSUME NEW M \in Nat \ {0}, NEW c \in Int, NEW a \in Int
    PROVE  (((c + 1) % M) - (a + 1)) % M = (c - a) % M
<1> DEFINE q == (c + 1) \div M
           r == (c + 1) % M
<1>1. r \in 0 .. M - 1 /\ q \in Int /\ c + 1 = M * q + r
    <2>1. c + 1 \in Int
        OBVIOUS
    <2> QED
        BY <2>1, Remainder
<1> SUFFICES (r - (a + 1)) % M = (c - a) % M
    OBVIOUS
<1> HIDE DEF q, r
<1>2. /\ r - (a + 1) \in Int /\ c - a \in Int /\ -q \in Int
      /\ r - (a + 1) = (c - a) + M * (-q)
    BY <1>1
<1> QED
    BY <1>2, Congruence

(* A difference of remainders is the remainder of the difference.          *)
LEMMA Difference ==
    ASSUME NEW M \in Nat \ {0}, NEW a \in Int, NEW b \in Int
    PROVE  ((a % M) - (b % M)) % M = (a - b) % M
<1> DEFINE p == a \div M
           q == b \div M
           r == a % M
           s == b % M
<1>1. r \in 0 .. M - 1 /\ p \in Int /\ a = M * p + r
    BY Remainder
<1>2. s \in 0 .. M - 1 /\ q \in Int /\ b = M * q + s
    BY Remainder
<1> SUFFICES (r - s) % M = (a - b) % M
    OBVIOUS
<1> HIDE DEF p, q, r, s
<1>3. /\ r - s \in Int /\ a - b \in Int /\ q - p \in Int
      /\ r - s = (a - b) + M * (q - p)
    BY <1>1, <1>2
<1> QED
    BY <1>3, Congruence

(* The count before c is the one that c follows.                           *)
LEMMA Predecessor ==
    ASSUME NEW M \in Nat \ {0}, NEW c \in 0 .. M - 1
    PROVE  (c - 1) % M \in 0 .. M - 1 /\ (((c - 1) % M) + 1) % M = c
<1> DEFINE q == (c - 1) \div M
           r == (c - 1) % M
<1>1. r \in 0 .. M - 1 /\ q \in Int /\ c - 1 = M * q + r
    <2>1. c - 1 \in Int
        OBVIOUS
    <2> QED
        BY <2>1, Remainder
<1> SUFFICES (r + 1) % M = c
    BY <1>1
<1> HIDE DEF q, r
<1>2. /\ r + 1 \in Int /\ c \in Int /\ -q \in Int
      /\ r + 1 = c + M * (-q)
    BY <1>1
<1>3. (r + 1) % M = c % M
    BY <1>2, Congruence
<1> QED
    BY <1>3, RemainderOfSmall

LEMMA Constants ==
    /\ Modulus \in Nat \ {0} /\ GATE_CYCLES \in Nat \ {0}
    /\ RESET_EDGES \in Nat /\ Ratio \in Nat /\ LongestGate \in Nat
    /\ Ratio * LongestGate \in Nat /\ Ratio * LongestGate + 1 < Modulus
<1>1. LongestGate \in Nat
    BY GateAssumption DEF LongestGate
<1>2. Ratio * LongestGate \in Nat
    BY <1>1, GateAssumption
<1> QED
    BY <1>1, <1>2, GateAssumption

(* An edge of the probed clock leaves a sample as far from the counter as  *)
(* its age says.                                                           *)
LEMMA AgesDrift ==
    ASSUME TypeOK, counter' = (counter + 1) % Modulus, NEW old \in Nat
    PROVE  /\ (counter' - (old + 1)) % Modulus = (counter - old) % Modulus
           /\ (counter' - (old + 1) - 1) % Modulus
              = (counter - old - 1) % Modulus
<1>1. counter \in Int /\ counter' \in Int /\ old \in Int /\ old + 1 \in Int
    <2>1. counter \in Int /\ counter + 1 \in Int
        BY Constants DEF TypeOK, Count
    <2> QED
        BY <2>1, Constants, Remainder
<1>2. (((counter + 1) % Modulus) - (old + 1)) % Modulus
      = (counter - old) % Modulus
    BY <1>1, Constants, Drift
<1>3. (((counter + 1) % Modulus) - ((old + 1) + 1)) % Modulus
      = (counter - (old + 1)) % Modulus
    BY <1>1, Constants, Drift
<1>4. /\ counter' - (old + 1) - 1 = counter' - ((old + 1) + 1)
      /\ counter - old - 1 = counter - (old + 1)
    BY <1>1
<1> QED
    BY <1>2, <1>3, <1>4

(* What the first flop catches.                                            *)
LEMMA SampledNear ==
    ASSUME TypeOK, NEW c \in Sampled
    PROVE  /\ c \in Code
           /\ \/ decode(c) = counter
              \/ since # 0 /\ decode(c) = (counter - 1) % Modulus
<1> DEFINE prev == (counter - 1) % Modulus
<1>1. counter \in Count /\ counter \in 0 .. Modulus - 1
    BY DEF TypeOK, Count
<1>2. encode(counter) \in Code /\ decode(encode(counter)) = counter
    BY <1>1, GrayAssumption
<1>3. prev \in Count /\ (prev + 1) % Modulus = counter
    BY <1>1, Constants, Predecessor DEF Count
<1> HIDE DEF prev
<1>4. /\ encode(prev) \in Code /\ decode(encode(prev)) = prev
      /\ Mixtures(encode(prev), encode(counter))
         = {encode(prev), encode(counter)}
    BY <1>3, GrayAssumption
<1>5. CASE since = 0
    <2>1. c = encode(counter)
        BY <1>5 DEF Sampled
    <2> QED
        BY <1>2, <2>1
<1>6. CASE since # 0
    <2>1. c \in {encode(prev), encode(counter)}
        BY <1>4, <1>6 DEF Sampled, prev
    <2> QED
        BY <1>2, <1>4, <1>6, <2>1 DEF prev
<1> QED
    BY <1>5, <1>6

(***************************************************************************)
(* The invariant holds initially ...                                       *)
(***************************************************************************)

LEMMA InitInv == Init => IInv
<1> SUFFICES ASSUME Init PROVE IInv
    OBVIOUS
<1> USE DEF Init
<1>1. 0 \in Count /\ encode(0) \in Code /\ decode(encode(0)) = 0
    BY Constants, GrayAssumption DEF Count
<1>2. TypeOK
    <2>1. 0 \in 0 .. GATE_CYCLES - 1 /\ 0 \in 0 .. Ratio /\ 0 \in Nat
        BY Constants
    <2>2. RESET_EDGES \in 0 .. RESET_EDGES
        BY Constants
    <2> QED
        BY <1>1, <2>1, <2>2, Zenon DEF TypeOK
<1>3. AgeInv
    <2>1. gate_cnt + RESET_EDGES - rst + 2 = 2
        BY Constants
    <2> QED
        BY <2>1, Constants DEF AgeInv
<1>4. (counter - 0) % Modulus = 0
    <2>1. counter - 0 = 0 /\ 0 \in 0 .. Modulus - 1
        BY Constants
    <2> QED
        BY <2>1, Constants, RemainderOfSmall
<1>5. SampleInv /\ StillInv
    BY <1>1, <1>4 DEF SampleInv, StillInv, Near, Exact
<1>6. CountHonest
    BY DEF CountHonest
<1> QED
    BY <1>2, <1>3, <1>5, <1>6 DEF IInv

(***************************************************************************)
(* ... and every step keeps it.                                            *)
(***************************************************************************)

LEMMA ProbeInv == IInv /\ ProbeEdge => IInv'
<1> SUFFICES ASSUME IInv, ProbeEdge PROVE IInv'
    OBVIOUS
<1> USE DEF IInv, ProbeEdge
<1>1. TypeOK'
    <2>1. counter' \in Count
        BY Constants, Remainder DEF TypeOK, Count
    <2> QED
        BY <2>1, Constants DEF TypeOK
<1>2. AgeInv'
    <2> DEFINE span == Ratio * (gate_cnt + RESET_EDGES - rst + 2)
    <2>1. span \in Int /\ span' = span
        BY Constants DEF TypeOK
    <2>2. old_snap <= span + since
        BY DEF AgeInv
    <2> HIDE DEF span
    <2>3. (old_snap <= span + since)'
        BY <2>1, <2>2 DEF TypeOK
    <2>4. (old_snap <= Ratio * (gate_cnt + RESET_EDGES - rst + 2) + since)'
        BY <2>3 DEF span
    <2> QED
        BY <2>4, Constants DEF AgeInv, TypeOK
<1>3. SampleInv' /\ StillInv'
    <2>1. /\ old_meta \in Nat /\ old_sync \in Nat /\ old_snap \in Nat
          /\ old_meta' = old_meta + 1 /\ old_sync' = old_sync + 1
          /\ old_snap' = old_snap + 1
          /\ counter' = (counter + 1) % Modulus
        BY DEF TypeOK
    <2>2. /\ (counter' - old_meta') % Modulus = (counter - old_meta) % Modulus
          /\ (counter' - old_meta' - 1) % Modulus
             = (counter - old_meta - 1) % Modulus
        BY <2>1, AgesDrift
    <2>3. /\ (counter' - old_sync') % Modulus = (counter - old_sync) % Modulus
          /\ (counter' - old_sync' - 1) % Modulus
             = (counter - old_sync - 1) % Modulus
        BY <2>1, AgesDrift
    <2>4. /\ (counter' - old_snap') % Modulus = (counter - old_snap) % Modulus
          /\ (counter' - old_snap' - 1) % Modulus
             = (counter - old_snap - 1) % Modulus
        BY <2>1, AgesDrift
    <2>5. /\ old_meta' = old_sync' => old_meta = old_sync
          /\ old_sync' = old_snap' => old_sync = old_snap
        BY <2>1
    <2>6. SampleInv'
        BY <2>2, <2>3, <2>4, Zenon DEF SampleInv, Near
    <2>7. StillInv'
        BY <2>2, <2>3, <2>5, Zenon DEF StillInv, Exact
    <2> QED
        BY <2>6, <2>7
<1>4. CountHonest'
    BY DEF CountHonest
<1> QED
    BY <1>1, <1>2, <1>3, <1>4

(* What the two flops do at every edge of the reference.                   *)
LEMMA CrossInv ==
    ASSUME IInv, Cross, UNCHANGED counter
    PROVE  /\ gray_meta' \in Code /\ gray_sync' \in Code /\ since' = 0
           /\ old_meta' = 0 /\ old_sync' \in Nat
           /\ old_sync' <= old_sync /\ old_sync' <= Ratio
           /\ Near(decode(gray_meta), old_meta)'
           /\ Near(decode(gray_sync), old_sync)'
           /\ (old_meta = old_sync => Exact(decode(gray_meta), old_meta))'
           /\ old_meta = old_sync => Exact(decode(gray_sync), old_sync)'
<1> USE DEF IInv, Cross
<1>1. /\ counter \in 0 .. Modulus - 1 /\ counter' = counter /\ old_meta = since
      /\ old_meta' = 0 /\ counter' - old_meta' = counter
      /\ counter' - old_meta' - 1 = counter - 1
    BY Constants DEF TypeOK, Count, AgeInv
<1>2. counter % Modulus = counter
    BY <1>1, Constants, RemainderOfSmall
<1>3. /\ gray_meta' \in Code
      /\ \/ decode(gray_meta') = counter
         \/ since # 0 /\ decode(gray_meta') = (counter - 1) % Modulus
    BY SampledNear
<1>4. Near(decode(gray_meta), old_meta)'
    BY <1>1, <1>2, <1>3 DEF Near
<1>5. (old_meta = old_sync => Exact(decode(gray_meta), old_meta))'
    BY <1>1, <1>2, <1>3 DEF Exact
<1>6. Near(decode(gray_sync), old_sync)'
    BY <1>1 DEF Near, SampleInv
<1>7. old_meta = old_sync => Exact(decode(gray_sync), old_sync)'
    BY <1>1 DEF Exact, StillInv
<1>8. old_sync' \in Nat /\ old_sync' <= old_sync /\ old_sync' <= Ratio
    BY Constants DEF TypeOK, AgeInv
<1> QED
    BY <1>1, <1>3, <1>4, <1>5, <1>6, <1>7, <1>8 DEF TypeOK

LEMMA ResetInv == IInv /\ ResetEdge => IInv'
<1> SUFFICES ASSUME IInv, ResetEdge PROVE IInv'
    OBVIOUS
<1>1. Cross /\ UNCHANGED counter /\ TypeOK /\ AgeInv /\ SampleInv
    BY DEF ResetEdge, IInv
<1>2. TypeOK'
    <2>1. 0 \in Count /\ 0 \in 0 .. GATE_CYCLES - 1 /\ 0 \in 0 .. Ratio
        BY Constants DEF Count
    <2>2. rst' \in 0 .. RESET_EDGES
        BY <1>1, Constants DEF ResetEdge, TypeOK
    <2>3. /\ gray_meta' \in Code /\ gray_sync' \in Code
          /\ since' = 0 /\ old_meta' = 0 /\ old_sync' \in Nat
        BY <1>1, CrossInv
    <2>4. /\ counter' \in Count /\ old_snap' \in Nat /\ truth' \in Nat
          /\ gate_cnt' = 0 /\ last_snapshot' = 0 /\ count_o' = 0
          /\ valid_o' = FALSE
        BY <1>1 DEF ResetEdge, TypeOK
    <2>5. 0 \in Nat /\ FALSE \in BOOLEAN
        OBVIOUS
    <2> QED
        BY <2>1, <2>2, <2>3, <2>4, <2>5, Zenon DEF TypeOK
<1>3. AgeInv'
    <2>1. gate_cnt = 0 /\ last_snapshot = 0
        BY <1>1 DEF ResetEdge, AgeInv
    <2>2. old_snap' <= Ratio * (gate_cnt' + RESET_EDGES - rst' + 2) + since'
        <3> DEFINE n == RESET_EDGES - rst + 2
        <3>1. n \in Nat /\ gate_cnt + RESET_EDGES - rst + 2 = n
              /\ gate_cnt' + RESET_EDGES - rst' + 2 = n + 1
            BY <1>1, <2>1, Constants DEF ResetEdge, TypeOK
        <3>2. old_snap <= Ratio * n + since /\ since <= Ratio
            BY <1>1, <3>1, Constants DEF AgeInv, TypeOK
        <3> HIDE DEF n
        <3>3. Ratio * (n + 1) = Ratio * n + Ratio /\ Ratio * n \in Nat
            BY <3>1, Constants
        <3>4. /\ old_snap \in Nat /\ since \in Nat
              /\ old_snap' = old_snap /\ since' = 0
            BY <1>1, Constants DEF ResetEdge, Cross, TypeOK
        <3> QED
            BY <3>1, <3>2, <3>3, <3>4, Constants
    <2>3. old_sync' <= old_snap'
        BY <1>1, CrossInv DEF ResetEdge, AgeInv, TypeOK
    <2> QED
        BY <1>1, <2>1, <2>2, <2>3, CrossInv, Constants DEF ResetEdge, AgeInv
<1>4. SampleInv'
    <2>1. Near(last_snapshot, old_snap)'
        BY <1>1 DEF ResetEdge, AgeInv, SampleInv, Near
    <2> QED
        BY <1>1, <2>1, CrossInv DEF SampleInv
<1>5. StillInv'
    <2>1. old_sync' = old_snap' => old_meta = old_sync
        BY <1>1 DEF ResetEdge, Cross, AgeInv, TypeOK
    <2> QED
        BY <1>1, <2>1, CrossInv DEF StillInv
<1>6. CountHonest'
    BY DEF ResetEdge, CountHonest
<1> QED
    BY <1>2, <1>3, <1>4, <1>5, <1>6 DEF IInv

LEMMA CountInv == IInv /\ CountEdge => IInv'
<1> SUFFICES ASSUME IInv, CountEdge PROVE IInv'
    OBVIOUS
<1>1. Cross /\ UNCHANGED counter /\ TypeOK /\ AgeInv /\ SampleInv
    BY DEF CountEdge, IInv
<1>2. TypeOK'
    <2>1. gate_cnt' \in 0 .. GATE_CYCLES - 1 /\ 0 \in 0 .. Ratio
        BY <1>1, Constants DEF CountEdge, TypeOK
    <2>2. /\ gray_meta' \in Code /\ gray_sync' \in Code
          /\ since' = 0 /\ old_meta' = 0 /\ old_sync' \in Nat
        BY <1>1, CrossInv
    <2>3. /\ counter' \in Count /\ old_snap' \in Nat /\ truth' \in Nat
          /\ rst' \in 0 .. RESET_EDGES /\ last_snapshot' \in Count
          /\ count_o' \in Count /\ valid_o' \in BOOLEAN /\ 0 \in Nat
        BY <1>1 DEF CountEdge, TypeOK
    <2> QED
        BY <2>1, <2>2, <2>3, Zenon DEF TypeOK
<1>3. AgeInv'
    <2>1. old_snap' <= Ratio * (gate_cnt' + RESET_EDGES - rst' + 2) + since'
        <3> DEFINE n == gate_cnt + RESET_EDGES - rst + 2
        <3>1. n \in Nat /\ gate_cnt' + RESET_EDGES - rst' + 2 = n + 1
            BY <1>1, Constants DEF CountEdge, TypeOK
        <3>2. old_snap <= Ratio * n + since /\ since <= Ratio
            BY <1>1, Constants DEF AgeInv, TypeOK
        <3> HIDE DEF n
        <3>3. Ratio * (n + 1) = Ratio * n + Ratio /\ Ratio * n \in Nat
            BY <3>1, Constants
        <3>4. /\ old_snap \in Nat /\ since \in Nat
              /\ old_snap' = old_snap /\ since' = 0
            BY <1>1, Constants DEF CountEdge, Cross, TypeOK
        <3> QED
            BY <3>1, <3>2, <3>3, <3>4, Constants
    <2>2. /\ since' = 0 /\ old_meta' = 0 /\ old_sync' \in Nat
          /\ old_sync' <= old_sync /\ old_sync' <= Ratio
        BY <1>1, CrossInv
    <2>3. old_sync' <= old_snap'
        BY <1>1, <2>2 DEF CountEdge, AgeInv, TypeOK
    <2>4. ~(rst' > 0)
        BY DEF CountEdge
    <2> QED
        BY <2>1, <2>2, <2>3, <2>4, Constants DEF AgeInv
<1>4. SampleInv'
    <2>1. Near(last_snapshot, old_snap)'
        BY <1>1 DEF CountEdge, SampleInv, Near
    <2> QED
        BY <1>1, <2>1, CrossInv DEF SampleInv
<1>5. StillInv'
    <2>1. old_sync' = old_snap' => old_meta = old_sync
        BY <1>1 DEF CountEdge, Cross, AgeInv, TypeOK
    <2> QED
        BY <1>1, <2>1, CrossInv DEF StillInv
<1>6. CountHonest'
    BY DEF CountEdge, CountHonest, IInv
<1> QED
    BY <1>2, <1>3, <1>4, <1>5, <1>6 DEF IInv

(* A gate that saw fewer edges than the counter can hold is measured to    *)
(* within one.                                                             *)
LEMMA GateCount ==
    ASSUME IInv, GateEdge
    PROVE  /\ truth' \in Nat
           /\ count_o' \in {truth' - 1, truth', truth' + 1}
<1> DEFINE a == counter - old_sync
           b == counter - old_snap
           bs == decode(gray_sync)
<1>1. /\ counter \in Nat /\ old_sync \in Nat /\ old_snap \in Nat
      /\ a \in Int /\ b \in Int /\ a - 1 \in Int /\ b - 1 \in Int
      /\ truth' \in Nat /\ truth' = a - b
    BY Constants DEF IInv, TypeOK, Count, AgeInv, GateEdge
<1>2. truth' + 1 < Modulus
    <2>1. gate_cnt + RESET_EDGES - rst + 2 = LongestGate - 1
        BY Constants DEF IInv, TypeOK, GateEdge, LongestGate
    <2>2. old_snap <= Ratio * (LongestGate - 1) + since /\ since <= Ratio
          /\ since \in Nat
        BY <2>1, Constants DEF IInv, AgeInv, TypeOK
    <2>3. Ratio * (LongestGate - 1) = Ratio * LongestGate - Ratio
        BY Constants
    <2> QED
        BY <1>1, <2>2, <2>3, Constants
<1>3. /\ bs = a % Modulus \/ bs = (a - 1) % Modulus
      /\ truth' = 0 => bs = a % Modulus
      /\ last_snapshot = b % Modulus \/ last_snapshot = (b - 1) % Modulus
    <2>1. truth' = 0 => old_sync = old_snap
        BY <1>1
    <2> QED
        BY <2>1 DEF IInv, SampleInv, StillInv, Near, Exact
<1>4. count_o' = (bs - last_snapshot) % Modulus
    BY DEF GateEdge, Delta
<1> HIDE DEF a, b, bs
<1>5. CASE bs = a % Modulus /\ last_snapshot = b % Modulus
    <2>1. count_o' = truth' % Modulus
        BY <1>1, <1>4, <1>5, Constants, Difference
    <2> QED
        BY <1>1, <1>2, <2>1, Constants, RemainderOfSmall
<1>6. CASE bs = (a - 1) % Modulus /\ last_snapshot = (b - 1) % Modulus
    <2>1. count_o' = ((a - 1) - (b - 1)) % Modulus
        BY <1>1, <1>4, <1>6, Constants, Difference
    <2>2. (a - 1) - (b - 1) = truth'
        BY <1>1
    <2> QED
        BY <1>1, <1>2, <2>1, <2>2, Constants, RemainderOfSmall
<1>7. CASE bs = a % Modulus /\ last_snapshot = (b - 1) % Modulus
    <2>1. count_o' = (a - (b - 1)) % Modulus
        BY <1>1, <1>4, <1>7, Constants, Difference
    <2>2. a - (b - 1) = truth' + 1
        BY <1>1
    <2>3. truth' + 1 \in 0 .. Modulus - 1
        BY <1>1, <1>2, Constants
    <2> QED
        BY <1>1, <2>1, <2>2, <2>3, Constants, RemainderOfSmall
<1>8. CASE /\ bs = (a - 1) % Modulus /\ last_snapshot = b % Modulus
           /\ truth' # 0
    <2>1. count_o' = ((a - 1) - b) % Modulus
        BY <1>1, <1>4, <1>8, Constants, Difference
    <2>2. (a - 1) - b = truth' - 1
        BY <1>1
    <2>3. truth' - 1 \in 0 .. Modulus - 1
        BY <1>1, <1>2, <1>8, Constants
    <2> QED
        BY <1>1, <2>1, <2>2, <2>3, Constants, RemainderOfSmall
<1> QED
    BY <1>1, <1>3, <1>5, <1>6, <1>7, <1>8

LEMMA GateInv == IInv /\ GateEdge => IInv'
<1> SUFFICES ASSUME IInv, GateEdge PROVE IInv'
    OBVIOUS
<1>1. Cross /\ UNCHANGED counter /\ TypeOK /\ AgeInv /\ SampleInv
    BY DEF GateEdge, IInv
<1>2. TypeOK'
    <2>1. decode(gray_sync) \in Count
        BY <1>1, GrayAssumption DEF TypeOK
    <2>2. count_o' \in Count
        <3>1. decode(gray_sync) - last_snapshot \in Int
            BY <1>1, <2>1, Constants DEF TypeOK, Count
        <3> QED
            BY <3>1, Constants, Remainder DEF GateEdge, Delta, Count
    <2>3. /\ gray_meta' \in Code /\ gray_sync' \in Code
          /\ since' = 0 /\ old_meta' = 0 /\ old_sync' \in Nat
        BY <1>1, CrossInv
    <2>4. /\ counter' \in Count /\ old_snap' \in Nat
          /\ rst' \in 0 .. RESET_EDGES /\ valid_o' \in BOOLEAN
          /\ gate_cnt' = 0 /\ last_snapshot' \in Count
        BY <1>1, <2>1 DEF GateEdge, TypeOK, Snapshot
    <2>5. 0 \in 0 .. GATE_CYCLES - 1 /\ 0 \in 0 .. Ratio /\ 0 \in Nat
        BY Constants
    <2> QED
        BY <2>2, <2>3, <2>4, <2>5, GateCount, Zenon DEF TypeOK
<1>3. AgeInv'
    <2>1. /\ since' = 0 /\ old_meta' = 0 /\ old_sync' \in Nat
          /\ old_sync' <= old_sync /\ old_sync' <= Ratio
        BY <1>1, CrossInv
    <2>2. /\ gate_cnt' = 0 /\ rst' = 0 /\ old_snap' = old_sync
          /\ old_snap' \in Nat /\ old_snap' <= 2 * Ratio
        BY <1>1, Constants DEF GateEdge, AgeInv, TypeOK
    <2>3. 2 * Ratio <= Ratio * (RESET_EDGES + 2)
        <3>1. Ratio * (RESET_EDGES + 2) = Ratio * RESET_EDGES + 2 * Ratio
            BY Constants
        <3>2. Ratio * RESET_EDGES \in Nat
            BY Constants
        <3> QED
            BY <3>1, <3>2, Constants
    <2>4. gate_cnt' + RESET_EDGES - rst' + 2 = RESET_EDGES + 2
        BY <2>2, Constants
    <2>5. old_snap' <= Ratio * (gate_cnt' + RESET_EDGES - rst' + 2) + since'
        <3> DEFINE span == Ratio * (RESET_EDGES + 2)
        <3>1. span \in Nat
            BY Constants
        <3> HIDE DEF span
        <3>2. old_snap' <= span + since'
            BY <2>1, <2>2, <2>3, <3>1, Constants DEF span
        <3> QED
            BY <2>4, <3>2 DEF span
    <2>6. old_sync' <= old_snap'
        BY <2>1, <2>2
    <2> QED
        BY <2>1, <2>2, <2>5, <2>6, Constants DEF AgeInv
<1>4. SampleInv'
    <2>1. Near(last_snapshot, old_snap)'
        BY <1>1 DEF GateEdge, Snapshot, SampleInv, Near
    <2> QED
        BY <1>1, <2>1, CrossInv DEF SampleInv
<1>5. StillInv'
    <2>1. old_sync' = old_snap' => old_meta = old_sync
        BY <1>1 DEF GateEdge, Cross
    <2> QED
        BY <1>1, <2>1, CrossInv DEF StillInv
<1>6. CountHonest'
    BY GateCount DEF CountHonest
<1> QED
    BY <1>2, <1>3, <1>4, <1>5, <1>6 DEF IInv

LEMMA StutterInv == IInv /\ UNCHANGED vars => IInv'
<1> SUFFICES ASSUME IInv, UNCHANGED vars PROVE IInv'
    OBVIOUS
<1> QED
    BY DEF IInv, TypeOK, AgeInv, SampleInv, StillInv, CountHonest, Near, Exact,
           vars, crossing, gate

LEMMA Inductive == Spec => []IInv
<1>1. IInv /\ [Next]_vars => IInv'
    BY ProbeInv, ResetInv, CountInv, GateInv, StutterInv, Zenon
    DEF Next, RefEdge
<1> QED
    BY InitInv, <1>1, PTL DEF Spec

(***************************************************************************)
(* The theorems.                                                           *)
(***************************************************************************)

(* Every register stays in its range; the difference of two counts is one. *)
THEOREM TypeCorrect == Spec => []TypeOK
<1>1. IInv => TypeOK
    BY DEF IInv
<1> QED
    BY <1>1, Inductive, PTL

(* No sample is torn: what has crossed is a count the counter had when it  *)
(* was sampled, or the one before, however fast the probed clock is.       *)
THEOREM NoTornSample == Spec => []SampleReal
<1>1. IInv => SampleReal
    BY DEF IInv, SampleInv, Near, SampleReal
<1> QED
    BY <1>1, Inductive, PTL

(* Every gate is measured to within one edge, wrapped or not, the first    *)
(* one included.                                                           *)
THEOREM GateMeasured == Spec => []CountHonest
<1>1. IInv => CountHonest
    BY DEF IInv
<1> QED
    BY <1>1, Inductive, PTL

-----------------------------------------------------------------------------
(***************************************************************************)
(* The Gray code.  A set of numbers has a least one: the inductions below  *)
(* take the least counterexample.                                          *)
(***************************************************************************)

LEMMA LeastExists ==
    ASSUME NEW S \in SUBSET Nat, S # {}
    PROVE  \E i \in S : \A j \in S : i <= j
<1> DEFINE R == {ss \in Nat \X Nat : ss[1] < ss[2]}
<1>1. IsWellFoundedOn(R, Nat)
    BY NatLessThanWellFounded DEF OpToRel
<1>2. \A i, j \in Nat : j < i => <<j, i>> \in R
    OBVIOUS
<1> HIDE DEF R
<1>3. PICK i \in S : \A j \in S : ~(<<j, i>> \in R)
    BY <1>1, WFMin, Zenon
<1>4. ASSUME NEW j \in S PROVE i <= j
  <2>1. i \in Nat /\ j \in Nat
      OBVIOUS
  <2>2. ~(j < i)
      BY <1>2, <1>3, <2>1, Zenon
  <2> QED
      BY <2>1, <2>2
<1> QED
    BY <1>4

(* A power of two is the number of subsets of a set, and one element more  *)
(* doubles it.                                                             *)
LEMMA PowerIs ==
    ASSUME NEW i \in Nat
    PROVE  2 ^ i \in Nat \ {0} /\ 2 ^ (i + 1) = 2 * 2 ^ i
<1> DEFINE X == SUBSET (1 .. i)
           Y == {s \cup {i + 1} : s \in X}
           f == [s \in X |-> s \cup {i + 1}]
<1>1. \A k \in Nat : IsFiniteSet(1 .. k) /\ Cardinality(1 .. k) = k
    BY FS_Interval
<1>2. \A k \in Nat : IsFiniteSet(SUBSET (1 .. k)) /\ Cardinality(SUBSET (1 .. k)) = 2 ^ k
    BY <1>1, FS_SUBSET
<1>3. IsFiniteSet(X) /\ Cardinality(X) = 2 ^ i
    BY <1>2
<1>4. i + 1 \notin 1 .. i
    OBVIOUS
<1>5. f \in Bijection(X, Y)
  <2>1. \A s, t \in X : f[s] = f[t] => s = t
      BY <1>4
  <2>2. f \in Surjection(X, Y)
      BY DEF Surjection
  <2> QED
      BY <2>1, <2>2 DEF Bijection, Injection, IsInjective, Surjection
<1>6. IsFiniteSet(Y) /\ Cardinality(Y) = 2 ^ i
  <2>1. ExistsBijection(X, Y)
      BY <1>5, Zenon DEF ExistsBijection
  <2> HIDE DEF X, Y
  <2> QED
      BY <1>3, <2>1, FS_Bijection
<1>7. X \cap Y = {}
    BY <1>4
<1>8. SUBSET (1 .. i + 1) = X \cup Y
  <2>1. 1 .. i + 1 = (1 .. i) \cup {i + 1}
      OBVIOUS
  <2>2. ASSUME NEW s \in SUBSET (1 .. i + 1) PROVE s \in X \cup Y
    <3>1. CASE i + 1 \in s
      <4>1. s \ {i + 1} \in X /\ s = (s \ {i + 1}) \cup {i + 1}
          BY <2>1, <3>1
      <4> QED
          BY <4>1
    <3>2. CASE i + 1 \notin s
        BY <2>1, <3>2
    <3> QED
        BY <3>1, <3>2
  <2>3. ASSUME NEW s \in X \cup Y PROVE s \in SUBSET (1 .. i + 1)
      BY <2>1
  <2> QED
      BY <2>2, <2>3
<1> HIDE DEF X, Y
<1>9. Cardinality(X \cup Y) = 2 ^ i + 2 ^ i
  <2>1. Cardinality(X \cup Y) = Cardinality(X) + Cardinality(Y) - Cardinality(X \cap Y)
      BY <1>3, <1>6, FS_Union
  <2>2. Cardinality({}) = 0
      BY FS_EmptySet
  <2>3. PICK c \in Nat : c = 2 ^ i
      BY <1>3, FS_CardinalityType
  <2>4. Cardinality(X \cup Y) = c + c - 0
      BY <1>3, <1>6, <1>7, <2>1, <2>2, <2>3
  <2> QED
      BY <2>3, <2>4
<1>10. Cardinality(X \cup Y) = 2 ^ (i + 1)
  <2>1. PICK k \in Nat : k = i + 1
      OBVIOUS
  <2>2. Cardinality(SUBSET (1 .. k)) = 2 ^ k
      BY <1>2
  <2> QED
      BY <1>8, <2>1, <2>2
<1>11. 2 ^ i \in Nat /\ 2 ^ i # 0
  <2>1. X # {}
      BY DEF X
  <2> QED
      BY <1>3, <2>1, FS_CardinalityType, FS_EmptySet
<1> QED
    BY <1>9, <1>10, <1>11

(* What is left of a number when its lowest bits are dropped.              *)
Above(n, i) == n \div 2 ^ i

LEMMA HalfOf ==
    ASSUME NEW n \in Nat, NEW p \in Nat \ {0}
    PROVE  /\ n \div p \in Nat
           /\ n \div (2 * p) = (n \div p) \div 2
           /\ n < p <=> n \div p = 0
           /\ n = p => n \div p = 1
           /\ n \div p = 1 => p <= n
<1>1. n \div p \in Nat
    OBVIOUS
<1>2. n \div (2 * p) = (n \div p) \div 2
    OBVIOUS
<1>3. n < p <=> n \div p = 0
    OBVIOUS
<1>4. n = p => n \div p = 1
    OBVIOUS
<1>5. n \div p = 1 => p <= n
    OBVIOUS
<1> QED
    BY <1>1, <1>2, <1>3, <1>4, <1>5

LEMMA AboveIs ==
    ASSUME NEW n \in Nat, NEW i \in Nat
    PROVE  /\ Above(n, i) \in Nat
           /\ Above(n, 0) = n
           /\ Above(n, i + 1) = Above(n, i) \div 2
           /\ n < 2 ^ i <=> Above(n, i) = 0
           /\ Above(n, i) = 1 => 2 ^ i <= n
           /\ bit(n, i) <=> Above(n, i) % 2 = 1
<1>1. PICK p \in Nat \ {0} : p = 2 ^ i /\ 2 ^ (i + 1) = 2 * p
    BY PowerIs
<1>2. /\ n \div p \in Nat
      /\ n \div (2 * p) = (n \div p) \div 2
      /\ n < p <=> n \div p = 0
      /\ n \div p = 1 => p <= n
    BY HalfOf
<1>3. Above(n, 0) = n
  <2>1. 2 ^ 0 = 1
      OBVIOUS
  <2> QED
      BY <2>1 DEF Above
<1>4. Above(n, i) = n \div p /\ Above(n, i + 1) = n \div (2 * p)
    BY <1>1 DEF Above
<1>5. bit(n, i) <=> Above(n, i) % 2 = 1
    BY DEF bit, Above
<1> QED
    BY <1>1, <1>2, <1>3, <1>4, <1>5

(* A carry: counting turns the ones below the lowest zero into zeros, that *)
(* zero into a one, and leaves the bits above it.                          *)
LEMMA CarryIs ==
    ASSUME NEW n \in Nat, NEW m \in Nat, m = n + 1, NEW t \in Nat,
           \A i \in Nat : i < t => bit(n, i), ~bit(n, t)
    PROVE  /\ \A i \in Nat : i <= t => Above(m, i) = Above(n, i) + 1
           /\ \A i \in Nat : i > t => Above(m, i) = Above(n, i)
<1>1. \A i \in Nat : /\ Above(n, i) \in Nat /\ Above(m, i) \in Nat
                     /\ Above(n, 0) = n /\ Above(m, 0) = m
                     /\ Above(n, i + 1) = Above(n, i) \div 2
                     /\ Above(m, i + 1) = Above(m, i) \div 2
                     /\ bit(n, i) <=> Above(n, i) % 2 = 1
    BY AboveIs
<1>2. ASSUME NEW i \in Nat, i <= t, Above(m, i) # Above(n, i) + 1
      PROVE  FALSE
  <2> DEFINE B == {j \in Nat : j <= t /\ Above(m, j) # Above(n, j) + 1}
  <2>1. B \in SUBSET Nat /\ B # {}
      BY <1>2
  <2>2. PICK j \in B : \A k \in B : j <= k
      BY <2>1, LeastExists
  <2>3. j \in Nat /\ j <= t /\ Above(m, j) # Above(n, j) + 1
      OBVIOUS
  <2>4. j # 0
      BY <1>1, <2>3
  <2>5. PICK k \in Nat : j = k + 1 /\ k < t /\ ~(j <= k)
      BY <2>3, <2>4
  <2>6. Above(m, k) = Above(n, k) + 1
    <3>1. k \notin B
        BY <2>2, <2>5
    <3> QED
        BY <2>5, <3>1
  <2>7. PICK a \in Nat : a = Above(n, k) /\ a % 2 = 1
      BY <1>1, <2>5
  <2>8. (a + 1) \div 2 = (a \div 2) + 1
      BY <2>7
  <2>9. Above(n, j) = a \div 2 /\ Above(m, j) = (a + 1) \div 2
      BY <1>1, <2>5, <2>6, <2>7
  <2> QED
      BY <2>3, <2>8, <2>9
<1>3. Above(m, t + 1) = Above(n, t + 1)
  <2>1. Above(m, t) = Above(n, t) + 1
      BY <1>2
  <2>2. PICK a \in Nat : a = Above(n, t) /\ a % 2 # 1
      BY <1>1
  <2>3. (a + 1) \div 2 = a \div 2
      BY <2>2
  <2> QED
      BY <1>1, <2>1, <2>2, <2>3
<1>4. ASSUME NEW i \in Nat, i > t, Above(m, i) # Above(n, i)
      PROVE  FALSE
  <2> DEFINE B == {j \in Nat : j > t /\ Above(m, j) # Above(n, j)}
  <2>1. B \in SUBSET Nat /\ B # {}
      BY <1>4
  <2>2. PICK j \in B : \A k \in B : j <= k
      BY <2>1, LeastExists
  <2>3. j \in Nat /\ j > t /\ Above(m, j) # Above(n, j)
      OBVIOUS
  <2>4. j # t + 1
      BY <1>3, <2>3
  <2>5. PICK k \in Nat : j = k + 1 /\ k > t /\ ~(j <= k)
      BY <2>3, <2>4
  <2>6. Above(m, k) = Above(n, k)
    <3>1. k \notin B
        BY <2>2, <2>5
    <3> QED
        BY <2>5, <3>1
  <2> QED
      BY <1>1, <2>3, <2>5, <2>6
<1> QED
    BY <1>2, <1>4

(* A Gray bit is the exclusive or of two neighbours.                       *)
LEMMA GrayBit ==
    \A x : \A i \in Bits : gray(x)[i] <=> ~(bit(x, i) <=> bit(x, i + 1))
<1>1. \A a, b \in BOOLEAN : (a # b) <=> ~(a <=> b)
    OBVIOUS
<1>2. \A x, i : bit(x, i) \in BOOLEAN
    BY Zenon DEF bit
<1>3. \A x : \A i \in Bits : gray(x)[i] = (bit(x, i) # bit(x, i + 1))
    BY Zenon DEF gray
<1> QED
    BY <1>1, <1>2, <1>3, Zenon

(* One bit of the Gray code changes per increment, also where the counter  *)
(* wraps.                                                                  *)
LEMMA OneBit ==
    ASSUME COUNT_W \in Nat \ {0}, NEW n \in Nat, n < 2 ^ COUNT_W,
           NEW next, next = (n + 1) % 2 ^ COUNT_W
    PROVE  \E t \in Bits : \A i \in Bits : i # t =>
              (gray(n)[i] <=> gray(next)[i])
<1>1. PICK w \in Nat, p \in Nat \ {0} : w = COUNT_W /\ w # 0 /\ p = 2 ^ w
    BY PowerIs
<1>2. PICK m \in Nat : m = n + 1
    OBVIOUS
<1>3. \A x \in Nat : \A i \in Nat : bit(x, i) <=> Above(x, i) % 2 = 1
    BY AboveIs
<1>4. Above(n, w) = 0
    BY <1>1, AboveIs
<1>5. PICK t \in Nat : ~bit(n, t) /\ t <= w /\ \A i \in Nat : i < t => bit(n, i)
  <2> DEFINE Z == {i \in Nat : ~bit(n, i)}
  <2>1. w \in Z
      BY <1>3, <1>4
  <2>2. PICK t \in Z : \A i \in Z : t <= i
      BY <2>1, LeastExists
  <2>3. t \in Nat /\ ~bit(n, t) /\ t <= w
      BY <2>1, <2>2
  <2>4. \A i \in Nat : i < t => bit(n, i)
    <3> SUFFICES ASSUME NEW i \in Nat, i < t, ~bit(n, i) PROVE FALSE
        OBVIOUS
    <3>1. i \in Z
        OBVIOUS
    <3>2. t <= i
        BY <2>2, <3>1
    <3> QED
        BY <2>3, <3>2
  <2> QED
      BY <2>3, <2>4
<1>6. /\ \A i \in Nat : i <= t => Above(m, i) = Above(n, i) + 1
      /\ \A i \in Nat : i > t => Above(m, i) = Above(n, i)
    BY <1>2, <1>5, CarryIs
<1>7. \A i \in Bits : i \in Nat /\ i < w /\ i + 1 \in Nat
    BY <1>1 DEF Bits
<1>8. \A x : \A i \in Bits : gray(x)[i] <=> ~(bit(x, i) <=> bit(x, i + 1))
    BY GrayBit
<1>9. CASE t < w
  <2>1. next = m
    <3>1. Above(m, w) = 0
        BY <1>4, <1>6, <1>9
    <3>2. m < p
        BY <1>1, <3>1, AboveIs
    <3> QED
        BY <1>1, <1>2, <3>2
  <2>2. t \in Bits
      BY <1>1, <1>9 DEF Bits
  <2>3. /\ \A i \in Nat : i < t => ~bit(m, i)
        /\ bit(m, t)
        /\ \A i \in Nat : i > t => (bit(m, i) <=> bit(n, i))
    <3>1. \A i \in Nat : Above(n, i) \in Nat
        BY AboveIs
    <3>2. ASSUME NEW i \in Nat, i < t PROVE ~bit(m, i)
      <4>1. PICK a \in Nat : a = Above(n, i) /\ a % 2 = 1
          BY <1>3, <1>5, <3>1, <3>2
      <4>2. (a + 1) % 2 # 1
          BY <4>1
      <4> QED
          BY <1>3, <1>6, <3>2, <4>1, <4>2
    <3>3. bit(m, t)
      <4>1. PICK a \in Nat : a = Above(n, t) /\ a % 2 # 1
          BY <1>3, <1>5, <3>1
      <4>2. (a + 1) % 2 = 1
          BY <4>1
      <4> QED
          BY <1>3, <1>6, <4>1, <4>2
    <3>4. \A i \in Nat : i > t => (bit(m, i) <=> bit(n, i))
        BY <1>3, <1>6
    <3> QED
        BY <3>2, <3>3, <3>4
  <2>4. ASSUME NEW i \in Bits, i # t PROVE gray(n)[i] <=> gray(m)[i]
    <3>1. i \in Nat /\ i + 1 \in Nat
        BY <1>7
    <3>2. CASE i > t
      <4>1. i + 1 > t
          BY <3>1, <3>2
      <4> QED
          BY <1>8, <2>3, <3>1, <3>2, <4>1
    <3>3. CASE i < t /\ i + 1 < t
        BY <1>5, <1>8, <2>3, <3>1, <3>3
    <3>4. CASE i < t /\ i + 1 = t
        BY <1>5, <1>8, <2>3, <3>1, <3>4
    <3> QED
        BY <2>4, <3>1, <3>2, <3>3, <3>4
  <2> QED
      BY <2>1, <2>2, <2>4
<1>10. CASE t = w
  <2>1. next = 0
    <3>1. Above(m, w) = 1
        BY <1>4, <1>6, <1>10
    <3>2. p <= m
        BY <1>1, <3>1, AboveIs
    <3>3. m = p
        BY <1>1, <1>2, <3>2
    <3> QED
        BY <1>1, <1>2, <3>3
  <2>2. PICK l \in Bits : l = w - 1 /\ l + 1 = w
    <3>1. w - 1 \in Bits
        BY <1>1 DEF Bits
    <3> QED
        BY <3>1
  <2>3. \A i \in Nat : ~bit(0, i)
    <3>1. ASSUME NEW i \in Nat PROVE ~bit(0, i)
      <4>1. 0 < 2 ^ i
          BY PowerIs
      <4>2. Above(0, i) = 0
          BY <4>1, AboveIs
      <4> QED
          BY <1>3, <4>2
    <3> QED
        BY <3>1
  <2>4. ASSUME NEW i \in Bits, i # l PROVE gray(n)[i] <=> gray(0)[i]
    <3>1. i \in Nat /\ i + 1 \in Nat /\ i < t /\ i + 1 < t
        BY <1>7, <1>10, <2>2, <2>4
    <3> QED
        BY <1>5, <1>8, <2>3, <3>1
  <2> QED
      BY <2>1, <2>4
<1> QED
    BY <1>5, <1>9, <1>10

LEMMA TornOnce ==
    ASSUME NEW a \in Words, NEW b \in Words, NEW t \in Bits,
           \A i \in Bits : i # t => (a[i] <=> b[i])
    PROVE  Torn(a, b) = {a, b}
<1>1. \A x, y \in Words : (\A i \in Bits : x[i] <=> y[i]) => x = y
    BY DEF Words
<1>2. a \in Torn(a, b) /\ b \in Torn(a, b)
    BY Zenon DEF Torn
<1>3. ASSUME NEW c \in Torn(a, b) PROVE c = a \/ c = b
  <2>1. c \in Words /\ \A i \in Bits : (c[i] <=> a[i]) \/ (c[i] <=> b[i])
      BY Zenon DEF Torn
  <2>2. CASE c[t] <=> a[t]
      BY <1>1, <2>1, <2>2
  <2>3. CASE c[t] <=> b[t]
      BY <1>1, <2>1, <2>3
  <2> QED
      BY <2>1, <2>2, <2>3
<1> QED
    BY <1>2, <1>3

(* Gray bit i says where parity changes, so the ones at or above a place   *)
(* are odd in number exactly where the binary bit is one.                  *)
Ones(n, k) == {j \in Bits : j >= k /\ gray(n)[j]}

LEMMA ParityIs ==
    ASSUME COUNT_W \in Nat \ {0}, NEW n \in Nat, n < 2 ^ COUNT_W
    PROVE  \A k \in Nat : k <= COUNT_W =>
              (Cardinality(Ones(n, k)) % 2 = 1 <=> bit(n, k))
<1>1. PICK w \in Nat : w = COUNT_W /\ w # 0
    OBVIOUS
<1> DEFINE Odd(k) == Cardinality(Ones(n, k)) % 2 = 1
           B == {d \in Nat : d <= w /\ ~(Odd(w - d) <=> bit(n, w - d))}
<1>2. \A i \in Bits : gray(n)[i] <=> ~(bit(n, i) <=> bit(n, i + 1))
    BY GrayBit
<1>3. \A k \in Nat : IsFiniteSet(Ones(n, k)) /\ Cardinality(Ones(n, k)) \in Nat
  <2>1. IsFiniteSet(Bits)
      BY <1>1, FS_Interval DEF Bits
  <2>2. \A k \in Nat : Ones(n, k) \in SUBSET Bits
      BY DEF Ones
  <2> QED
      BY <2>1, <2>2, FS_Subset, FS_CardinalityType
<1> SUFFICES ASSUME NEW k0 \in Nat, k0 <= w, ~(Odd(k0) <=> bit(n, k0))
             PROVE  FALSE
    BY <1>1
<1>4. PICK d \in B : \A e \in B : d <= e
  <2>1. PICK e \in Nat : e = w - k0 /\ w - e = k0 /\ e <= w
      BY <1>1
  <2>2. B \in SUBSET Nat /\ e \in B
      BY <2>1
  <2> QED
      BY <2>2, LeastExists
<1>5. PICK k \in Nat : k = w - d /\ k <= w /\ d = w - k
    BY <1>1
<1>6. ~(Odd(k) <=> bit(n, k))
    BY <1>5
<1>7. k < w => (Odd(k + 1) <=> bit(n, k + 1))
  <2> SUFFICES ASSUME k < w, ~(Odd(k + 1) <=> bit(n, k + 1)) PROVE FALSE
      OBVIOUS
  <2>1. PICK e \in Nat : e = d - 1 /\ e <= w /\ w - e = k + 1 /\ ~(d <= e)
      BY <1>1, <1>5
  <2>2. e \in B
      BY <2>1
  <2> QED
      BY <1>4, <2>1, <2>2
<1> HIDE DEF B
<1>8. CASE k = w
  <2>1. Ones(n, k) = {}
      BY <1>1, <1>8 DEF Ones, Bits
  <2>2. ~Odd(k)
      BY <2>1, FS_EmptySet
  <2>3. ~bit(n, k)
    <3>1. n < 2 ^ k
        BY <1>1, <1>8
    <3>2. Above(n, k) = 0 /\ (bit(n, k) <=> Above(n, k) % 2 = 1)
        BY <3>1, AboveIs
    <3> QED
        BY <3>2
  <2> QED
      BY <1>6, <2>2, <2>3
<1>9. CASE k < w
  <2>1. k \in Bits /\ k + 1 \in Nat /\ k \notin Ones(n, k + 1)
      BY <1>1, <1>9 DEF Bits, Ones
  <2>2. \A j \in Bits : j >= k <=> j = k \/ j >= k + 1
      BY <1>1 DEF Bits
  <2>3. CASE gray(n)[k]
    <3>1. Ones(n, k) = Ones(n, k + 1) \cup {k}
        BY <2>1, <2>2, <2>3 DEF Ones
    <3>2. Cardinality(Ones(n, k)) = Cardinality(Ones(n, k + 1)) + 1
        BY <1>3, <2>1, <3>1, FS_AddElement
    <3>3. PICK c \in Nat : c = Cardinality(Ones(n, k + 1))
        BY <1>3, <2>1
    <3>4. c % 2 = 1 <=> ~((c + 1) % 2 = 1)
        BY <3>3
    <3>5. Odd(k + 1) <=> ~Odd(k)
        BY <3>2, <3>3, <3>4
    <3> QED
        BY <1>2, <1>6, <1>7, <1>9, <2>1, <2>3, <3>5
  <2>4. CASE ~gray(n)[k]
    <3>1. Ones(n, k) = Ones(n, k + 1)
        BY <2>1, <2>2, <2>4 DEF Ones
    <3>2. Odd(k + 1) <=> Odd(k)
        BY <3>1
    <3> QED
        BY <1>2, <1>6, <1>7, <1>9, <2>1, <2>4, <3>2
  <2> QED
      BY <2>3, <2>4
<1> QED
    BY <1>5, <1>8, <1>9

(***************************************************************************)
(* The sum of the powers.  There is one sum of every set of bits, and it   *)
(* does not depend on the order its members are added in.                  *)
(***************************************************************************)
Some(s) == CHOOSE x \in s : TRUE

Sums(g, T) ==
    g = [s \in T |-> IF s = {} THEN 0 ELSE 2 ^ Some(s) + g[s \ {Some(s)}]]

Few(S, m) == {t \in SUBSET S : Cardinality(t) <= m}

LEMMA SumExists ==
    ASSUME NEW S, IsFiniteSet(S)
    PROVE  \E g : Sums(g, SUBSET S)
<1> DEFINE B == {m \in Nat : ~\E g : Sums(g, Few(S, m))}
<1>1. \A t \in SUBSET S : /\ IsFiniteSet(t) /\ Cardinality(t) \in Nat
                          /\ Cardinality(t) <= Cardinality(S)
    BY FS_Subset, FS_CardinalityType
<1>2. PICK n \in Nat : n = Cardinality(S)
    BY FS_CardinalityType
<1>3. SUBSET S = Few(S, n)
    BY <1>1, <1>2 DEF Few
<1> SUFFICES ASSUME B # {} PROVE FALSE
  <2>1. n \notin B => \E g : Sums(g, Few(S, n))
      OBVIOUS
  <2> QED
      BY <1>3, <2>1, Zenon
<1>4. PICK m \in B : \A k \in B : m <= k
  <2>1. B \in SUBSET Nat
      OBVIOUS
  <2> QED
      BY <2>1, LeastExists
<1>5. m \in Nat /\ ~\E g : Sums(g, Few(S, m))
    OBVIOUS
<1>6. m > 0 => \E g : Sums(g, Few(S, m - 1))
  <2> SUFFICES ASSUME m > 0, ~\E g : Sums(g, Few(S, m - 1)) PROVE FALSE
      OBVIOUS
  <2>1. m - 1 \in B /\ ~(m <= m - 1)
      BY <1>5
  <2> QED
      BY <1>4, <2>1
<1> HIDE DEF B
<1>7. CASE m = 0
  <2> DEFINE g == [t \in Few(S, 0) |-> 0]
  <2>1. \A t \in Few(S, 0) : t = {}
      BY <1>1, FS_EmptySet DEF Few
  <2>2. Sums(g, Few(S, 0))
      BY <2>1 DEF Sums
  <2> QED
      BY <1>5, <1>7, <2>2
<1>8. CASE m > 0
  <2>1. PICK g : Sums(g, Few(S, m - 1))
      BY <1>6, <1>8
  <2> DEFINE h == [t \in Few(S, m) |->
                     IF t = {} THEN 0 ELSE 2 ^ Some(t) + g[t \ {Some(t)}]]
  <2>2. \A u \in Few(S, m - 1) : u \in Few(S, m) /\ h[u] = g[u]
    <3>1. \A u \in Few(S, m - 1) : u \in Few(S, m)
        BY <1>1, <1>5 DEF Few
    <3>2. \A u \in Few(S, m - 1) :
             g[u] = IF u = {} THEN 0 ELSE 2 ^ Some(u) + g[u \ {Some(u)}]
        BY <2>1, Zenon DEF Sums
    <3> QED
        BY <3>1, <3>2
  <2>3. \A t \in Few(S, m) : t # {} => t \ {Some(t)} \in Few(S, m - 1)
    <3> SUFFICES ASSUME NEW t \in Few(S, m), t # {}
                 PROVE  t \ {Some(t)} \in Few(S, m - 1)
        OBVIOUS
    <3>1. t \in SUBSET S /\ Cardinality(t) <= m
        BY DEF Few
    <3>2. Some(t) \in t
        BY DEF Some
    <3>3. Cardinality(t \ {Some(t)}) = Cardinality(t) - 1
        BY <1>1, <3>1, <3>2, FS_RemoveElement
    <3>4. PICK c \in Nat : c = Cardinality(t) /\ c <= m
        BY <1>1, <3>1
    <3>5. c - 1 <= m - 1
        BY <1>5, <3>4
    <3>6. t \ {Some(t)} \in SUBSET S
        BY <3>1
    <3> QED
        BY <3>3, <3>4, <3>5, <3>6 DEF Few
  <2>4. \A t \in Few(S, m) : t # {} => h[t \ {Some(t)}] = g[t \ {Some(t)}]
      BY <2>2, <2>3
  <2>5. PICK f : f = h
      OBVIOUS
  <2>6. f = [t \in Few(S, m) |->
               IF t = {} THEN 0 ELSE 2 ^ Some(t) + f[t \ {Some(t)}]]
    <3> HIDE DEF h
    <3>1. \A t \in Few(S, m) :
             (IF t = {} THEN 0 ELSE 2 ^ Some(t) + f[t \ {Some(t)}])
           = (IF t = {} THEN 0 ELSE 2 ^ Some(t) + g[t \ {Some(t)}])
        BY <2>4, <2>5
    <3>2. [t \in Few(S, m) |->
               IF t = {} THEN 0 ELSE 2 ^ Some(t) + f[t \ {Some(t)}]]
         = [t \in Few(S, m) |->
               IF t = {} THEN 0 ELSE 2 ^ Some(t) + g[t \ {Some(t)}]]
        BY <3>1
    <3> QED
        BY <2>5, <3>2 DEF h
  <2>7. Sums(f, Few(S, m))
      BY <2>6 DEF Sums
  <2> QED
      BY <1>5, <2>7
<1> QED
    BY <1>5, <1>7, <1>8

Adds(g, S) ==
    /\ g[{}] = 0
    /\ \A s \in SUBSET S : g[s] \in Nat
    /\ \A s \in SUBSET S : \A x \in s : g[s] = 2 ^ x + g[s \ {x}]

LEMMA SumAdds ==
    ASSUME NEW S \in SUBSET Nat, IsFiniteSet(S)
    PROVE  \E g : Adds(g, S) /\ MapThenSumSet(LAMBDA i : 2 ^ i, S) = g[S]
<1> DEFINE it == CHOOSE g : g = [s \in SUBSET S |->
                  IF s = {} THEN 0
                  ELSE 2 ^ (CHOOSE x \in s : TRUE)
                       + g[s \ {CHOOSE x \in s : TRUE}]]
<1>1. MapThenSumSet(LAMBDA i : 2 ^ i, S) = it[S]
    BY DEF MapThenSumSet, MapThenFoldSet
<1>2. \E g : Sums(g, SUBSET S)
    BY SumExists
<1>3. it = [s \in SUBSET S |->
              IF s = {} THEN 0
              ELSE 2 ^ (CHOOSE x \in s : TRUE)
                   + it[s \ {CHOOSE x \in s : TRUE}]]
    BY <1>2, Zenon DEF Sums, Some
<1>4. PICK g : g = it
    OBVIOUS
<1> HIDE DEF it
<1>5. \A s \in SUBSET S :
         g[s] = IF s = {} THEN 0 ELSE 2 ^ Some(s) + g[s \ {Some(s)}]
    BY <1>3, <1>4, Zenon DEF Some
<1>6. g[{}] = 0
    BY <1>5
<1>7. \A s \in SUBSET S : IsFiniteSet(s) /\ Cardinality(s) \in Nat
    BY FS_Subset, FS_CardinalityType
<1>8. \A x \in S : 2 ^ x \in Nat
    BY PowerIs
<1> DEFINE Good(s) == /\ g[s] \in Nat
                      /\ \A x \in s : g[s] = 2 ^ x + g[s \ {x}]
           B == {m \in Nat : \E s \in SUBSET S : Cardinality(s) = m /\ ~Good(s)}
<1>9. ASSUME NEW s0 \in SUBSET S, ~Good(s0) PROVE FALSE
  <2>1. PICK m \in B : \A k \in B : m <= k
    <3>1. B \in SUBSET Nat /\ Cardinality(s0) \in B
        BY <1>7, <1>9
    <3> QED
        BY <3>1, LeastExists
  <2>2. PICK s \in SUBSET S : Cardinality(s) = m /\ ~Good(s)
      OBVIOUS
  <2>3. \A t \in SUBSET s : t # s => Good(t)
    <3> SUFFICES ASSUME NEW t \in SUBSET s, t # s, ~Good(t) PROVE FALSE
        OBVIOUS
    <3>1. t \in SUBSET S /\ IsFiniteSet(s)
        BY <1>7
    <3>2. Cardinality(t) <= Cardinality(s) /\ Cardinality(t) # Cardinality(s)
        BY <3>1, FS_Subset
    <3>3. PICK c \in Nat, e \in Nat : /\ c = Cardinality(t) /\ e = Cardinality(s)
                                      /\ c < e
        BY <1>7, <3>1, <3>2
    <3>4. c \in B /\ e = m
        BY <2>2, <3>1, <3>3
    <3> QED
        BY <2>1, <3>3, <3>4
  <2> HIDE DEF B
  <2>4. s # {}
      BY <1>6, <2>2
  <2>5. PICK y : y = Some(s) /\ y \in s
      BY <2>4 DEF Some
  <2>6. g[s] = 2 ^ y + g[s \ {y}]
      BY <1>5, <2>4, <2>5
  <2>7. g[s] \in Nat
    <3>1. s \ {y} \in SUBSET s /\ s \ {y} # s
        BY <2>5
    <3>2. PICK p \in Nat, z \in Nat : p = 2 ^ y /\ z = g[s \ {y}]
        BY <1>8, <2>3, <2>5, <3>1
    <3> QED
        BY <2>6, <3>2
  <2>8. ASSUME NEW x \in s PROVE g[s] = 2 ^ x + g[s \ {x}]
    <3>1. CASE x = y
        BY <2>6, <3>1
    <3>2. CASE x # y
      <4>1. PICK r, a, b : /\ r = (s \ {y}) \ {x} /\ r = (s \ {x}) \ {y}
                           /\ a = s \ {y} /\ b = s \ {x}
                           /\ r = a \ {x} /\ r = b \ {y}
                           /\ x \in a /\ y \in b
        <5>1. (s \ {y}) \ {x} = (s \ {x}) \ {y}
            OBVIOUS
        <5>2. x \in s \ {y} /\ y \in s \ {x}
            BY <2>5, <3>2
        <5> QED
            BY <5>1, <5>2, Zenon
      <4>2. Good(a) /\ Good(b) /\ Good(r)
        <5>1. /\ a \in SUBSET s /\ b \in SUBSET s /\ r \in SUBSET s
              /\ a # s /\ b # s /\ r # s
            BY <2>5, <4>1
        <5> QED
            BY <2>3, <5>1
      <4>3. g[a] = 2 ^ x + g[r] /\ g[b] = 2 ^ y + g[r]
          BY <4>1, <4>2
      <4>4. PICK p \in Nat, q \in Nat, z \in Nat :
               p = 2 ^ x /\ q = 2 ^ y /\ z = g[r]
          BY <1>8, <2>5, <4>2
      <4> QED
          BY <2>6, <4>1, <4>3, <4>4
    <3> QED
        BY <3>1, <3>2
  <2> QED
      BY <2>2, <2>7, <2>8
<1>10. Adds(g, S)
    BY <1>6, <1>9 DEF Adds
<1> QED
    BY <1>1, <1>4, <1>10

Low(S, k)  == {i \in S : i < k}
High(S, k) == {i \in S : i >= k}

(* The sum of a set of bits is below the power above them.                 *)
LEMMA SumBelow ==
    ASSUME COUNT_W \in Nat \ {0}, NEW S \in SUBSET Bits, NEW g, Adds(g, S)
    PROVE  g[S] < 2 ^ COUNT_W
<1>1. PICK w \in Nat : w = COUNT_W
    OBVIOUS
<1>2. \A i \in S : i \in Nat /\ i < w
    BY <1>1 DEF Bits
<1> DEFINE B == {k \in Nat : ~(g[Low(S, k)] < 2 ^ k)}
<1>3. \A k \in Nat : Low(S, k) \in SUBSET S /\ g[Low(S, k)] \in Nat
    BY DEF Adds, Low
<1>4. Low(S, w) = S
    BY <1>2 DEF Low
<1> SUFFICES ASSUME w \in B PROVE FALSE
  <2>1. g[Low(S, w)] < 2 ^ w => g[S] < 2 ^ COUNT_W
      BY <1>1, <1>4
  <2> QED
      BY <1>1, <2>1
<1>5. PICK k \in B : \A j \in B : k <= j
  <2>1. B \in SUBSET Nat
      OBVIOUS
  <2> QED
      BY <2>1, LeastExists
<1>6. k \in Nat /\ ~(g[Low(S, k)] < 2 ^ k)
    OBVIOUS
<1>7. k # 0
  <2> SUFFICES ASSUME k = 0 PROVE FALSE
      OBVIOUS
  <2>1. Low(S, k) = {}
      BY <1>2 DEF Low
  <2>2. g[Low(S, k)] = 0 /\ 2 ^ k \in Nat \ {0}
      BY <1>6, <2>1, PowerIs DEF Adds
  <2>3. PICK p \in Nat \ {0} : p = 2 ^ k
      BY <2>2
  <2> QED
      BY <1>6, <2>2, <2>3
<1>8. PICK j \in Nat : k = j + 1 /\ ~(k <= j)
    BY <1>6, <1>7
<1>9. g[Low(S, j)] < 2 ^ j
    BY <1>5, <1>8
<1> HIDE DEF B
<1>10. PICK p \in Nat, q \in Nat : p = 2 ^ j /\ q = 2 ^ k /\ q = 2 * p
    BY <1>6, <1>8, PowerIs
<1>11. PICK z \in Nat : z = g[Low(S, j)] /\ z < p
    BY <1>3, <1>9, <1>10
<1>12. CASE j \in S
  <2>1. j \in Low(S, k) /\ Low(S, k) \ {j} = Low(S, j)
    <3>1. \A i \in S : i < k <=> i < j \/ i = j
        BY <1>2, <1>8
    <3>2. \A i \in S : i = j => ~(i < j)
        BY <1>2
    <3> QED
        BY <1>12, <3>1, <3>2 DEF Low
  <2>2. g[Low(S, k)] = 2 ^ j + g[Low(S, j)]
      BY <1>3, <1>6, <2>1 DEF Adds
  <2>3. g[Low(S, k)] = p + z
      BY <1>10, <1>11, <2>2
  <2> QED
      BY <1>6, <1>10, <1>11, <2>3
<1>13. CASE j \notin S
  <2>1. Low(S, k) = Low(S, j)
    <3>1. \A i \in S : i < k <=> i < j
        BY <1>2, <1>8, <1>13
    <3> QED
        BY <3>1 DEF Low
  <2>2. g[Low(S, k)] = z
      BY <1>11, <2>1
  <2> QED
      BY <1>6, <1>10, <1>11, <2>2
<1> QED
    BY <1>12, <1>13

(* The sum of a number's bits from a place up is what is above it, at its  *)
(* weight; from place zero it is the number.                               *)
LEMMA SumIs ==
    ASSUME COUNT_W \in Nat \ {0}, NEW n \in Nat, n < 2 ^ COUNT_W,
           NEW S, S = {i \in Bits : bit(n, i)}, NEW g, Adds(g, S)
    PROVE  g[S] = n
<1>1. PICK w \in Nat : w = COUNT_W
    OBVIOUS
<1>2. \A i \in S : i \in Nat /\ i < w
    BY <1>1 DEF Bits
<1> DEFINE Right(k) == g[High(S, k)] = 2 ^ k * Above(n, k)
           B == {d \in Nat : d <= w /\ ~Right(w - d)}
<1>3. Right(0) => g[S] = n
  <2>1. High(S, 0) = S
      BY <1>2 DEF High
  <2>2. 2 ^ 0 = 1 /\ Above(n, 0) = n
      BY AboveIs
  <2> QED
    <3> SUFFICES ASSUME Right(0) PROVE g[S] = n
        OBVIOUS
    <3>1. g[High(S, 0)] = 2 ^ 0 * Above(n, 0)
        OBVIOUS
    <3>2. PICK p \in Nat : p = 2 ^ 0 /\ p = 1
        BY <2>2
    <3>3. g[S] = p * n
        BY <2>1, <2>2, <3>1, <3>2, Zenon
    <3> QED
        BY <3>2, <3>3
<1> SUFFICES ASSUME ~Right(0) PROVE FALSE
    BY <1>3
<1>4. PICK d \in B : \A e \in B : d <= e
  <2>1. w \in B /\ B \in SUBSET Nat
    <3>1. w - w = 0
        BY <1>1
    <3> QED
        BY <1>1, <3>1
  <2> QED
      BY <2>1, LeastExists
<1>5. PICK k \in Nat : k = w - d /\ k <= w /\ d = w - k /\ ~Right(k)
  <2>1. d \in Nat /\ d <= w /\ ~Right(w - d)
      OBVIOUS
  <2>2. w - d \in Nat /\ w - d <= w /\ d = w - (w - d)
      BY <2>1
  <2> HIDE DEF Right, B
  <2> QED
      BY <2>1, <2>2
<1>6. k < w => Right(k + 1)
  <2> SUFFICES ASSUME k < w, ~Right(k + 1) PROVE FALSE
      OBVIOUS
  <2>1. PICK e \in Nat : e = d - 1 /\ e <= w /\ w - e = k + 1 /\ ~(d <= e)
      BY <1>1, <1>5
  <2>2. e \in B
      BY <2>1
  <2> QED
      BY <1>4, <2>1, <2>2
<1>7. ~(g[High(S, k)] = 2 ^ k * Above(n, k))
    BY <1>5
<1>8. k < w => g[High(S, k + 1)] = 2 ^ (k + 1) * Above(n, k + 1)
    BY <1>6
<1> HIDE DEF B, Right
<1>9. CASE k = w
  <2>1. High(S, k) = {}
      BY <1>2, <1>9 DEF High
  <2>2. g[High(S, k)] = 0
      BY <2>1 DEF Adds
  <2>3. n < 2 ^ k
      BY <1>1, <1>9
  <2>4. Above(n, k) = 0
      BY <2>3, AboveIs
  <2>5. PICK p \in Nat : p = 2 ^ k
      BY PowerIs
  <2> QED
      BY <1>7, <2>2, <2>4, <2>5
<1>10. CASE k < w
  <2>1. k \in Bits /\ k + 1 \in Nat /\ High(S, k) \in SUBSET S
      BY <1>1, <1>10 DEF Bits, High
  <2>2. k \in S <=> bit(n, k)
      BY <2>1
  <2>3. PICK p \in Nat : p = 2 ^ k /\ 2 ^ (k + 1) = 2 * p
      BY PowerIs
  <2>4. PICK a \in Nat, b \in Nat :
           /\ a = Above(n, k) /\ b = Above(n, k + 1) /\ b = a \div 2
           /\ bit(n, k) <=> a % 2 = 1
      BY <2>1, AboveIs
  <2>5. g[High(S, k + 1)] = 2 * p * b
      BY <1>10, <1>8, <2>3, <2>4
  <2>6. CASE bit(n, k)
    <3>1. k \in High(S, k) /\ High(S, k) \ {k} = High(S, k + 1)
      <4>1. \A i \in S : i >= k <=> i >= k + 1 \/ i = k
          BY <1>2
      <4>2. \A i \in S : i = k => ~(i >= k + 1)
          BY <1>2
      <4> QED
          BY <2>6, <2>2, <4>1, <4>2 DEF High
    <3>2. g[High(S, k)] = 2 ^ k + g[High(S, k + 1)]
        BY <2>1, <3>1 DEF Adds
    <3>3. a = 2 * b + 1
        BY <2>4, <2>6
    <3>4. p * a = p + 2 * p * b
        BY <3>3
    <3> QED
        BY <1>7, <2>3, <2>4, <2>5, <3>2, <3>4
  <2>7. CASE ~bit(n, k)
    <3>1. High(S, k) = High(S, k + 1)
      <4>1. \A i \in S : i >= k <=> i >= k + 1
          BY <1>2, <2>7, <2>2
      <4> QED
          BY <4>1 DEF High
    <3>2. a = 2 * b
        BY <2>4, <2>7
    <3>3. p * a = 2 * p * b
        BY <3>2
    <3> QED
        BY <1>7, <2>3, <2>4, <2>5, <3>1, <3>3
  <2> QED
      BY <2>6, <2>7
<1> QED
    BY <1>5, <1>9, <1>10

(* The code of freq_counter.v carries a count across: reading it while the *)
(* count moves yields the count before or after, at every width.           *)
THEOREM GrayCarries ==
    ASSUME COUNT_W \in Nat \ {0}
    PROVE  /\ \A c \in Words : binary(c) \in 0 .. 2 ^ COUNT_W - 1
           /\ \A n \in 0 .. 2 ^ COUNT_W - 1 :
                 LET next == (n + 1) % 2 ^ COUNT_W
                 IN  /\ gray(n) \in Words /\ binary(gray(n)) = n
                     /\ Torn(gray(n), gray(next)) = {gray(n), gray(next)}
<1>1. PICK w \in Nat, p \in Nat \ {0} : w = COUNT_W /\ p = 2 ^ w
    BY PowerIs
<1>2. \A S \in SUBSET Bits : S \in SUBSET Nat /\ IsFiniteSet(S)
  <2>1. IsFiniteSet(Bits) /\ Bits \in SUBSET Nat
      BY <1>1, FS_Interval DEF Bits
  <2> QED
      BY <2>1, FS_Subset
<1>3. ASSUME NEW c \in Words PROVE binary(c) \in 0 .. 2 ^ COUNT_W - 1
  <2> DEFINE S == {i \in Bits :
                     Cardinality({j \in Bits : j >= i /\ c[j]}) % 2 = 1}
  <2>1. binary(c) = MapThenSumSet(LAMBDA i : 2 ^ i, S)
      BY DEF binary
  <2>2. S \in SUBSET Bits
      OBVIOUS
  <2> HIDE DEF S
  <2>3. PICK g : Adds(g, S) /\ MapThenSumSet(LAMBDA i : 2 ^ i, S) = g[S]
      BY <1>2, <2>2, SumAdds
  <2>4. g[S] < 2 ^ COUNT_W
      BY <2>2, <2>3, SumBelow
  <2>5. PICK z \in Nat : z = g[S]
      BY <2>3 DEF Adds
  <2>6. binary(c) = g[S]
      BY <2>1, <2>3, Zenon
  <2> QED
      BY <1>1, <2>4, <2>5, <2>6
<1>4. ASSUME NEW n \in 0 .. 2 ^ COUNT_W - 1
      PROVE  gray(n) \in Words /\ binary(gray(n)) = n
  <2>1. n \in Nat /\ n < 2 ^ COUNT_W
      BY <1>1
  <2>2. gray(n) \in Words
    <3>1. \A i \in Bits : (bit(n, i) # bit(n, i + 1)) \in BOOLEAN
        OBVIOUS
    <3> QED
        BY <3>1 DEF gray, Words
  <2> DEFINE S == {i \in Bits : bit(n, i)}
  <2>3. binary(gray(n)) = MapThenSumSet(LAMBDA i : 2 ^ i, S)
    <3>1. \A k \in Nat : k <= COUNT_W =>
             (Cardinality(Ones(n, k)) % 2 = 1 <=> bit(n, k))
        BY <2>1, ParityIs
    <3>2. \A i \in Bits : (Cardinality(Ones(n, i)) % 2 = 1 <=> bit(n, i))
        BY <1>1, <3>1 DEF Bits
    <3>3. S = {i \in Bits : Cardinality(Ones(n, i)) % 2 = 1}
        BY <3>2
    <3> HIDE DEF S
    <3> QED
        BY <3>3 DEF binary, Ones
  <2>4. S \in SUBSET Bits
      OBVIOUS
  <2>5. \E g : Adds(g, S) /\ MapThenSumSet(LAMBDA i : 2 ^ i, S) = g[S]
    <3> HIDE DEF S
    <3> QED
        BY <1>2, <2>4, SumAdds
  <2>6. PICK g : Adds(g, S) /\ MapThenSumSet(LAMBDA i : 2 ^ i, S) = g[S]
      BY <2>5
  <2>7. g[S] = n
      BY <2>1, <2>6, SumIs
  <2> QED
      BY <2>2, <2>3, <2>6, <2>7
<1>5. ASSUME NEW n \in 0 .. 2 ^ COUNT_W - 1,
             NEW next, next = (n + 1) % 2 ^ COUNT_W
      PROVE  Torn(gray(n), gray(next)) = {gray(n), gray(next)}
  <2>1. n \in Nat /\ n < 2 ^ COUNT_W /\ next \in 0 .. 2 ^ COUNT_W - 1
      BY <1>1, <1>5
  <2>2. gray(n) \in Words /\ gray(next) \in Words
      BY <1>4, <2>1
  <2>3. PICK t \in Bits : \A i \in Bits : i # t =>
           (gray(n)[i] <=> gray(next)[i])
      BY <1>5, <2>1, OneBit
  <2> QED
      BY <2>2, <2>3, TornOnce
<1> QED
    BY <1>3, <1>4, <1>5
=============================================================================
