--------------------------- MODULE AxiBist_proofs --------------------------
(***************************************************************************)
(* The memory test, for every number of words, geometry, wiring of the     *)
(* board and set of faults.                                                *)
(***************************************************************************)
EXTENDS AxiBist, BistPattern, SequenceTheorems, FiniteSetTheorems,
        WellFoundedInduction, TLAPS

(***************************************************************************)
(* The address walks, for every geometry the assumptions admit.            *)
(***************************************************************************)
(* A remainder is the number itself below the modulus.                     *)
LEMMA ModBelow ==
    ASSUME NEW m \in Nat \ {0}, NEW x \in 0 .. m - 1
    PROVE  x % m = x
    BY SMT

(* In the second half of the range it is what exceeds the first half.      *)
LEMMA ModAbove ==
    ASSUME NEW m \in Nat \ {0}, NEW x \in m .. 2 * m - 1
    PROVE  x % m = x - m
    BY SMT

(* Multiplication by a natural number keeps the order.                     *)
LEMMA TimesMonotone ==
    ASSUME NEW s \in Nat, NEW a \in Nat, NEW b \in Nat, a <= b
    PROVE  a * s \in Nat /\ b * s \in Nat /\ a * s <= b * s
    BY SMT

(* A step times a larger count is at least one step further.               *)
LEMMA TimesStep ==
    ASSUME NEW s \in Nat, NEW a \in Nat, NEW b \in Nat, a < b
    PROVE  a * s + s <= b * s
    BY SMT

(* The dense walk stays strictly between the first two sparse points: no   *)
(* address of it wraps.                                                    *)
LEMMA DenseAddress ==
    ASSUME NEW i \in Index, ~sparse(i)
    PROVE  /\ i \in 0 .. Half - 1
           /\ addr_of_index(i) = DenseBase + i * Stride
           /\ addr_of_index(i) \in 1 .. SparseStride - 1
<1> DEFINE a == DenseBase + i * Stride
<1>1. i \in 0 .. Half - 1
    BY SizeAssumption, SMT DEF Index, sparse
<1>2. sub_index(i) = i
    BY <1>1, ModBelow, SizeAssumption DEF sub_index
<1>3. i * Stride \in Nat /\ i * Stride <= (Half - 1) * Stride
    <2>1. i \in Nat /\ Half - 1 \in Nat /\ i <= Half - 1 /\ Stride \in Nat
        BY <1>1, SizeAssumption, SMT
    <2>2. QED BY <2>1, TimesMonotone
<1>4. a \in 1 .. SparseStride - 1
    <2>1. (Half - 1) * Stride \in Int BY SizeAssumption, SMT
    <2>2. QED BY <1>3, <2>1, SizeAssumption, GeometryAssumption, SMT
<1>5. SparseStride <= AddrSpace
    <2>1. 1 * SparseStride <= Half * SparseStride
        BY TimesMonotone, SizeAssumption, SMT
    <2>2. Half * SparseStride \in Int BY SizeAssumption, SMT
    <2>3. QED BY <2>1, <2>2, SizeAssumption, GeometryAssumption, SMT
<1>6. a \in 0 .. AddrSpace - 1
    BY <1>4, <1>5, SizeAssumption, SMT
<1>7. a % AddrSpace = a
    BY <1>6, ModBelow, SizeAssumption
<1>8. addr_of_index(i) = a
    BY <1>2, <1>7 DEF addr_of_index
<1>9. QED BY <1>1, <1>4, <1>8

(* The sparse walk visits the multiples of its stride: none of them wraps. *)
LEMMA SparseAddress ==
    ASSUME NEW i \in Index, sparse(i)
    PROVE  /\ i - Half \in 0 .. Half - 1
           /\ addr_of_index(i) = (i - Half) * SparseStride
           /\ addr_of_index(i) \in Nat
<1> DEFINE k == i - Half
           a == k * SparseStride
<1>1. i \in Half .. 2 * Half - 1 /\ k \in 0 .. Half - 1
    BY SizeAssumption, SMT DEF Index, sparse
<1>2. sub_index(i) = k
    BY <1>1, ModAbove, SizeAssumption DEF sub_index
<1>3. a \in Nat /\ a + SparseStride <= Half * SparseStride
    <2>1. k \in Nat /\ Half \in Nat /\ k < Half /\ SparseStride \in Nat
        BY <1>1, SizeAssumption, SMT
    <2>2. QED BY <2>1, TimesStep, TimesMonotone
<1>4. a \in 0 .. AddrSpace - 1
    <2>1. Half * SparseStride \in Int BY SizeAssumption, SMT
    <2>2. QED BY <1>3, <2>1, SizeAssumption, GeometryAssumption, SMT
<1>5. a % AddrSpace = a
    BY <1>4, ModBelow, SizeAssumption
<1>6. addr_of_index(i) = a
    BY <1>2, <1>5 DEF addr_of_index
<1>7. QED BY <1>1, <1>3, <1>6

(* Neither walk visits a word twice, and they have no word in common: what *)
(* the offset of the dense walk is for.                                    *)
THEOREM AddressesDistinct ==
    \A i, j \in Index : addr_of_index(i) = addr_of_index(j) => i = j
<1> SUFFICES ASSUME NEW i \in Index, NEW j \in Index,
                    addr_of_index(i) = addr_of_index(j)
             PROVE  i = j
    OBVIOUS
<1>1. ASSUME NEW s \in Nat \ {0}, NEW x \in Nat, NEW y \in Nat,
             x * s = y * s
      PROVE  x = y
    BY <1>1, SMT
<1>2. ASSUME NEW d \in Index, NEW e \in Index, ~sparse(d), sparse(e)
      PROVE  addr_of_index(d) # addr_of_index(e)
    <2> DEFINE k == e - Half
    <2>1. addr_of_index(d) \in 1 .. SparseStride - 1
        BY <1>2, DenseAddress
    <2>2. addr_of_index(e) = k * SparseStride /\ k \in 0 .. Half - 1
        BY <1>2, SparseAddress
    <2>3. CASE k = 0
        BY <2>1, <2>2, <2>3, SizeAssumption, SMT
    <2>4. CASE k >= 1
        <3>1. 1 * SparseStride <= k * SparseStride /\ k * SparseStride \in Nat
            BY <2>2, <2>4, TimesMonotone, SizeAssumption, SMT
        <3>2. QED BY <3>1, <2>1, <2>2, SizeAssumption, SMT
    <2>5. QED BY <2>2, <2>3, <2>4, SizeAssumption, SMT
<1>3. CASE ~sparse(i) /\ ~sparse(j)
    <2>1. i \in Nat /\ j \in Nat /\ i * Stride = j * Stride
        <3>1. i \in Nat /\ j \in Nat BY <1>3, DenseAddress, SMT
        <3>2. i * Stride \in Int /\ j * Stride \in Int
            BY <3>1, SizeAssumption, SMT
        <3>3. DenseBase + i * Stride = DenseBase + j * Stride
            BY <1>3, DenseAddress
        <3>4. QED BY <3>1, <3>2, <3>3, SizeAssumption, SMT
    <2>2. QED BY <2>1, <1>1, SizeAssumption
<1>4. CASE sparse(i) /\ sparse(j)
    <2>1. /\ i - Half \in 0 .. Half - 1 /\ j - Half \in 0 .. Half - 1
          /\ (i - Half) * SparseStride = (j - Half) * SparseStride
        BY <1>4, SparseAddress
    <2>2. i - Half \in Nat /\ j - Half \in Nat BY <2>1, SizeAssumption, SMT
    <2>3. i - Half = j - Half BY <2>1, <2>2, <1>1, SizeAssumption
    <2>4. QED BY <2>3, SizeAssumption, SMT DEF Index
<1>5. QED BY <1>2, <1>3, <1>4

(* Bit 13 of a multiple of 2^14, and of 512 and less than 2^12, is clear.  *)
LEMMA SparseBit == \A k \in 0 .. 4095 : ((k * 16384) \div 8192) % 2 = 0
<1> SUFFICES ASSUME NEW k \in 0 .. 4095
             PROVE  ((k * 16384) \div 8192) % 2 = 0
    OBVIOUS
<1>1. (k * 16384) \div 8192 = 2 * k BY SMT
<1>2. (2 * k) % 2 = 0 BY SMT
<1>3. QED BY <1>1, <1>2

LEMMA DenseBit == \A k \in 0 .. 4095 : ((512 + k) \div 8192) % 2 = 0
<1> SUFFICES ASSUME NEW k \in 0 .. 4095 PROVE ((512 + k) \div 8192) % 2 = 0
    OBVIOUS
<1>1. (512 + k) \div 8192 = 0 BY SMT
<1>2. QED BY <1>1, SMT

(* With the parameters of the design -- 8192 words, one word and 2^14      *)
(* words (1 MB) apart, from word 2^9 (DENSE_BASE 0x8000) in 2^26 words --  *)
(* no tested address has bit 13 set: byte address bit 19 is never driven   *)
(* high.                                                                   *)
THEOREM Bit19NeverExercised ==
    /\ NWords = 8192 /\ Stride = 1 /\ SparseStride = 16384
    /\ DenseBase = 512 /\ AddrSpace = 67108864
    => \A i \in Index : (addr_of_index(i) \div 8192) % 2 = 0
<1>1. SUFFICES ASSUME NWords = 8192, Stride = 1, SparseStride = 16384,
                      DenseBase = 512, NEW i \in Index
               PROVE  (addr_of_index(i) \div 8192) % 2 = 0
    OBVIOUS
<1>2. Half = 4096 BY <1>1, SizeAssumption, SMT
<1>3. CASE sparse(i)
    <2>1. /\ i - Half \in 0 .. Half - 1
          /\ addr_of_index(i) = (i - Half) * SparseStride
        BY <1>3, SparseAddress
    <2>2. PICK k \in 0 .. Half - 1 : addr_of_index(i) = k * SparseStride
        BY <2>1
    <2>3. k \in 0 .. 4095 /\ addr_of_index(i) = k * 16384
        BY <2>2, <1>1, <1>2
    <2>4. QED BY <2>3, SparseBit
<1>4. CASE ~sparse(i)
    <2>1. i \in 0 .. Half - 1 /\ addr_of_index(i) = DenseBase + i * Stride
        BY <1>4, DenseAddress
    <2>2. i \in 0 .. 4095 /\ addr_of_index(i) = 512 + i
        BY <2>1, <1>1, <1>2
    <2>3. QED BY <2>2, DenseBit
<1>5. QED BY <1>3, <1>4

-----------------------------------------------------------------------------
(***************************************************************************)
(* The test.                                                               *)
(***************************************************************************)
A(i) == addr_of_index(i)

USE DEF Last

(***************************************************************************)
(* The inductive invariant, in parts.  BusInv: in each state exactly the   *)
(* requests of the current index are on the bus.                           *)
(***************************************************************************)
Quiet == ~awvalid /\ ~wvalid /\ ~arvalid
NothingAccepted == slv_aw = None /\ slv_w = None /\ slv_ar = None

BusInv ==
    /\ state \in {"S_IDLE", "S_WADDR", "S_RADDR", "S_DONE"} =>
        Quiet /\ NothingAccepted
    /\ state = "S_WDATA" =>
        /\ ~arvalid /\ slv_ar = None
        /\ ~(aw_done /\ w_done)
        /\ awaddr = A(index) /\ wdata = pattern(index)
        /\ awvalid = ~aw_done /\ wvalid = ~w_done
        /\ slv_aw = IF aw_done THEN A(index) ELSE None
        /\ slv_w  = IF w_done THEN pattern(index) ELSE None
    /\ state = "S_WRESP" =>
        /\ Quiet /\ slv_ar = None /\ aw_done /\ w_done
        /\ slv_aw = A(index) /\ slv_w = pattern(index)
    /\ state = "S_RDATA" =>
        /\ ~awvalid /\ ~wvalid /\ slv_aw = None /\ slv_w = None
        /\ araddr = A(index)
        /\ slv_ar = IF arvalid THEN None ELSE A(index)

(* When the verdict is up, and that a test that runs shows none.           *)
VerdictInv ==
    /\ done => state \in {"S_IDLE", "S_DONE"}
    /\ pass => done /\ error_count = 0
    /\ done /\ ~pass => error_count # 0
    /\ busy <=> state # "S_IDLE" /\ ~done
    /\ state \notin {"S_IDLE", "S_DONE"} => ~done
    /\ state = "S_DONE" => index = NWords - 1

(* Answers received so far in this test.                                   *)
Answered == CASE state \in {"S_WADDR", "S_WDATA", "S_WRESP"} -> index
              [] state \in {"S_RADDR", "S_RDATA"} -> NWords + index
              [] state \in {"S_IDLE", "S_DONE"} -> 2 * NWords

(* The count never wraps, and no wrong answer is missed.                   *)
CountInv == /\ error_count <= Answered
            /\ Len(hits) <= error_count

(* The count and the address, when a wrong answer is all that can happen:  *)
(* no error comes from what the memory holds.                              *)
Holds(i) == mem[decode[A(i)]] = pattern(i)

Verified == CASE state \in {"S_WADDR", "S_WDATA", "S_WRESP"} -> {}
              [] state \in {"S_RADDR", "S_RDATA"} -> 0 .. index - 1
              [] state = "S_DONE" -> Index
              [] state = "S_IDLE" -> IF done THEN Index ELSE {}

(* What has been read back without an error is in the memory.              *)
ReadInv == error_count = 0 => \A i \in Verified : Holds(i)

Written == CASE state \in {"S_WADDR", "S_WDATA", "S_WRESP"} -> 0 .. index - 1
             [] state \in {"S_RADDR", "S_RDATA", "S_DONE"} -> Index
             [] state = "S_IDLE" -> {}

(* When no write is lost and no cell is shared, what was written is there, *)
(* and every error that is counted is a wrong answer.                      *)
Kept == Injective(decode) /\ ~lost
KeptInv ==
    Kept => /\ \A i \in Written : Holds(i)
            /\ error_count = Len(hits)
            /\ first_bad_addr = IF hits = <<>> THEN 0 ELSE hits[1]

IInv == TypeOK /\ BusInv /\ VerdictInv /\ CountInv /\ ReadInv /\ KeptInv

-----------------------------------------------------------------------------
(* What the walks visit are natural numbers, so None is not among them.    *)
LEMMA AddressType == \A i \in Index : A(i) \in Tested /\ A(i) # None
<1> SUFFICES ASSUME NEW i \in Index PROVE A(i) \in Tested /\ A(i) # None
    OBVIOUS
<1>1. A(i) \in Nat
    <2>1. CASE sparse(i) BY <2>1, SparseAddress DEF A
    <2>2. CASE ~sparse(i)
        BY <2>2, DenseAddress, SizeAssumption, SMT DEF A
    <2>3. QED BY <2>1, <2>2
<1>2. QED BY <1>1, PatternAssumption DEF Tested, A

(* The words written are words, and the empty slot is none of them.        *)
LEMMA PatternType == \A i \in Index : pattern(i) \in Word /\ pattern(i) # None
BY PatternAssumption DEF Word

(* There is an index 0 and a last one, and stepping stays in between.      *)
LEMMA IndexRange ==
    /\ NWords \in Nat \ {0} /\ 0 \in Index /\ NWords - 1 \in Index
    /\ \A i \in Index : i # NWords - 1 => i + 1 \in Index
BY SizeAssumption, SMT DEF Index

(* A test starts with nothing counted and no wrong answer recorded.        *)
LEMMA FreshCount ==
    /\ 0 \in 0 .. CountModulus - 1
    /\ <<>> \in Seq(Tested \cup {None})
<1>1. 0 \in 0 .. CountModulus - 1
    BY CountAssumption, SizeAssumption, SMT
<1>2. QED BY <1>1, EmptySeq

-----------------------------------------------------------------------------
(* What the bookkeeping of S_WRESP and S_RDATA keeps typed.                *)
LEMMA CountErrorType ==
    ASSUME TypeOK, NEW bad \in BOOLEAN, CountError(bad)
    PROVE  /\ error_count' \in 0 .. CountModulus - 1
           /\ first_bad_addr' \in Tested \cup {0}
<1>1. error_count' \in 0 .. CountModulus - 1
    BY CountAssumption, SMT DEF CountError, TypeOK
<1>2. first_bad_addr' \in Tested \cup {0}
    BY AddressType DEF CountError, TypeOK, A
<1>3. QED BY <1>1, <1>2

(* Every register, the slave and the DRAM keep their types.                *)
LEMMA TypeStep == TypeOK /\ [Next]_vars => TypeOK'
<1> SUFFICES ASSUME TypeOK, [Next]_vars PROVE TypeOK'
    OBVIOUS
<1> USE DEF TypeOK, States
<1>1. CASE StartTest
    <2>1. /\ index' \in Index /\ hits' \in Seq(Tested \cup {None})
          /\ error_count' \in 0 .. CountModulus - 1
        BY <1>1, IndexRange, FreshCount DEF StartTest
    <2>2. /\ state' \in States /\ first_bad_addr' \in Tested \cup {0}
          /\ busy' \in BOOLEAN /\ done' \in BOOLEAN /\ pass' \in BOOLEAN
          /\ lost' \in BOOLEAN
          /\ UNCHANGED <<aw_done, w_done, drive, start, slave, mem, decode>>
        BY <1>1 DEF StartTest
    <2>3. QED BY <2>1, <2>2 DEF drive, slave
<1>2. CASE IssueWrite
    <2>1. awaddr' \in Tested \cup {None} /\ wdata' \in Word \cup {None}
        BY <1>2, AddressType, PatternType DEF IssueWrite, A
    <2>2. /\ state' \in States /\ aw_done' \in BOOLEAN /\ w_done' \in BOOLEAN
          /\ awvalid' \in BOOLEAN /\ wvalid' \in BOOLEAN
          /\ UNCHANGED <<index, report, araddr, arvalid, start, slave, mem,
                         decode, hits, lost>>
        BY <1>2 DEF IssueWrite
    <2>3. QED BY <2>1, <2>2 DEF report, slave
<1>3. CASE HandshakeWrite
    BY <1>3 DEF HandshakeWrite, report
<1>4. CASE WriteResponse
    <2>1. PICK okay \in BOOLEAN, stored \in BOOLEAN :
            /\ CountError(~okay)
            /\ mem' = IF stored THEN [mem EXCEPT ![decode[slv_aw]] = slv_w]
                                ELSE mem
            /\ hits' = IF okay THEN hits ELSE Append(hits, slv_aw)
        BY <1>4 DEF WriteResponse
    <2>2. mem' \in [Cell -> Word]
        BY <2>1, <1>4, BoardAssumption DEF WriteResponse
    <2>3. hits' \in Seq(Tested \cup {None})
        BY <2>1, AppendProperties
    <2>4. error_count' \in 0 .. CountModulus - 1
          /\ first_bad_addr' \in Tested \cup {0}
        BY <2>1, CountErrorType
    <2>5. index' \in Index
        BY <1>4, IndexRange DEF WriteResponse
    <2>6. QED BY <2>2, <2>3, <2>4, <2>5, <1>4 DEF WriteResponse, drive
<1>5. CASE IssueRead
    BY <1>5, AddressType DEF IssueRead, report, slave, A
<1>6. CASE AcceptRead
    <2>1. arvalid' \in BOOLEAN /\ slv_ar' \in Tested \cup {None}
        BY <1>6 DEF AcceptRead
    <2>2. UNCHANGED <<machine, report, awaddr, awvalid, wdata, wvalid, araddr,
                      start, slv_aw, slv_w, mem, decode, hits, lost>>
        BY <1>6 DEF AcceptRead
    <2>3. QED BY <2>1, <2>2 DEF machine, report
<1>7. CASE ReadBeat
    <2>1. PICK okay \in BOOLEAN, clean \in BOOLEAN, rdata \in Word \cup {Junk} :
            /\ CountError(rdata # pattern(index) \/ ~okay)
            /\ hits' = IF okay /\ clean THEN hits ELSE Append(hits, slv_ar)
        BY <1>7, BoardAssumption DEF ReadBeat
    <2>2. hits' \in Seq(Tested \cup {None})
        BY <2>1, AppendProperties
    <2>3. error_count' \in 0 .. CountModulus - 1
          /\ first_bad_addr' \in Tested \cup {0}
        BY <2>1, CountErrorType
    <2>4. index' \in Index
        BY <1>7, IndexRange DEF ReadBeat
    <2>5. QED BY <2>2, <2>3, <2>4, <1>7 DEF ReadBeat, drive
<1>8. CASE FinishTest
    <2>1. pass' \in BOOLEAN
        <3>1. (error_count = 0) \in BOOLEAN OBVIOUS
        <3>2. QED BY <1>8, <3>1 DEF FinishTest
    <2>2. /\ state' \in States /\ busy' \in BOOLEAN /\ done' \in BOOLEAN
          /\ UNCHANGED <<index, aw_done, w_done, error_count, first_bad_addr,
                         drive, start, slave, mem, decode, hits, lost>>
        BY <1>8 DEF FinishTest
    <2>3. QED BY <2>1, <2>2 DEF drive, slave
<1>9. CASE Reset
    BY <1>9, IndexRange, FreshCount, BoardAssumption
    DEF Reset
<1>10. CASE SetStart
    BY <1>10 DEF SetStart, machine, report, drive, slave
<1>11. CASE UNCHANGED vars
    BY <1>11 DEF vars, machine, report, drive, slave
<1>12. QED
    BY <1>1, <1>2, <1>3, <1>4, <1>5, <1>6, <1>7, <1>8, <1>9, <1>10, <1>11
    DEF Next, Clocked

(* TypeOK: what the registers, the slave and the DRAM may hold.            *)
THEOREM TypeCorrect == Spec => []TypeOK
<1>1. Init => TypeOK
    BY IndexRange, FreshCount, BoardAssumption
    DEF Init, TypeOK, States
<1>2. QED BY <1>1, TypeStep, PTL DEF Spec

-----------------------------------------------------------------------------
(* The bus: one step per action.  Whatever the edge, the requests on the   *)
(* bus are those of the current index and the machine is watching them.    *)
LEMMA BusStep == TypeOK /\ BusInv /\ [Next]_vars => BusInv'
<1> SUFFICES ASSUME TypeOK, BusInv, [Next]_vars PROVE BusInv'
    OBVIOUS
<1> USE DEF BusInv, Quiet, NothingAccepted
<1>1. CASE StartTest
    BY <1>1 DEF StartTest, drive, slave
<1>2. CASE IssueWrite
    BY <1>2 DEF IssueWrite, report, slave, A
<1>3. CASE HandshakeWrite
    BY <1>3 DEF HandshakeWrite, report, TypeOK
<1>4. CASE WriteResponse
    BY <1>4 DEF WriteResponse, drive
<1>5. CASE IssueRead
    BY <1>5 DEF IssueRead, report, slave, A
<1>6. CASE AcceptRead
    BY <1>6 DEF AcceptRead, machine, report
<1>7. CASE ReadBeat
    BY <1>7 DEF ReadBeat, drive, TypeOK
<1>8. CASE FinishTest
    BY <1>8 DEF FinishTest, drive, slave
<1>9. CASE Reset
    BY <1>9 DEF Reset
<1>10. CASE SetStart
    BY <1>10 DEF SetStart, machine, report, drive, slave
<1>11. CASE UNCHANGED vars
    BY <1>11 DEF vars, machine, report, drive, slave
<1>12. QED
    BY <1>1, <1>2, <1>3, <1>4, <1>5, <1>6, <1>7, <1>8, <1>9, <1>10, <1>11
    DEF Next, Clocked

(* The verdict: it is up only between two tests, and says what was counted.*)
LEMMA VerdictStep == TypeOK /\ VerdictInv /\ [Next]_vars => VerdictInv'
<1> SUFFICES ASSUME TypeOK, VerdictInv, [Next]_vars PROVE VerdictInv'
    OBVIOUS
<1> USE DEF VerdictInv
<1>1. CASE StartTest
    BY <1>1 DEF StartTest
<1>2. CASE IssueWrite
    BY <1>2 DEF IssueWrite, report
<1>3. CASE HandshakeWrite
    BY <1>3 DEF HandshakeWrite, report
<1>4. CASE WriteResponse
    BY <1>4 DEF WriteResponse
<1>5. CASE IssueRead
    BY <1>5 DEF IssueRead, report
<1>6. CASE AcceptRead
    BY <1>6 DEF AcceptRead, machine, report
<1>7. CASE ReadBeat
    BY <1>7 DEF ReadBeat
<1>8. CASE FinishTest
    BY <1>8 DEF FinishTest, TypeOK
<1>9. CASE Reset
    BY <1>9 DEF Reset
<1>10. CASE SetStart
    BY <1>10 DEF SetStart, machine, report
<1>11. CASE UNCHANGED vars
    BY <1>11 DEF vars, machine, report
<1>12. QED
    BY <1>1, <1>2, <1>3, <1>4, <1>5, <1>6, <1>7, <1>8, <1>9, <1>10, <1>11
    DEF Next, Clocked

-----------------------------------------------------------------------------
(* An answer is counted exactly when it is bad: the count cannot wrap,     *)
(* because fewer answers than CountModulus can arrive.                     *)
LEMMA CountErrorExact ==
    ASSUME TypeOK, error_count < 2 * NWords, NEW bad \in BOOLEAN,
           CountError(bad)
    PROVE  error_count' = IF bad THEN error_count + 1 ELSE error_count
<1>1. /\ error_count \in Nat /\ NWords \in Nat
      /\ CountModulus \in Nat \ {0} /\ error_count + 1 < CountModulus
    BY CountAssumption, IndexRange, SMT DEF TypeOK
<1>2. error_count + 1 \in 0 .. CountModulus - 1
    BY <1>1, SMT
<1>3. (error_count + 1) % CountModulus = error_count + 1
    BY <1>1, <1>2, ModBelow
<1>4. QED BY <1>3 DEF CountError

(* Before an answer arrives there is room in the count for it.             *)
LEMMA AnswerFits ==
    ASSUME TypeOK, CountInv, state \in {"S_WRESP", "S_RDATA"}
    PROVE  error_count < 2 * NWords
BY IndexRange, SMT DEF TypeOK, CountInv, Answered, Index

(* Appending one wrong answer to the history.                              *)
LEMMA HitsAppend ==
    ASSUME TypeOK, NEW a \in Tested \cup {None}
    PROVE  /\ Len(hits) \in Nat /\ (Len(hits) = 0 <=> hits = <<>>)
           /\ Len(Append(hits, a)) = Len(hits) + 1
           /\ Append(hits, a) # <<>>
           /\ Append(hits, a)[1] = IF hits = <<>> THEN a ELSE hits[1]
<1>1. hits \in Seq(Tested \cup {None}) BY DEF TypeOK
<1>2. /\ Len(hits) \in Nat /\ (Len(hits) = 0 <=> hits = <<>>)
      /\ Len(Append(hits, a)) = Len(hits) + 1
    BY <1>1, LenProperties, EmptySeq, AppendProperties
<1>3. Append(hits, a) # <<>>
    BY <1>1, AppendProperties
<1>4. Append(hits, a)[1] = IF hits = <<>> THEN a ELSE hits[1]
    BY <1>1, <1>2, AppendProperties, SMT
<1>5. QED BY <1>2, <1>3, <1>4

(* The count: every wrong answer adds to it, and it never exceeds the      *)
(* number of answers received.                                             *)
LEMMA CountStep ==
    TypeOK /\ BusInv /\ VerdictInv /\ CountInv /\ [Next]_vars => CountInv'
<1> SUFFICES ASSUME TypeOK, BusInv, VerdictInv, CountInv, [Next]_vars
             PROVE  CountInv'
    OBVIOUS
<1>0. /\ index \in Nat /\ NWords \in Nat \ {0} /\ index < NWords
      /\ error_count \in Nat /\ state \in States
    BY IndexRange, CountAssumption, SMT DEF TypeOK, Index
<1>1. CASE StartTest
    <2>1. error_count' = 0 /\ hits' = <<>> /\ index' = 0 /\ state' = "S_WADDR"
        BY <1>1 DEF StartTest
    <2>2. QED BY <2>1, EmptySeq DEF CountInv, Answered
<1>2. CASE IssueWrite
    BY <1>2 DEF IssueWrite, report, CountInv, Answered
<1>3. CASE HandshakeWrite
    BY <1>3 DEF HandshakeWrite, report, CountInv, Answered
<1>4. CASE WriteResponse
    <2>1. state = "S_WRESP" /\ slv_aw \in Tested \cup {None}
        BY <1>4 DEF WriteResponse, TypeOK
    <2>2. PICK okay \in BOOLEAN :
            /\ okay \/ "badresp" \in Faults
            /\ CountError(~okay)
            /\ hits' = IF okay THEN hits ELSE Append(hits, slv_aw)
        BY <1>4 DEF WriteResponse
    <2>3. error_count' = IF okay THEN error_count ELSE error_count + 1
        BY <2>1, <2>2, AnswerFits, CountErrorExact
    <2>4. Answered = index /\ Answered' = index + 1
        BY <1>0, <1>4, SMT DEF WriteResponse, Answered
    <2>5. Len(hits) \in Nat /\ Len(Append(hits, slv_aw)) = Len(hits) + 1
        BY <2>1, HitsAppend
    <2>6. QED BY <1>0, <2>2, <2>3, <2>4, <2>5, SMT DEF CountInv
<1>5. CASE IssueRead
    BY <1>5 DEF IssueRead, report, CountInv, Answered
<1>6. CASE AcceptRead
    BY <1>6 DEF AcceptRead, machine, report, CountInv, Answered
<1>7. CASE ReadBeat
    <2>1. state = "S_RDATA" /\ slv_ar \in Tested \cup {None}
        BY <1>7 DEF ReadBeat, TypeOK
    <2>2. PICK okay \in BOOLEAN, clean \in BOOLEAN :
            /\ okay \/ "badresp" \in Faults
            /\ clean \/ "badread" \in Faults
            /\ CountError((IF clean THEN mem[decode[slv_ar]] ELSE Junk)
                             # pattern(index) \/ ~okay)
            /\ hits' = IF okay /\ clean THEN hits ELSE Append(hits, slv_ar)
        BY <1>7 DEF ReadBeat
    <2>3. DEFINE bad == (IF clean THEN mem[decode[slv_ar]] ELSE Junk)
                             # pattern(index) \/ ~okay
    <2>4. error_count' = IF bad THEN error_count + 1 ELSE error_count
        <3>1. bad \in BOOLEAN OBVIOUS
        <3> HIDE DEF bad
        <3>2. CountError(bad) BY <2>2 DEF bad
        <3>3. QED BY <2>1, <3>1, <3>2, AnswerFits, CountErrorExact
    <2>5. ~(okay /\ clean) => bad
        BY PatternAssumption DEF TypeOK
    <2>6. Answered = NWords + index /\ Answered' = NWords + index + 1
        BY <1>0, <1>7, SMT DEF ReadBeat, Answered
    <2>7. Len(hits) \in Nat /\ Len(Append(hits, slv_ar)) = Len(hits) + 1
        BY <2>1, HitsAppend
    <2> HIDE DEF bad
    <2>8. QED BY <1>0, <2>2, <2>4, <2>5, <2>6, <2>7, SMT DEF CountInv
<1>8. CASE FinishTest
    BY <1>8 DEF FinishTest, CountInv, Answered
<1>9. CASE Reset
    <2>1. error_count' = 0 /\ hits' = <<>> /\ state' = "S_IDLE"
        BY <1>9 DEF Reset
    <2>2. QED BY <2>1, <1>0, EmptySeq, SMT DEF CountInv, Answered
<1>10. CASE SetStart
    BY <1>10 DEF SetStart, machine, report, CountInv, Answered
<1>11. CASE UNCHANGED vars
    BY <1>11 DEF vars, machine, report, CountInv, Answered
<1>12. QED
    BY <1>1, <1>2, <1>3, <1>4, <1>5, <1>6, <1>7, <1>8, <1>9, <1>10, <1>11
    DEF Next, Clocked

-----------------------------------------------------------------------------
(* Reading back: while no error is counted, every word read so far was in  *)
(* its place, and it stays there until the verdict has been dropped.       *)
LEMMA ReadStep ==
    TypeOK /\ BusInv /\ VerdictInv /\ CountInv /\ ReadInv /\ [Next]_vars
        => ReadInv'
<1> SUFFICES ASSUME TypeOK, BusInv, VerdictInv, CountInv, ReadInv, [Next]_vars
             PROVE  ReadInv'
    OBVIOUS
<1>0. /\ index \in Nat /\ NWords \in Nat \ {0} /\ index < NWords
      /\ error_count \in Nat /\ state \in States
    BY IndexRange, CountAssumption, SMT DEF TypeOK, Index
<1> USE DEF ReadInv, Holds
<1>1. CASE StartTest
    BY <1>1 DEF StartTest, Verified
<1>2. CASE IssueWrite
    BY <1>2 DEF IssueWrite, Verified
<1>3. CASE HandshakeWrite
    BY <1>3 DEF HandshakeWrite, Verified
<1>4. CASE WriteResponse
    <2>1. Verified' = {}
        BY <1>4, <1>0, SMT DEF WriteResponse, Verified
    <2>2. QED BY <2>1
<1>5. CASE IssueRead
    BY <1>5 DEF IssueRead, report, Verified
<1>6. CASE AcceptRead
    BY <1>6 DEF AcceptRead, machine, report, Verified
<1>7. CASE ReadBeat
    <2>1. PICK okay \in BOOLEAN, clean \in BOOLEAN :
            CountError((IF clean THEN mem[decode[slv_ar]] ELSE Junk)
                             # pattern(index) \/ ~okay)
        BY <1>7 DEF ReadBeat
    <2> DEFINE bad == (IF clean THEN mem[decode[slv_ar]] ELSE Junk)
                             # pattern(index) \/ ~okay
    <2>2. error_count' = IF bad THEN error_count + 1 ELSE error_count
        <3>1. bad \in BOOLEAN /\ state = "S_RDATA" BY <1>7 DEF ReadBeat
        <3> HIDE DEF bad
        <3>2. CountError(bad) BY <2>1 DEF bad
        <3>3. QED BY <3>1, <3>2, AnswerFits, CountErrorExact
    <2>3. ~bad => Holds(index)
        BY <1>7, PatternAssumption DEF ReadBeat, BusInv, TypeOK
    <2>4. Verified = 0 .. index - 1 /\ Verified' = 0 .. index
        BY <1>7, <1>0, SMT DEF ReadBeat, Verified, Index
    <2>5. UNCHANGED <<mem, decode>> BY <1>7 DEF ReadBeat
    <2>6. \A i \in 0 .. index : i \in 0 .. index - 1 \/ i = index
        BY <1>0, SMT
    <2> HIDE DEF bad
    <2>7. ASSUME error_count' = 0 PROVE error_count = 0 /\ ~bad
        BY <2>2, <2>7, <1>0, SMT
    <2>8. QED BY <2>3, <2>4, <2>5, <2>6, <2>7
<1>8. CASE FinishTest
    BY <1>8 DEF FinishTest, Verified
<1>9. CASE Reset
    BY <1>9 DEF Reset, Verified
<1>10. CASE SetStart
    BY <1>10 DEF SetStart, machine, report, Verified
<1>11. CASE UNCHANGED vars
    BY <1>11 DEF vars, machine, report, Verified
<1>12. QED
    BY <1>1, <1>2, <1>3, <1>4, <1>5, <1>6, <1>7, <1>8, <1>9, <1>10, <1>11
    DEF Next, Clocked

-----------------------------------------------------------------------------
(* A write that is stored leaves every earlier word alone when no two      *)
(* tested addresses share a cell.                                          *)
LEMMA WriteKeepsOthers ==
    ASSUME TypeOK, Injective(decode), NEW i \in Index, NEW w \in Word,
           mem' = [mem EXCEPT ![decode[A(i)]] = w], decode' = decode
    PROVE  /\ mem'[decode'[A(i)]] = w
           /\ \A j \in Index : j # i => mem'[decode'[A(j)]] = mem[decode[A(j)]]
<1>1. \A j \in Index : A(j) \in Tested /\ decode[A(j)] \in Cell
    BY AddressType, BoardAssumption DEF TypeOK
<1>2. \A j \in Index : j # i => decode[A(j)] # decode[A(i)]
    BY <1>1, AddressesDistinct DEF Injective, A
<1>3. mem \in [Cell -> Word] BY DEF TypeOK
<1>4. QED BY <1>1, <1>2, <1>3

(* On a board that keeps what is written, every word written so far is in  *)
(* its place, and the report is exactly the record of the wrong answers.   *)
LEMMA KeptStep ==
    TypeOK /\ BusInv /\ VerdictInv /\ CountInv /\ KeptInv /\ [Next]_vars
        => KeptInv'
<1> SUFFICES ASSUME TypeOK, BusInv, VerdictInv, CountInv, KeptInv, [Next]_vars,
                    Kept'
             PROVE  /\ \A i \in Written' : Holds(i)'
                    /\ (error_count = Len(hits))'
                    /\ (first_bad_addr = IF hits = <<>> THEN 0 ELSE hits[1])'
    BY DEF KeptInv
<1>0. /\ index \in Nat /\ NWords \in Nat \ {0} /\ index < NWords
      /\ index \in Index /\ error_count \in Nat /\ state \in States
    BY IndexRange, CountAssumption, SMT DEF TypeOK, Index
<1>k. decode' = decode /\ Injective(decode) /\ ~lost'
    <2>1. decode' = decode
        <3>1. CASE Clocked
            BY <3>1 DEF Clocked, StartTest, IssueWrite, HandshakeWrite,
                WriteResponse, IssueRead, AcceptRead, ReadBeat, FinishTest
        <3>2. CASE Reset \/ SetStart \/ UNCHANGED vars
            BY <3>2 DEF Reset, SetStart, vars
        <3>3. QED BY <3>1, <3>2 DEF Next
    <2>2. Injective(decode') /\ ~lost'
        BY DEF Kept
    <2>3. QED BY <2>1, <2>2
<1>i. ~lost => /\ \A i \in Written : Holds(i)
               /\ error_count = Len(hits)
               /\ first_bad_addr = IF hits = <<>> THEN 0 ELSE hits[1]
    BY <1>k DEF KeptInv, Kept
<1> USE DEF Holds
<1>1. CASE StartTest
    <2>1. Written' = {} BY <1>1, SMT DEF StartTest, Written
    <2>2. error_count' = 0 /\ first_bad_addr' = 0 /\ hits' = <<>>
        BY <1>1 DEF StartTest
    <2>3. QED BY <2>1, <2>2, EmptySeq
<1>2. CASE IssueWrite
    BY <1>2, <1>k, <1>i DEF IssueWrite, report, Written
<1>3. CASE HandshakeWrite
    BY <1>3, <1>k, <1>i DEF HandshakeWrite, report, Written
<1>4. CASE WriteResponse
    <2>1. /\ state = "S_WRESP" /\ slv_aw = A(index) /\ slv_w = pattern(index)
          /\ A(index) \in Tested
        BY <1>4, <1>0, AddressType DEF WriteResponse, BusInv
    <2>0. ~lost BY <1>4, <1>k DEF WriteResponse
    <2>2. PICK okay \in BOOLEAN :
            /\ CountError(~okay)
            /\ mem' = [mem EXCEPT ![decode[slv_aw]] = slv_w]
            /\ hits' = IF okay THEN hits ELSE Append(hits, slv_aw)
        BY <1>4, <1>k DEF WriteResponse
    <2>3. error_count' = IF okay THEN error_count ELSE error_count + 1
        BY <2>1, <2>2, AnswerFits, CountErrorExact
    <2>4. first_bad_addr' = IF ~okay /\ error_count = 0 THEN A(index)
                                                        ELSE first_bad_addr
        BY <2>2 DEF CountError, A
    <2>5. Written = 0 .. index - 1 /\ Written' = 0 .. index
        BY <1>4, <1>0, SMT DEF WriteResponse, Written, Index
    <2>6. \A i \in Written' : Holds(i)'
        <3>1. pattern(index) \in Word BY <1>0, PatternType
        <3>2. /\ mem'[decode'[A(index)]] = pattern(index)
              /\ \A j \in Index : j # index =>
                    mem'[decode'[A(j)]] = mem[decode[A(j)]]
            BY <2>1, <2>2, <3>1, <1>0, <1>k, WriteKeepsOthers
        <3>3. \A i \in 0 .. index :
                i \in Index /\ (i = index \/ i \in 0 .. index - 1)
            BY <1>0, SMT DEF Index
        <3>4. QED BY <3>2, <3>3, <2>0, <2>5, <1>i
    <2>7. /\ Len(hits) \in Nat /\ (Len(hits) = 0 <=> hits = <<>>)
          /\ Len(Append(hits, slv_aw)) = Len(hits) + 1
          /\ Append(hits, slv_aw) # <<>>
          /\ Append(hits, slv_aw)[1] = IF hits = <<>> THEN slv_aw ELSE hits[1]
        BY <2>1, HitsAppend
    <2>8. QED BY <1>i, <2>0, <2>1, <2>2, <2>3, <2>4, <2>6, <2>7
<1>5. CASE IssueRead
    BY <1>5, <1>k, <1>i DEF IssueRead, report, Written
<1>6. CASE AcceptRead
    BY <1>6, <1>k, <1>i DEF AcceptRead, machine, report, Written
<1>7. CASE ReadBeat
    <2>0. ~lost BY <1>7, <1>k DEF ReadBeat
    <2>1. /\ state = "S_RDATA" /\ slv_ar = A(index) /\ A(index) \in Tested
          /\ Written = Index
        BY <1>7, <1>0, AddressType DEF ReadBeat, BusInv, Written
    <2>2. PICK okay \in BOOLEAN, clean \in BOOLEAN :
            /\ CountError((IF clean THEN mem[decode[slv_ar]] ELSE Junk)
                             # pattern(index) \/ ~okay)
            /\ hits' = IF okay /\ clean THEN hits ELSE Append(hits, slv_ar)
        BY <1>7 DEF ReadBeat
    <2> DEFINE bad == (IF clean THEN mem[decode[slv_ar]] ELSE Junk)
                             # pattern(index) \/ ~okay
    <2>3. bad <=> ~(okay /\ clean)
        BY <2>0, <2>1, <1>i, <1>0, PatternAssumption
    <2>b. bad \in BOOLEAN /\ CountError(bad) BY <2>2
    <2> HIDE DEF bad
    <2>4. error_count' = IF bad THEN error_count + 1 ELSE error_count
        BY <2>1, <2>b, AnswerFits, CountErrorExact
    <2>5. first_bad_addr' = IF bad /\ error_count = 0 THEN A(index)
                                                      ELSE first_bad_addr
        BY <2>b DEF CountError, A
    <2>6. \A i \in Written' : Holds(i)'
        <3>1. Written' = Index BY <1>7 DEF ReadBeat, Written
        <3>2. UNCHANGED <<mem, decode>> BY <1>7 DEF ReadBeat
        <3>3. QED BY <3>1, <3>2, <2>0, <2>1, <1>i
    <2>7. /\ Len(hits) \in Nat /\ (Len(hits) = 0 <=> hits = <<>>)
          /\ Len(Append(hits, slv_ar)) = Len(hits) + 1
          /\ Append(hits, slv_ar) # <<>>
          /\ Append(hits, slv_ar)[1] = IF hits = <<>> THEN slv_ar ELSE hits[1]
        BY <2>1, HitsAppend
    <2>8. hits' = IF bad THEN Append(hits, slv_ar) ELSE hits
        BY <2>2, <2>3
    <2>9. QED BY <1>i, <2>0, <2>1, <2>4, <2>5, <2>6, <2>7, <2>8
<1>8. CASE FinishTest
    BY <1>8, <1>k, <1>i DEF FinishTest, Written
<1>9. CASE Reset
    <2>1. Written' = {} BY <1>9 DEF Reset, Written
    <2>2. error_count' = 0 /\ first_bad_addr' = 0 /\ hits' = <<>>
        BY <1>9 DEF Reset
    <2>3. QED BY <2>1, <2>2, EmptySeq
<1>10. CASE SetStart
    BY <1>10, <1>k, <1>i DEF SetStart, machine, report, Written
<1>11. CASE UNCHANGED vars
    BY <1>11, <1>k, <1>i DEF vars, machine, report, Written
<1>12. QED
    BY <1>1, <1>2, <1>3, <1>4, <1>5, <1>6, <1>7, <1>8, <1>9, <1>10, <1>11
    DEF Next, Clocked

-----------------------------------------------------------------------------
(* The parts together are inductive.                                       *)
LEMMA Inductive == Spec => []IInv
<1>1. Init => IInv
    <2> SUFFICES ASSUME Init PROVE IInv
        OBVIOUS
    <2>1. TypeOK
        BY IndexRange, FreshCount, BoardAssumption DEF Init, TypeOK, States
    <2>2. BusInv BY DEF Init, BusInv, Quiet, NothingAccepted
    <2>3. VerdictInv BY DEF Init, VerdictInv
    <2>4. CountInv
        <3>1. state = "S_IDLE" /\ error_count = 0 /\ hits = <<>>
            BY DEF Init
        <3>2. QED BY <3>1, IndexRange, EmptySeq, SMT DEF CountInv, Answered
    <2>5. ReadInv BY DEF Init, ReadInv, Verified
    <2>6. KeptInv
        <3>1. /\ state = "S_IDLE" /\ error_count = 0 /\ hits = <<>>
              /\ first_bad_addr = 0
            BY DEF Init
        <3>2. QED BY <3>1, EmptySeq DEF KeptInv, Written
    <2>7. QED BY <2>1, <2>2, <2>3, <2>4, <2>5, <2>6 DEF IInv
<1>2. IInv /\ [Next]_vars => IInv'
    BY TypeStep, BusStep, VerdictStep, CountStep, ReadStep, KeptStep DEF IInv
<1>3. QED BY <1>1, <1>2, PTL DEF Spec

(* PassSound: a pass is evidence that every wrong answer was noticed, that *)
(* no two tested addresses share a cell and that every word is in place,   *)
(* whatever the wiring and the faults.                                     *)
THEOREM PassIsEvidence == Spec => []PassSound
<1>1. IInv => PassSound
    <2> SUFFICES ASSUME IInv, pass PROVE PassSound!2
        BY DEF PassSound
    <2>1. done /\ error_count = 0 /\ state \in {"S_IDLE", "S_DONE"}
        BY DEF IInv, VerdictInv
    <2>2. \A i \in Index : Holds(i)
        BY <2>1 DEF IInv, ReadInv, Verified
    <2>3. hits = <<>>
        <3>1. Len(hits) <= 0 BY <2>1 DEF IInv, CountInv
        <3>2. hits \in Seq(Tested \cup {None}) BY DEF IInv, TypeOK
        <3>3. Len(hits) = 0 BY <3>1, <3>2, LenProperties, SMT
        <3>4. QED BY <3>2, <3>3, EmptySeq
    <2>4. Injective(decode)
        <3> SUFFICES ASSUME NEW a \in Tested, NEW b \in Tested,
                            decode[a] = decode[b]
                     PROVE  a = b
            BY DEF Injective
        <3>1. PICK i \in Index : a = A(i) BY DEF Tested, A
        <3>2. PICK j \in Index : b = A(j) BY DEF Tested, A
        <3>3. pattern(i) = pattern(j) BY <2>2, <3>1, <3>2 DEF Holds
        <3>4. QED BY <3>1, <3>2, <3>3, PatternAssumption
    <2>5. QED BY <2>2, <2>3, <2>4 DEF Holds, A
<1>2. QED BY <1>1, Inductive, PTL

(* NoFalseFailure: on a sound channel the test reports no error.           *)
THEOREM SoundChannelPasses == Spec => []NoFalseFailure
<1>1. IInv => NoFalseFailure
    <2> SUFFICES ASSUME IInv, Sound PROVE error_count = 0 /\ (done => pass)
        BY DEF NoFalseFailure
    <2>1. Kept /\ hits = <<>>
        BY DEF Sound, Kept
    <2>2. error_count = 0
        BY <2>1, EmptySeq DEF IInv, KeptInv
    <2>3. QED BY <2>2 DEF IInv, VerdictInv
<1>2. QED BY <1>1, Inductive, PTL

(* ErrorReport: the report is that of this test, and misses no wrong       *)
(* answer.                                                                 *)
THEOREM ReportIsExact == Spec => []ErrorReport
<1>1. IInv => ErrorReport
    <2>1. ASSUME IInv PROVE error_count >= Len(hits)
        <3>1. hits \in Seq(Tested \cup {None}) /\ Len(hits) <= error_count
              /\ error_count \in Int
            BY <2>1, CountAssumption, SMT DEF IInv, TypeOK, CountInv
        <3>2. Len(hits) \in Nat BY <3>1, LenProperties
        <3>3. QED BY <3>1, <3>2, SMT
    <2>2. QED BY <2>1 DEF IInv, KeptInv, Kept, ErrorReport
<1>2. QED BY <1>1, Inductive, PTL

(* HandshakesWatched: no handshake and no answer passes unseen.            *)
THEOREM NoAnswerLost == Spec => []HandshakesWatched
<1>1. IInv => HandshakesWatched
    <2> SUFFICES ASSUME IInv PROVE HandshakesWatched
        OBVIOUS
    <2>1. state \in States BY DEF IInv, TypeOK
    <2>2. QED
        BY <2>1, AddressType, PatternType
        DEF IInv, TypeOK, BusInv, Quiet, NothingAccepted, HandshakesWatched,
            States
<1>2. QED BY <1>1, Inductive, PTL

-----------------------------------------------------------------------------
(* VerdictStable: while done is up nothing read out with it changes.       *)
THEOREM VerdictSettled == Spec => VerdictStable
<1>1. ASSUME IInv, [Next]_vars, done, done'
      PROVE  UNCHANGED <<pass, error_count, first_bad_addr>>
    <2> USE <1>1 DEF IInv, VerdictInv
    <2>1. CASE StartTest BY <2>1 DEF StartTest
    <2>2. CASE IssueWrite BY <2>2 DEF IssueWrite
    <2>3. CASE HandshakeWrite BY <2>3 DEF HandshakeWrite
    <2>4. CASE WriteResponse BY <2>4 DEF WriteResponse
    <2>5. CASE IssueRead BY <2>5 DEF IssueRead
    <2>6. CASE AcceptRead BY <2>6 DEF AcceptRead
    <2>7. CASE ReadBeat BY <2>7 DEF ReadBeat
    <2>8. CASE FinishTest
        <3>1. pass' = (error_count = 0)
              /\ UNCHANGED <<error_count, first_bad_addr>>
            BY <2>8 DEF FinishTest
        <3>2. pass \in BOOLEAN /\ (pass <=> error_count = 0)
            BY DEF TypeOK
        <3>3. QED BY <3>1, <3>2
    <2>9. CASE Reset BY <2>9 DEF Reset
    <2>10. CASE SetStart BY <2>10 DEF SetStart, report
    <2>11. CASE UNCHANGED vars BY <2>11 DEF vars, report
    <2>12. QED
        BY <2>1, <2>2, <2>3, <2>4, <2>5, <2>6, <2>7, <2>8, <2>9, <2>10, <2>11
        DEF Next, Clocked
<1>2. QED BY <1>1, Inductive, PTL DEF Spec, VerdictStable

(* BusStable: the machine keeps the handshake rule of AXI.                 *)
THEOREM BusRule == Spec => BusStable
<1> DEFINE Keeps ==
      /\ awvalid => \/ awvalid' /\ awaddr' = awaddr
                    \/ ~awvalid' /\ slv_aw' = awaddr
                    \/ Reset
      /\ wvalid  => \/ wvalid' /\ wdata' = wdata
                    \/ ~wvalid' /\ slv_w' = wdata
                    \/ Reset
      /\ arvalid => \/ arvalid' /\ araddr' = araddr
                    \/ ~arvalid' /\ slv_ar' = araddr
                    \/ Reset
<1>1. ASSUME IInv, [Next]_vars PROVE Keeps
    <2> USE <1>1 DEF IInv, BusInv, Quiet
    <2>1. CASE StartTest BY <2>1 DEF StartTest
    <2>2. CASE IssueWrite BY <2>2 DEF IssueWrite
    <2>3. CASE HandshakeWrite BY <2>3 DEF HandshakeWrite
    <2>4. CASE WriteResponse BY <2>4 DEF WriteResponse
    <2>5. CASE IssueRead BY <2>5 DEF IssueRead
    <2>6. CASE AcceptRead BY <2>6 DEF AcceptRead
    <2>7. CASE ReadBeat BY <2>7 DEF ReadBeat, drive
    <2>8. CASE FinishTest BY <2>8 DEF FinishTest
    <2>9. CASE Reset BY <2>9
    <2>10. CASE SetStart BY <2>10 DEF SetStart, drive
    <2>11. CASE UNCHANGED vars BY <2>11 DEF vars, drive
    <2>12. QED
        BY <2>1, <2>2, <2>3, <2>4, <2>5, <2>6, <2>7, <2>8, <2>9, <2>10, <2>11
        DEF Next, Clocked
<1>2. QED BY <1>1, Inductive, PTL DEF Spec, BusStable

-----------------------------------------------------------------------------
(* An answer is, outside, an error counted or nothing at all.              *)
LEMMA AnswerMaps ==
    ASSUME IInv, NEW bad \in BOOLEAN, CountError(bad),
           state \in {"S_WRESP", "S_RDATA"}, phase' = phase, phase = "testing",
           UNCHANGED <<start, busy, done, pass>>
    PROVE  Port!Mismatch \/ UNCHANGED Port!portVars
<1>1. error_count < 2 * NWords
    BY AnswerFits DEF IInv
<1>2. error_count' = IF bad THEN error_count + 1 ELSE error_count
    BY <1>1, CountErrorExact DEF IInv
<1>3. first_bad_addr' = IF bad /\ error_count = 0 THEN A(index)
                                                  ELSE first_bad_addr
    BY DEF CountError, A
<1>4. A(index) \in Tested BY AddressType DEF IInv, TypeOK
<1>5. CASE bad
    BY <1>1, <1>2, <1>3, <1>4, <1>5 DEF Port!Mismatch
<1>6. CASE ~bad
    BY <1>2, <1>3, <1>6 DEF Port!portVars
<1>7. QED BY <1>5, <1>6

(* ImplementsPort: every edge is a step the port allows, or none.          *)
THEOREM PortImplemented == Spec => ImplementsPort
<1>1. Init => Port!Init
    BY DEF Init, Port!Init, phase
<1>2. ASSUME IInv, [Next]_vars PROVE [Port!Next]_(Port!portVars)
    <2>0. /\ busy <=> state # "S_IDLE" /\ ~done
          /\ start' \in BOOLEAN
        BY <1>2, TypeStep DEF IInv, VerdictInv, TypeOK
    <2>1. CASE StartTest
        <3>1. phase = "idle" /\ phase' = "testing"
            BY <2>1 DEF StartTest, phase
        <3>2. QED BY <2>0, <2>1, <3>1 DEF StartTest, Port!Begin, Port!Next
    <2>2. CASE IssueWrite
        <3>1. phase' = phase BY <2>2 DEF IssueWrite, report, phase
        <3>2. QED BY <2>2, <3>1 DEF IssueWrite, report, Port!portVars
    <2>3. CASE HandshakeWrite
        <3>1. phase' = phase BY <2>3 DEF HandshakeWrite, report, phase
        <3>2. QED BY <2>3, <3>1 DEF HandshakeWrite, report, Port!portVars
    <2>4. CASE WriteResponse
        <3>1. /\ phase = "testing" /\ phase' = phase /\ state = "S_WRESP"
              /\ UNCHANGED <<start, busy, done, pass>>
            BY <2>4, <1>2 DEF WriteResponse, phase, IInv, VerdictInv
        <3>2. PICK okay \in BOOLEAN : CountError(~okay)
            BY <2>4 DEF WriteResponse
        <3>3. QED BY <1>2, <2>0, <3>1, <3>2, AnswerMaps DEF Port!Next
    <2>5. CASE IssueRead
        <3>1. phase' = phase BY <2>5 DEF IssueRead, report, phase
        <3>2. QED BY <2>5, <3>1 DEF IssueRead, report, Port!portVars
    <2>6. CASE AcceptRead
        <3>1. phase' = phase BY <2>6 DEF AcceptRead, machine, report, phase
        <3>2. QED BY <2>6, <3>1 DEF AcceptRead, machine, report, Port!portVars
    <2>7. CASE ReadBeat
        <3>1. /\ phase = "testing" /\ phase' = phase /\ state = "S_RDATA"
              /\ UNCHANGED <<start, busy, done, pass>>
            BY <2>7, <1>2 DEF ReadBeat, phase, IInv, VerdictInv
        <3>2. PICK bad \in BOOLEAN : CountError(bad)
            <4>1. PICK okay \in BOOLEAN, clean \in BOOLEAN :
                    CountError((IF clean THEN mem[decode[slv_ar]] ELSE Junk)
                                 # pattern(index) \/ ~okay)
                BY <2>7 DEF ReadBeat
            <4>2. QED BY <4>1
        <3>3. QED BY <1>2, <2>0, <3>1, <3>2, AnswerMaps DEF Port!Next
    <2>8. CASE FinishTest
        <3>1. CASE busy
            <4>1. phase = "testing" /\ phase' = IF start THEN "over" ELSE "idle"
                BY <2>8, <3>1 DEF FinishTest, phase
            <4>2. QED BY <2>0, <2>8, <4>1 DEF FinishTest, Port!Verdict, Port!Next
        <3>2. CASE ~busy
            <4>1. /\ phase = "over"
                  /\ phase' = IF start THEN "over" ELSE "idle"
                BY <2>8, <3>2 DEF FinishTest, phase
            <4>2. UNCHANGED <<start, error_count, first_bad_addr>>
                BY <2>8 DEF FinishTest
            <4>3. UNCHANGED <<busy, done>>
                BY <2>8, <3>2, <2>0, <1>2 DEF FinishTest, IInv, TypeOK
            <4>4. pass' = pass
                <5>1. pass \in BOOLEAN /\ (pass <=> error_count = 0)
                    BY <2>8, <3>2, <2>0, <1>2
                    DEF FinishTest, IInv, TypeOK, VerdictInv
                <5>2. pass' = (error_count = 0) BY <2>8 DEF FinishTest
                <5>3. QED BY <5>1, <5>2
            <4>5. QED
                BY <2>0, <4>1, <4>2, <4>3, <4>4
                DEF Port!Rearm, Port!Next, Port!portVars
        <3>3. QED BY <3>1, <3>2, <1>2 DEF IInv, TypeOK
    <2>9. CASE Reset
        <3>1. phase' = "idle" BY <2>9 DEF Reset, phase
        <3>2. QED BY <2>0, <2>9, <3>1 DEF Reset, Port!PortReset, Port!Next
    <2>10. CASE SetStart
        <3>1. phase' = phase BY <2>10 DEF SetStart, machine, report, phase
        <3>2. QED
            BY <2>0, <2>10, <3>1
            DEF SetStart, machine, report, Port!Quiet, Port!Next
    <2>11. CASE UNCHANGED vars
        <3>1. phase' = phase BY <2>11 DEF vars, machine, report, phase
        <3>2. QED BY <2>11, <3>1 DEF vars, report, Port!portVars
    <2>12. QED
        BY <1>2, <2>1, <2>2, <2>3, <2>4, <2>5, <2>6, <2>7, <2>8, <2>9, <2>10,
           <2>11
        DEF Next, Clocked
<1>3. QED BY <1>1, <1>2, Inductive, PTL DEF Spec, ImplementsPort, Port!Spec

-----------------------------------------------------------------------------
(***************************************************************************)
(* The patterns: what PatternAssumption asks holds of the words of         *)
(* BistPattern.  Numbers are told apart by their bits, and the powers of   *)
(* two behind them by counting subsets.                                    *)
(***************************************************************************)

LEMMA LeastExists ==
    ASSUME NEW S \in SUBSET Nat, S # {}
    PROVE  \E i \in S : \A j \in S : i <= j
<1> DEFINE R == {ss \in Nat \X Nat : ss[1] < ss[2]}
<1>1. IsWellFoundedOn(R, Nat)
    BY NatLessThanWellFounded DEF OpToRel
<1>2. \A i, j \in Nat : j < i => <<j, i>> \in R
    OBVIOUS
<1> HIDE DEF R
<1>3. PICK i \in S : \A j \in S : ~(<<j, i>> \in R)
    BY <1>1, WFMin, Zenon
<1>4. ASSUME NEW j \in S PROVE i <= j
  <2>1. i \in Nat /\ j \in Nat
      OBVIOUS
  <2>2. ~(j < i)
      BY <1>2, <1>3, <2>1, Zenon
  <2> QED
      BY <2>1, <2>2
<1> QED
    BY <1>4

(* A power of two is the number of subsets of a set, and one element more  *)
(* doubles it.                                                             *)
LEMMA PowerIs ==
    ASSUME NEW i \in Nat
    PROVE  2 ^ i \in Nat \ {0} /\ 2 ^ (i + 1) = 2 * 2 ^ i
<1> DEFINE X == SUBSET (1 .. i)
           Y == {s \cup {i + 1} : s \in X}
           f == [s \in X |-> s \cup {i + 1}]
<1>1. \A k \in Nat : IsFiniteSet(1 .. k) /\ Cardinality(1 .. k) = k
    BY FS_Interval
<1>2. \A k \in Nat : IsFiniteSet(SUBSET (1 .. k)) /\ Cardinality(SUBSET (1 .. k)) = 2 ^ k
    BY <1>1, FS_SUBSET
<1>3. IsFiniteSet(X) /\ Cardinality(X) = 2 ^ i
    BY <1>2
<1>4. i + 1 \notin 1 .. i
    OBVIOUS
<1>5. f \in Bijection(X, Y)
  <2>1. \A s, t \in X : f[s] = f[t] => s = t
      BY <1>4
  <2>2. f \in Surjection(X, Y)
      BY DEF Surjection
  <2> QED
      BY <2>1, <2>2 DEF Bijection, Injection, IsInjective, Surjection
<1>6. IsFiniteSet(Y) /\ Cardinality(Y) = 2 ^ i
  <2>1. ExistsBijection(X, Y)
      BY <1>5, Zenon DEF ExistsBijection
  <2> HIDE DEF X, Y
  <2> QED
      BY <1>3, <2>1, FS_Bijection
<1>7. X \cap Y = {}
    BY <1>4
<1>8. SUBSET (1 .. i + 1) = X \cup Y
  <2>1. 1 .. i + 1 = (1 .. i) \cup {i + 1}
      OBVIOUS
  <2>2. ASSUME NEW s \in SUBSET (1 .. i + 1) PROVE s \in X \cup Y
    <3>1. CASE i + 1 \in s
      <4>1. s \ {i + 1} \in X /\ s = (s \ {i + 1}) \cup {i + 1}
          BY <2>1, <3>1
      <4> QED
          BY <4>1
    <3>2. CASE i + 1 \notin s
        BY <2>1, <3>2
    <3> QED
        BY <3>1, <3>2
  <2>3. ASSUME NEW s \in X \cup Y PROVE s \in SUBSET (1 .. i + 1)
      BY <2>1
  <2> QED
      BY <2>2, <2>3
<1> HIDE DEF X, Y
<1>9. Cardinality(X \cup Y) = 2 ^ i + 2 ^ i
  <2>1. Cardinality(X \cup Y) = Cardinality(X) + Cardinality(Y) - Cardinality(X \cap Y)
      BY <1>3, <1>6, FS_Union
  <2>2. Cardinality({}) = 0
      BY FS_EmptySet
  <2>3. PICK c \in Nat : c = 2 ^ i
      BY <1>3, FS_CardinalityType
  <2>4. Cardinality(X \cup Y) = c + c - 0
      BY <1>3, <1>6, <1>7, <2>1, <2>2, <2>3
  <2> QED
      BY <2>3, <2>4
<1>10. Cardinality(X \cup Y) = 2 ^ (i + 1)
  <2>1. PICK k \in Nat : k = i + 1
      OBVIOUS
  <2>2. Cardinality(SUBSET (1 .. k)) = 2 ^ k
      BY <1>2
  <2> QED
      BY <1>8, <2>1, <2>2
<1>11. 2 ^ i \in Nat /\ 2 ^ i # 0
  <2>1. X # {}
      BY DEF X
  <2> QED
      BY <1>3, <2>1, FS_CardinalityType, FS_EmptySet
<1> QED
    BY <1>9, <1>10, <1>11

(* What is left of a number when its lowest bits are dropped.              *)
Above(n, i) == n \div 2 ^ i

LEMMA HalfOf ==
    ASSUME NEW n \in Nat, NEW p \in Nat \ {0}
    PROVE  /\ n \div p \in Nat
           /\ n \div (2 * p) = (n \div p) \div 2
           /\ n < p <=> n \div p = 0
           /\ n = p => n \div p = 1
           /\ n \div p = 1 => p <= n
<1>1. n \div p \in Nat
    OBVIOUS
<1>2. n \div (2 * p) = (n \div p) \div 2
    OBVIOUS
<1>3. n < p <=> n \div p = 0
    OBVIOUS
<1>4. n = p => n \div p = 1
    OBVIOUS
<1>5. n \div p = 1 => p <= n
    OBVIOUS
<1> QED
    BY <1>1, <1>2, <1>3, <1>4, <1>5

LEMMA AboveIs ==
    ASSUME NEW n \in Nat, NEW i \in Nat
    PROVE  /\ Above(n, i) \in Nat
           /\ Above(n, 0) = n
           /\ Above(n, i + 1) = Above(n, i) \div 2
           /\ n < 2 ^ i <=> Above(n, i) = 0
           /\ Above(n, i) = 1 => 2 ^ i <= n
           /\ bit(n, i) <=> Above(n, i) % 2 = 1
<1>1. PICK p \in Nat \ {0} : p = 2 ^ i /\ 2 ^ (i + 1) = 2 * p
    BY PowerIs
<1>2. /\ n \div p \in Nat
      /\ n \div (2 * p) = (n \div p) \div 2
      /\ n < p <=> n \div p = 0
      /\ n \div p = 1 => p <= n
    BY HalfOf
<1>3. Above(n, 0) = n
  <2>1. 2 ^ 0 = 1
      OBVIOUS
  <2> QED
      BY <2>1 DEF Above
<1>4. Above(n, i) = n \div p /\ Above(n, i + 1) = n \div (2 * p)
    BY <1>1 DEF Above
<1>5. bit(n, i) <=> Above(n, i) % 2 = 1
    BY DEF bit, Above
<1> QED
    BY <1>1, <1>2, <1>3, <1>4, <1>5

(* Numbers of w bits with the same bits are the same.                      *)
LEMMA BitsTell ==
    ASSUME NEW w \in Nat, NEW n \in Nat, NEW m \in Nat, n < 2 ^ w, m < 2 ^ w,
           \A i \in Nat : i < w => (bit(n, i) <=> bit(m, i))
    PROVE  n = m
<1> DEFINE B == {d \in Nat : d <= w /\ Above(n, w - d) # Above(m, w - d)}
<1>1. \A i \in Nat : /\ Above(n, i) \in Nat /\ Above(m, i) \in Nat
                     /\ Above(n, i + 1) = Above(n, i) \div 2
                     /\ Above(m, i + 1) = Above(m, i) \div 2
                     /\ bit(n, i) <=> Above(n, i) % 2 = 1
                     /\ bit(m, i) <=> Above(m, i) % 2 = 1
    BY AboveIs
<1>2. Above(n, 0) = n /\ Above(m, 0) = m
    BY AboveIs
<1>3. Above(n, w) = 0 /\ Above(m, w) = 0
    BY AboveIs
<1> SUFFICES ASSUME n # m PROVE FALSE
    OBVIOUS
<1>4. PICK d \in B : \A e \in B : d <= e
  <2>1. w - w = 0
      OBVIOUS
  <2>2. w \in B /\ B \in SUBSET Nat
      BY <1>2, <2>1
  <2> QED
      BY <2>2, LeastExists
<1>5. d \in Nat /\ d <= w /\ Above(n, w - d) # Above(m, w - d)
    OBVIOUS
<1>6. d # 0
    BY <1>3, <1>5
<1>7. PICK k \in Nat : k = w - d /\ k < w /\ d = w - k
    BY <1>5, <1>6
<1>8. Above(n, k + 1) = Above(m, k + 1)
  <2> SUFFICES ASSUME Above(n, k + 1) # Above(m, k + 1) PROVE FALSE
      OBVIOUS
  <2>1. PICK e \in Nat : e = d - 1 /\ e <= w /\ w - e = k + 1 /\ ~(d <= e)
      BY <1>6, <1>7
  <2>2. e \in B
      BY <2>1
  <2> QED
      BY <1>4, <2>1, <2>2
<1> HIDE DEF B
<1>9. PICK a \in Nat, b \in Nat : a = Above(n, k) /\ b = Above(m, k)
    BY <1>1
<1>10. a \div 2 = b \div 2 /\ (a % 2 = 1 <=> b % 2 = 1)
    BY <1>1, <1>7, <1>8, <1>9
<1>11. a = b
    BY <1>10
<1> QED
    BY <1>5, <1>7, <1>9, <1>11

(* An exclusive or with a mask loses nothing.                              *)
LEMMA HalfTells ==
    ASSUME NEW n \in Nat, NEW m \in Nat, NEW mask, n < 2 ^ 16, m < 2 ^ 16,
           half(n, mask) = half(m, mask)
    PROVE  n = m
<1>1. \A a, b, c \in BOOLEAN : ((a # c) <=> (b # c)) => (a <=> b)
    OBVIOUS
<1>2. \A x, i : bit(x, i) \in BOOLEAN
    BY Zenon DEF bit
<1>3. \A i \in 0 .. 15 : (bit(n, i) # bit(mask, i)) <=> (bit(m, i) # bit(mask, i))
    BY Zenon DEF half
<1>4. \A i \in 0 .. 15 : bit(n, i) <=> bit(m, i)
    BY <1>1, <1>2, <1>3, Zenon
<1>5. \A i \in Nat : i < 16 => i \in 0 .. 15
    OBVIOUS
<1>6. \A i \in Nat : i < 16 => (bit(n, i) <=> bit(m, i))
    BY <1>4, <1>5, Zenon
<1> QED
    BY <1>6, BitsTell

(* The word written for an index tells it from every other index of 32     *)
(* bits, however wide the data bus is: what axi_bist.v writes meets        *)
(* PatternAssumption.                                                      *)
THEOREM PatternsDiffer ==
    ASSUME Copies \in Nat \ {0},
           NEW i \in 0 .. 2 ^ 16 * 2 ^ 16 - 1, NEW j \in 0 .. 2 ^ 16 * 2 ^ 16 - 1,
           pattern_word(i) = pattern_word(j)
    PROVE  i = j
<1>1. PICK p \in Nat \ {0} : p = 2 ^ 16
    BY PowerIs
<1>2. 0 \in 0 .. Copies - 1
    OBVIOUS
<1>3. copy(i, 0) = copy(j, 0)
    BY <1>2 DEF pattern_word
<1>4. /\ half(i \div 2 ^ 16, Constant) = half(j \div 2 ^ 16, Constant)
      /\ half(i % 2 ^ 16, 0) = half(j % 2 ^ 16, 0)
    BY <1>3, Zenon DEF copy
<1>5. \A n \in 0 .. p * p - 1 : /\ n \div p \in Nat /\ n \div p < p
                               /\ n % p \in Nat /\ n % p < p
                               /\ n = p * (n \div p) + (n % p)
  <2> SUFFICES ASSUME NEW n \in 0 .. p * p - 1
               PROVE  /\ n \div p \in Nat /\ n \div p < p
                      /\ n % p \in Nat /\ n % p < p
                      /\ n = p * (n \div p) + (n % p)
      OBVIOUS
  <2>1. /\ n \div p \in Nat /\ n % p \in Nat /\ n % p < p
        /\ n = p * (n \div p) + (n % p)
      OBVIOUS
  <2>2. n \div p < p
    <3> SUFFICES ASSUME p <= n \div p PROVE FALSE
        BY <2>1
    <3>1. p * p <= p * (n \div p)
        BY <2>1
    <3> QED
        BY <2>1, <3>1
  <2> QED
      BY <2>1, <2>2
<1>6. /\ i \in 0 .. p * p - 1 /\ j \in 0 .. p * p - 1
      /\ half(i \div p, Constant) = half(j \div p, Constant)
      /\ half(i % p, 0) = half(j % p, 0)
    BY <1>1, <1>4, Zenon
<1>7. PICK a \in Nat, b \in Nat, c \in Nat, d \in Nat :
         /\ a = i \div p /\ b = j \div p /\ c = i % p /\ d = j % p
         /\ a < p /\ b < p /\ c < p /\ d < p
         /\ i = p * a + c /\ j = p * b + d
    BY <1>5, <1>6
<1>8. half(a, Constant) = half(b, Constant) /\ half(c, 0) = half(d, 0)
    BY <1>6, <1>7, Zenon
<1>9. a < 2 ^ 16 /\ b < 2 ^ 16 /\ c < 2 ^ 16 /\ d < 2 ^ 16
    BY <1>1, <1>7
<1>10. a = b
    BY <1>8, <1>9, HalfTells
<1>11. c = d
    BY <1>8, <1>9, HalfTells
<1> QED
    BY <1>7, <1>10, <1>11
=============================================================================
