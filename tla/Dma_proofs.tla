----------------------------- MODULE Dma_proofs -----------------------------
(***************************************************************************)
(* Dma, for any number of threads, any buffers and any cutting up of their *)
(* transfers by the driver: it implements ByteMemory, and where the        *)
(* buffers do not overlap the verdict of a round trip is about the memory. *)
(* Placed is all that is assumed of the constants.                         *)
(***************************************************************************)
EXTENDS Dma, SequenceTheorems, WellFoundedInduction, TLAPS

(***************************************************************************)
(* What first_difference finds.                                            *)
(***************************************************************************)

LEMMA Lowest ==
    ASSUME NEW S \in SUBSET Nat, S # {}
    PROVE  Least(S) \in S /\ \A j \in S : Least(S) <= j
<1> DEFINE R == {ss \in Nat \X Nat : ss[1] < ss[2]}
<1>1. IsWellFoundedOn(R, Nat)
    BY NatLessThanWellFounded DEF OpToRel
<1>2. \A i, j \in Nat : j < i => <<j, i>> \in R
    OBVIOUS
<1> HIDE DEF R
<1>3. PICK i \in S : \A j \in S : ~(<<j, i>> \in R)
    BY <1>1, WFMin, Zenon
<1>4. ASSUME NEW j \in S PROVE i <= j
    <2>1. i \in Nat /\ j \in Nat
        OBVIOUS
    <2>2. ~(j < i)
        BY <1>2, <1>3, <2>1, Zenon
    <2> QED
        BY <2>1, <2>2
<1> QED
    BY <1>4, Zenon DEF Least

LEMMA FirstDifference ==
    ASSUME NEW a \in Seq(Byte), NEW b \in Seq(Byte), Len(a) = Len(b)
    PROVE  \/ /\ first_difference(a, b) = None
              /\ \A i \in 0 .. Len(a) - 1 : a[i + 1] = b[i + 1]
           \/ /\ first_difference(a, b) \in 0 .. Len(a) - 1
              /\ a[first_difference(a, b) + 1] # b[first_difference(a, b) + 1]
              /\ \A i \in 0 .. first_difference(a, b) - 1 : a[i + 1] = b[i + 1]
<1> DEFINE bad == {i \in 0 .. Len(a) - 1 : a[i + 1] # b[i + 1]}
<1>1. Len(a) \in Nat
    OBVIOUS
<1>2. CASE bad = {}
    <2>1. first_difference(a, b) = None
        BY <1>2 DEF first_difference
    <2> QED
        BY <1>2, <2>1
<1>3. CASE bad # {}
    <2>1. first_difference(a, b) = Least(bad)
        BY <1>3 DEF first_difference
    <2>2. bad \in SUBSET Nat
        BY <1>1
    <2>3. Least(bad) \in bad /\ \A j \in bad : Least(bad) <= j
        BY <1>3, <2>2, Lowest
    <2> DEFINE v == Least(bad)
    <2>4. v \in 0 .. Len(a) - 1 /\ a[v + 1] # b[v + 1]
        BY <2>3
    <2>5. \A j \in bad : v <= j
        BY <2>3
    <2> HIDE DEF v
    <2>6. ASSUME NEW i \in 0 .. v - 1 PROVE a[i + 1] = b[i + 1]
        <3>1. i \in 0 .. Len(a) - 1 /\ v \in Nat /\ ~(v <= i)
            BY <1>1, <2>4
        <3>2. i \notin bad
            BY <2>5, <3>1, Zenon
        <3> QED
            BY <3>1, <3>2
    <2> QED
        BY <2>1, <2>4, <2>6 DEF v
<1> QED
    BY <1>2, <1>3

(***************************************************************************)
(* The shape of a transfer.                                                *)
(***************************************************************************)
Transfers == [at : {"write", "read", "over", "raised"}, done : Nat,
              chunks : Seq(Byte), verdict : Int]

Shaped(t) ==
    /\ xfer[t].done <= Size(t)
    /\ xfer[t].at = "write" => xfer[t].chunks = <<>> /\ xfer[t].verdict = None
    /\ xfer[t].at \in {"read", "over"} => Len(xfer[t].chunks) = xfer[t].done
    /\ xfer[t].at = "over" => xfer[t].done = Size(t)

Shape == /\ mem \in [Address -> Byte]
         /\ xfer \in [Thread -> Transfers]
         /\ upset \in SUBSET Address
         /\ \A t \in Thread : Shaped(t)

LEMMA Buffers ==
    ASSUME Placed, NEW t \in Thread
    PROVE  /\ addr(t) \in Int /\ data(t) \in Seq(Byte) /\ Size(t) \in Nat
           /\ Size(t) = Len(data(t))
           /\ \A i \in 0 .. Size(t) - 1 : addr(t) + i \in Address
BY DEF Placed, addr, data, Size

LEMMA Storing ==
    ASSUME Placed, Shape, NEW t \in Thread,
           NEW n \in 0 .. Size(t) - xfer[t].done
    PROVE  Stored(t, n) \in [Address -> Byte]
<1>1. ASSUME NEW a \in Address, a - addr(t) \in xfer[t].done .. xfer[t].done + n - 1
      PROVE  data(t)[a - addr(t) + 1] \in Byte
    <2>1. /\ xfer[t].done \in Nat /\ addr(t) \in Int /\ a \in Int
          /\ Size(t) \in Nat /\ Size(t) = Len(data(t))
        BY Buffers DEF Shape, Transfers, Placed
    <2>2. n \in Nat /\ n <= Size(t) - xfer[t].done
        BY <2>1
    <2>3. a - addr(t) + 1 \in 1 .. Len(data(t))
        BY <1>1, <2>1, <2>2, SMTT(20)
    <2> QED
        BY <2>3, Buffers
<1> QED
    BY <1>1 DEF Stored, Shape

LEMMA Joined ==
    ASSUME NEW S, NEW s \in Seq(S), NEW r \in Seq(S)
    PROVE  /\ s \o r \in Seq(S) /\ Len(s \o r) = Len(s) + Len(r)
           /\ \A i \in 1 .. Len(s) : (s \o r)[i] = s[i]
           /\ \A i \in Len(s) + 1 .. Len(s) + Len(r) : (s \o r)[i] = r[i - Len(s)]
BY ConcatProperties

LEMMA Cancels ==
    ASSUME NEW a \in Int, NEW d \in Int, NEW i \in Int
    PROVE  a + d + (i - d) - 1 = a + i - 1
OBVIOUS

LEMMA Fetching ==
    ASSUME Placed, Shape, NEW t \in Thread, xfer[t].at = "read",
           NEW n \in 1 .. Size(t) - xfer[t].done
    PROVE  LET now == xfer[t].chunks \o Fetched(t, n)
           IN  /\ now \in Seq(Byte)
               /\ Len(now) = xfer[t].done + n
               /\ \A i \in 1 .. xfer[t].done : now[i] = xfer[t].chunks[i]
               /\ \A i \in xfer[t].done + 1 .. xfer[t].done + n :
                     now[i] = mem[addr(t) + i - 1]
<1>1. xfer[t].done \in Nat /\ xfer[t].chunks \in Seq(Byte)
    BY DEF Shape, Transfers
<1>2. Len(xfer[t].chunks) = xfer[t].done
    BY DEF Shape, Shaped
<1>3. n \in Nat /\ Size(t) \in Nat /\ addr(t) \in Int
    BY <1>1, Buffers
<1>4. \A i \in 1 .. n : mem[addr(t) + xfer[t].done + i - 1] \in Byte
    <2> SUFFICES ASSUME NEW i \in 1 .. n
                 PROVE  mem[addr(t) + xfer[t].done + i - 1] \in Byte
        OBVIOUS
    <2>1. xfer[t].done + i - 1 \in 0 .. Size(t) - 1
        BY <1>1, <1>3
    <2>2. addr(t) + (xfer[t].done + i - 1) \in Address
        BY <2>1, Buffers
    <2>3. addr(t) + (xfer[t].done + i - 1) = addr(t) + xfer[t].done + i - 1
        BY <1>1, <1>3
    <2> QED
        BY <2>2, <2>3 DEF Shape
<1>5. /\ Fetched(t, n) \in Seq(Byte) /\ Len(Fetched(t, n)) = n
      /\ \A i \in 1 .. n : Fetched(t, n)[i] = mem[addr(t) + xfer[t].done + i - 1]
    BY <1>3, <1>4 DEF Fetched
<1>6. \A i \in xfer[t].done + 1 .. xfer[t].done + n :
        Fetched(t, n)[i - xfer[t].done] = mem[addr(t) + i - 1]
    <2> SUFFICES ASSUME NEW i \in xfer[t].done + 1 .. xfer[t].done + n
                 PROVE  Fetched(t, n)[i - xfer[t].done] = mem[addr(t) + i - 1]
        OBVIOUS
    <2>1. i \in Int /\ xfer[t].done \in Int /\ i - xfer[t].done \in 1 .. n
        BY <1>1, <1>3, SMTT(20)
    <2>2. addr(t) + xfer[t].done + (i - xfer[t].done) - 1 = addr(t) + i - 1
        BY <1>3, <2>1, Cancels, Zenon
    <2> QED
        BY <1>5, <2>1, <2>2, Zenon
<1>7. /\ xfer[t].chunks \o Fetched(t, n) \in Seq(Byte)
      /\ Len(xfer[t].chunks \o Fetched(t, n)) = Len(xfer[t].chunks) + Len(Fetched(t, n))
    BY <1>1, <1>5, Joined, ZenonT(30)
<1>8. \A i \in 1 .. Len(xfer[t].chunks) :
         (xfer[t].chunks \o Fetched(t, n))[i] = xfer[t].chunks[i]
    BY <1>1, <1>5, Joined, ZenonT(30)
<1>9. \A i \in Len(xfer[t].chunks) + 1 .. Len(xfer[t].chunks) + Len(Fetched(t, n)) :
         (xfer[t].chunks \o Fetched(t, n))[i] = Fetched(t, n)[i - Len(xfer[t].chunks)]
    BY <1>1, <1>5, Joined, ZenonT(30)
<1> QED
    BY <1>2, <1>5, <1>6, <1>7, <1>8, <1>9, Zenon

(* A step of thread t changes no other thread's transfer.                  *)
LEMMA OneTransfer ==
    ASSUME Shape, NEW t \in Thread,
           xfer' \in [Thread -> Transfers],
           \A u \in Thread : u # t => xfer'[u] = xfer[u],
           mem' \in [Address -> Byte], upset' \in SUBSET Address,
           Shaped(t)'
    PROVE  Shape'
<1>1. ASSUME NEW u \in Thread PROVE Shaped(u)'
    <2>1. CASE u = t
        BY <2>1
    <2>2. CASE u # t
        BY <2>2 DEF Shape, Shaped, Size, data
    <2> QED
        BY <2>1, <2>2
<1> QED
    BY <1>1 DEF Shape

LEMMA InitShape == Placed /\ Init => Shape
<1> SUFFICES ASSUME Placed, Init PROVE Shape
    OBVIOUS
<1>1. Transfer("write") \in Transfers
    BY DEF Transfer, Transfers, None
<1>2. xfer \in [Thread -> Transfers]
    BY <1>1 DEF Init
<1>3. ASSUME NEW t \in Thread PROVE Shaped(t)
    BY <1>1, Buffers DEF Init, Shaped, Transfer
<1> QED
    BY <1>2, <1>3 DEF Init, Shape

LEMMA ThreadShape ==
    ASSUME Placed, Shape, NEW t \in Thread,
           \/ pwrite(t) \/ write_returns(t) \/ pwrite_fails(t)
           \/ pread(t) \/ pread_fails(t) \/ compare(t)
    PROVE  Shape'
<1>1. xfer[t] \in Transfers /\ Shaped(t) /\ mem \in [Address -> Byte] /\ upset \in SUBSET Address
    BY DEF Shape
<1>2. Size(t) \in Nat
    BY Buffers
<1>3. Size(t)' = Size(t)
    BY DEF Size, data
<1>4. CASE pwrite(t)
    <2>1. PICK n \in 1 .. Size(t) - xfer[t].done :
             /\ mem' = Stored(t, n)
             /\ xfer' = [xfer EXCEPT ![t].done = @ + n]
        BY <1>4 DEF pwrite
    <2>2. n \in 0 .. Size(t) - xfer[t].done /\ xfer[t].done + n \in Nat
        BY <1>1, <1>2 DEF Transfers
    <2>3. mem' \in [Address -> Byte]
        BY <2>1, <2>2, Storing
    <2>4. /\ xfer' \in [Thread -> Transfers]
          /\ \A u \in Thread : u # t => xfer'[u] = xfer[u]
          /\ xfer'[t].at = xfer[t].at /\ xfer'[t].chunks = xfer[t].chunks
          /\ xfer'[t].done = xfer[t].done + n /\ xfer'[t].verdict = xfer[t].verdict
        BY <1>1, <2>1, <2>2 DEF Shape, Transfers
    <2>5. Shaped(t)'
        BY <1>1, <1>2, <1>3, <1>4, <2>2, <2>4 DEF Transfers, Shaped, pwrite
    <2> QED
        BY <1>1, <1>4, <2>3, <2>4, <2>5, OneTransfer DEF pwrite
<1>5. CASE write_returns(t)
    <2>1. /\ xfer' \in [Thread -> Transfers]
          /\ \A u \in Thread : u # t => xfer'[u] = xfer[u]
          /\ xfer'[t] = Transfer("read")
        BY <1>5 DEF write_returns, Shape, Transfer, Transfers, None
    <2>2. Shaped(t)'
        BY <1>2, <1>3, <2>1 DEF Transfer, Shaped
    <2> QED
        BY <1>1, <1>5, <2>1, <2>2, OneTransfer DEF write_returns
<1>6. CASE pwrite_fails(t)
    <2>1. PICK n \in 0 .. Size(t) - xfer[t].done : mem' = Stored(t, n)
        BY <1>6 DEF pwrite_fails
    <2>2. mem' \in [Address -> Byte]
        BY <2>1, Storing
    <2>3. /\ xfer' \in [Thread -> Transfers]
          /\ \A u \in Thread : u # t => xfer'[u] = xfer[u]
          /\ xfer'[t].at = "raised" /\ xfer'[t].done = xfer[t].done
        BY <1>1, <1>6 DEF pwrite_fails, Shape, Transfers
    <2>4. Shaped(t)'
        BY <1>1, <1>3, <2>3 DEF Shaped
    <2> QED
        BY <1>1, <1>6, <2>2, <2>3, <2>4, OneTransfer DEF pwrite_fails
<1>7. CASE pread(t)
    <2>1. PICK n \in 1 .. Size(t) - xfer[t].done :
             xfer' = [xfer EXCEPT ![t].done = @ + n,
                                  ![t].chunks = @ \o Fetched(t, n)]
        BY <1>7 DEF pread
    <2>2. /\ xfer[t].chunks \o Fetched(t, n) \in Seq(Byte)
          /\ Len(xfer[t].chunks \o Fetched(t, n)) = xfer[t].done + n
        BY <1>7, Fetching, Zenon DEF pread
    <2>3. xfer[t].done + n \in Nat
        BY <1>1, <1>2 DEF Transfers
    <2>4. /\ xfer' \in [Thread -> Transfers]
          /\ \A u \in Thread : u # t => xfer'[u] = xfer[u]
          /\ xfer'[t].at = "read" /\ xfer'[t].done = xfer[t].done + n
          /\ xfer'[t].chunks = xfer[t].chunks \o Fetched(t, n)
        BY <1>1, <1>7, <2>1, <2>2, <2>3 DEF pread, Shape, Transfers
    <2>5. Shaped(t)'
        BY <1>1, <1>2, <1>3, <2>2, <2>4 DEF Shaped, Transfers
    <2> QED
        BY <1>1, <1>7, <2>4, <2>5, OneTransfer DEF pread
<1>8. CASE pread_fails(t)
    <2>1. /\ xfer' \in [Thread -> Transfers]
          /\ \A u \in Thread : u # t => xfer'[u] = xfer[u]
          /\ xfer'[t].at = "raised" /\ xfer'[t].done = xfer[t].done
        BY <1>1, <1>8 DEF pread_fails, Shape, Transfers
    <2>2. Shaped(t)'
        BY <1>1, <1>3, <2>1 DEF Shaped
    <2> QED
        BY <1>1, <1>8, <2>1, <2>2, OneTransfer DEF pread_fails
<1>9. CASE compare(t)
    <2>1. first_difference(data(t), xfer[t].chunks) \in Int
        BY <1>1, <1>2, <1>9, Buffers, FirstDifference
        DEF compare, Shaped, Transfers, None
    <2>2. /\ xfer' \in [Thread -> Transfers]
          /\ \A u \in Thread : u # t => xfer'[u] = xfer[u]
          /\ xfer'[t].at = "over" /\ xfer'[t].done = xfer[t].done
          /\ xfer'[t].chunks = xfer[t].chunks
        BY <1>1, <1>9, <2>1 DEF compare, Shape, Transfers
    <2>3. Shaped(t)'
        BY <1>1, <1>3, <1>9, <2>2 DEF Shaped, compare
    <2> QED
        BY <1>1, <1>9, <2>2, <2>3, OneTransfer DEF compare
<1> QED
    BY <1>4, <1>5, <1>6, <1>7, <1>8, <1>9

LEMMA ShapeInv == Placed /\ Shape /\ [Next]_dmavars => Shape'
<1> SUFFICES ASSUME Placed, Shape, [Next]_dmavars PROVE Shape'
    OBVIOUS
<1>1. CASE Upset
    BY <1>1 DEF Upset, Shape, Shaped, Placed, Size, data
<1>2. CASE UNCHANGED dmavars
    BY <1>2 DEF dmavars, Shape, Shaped, Size, data
<1> QED
    BY <1>1, <1>2, ThreadShape DEF Next

(***************************************************************************)
(* The refinement: what Memory's constant and variables stand for.         *)
(***************************************************************************)
Tests == [t \in Thread |-> [addr |-> addr(t), len |-> Size(t),
             byte |-> [i \in 0 .. Size(t) - 1 |-> data(t)[i + 1]]]]
Left == [t \in Thread |-> xfer[t].done .. Size(t) - 1]
Got  == [t \in Thread |->
           [i \in 0 .. Len(xfer[t].chunks) - 1 |-> xfer[t].chunks[i + 1]]]

LEMMA InitMemory == Placed /\ Init => Memory!Init
<1> SUFFICES ASSUME Placed, Init PROVE Memory!Init
    OBVIOUS
<1>1. \A t \in Thread : xfer[t] = Transfer("write")
    BY DEF Init
<1>2. Got = [t \in Thread |-> [i \in {} |-> i]]
    <2>1. ASSUME NEW t \in Thread PROVE Got[t] = [i \in {} |-> i]
        BY <1>1 DEF Transfer, Got
    <2> QED
        BY <2>1 DEF Got
<1>3. Left = [t \in Thread |-> 0 .. Size(t) - 1]
    BY <1>1 DEF Left, Transfer
<1>4. /\ [t \in Thread |-> xfer[t].at] = [t \in Thread |-> "write"]
      /\ [t \in Thread |-> xfer[t].verdict] = [t \in Thread |-> None]
    BY <1>1 DEF Transfer
<1> QED
    BY <1>2, <1>3, <1>4 DEF Memory!Init, Memory!Offsets, Memory!None, None,
                            Left, Got, Init

(* What a thread stores is a set of its own offsets.                       *)
LEMMA StoresOwn ==
    ASSUME Placed, Shape, NEW t \in Thread, NEW n \in 0 .. Size(t) - xfer[t].done
    PROVE  LET I == xfer[t].done .. xfer[t].done + n - 1
           IN  /\ I \in SUBSET Left[t]
               /\ Stored(t, n) = Memory!StoredAt(t, I)
               /\ Left[t] \ I = xfer[t].done + n .. Size(t) - 1
<1>1. /\ xfer[t].done \in Nat /\ n \in Nat /\ Size(t) \in Nat /\ addr(t) \in Int
      /\ n <= Size(t) - xfer[t].done
    BY Buffers DEF Shape, Transfers
<1> DEFINE I == xfer[t].done .. xfer[t].done + n - 1
<1>2. I \in SUBSET (0 .. Size(t) - 1)
    BY <1>1
<1>3. ASSUME NEW a \in Address, a - addr(t) \in I
      PROVE  data(t)[a - addr(t) + 1] = [i \in 0 .. Size(t) - 1 |-> data(t)[i + 1]][a - addr(t)]
    BY <1>2, <1>3
<1>4. Stored(t, n) = Memory!StoredAt(t, I)
    BY <1>3 DEF Stored, Memory!StoredAt
<1>5. I \in SUBSET Left[t] /\ Left[t] \ I = xfer[t].done + n .. Size(t) - 1
    BY <1>1 DEF Left
<1> QED
    BY <1>4, <1>5

LEMMA ThreadStep ==
    ASSUME Placed, Shape, Shape', NEW t \in Thread,
           \/ pwrite(t) \/ write_returns(t) \/ pwrite_fails(t)
           \/ pread(t) \/ pread_fails(t) \/ compare(t)
    PROVE  Memory!Next
<1> DEFINE at == [u \in Thread |-> xfer[u].at]
           verdict == [u \in Thread |-> xfer[u].verdict]
<1>1. CASE pwrite(t)
    <2>1. PICK n \in 1 .. Size(t) - xfer[t].done :
             /\ mem' = Stored(t, n)
             /\ xfer' = [xfer EXCEPT ![t].done = @ + n]
        BY <1>1 DEF pwrite
    <2>2. n \in 0 .. Size(t) - xfer[t].done
        BY Buffers DEF Shape, Transfers
    <2> DEFINE I == xfer[t].done .. xfer[t].done + n - 1
    <2>3. /\ I \in SUBSET Left[t]
          /\ Stored(t, n) = Memory!StoredAt(t, I)
          /\ Left[t] \ I = xfer[t].done + n .. Size(t) - 1
        BY <2>2, StoresOwn
    <2>4. /\ Left' = [Left EXCEPT ![t] = @ \ I]
          /\ Got' = Got /\ at' = at /\ verdict' = verdict
        <3>1. /\ \A u \in Thread : u # t => xfer'[u] = xfer[u]
              /\ xfer'[t].at = xfer[t].at /\ xfer'[t].verdict = xfer[t].verdict
              /\ xfer'[t].chunks = xfer[t].chunks
              /\ xfer'[t].done = xfer[t].done + n
            BY <2>1 DEF Shape, Transfers
        <3> QED
            BY <2>3, <3>1 DEF Left, Got, Size, data
    <2>5. Memory!Store(t)
        BY <1>1, <2>1, <2>3, <2>4, Zenon DEF Memory!Store, Left, Got, pwrite
    <2> QED
        BY <2>5 DEF Memory!Next
<1>2. CASE write_returns(t)
    <2>1. /\ \A u \in Thread : u # t => xfer'[u] = xfer[u]
          /\ xfer'[t] = Transfer("read") /\ xfer[t].done = Size(t)
        BY <1>2 DEF write_returns, Shape
    <2>2. xfer[t].verdict = None /\ xfer[t].chunks = <<>>
        BY <1>2 DEF write_returns, Shape, Shaped
    <2>3. /\ xfer'[t].at = "read" /\ xfer'[t].done = 0 /\ xfer'[t].chunks = <<>>
          /\ xfer'[t].verdict = None
        BY <2>1 DEF Transfer
    <2>4. Left[t] = {}
        BY <2>1, Buffers DEF Left
    <2>5. /\ Left' = [Left EXCEPT ![t] = 0 .. Size(t) - 1]
          /\ Got' = Got /\ verdict' = verdict
          /\ at' = [at EXCEPT ![t] = "read"]
        <3>1. Left' = [Left EXCEPT ![t] = 0 .. Size(t) - 1]
            BY <2>1, <2>3 DEF Left, Size, data
        <3>2. Got' = Got
            BY <2>1, <2>2, <2>3 DEF Got
        <3>3. verdict' = verdict /\ at' = [at EXCEPT ![t] = "read"]
            BY <2>1, <2>2, <2>3
        <3> QED
            BY <3>1, <3>2, <3>3
    <2>6. Memory!WriteReturns(t)
        BY <1>2, <2>4, <2>5 DEF Memory!WriteReturns, Memory!Offsets, Left, Got, write_returns
    <2> QED
        BY <2>6 DEF Memory!Next
<1>3. CASE pwrite_fails(t)
    <2>1. PICK n \in 0 .. Size(t) - xfer[t].done : mem' = Stored(t, n)
        BY <1>3 DEF pwrite_fails
    <2> DEFINE I == xfer[t].done .. xfer[t].done + n - 1
    <2>2. I \in SUBSET Left[t] /\ Stored(t, n) = Memory!StoredAt(t, I)
        BY StoresOwn
    <2>3. /\ Left' = Left /\ Got' = Got /\ verdict' = verdict
          /\ at' = [at EXCEPT ![t] = "raised"]
        <3>1. /\ \A u \in Thread : u # t => xfer'[u] = xfer[u]
              /\ xfer'[t].at = "raised" /\ xfer'[t].verdict = xfer[t].verdict
              /\ xfer'[t].chunks = xfer[t].chunks
              /\ xfer'[t].done = xfer[t].done
            BY <1>3 DEF pwrite_fails, Shape, Transfers
        <3> QED
            BY <3>1 DEF Left, Got, Size, data
    <2>4. Memory!Raise(t)
        BY <1>3, <2>1, <2>2, <2>3 DEF Memory!Raise, Left, Got, pwrite_fails
    <2> QED
        BY <2>4 DEF Memory!Next
<1>4. CASE pread(t)
    <2>1. PICK n \in 1 .. Size(t) - xfer[t].done :
             xfer' = [xfer EXCEPT ![t].done = @ + n,
                                  ![t].chunks = @ \o Fetched(t, n)]
        BY <1>4 DEF pread
    <2> DEFINE I == xfer[t].done .. xfer[t].done + n - 1
               now == xfer[t].chunks \o Fetched(t, n)
    <2>2. /\ now \in Seq(Byte) /\ Len(now) = xfer[t].done + n
          /\ \A i \in 1 .. xfer[t].done : now[i] = xfer[t].chunks[i]
          /\ \A i \in xfer[t].done + 1 .. xfer[t].done + n :
                now[i] = mem[addr(t) + i - 1]
        BY <1>4, Fetching, Zenon DEF pread
    <2> HIDE DEF now
    <2>3. /\ xfer[t].done \in Nat /\ n \in Nat /\ Size(t) \in Nat /\ addr(t) \in Int
          /\ n <= Size(t) - xfer[t].done /\ Len(xfer[t].chunks) = xfer[t].done
        <3>1. /\ xfer[t].done \in Nat /\ Size(t) \in Nat /\ addr(t) \in Int
              /\ Len(xfer[t].chunks) = xfer[t].done
            BY <1>4, Buffers DEF pread, Shape, Shaped, Transfers
        <3> QED
            BY <3>1
    <2>4. /\ \A u \in Thread : u # t => xfer'[u] = xfer[u]
          /\ xfer'[t].at = xfer[t].at /\ xfer'[t].verdict = xfer[t].verdict
          /\ xfer'[t].chunks = now /\ xfer'[t].done = xfer[t].done + n
        BY <2>1 DEF Shape, Transfers, now
    <2>5. I \in SUBSET Left[t] /\ Left' = [Left EXCEPT ![t] = @ \ I]
        <3>1. /\ I \in SUBSET Left[t]
              /\ Left[t] \ I = xfer[t].done + n .. Size(t) - 1
            <4>1. n \in 0 .. Size(t) - xfer[t].done
                BY <2>3
            <4> QED
                BY <4>1, StoresOwn
        <3> QED
            BY <2>4, <3>1 DEF Left, Size, data
    <2>6. Got' = [Got EXCEPT ![t] = [i \in DOMAIN Got[t] \cup I |->
                     IF i \in I THEN mem[Tests[t].addr + i] ELSE Got[t][i]]]
        <3>1. DOMAIN Got[t] = 0 .. xfer[t].done - 1
            BY <2>3 DEF Got
        <3>2. 0 .. xfer[t].done + n - 1 = DOMAIN Got[t] \cup I
            BY <2>3, <3>1
        <3>3. ASSUME NEW i \in 0 .. xfer[t].done + n - 1
              PROVE  now[i + 1] = IF i \in I THEN mem[addr(t) + i] ELSE Got[t][i]
            <4>1. CASE i \in I
                <5>1. i \in Nat /\ xfer[t].done <= i /\ i <= xfer[t].done + n - 1
                    BY <2>3, <4>1
                <5>2. i + 1 \in xfer[t].done + 1 .. xfer[t].done + n
                    BY <2>3, <5>1
                <5>3. addr(t) + (i + 1) - 1 = addr(t) + i
                    BY <2>3
                <5> QED
                    BY <2>2, <4>1, <5>2, <5>3
            <4>2. CASE i \notin I
                <5>1. i + 1 \in 1 .. xfer[t].done /\ i \in 0 .. xfer[t].done - 1
                    BY <2>3, <4>2
                <5> QED
                    BY <2>2, <2>3, <4>2, <5>1 DEF Got
            <4> QED
                BY <4>1, <4>2
        <3>4. Got'[t] = [i \in 0 .. xfer[t].done + n - 1 |-> now[i + 1]]
            <4>1. 0 .. Len(now) - 1 = 0 .. xfer[t].done + n - 1
                BY <2>2, <2>3
            <4>2. Got'[t] = [i \in 0 .. Len(now) - 1 |-> now[i + 1]]
                BY <2>4, Zenon DEF Got
            <4> QED
                BY <4>1, <4>2
        <3>5. Got'[t] = [i \in DOMAIN Got[t] \cup I |->
                             IF i \in I THEN mem[Tests[t].addr + i] ELSE Got[t][i]]
            <4>1. Tests[t].addr = addr(t)
                BY DEF Tests
            <4> QED
                BY <3>2, <3>3, <3>4, <4>1
        <3> QED
            BY <2>4, <3>5 DEF Got
    <2>7. at' = at /\ verdict' = verdict
        BY <2>4
    <2>8. Memory!Fetch(t)
        BY <1>4, <2>5, <2>6, <2>7, Zenon DEF Memory!Fetch, Left, Got, Tests, pread
    <2> QED
        BY <2>8 DEF Memory!Next
<1>5. CASE pread_fails(t)
    <2>1. /\ Left' = Left /\ Got' = Got /\ verdict' = verdict
          /\ at' = [at EXCEPT ![t] = "raised"]
        <3>1. /\ \A u \in Thread : u # t => xfer'[u] = xfer[u]
              /\ xfer'[t].at = "raised" /\ xfer'[t].verdict = xfer[t].verdict
              /\ xfer'[t].chunks = xfer[t].chunks
              /\ xfer'[t].done = xfer[t].done
            BY <1>5 DEF pread_fails, Shape, Transfers
        <3> QED
            BY <3>1 DEF Left, Got, Size, data
    <2>2. Memory!Raise(t)
        BY <1>5, <2>1 DEF Memory!Raise, Left, Got, pread_fails
    <2> QED
        BY <2>2 DEF Memory!Next
<1>6. CASE compare(t)
    <2> DEFINE v == first_difference(data(t), xfer[t].chunks)
    <2>1. /\ data(t) \in Seq(Byte) /\ xfer[t].chunks \in Seq(Byte)
          /\ Len(data(t)) = Size(t) /\ Len(xfer[t].chunks) = Size(t)
          /\ xfer[t].done = Size(t) /\ Size(t) \in Nat
        BY <1>6, Buffers DEF compare, Shape, Shaped, Transfers
    <2>2. \/ v = None /\ \A i \in 0 .. Size(t) - 1 : data(t)[i + 1] = xfer[t].chunks[i + 1]
          \/ /\ v \in 0 .. Size(t) - 1
             /\ data(t)[v + 1] # xfer[t].chunks[v + 1]
             /\ \A i \in 0 .. v - 1 : data(t)[i + 1] = xfer[t].chunks[i + 1]
        BY <2>1, FirstDifference, SMTT(20)
    <2> HIDE DEF v
    <2>3. /\ \A u \in Thread : u # t => xfer'[u] = xfer[u]
          /\ xfer'[t].at = "over" /\ xfer'[t].verdict = v
          /\ xfer'[t].chunks = xfer[t].chunks /\ xfer'[t].done = xfer[t].done
        BY <1>6 DEF compare, Shape, Transfers, v
    <2>4. /\ Left' = Left /\ Got' = Got
          /\ at' = [at EXCEPT ![t] = "over"]
          /\ verdict' = [verdict EXCEPT ![t] = v]
        BY <2>3 DEF Left, Got, Size, data
    <2>5. Left[t] = {}
        BY <2>1 DEF Left
    <2>6. /\ v \in 0 .. Tests[t].len - 1 \cup {Memory!None}
          /\ v = Memory!None => Got[t] = Tests[t].byte
          /\ v # Memory!None => /\ Got[t][v] # Tests[t].byte[v]
                                /\ \A i \in 0 .. v - 1 : Got[t][i] = Tests[t].byte[i]
        <3>1. /\ Tests[t].len = Size(t)
              /\ Tests[t].byte = [i \in 0 .. Size(t) - 1 |-> data(t)[i + 1]]
              /\ Got[t] = [i \in 0 .. Size(t) - 1 |-> xfer[t].chunks[i + 1]]
            BY <2>1 DEF Tests, Got
        <3> QED
            BY <2>1, <2>2, <3>1 DEF Memory!None, None
    <2>7. Memory!Compared(t)
        BY <1>6, <2>4, <2>5, <2>6, Zenon
        DEF Memory!Compared, Memory!Offsets, Left, Got, Tests, compare
    <2> QED
        BY <2>7 DEF Memory!Next
<1> QED
    BY <1>1, <1>2, <1>3, <1>4, <1>5, <1>6

LEMMA UpsetStep ==
    ASSUME Placed, Shape, Upset PROVE Memory!Next
<1>1. PICK a \in Address, b \in Byte : mem' = [mem EXCEPT ![a] = b]
    BY DEF Upset, Placed
<1>2. xfer' = xfer
    BY DEF Upset
<1>3. Left' = Left /\ Got' = Got
    BY <1>2 DEF Left, Got, Size, data
<1> QED
    BY <1>1, <1>2, <1>3, Zenon DEF Memory!Next, Memory!Upset, Left, Got

LEMMA StutterStep == UNCHANGED dmavars => UNCHANGED Memory!bmvars
<1> SUFFICES ASSUME UNCHANGED dmavars PROVE UNCHANGED Memory!bmvars
    OBVIOUS
<1>1. mem' = mem /\ xfer' = xfer
    BY DEF dmavars
<1>2. Left' = Left /\ Got' = Got
    BY <1>1 DEF Left, Got, Size, data
<1> QED
    BY <1>1, <1>2, Zenon DEF Memory!bmvars, Left, Got

(***************************************************************************)
(* The verdict of a round trip, where no two threads' buffers overlap.     *)
(***************************************************************************)
Kept(t, i) == \/ mem[addr(t) + i - 1] = data(t)[i]
              \/ addr(t) + i - 1 \in upset

Evidence(t) ==
    /\ xfer[t].at = "write" => \A i \in 1 .. xfer[t].done : Kept(t, i)
    /\ xfer[t].at \in {"read", "over"} => \A i \in 1 .. Size(t) : Kept(t, i)
    /\ xfer[t].at \in {"read", "over"} => \A i \in 1 .. xfer[t].done :
          xfer[t].chunks[i] = data(t)[i] \/ addr(t) + i - 1 \in upset
    /\ (xfer[t].at = "over" /\ xfer[t].verdict # None) =>
          addr(t) + xfer[t].verdict \in upset

TripInv == Apart => \A t \in Thread : Evidence(t)

LEMMA Elsewhere ==
    ASSUME Placed, Shape, Apart, NEW t \in Thread, NEW u \in Thread, t # u,
           NEW n \in 0 .. Size(t) - xfer[t].done, NEW i \in 1 .. Size(u)
    PROVE  Stored(t, n)[addr(u) + i - 1] = mem[addr(u) + i - 1]
<1>1. /\ addr(t) \in Int /\ addr(u) \in Int /\ Size(t) \in Nat /\ Size(u) \in Nat
      /\ xfer[t].done \in Nat
    BY Buffers DEF Shape, Transfers
<1>2. addr(t) + Size(t) <= addr(u) \/ addr(u) + Size(u) <= addr(t)
    BY DEF Apart
<1>3. addr(u) + i - 1 \in Address
    <2>1. i - 1 \in 0 .. Size(u) - 1 /\ addr(u) + (i - 1) = addr(u) + i - 1
        BY <1>1
    <2> QED
        BY <2>1, Buffers
<1>4. addr(u) + i - 1 - addr(t) \notin xfer[t].done .. xfer[t].done + n - 1
    BY <1>1, <1>2
<1> DEFINE a == addr(u) + i - 1
<1>5. a \in Address /\ a - addr(t) \notin xfer[t].done .. xfer[t].done + n - 1
    BY <1>1, <1>3, <1>4
<1> HIDE DEF a
<1>6. Stored(t, n)[a] = mem[a]
    BY <1>5, Zenon DEF Stored
<1> QED
    BY <1>6 DEF a

LEMMA Here ==
    ASSUME Placed, Shape, NEW t \in Thread,
           NEW n \in 0 .. Size(t) - xfer[t].done, NEW i \in 1 .. xfer[t].done + n
    PROVE  Stored(t, n)[addr(t) + i - 1] =
               IF i <= xfer[t].done THEN mem[addr(t) + i - 1] ELSE data(t)[i]
<1>1. addr(t) \in Int /\ Size(t) \in Nat /\ xfer[t].done \in Nat
    BY Buffers DEF Shape, Transfers
<1>2. addr(t) + i - 1 \in Address
    <2>1. i - 1 \in 0 .. Size(t) - 1 /\ addr(t) + (i - 1) = addr(t) + i - 1
        BY <1>1
    <2> QED
        BY <2>1, Buffers
<1>3. addr(t) + i - 1 - addr(t) = i - 1 /\ addr(t) + i - 1 - addr(t) + 1 = i
    BY <1>1
<1>4. i - 1 \in xfer[t].done .. xfer[t].done + n - 1 <=> ~(i <= xfer[t].done)
    BY <1>1
<1> DEFINE a == addr(t) + i - 1
<1>5. /\ a \in Address /\ a - addr(t) + 1 = i
      /\ a - addr(t) \in xfer[t].done .. xfer[t].done + n - 1 <=> ~(i <= xfer[t].done)
    BY <1>1, <1>2, <1>3, <1>4
<1> HIDE DEF a
<1>6. Stored(t, n)[a] = IF i <= xfer[t].done THEN mem[a] ELSE data(t)[i]
    BY <1>5, Zenon DEF Stored
<1> QED
    BY <1>6 DEF a

LEMMA InitTrip == Placed /\ Init => TripInv
<1> SUFFICES ASSUME Placed, Init, NEW t \in Thread PROVE Evidence(t)
    BY DEF TripInv
<1> QED
    BY DEF Init, Transfer, Evidence

(* The bytes of a thread that keeps its transfer stay kept.                *)
LEMMA OthersKeep ==
    ASSUME NEW u \in Thread, Evidence(u), xfer'[u] = xfer[u], upset' = upset,
           \A i \in 1 .. Size(u) : mem'[addr(u) + i - 1] = mem[addr(u) + i - 1],
           Shape, Placed
    PROVE  Evidence(u)'
<1>1. Size(u) \in Nat /\ xfer[u].done \in Nat /\ xfer[u].done <= Size(u)
    BY Buffers DEF Shape, Shaped, Transfers
<1>2. /\ addr(u)' = addr(u) /\ data(u)' = data(u) /\ Size(u)' = Size(u)
    BY DEF addr, data, Size
<1>3. \A i \in 1 .. Size(u) : Kept(u, i) => Kept(u, i)'
    BY <1>2 DEF Kept
<1>4. \A i \in 1 .. xfer[u].done : i \in 1 .. Size(u)
    BY <1>1
<1> QED
    BY <1>2, <1>3, <1>4 DEF Evidence

LEMMA TripStep ==
    ASSUME Placed, Shape, Apart, NEW t \in Thread,
           \A u \in Thread : Evidence(u),
           \/ pwrite(t) \/ write_returns(t) \/ pwrite_fails(t)
           \/ pread(t) \/ pread_fails(t) \/ compare(t)
    PROVE  \A u \in Thread : Evidence(u)'
<1>1. /\ addr(t) \in Int /\ data(t) \in Seq(Byte) /\ Size(t) \in Nat
      /\ xfer[t].done \in Nat /\ xfer[t].done <= Size(t) /\ Len(data(t)) = Size(t)
      /\ addr(t)' = addr(t) /\ data(t)' = data(t) /\ Size(t)' = Size(t)
      /\ Evidence(t)
    BY Buffers DEF Shape, Shaped, Transfers, addr, data, Size
<1>2. \A u \in Thread : u # t => Evidence(u)'
    <2> SUFFICES ASSUME NEW u \in Thread, u # t PROVE Evidence(u)'
        OBVIOUS
    <2>1. upset' = upset
        BY DEF pwrite, write_returns, pwrite_fails, pread, pread_fails, compare
    <2>2. xfer'[u] = xfer[u]
        BY DEF pwrite, write_returns, pwrite_fails, pread, pread_fails, compare, Shape
    <2>3. mem' = mem \/ \E n \in 0 .. Size(t) - xfer[t].done : mem' = Stored(t, n)
        BY <1>1 DEF pwrite, write_returns, pwrite_fails, pread, pread_fails, compare
    <2>4. \A i \in 1 .. Size(u) : mem'[addr(u) + i - 1] = mem[addr(u) + i - 1]
        BY <2>3, Elsewhere
    <2> QED
        BY <2>1, <2>2, <2>4, OthersKeep
<1>3. CASE pwrite(t)
    <2>1. PICK n \in 1 .. Size(t) - xfer[t].done :
             /\ mem' = Stored(t, n)
             /\ xfer' = [xfer EXCEPT ![t].done = @ + n]
        BY <1>3 DEF pwrite
    <2>2. n \in 0 .. Size(t) - xfer[t].done
        BY <1>1
    <2>3. xfer'[t].at = "write" /\ xfer'[t].done = xfer[t].done + n /\ upset' = upset
        BY <1>3, <2>1 DEF pwrite, Shape, Transfers
    <2>4. ASSUME NEW i \in 1 .. xfer[t].done + n PROVE Kept(t, i)'
        <3>1. mem'[addr(t) + i - 1] =
                  IF i <= xfer[t].done THEN mem[addr(t) + i - 1] ELSE data(t)[i]
            BY <2>1, <2>2, Here
        <3>2. i <= xfer[t].done => Kept(t, i)
            BY <1>1, <1>3 DEF Evidence, pwrite
        <3> QED
            BY <1>1, <2>3, <3>1, <3>2 DEF Kept
    <2> QED
        BY <1>2, <2>3, <2>4 DEF Evidence
<1>4. CASE write_returns(t)
    <2>1. /\ xfer'[t] = Transfer("read") /\ mem' = mem /\ upset' = upset
          /\ xfer[t].at = "write" /\ xfer[t].done = Size(t)
        BY <1>4 DEF write_returns, Shape
    <2>2. \A i \in 1 .. Size(t) : Kept(t, i)'
        BY <1>1, <2>1 DEF Evidence, Kept
    <2>3. xfer'[t].at = "read" /\ xfer'[t].done = 0
        BY <2>1 DEF Transfer
    <2> QED
        BY <1>1, <1>2, <2>2, <2>3 DEF Evidence
<1>5. CASE pwrite_fails(t)
    BY <1>2, <1>5 DEF pwrite_fails, Shape, Transfers, Evidence
<1>6. CASE pread(t)
    <2>1. PICK n \in 1 .. Size(t) - xfer[t].done :
             xfer' = [xfer EXCEPT ![t].done = @ + n,
                                  ![t].chunks = @ \o Fetched(t, n)]
        BY <1>6 DEF pread
    <2> DEFINE now == xfer[t].chunks \o Fetched(t, n)
    <2>2. /\ \A i \in 1 .. xfer[t].done : now[i] = xfer[t].chunks[i]
          /\ \A i \in xfer[t].done + 1 .. xfer[t].done + n :
                now[i] = mem[addr(t) + i - 1]
        BY <1>6, Fetching, Zenon DEF pread
    <2> HIDE DEF now
    <2>3. /\ xfer'[t].at = "read" /\ xfer'[t].done = xfer[t].done + n
          /\ xfer'[t].chunks = now /\ upset' = upset /\ mem' = mem
        BY <1>6, <2>1 DEF pread, Shape, Transfers, now
    <2>4. \A i \in 1 .. Size(t) : Kept(t, i) /\ Kept(t, i)'
        BY <1>1, <1>6, <2>3 DEF Evidence, Kept, pread
    <2>5. ASSUME NEW i \in 1 .. xfer[t].done + n
          PROVE  now[i] = data(t)[i] \/ addr(t) + i - 1 \in upset
        <3>1. CASE i \in 1 .. xfer[t].done
            BY <1>1, <1>6, <2>2, <3>1 DEF Evidence, pread
        <3>2. CASE i \notin 1 .. xfer[t].done
            <4>1. i \in xfer[t].done + 1 .. xfer[t].done + n /\ i \in 1 .. Size(t)
                BY <1>1, <3>2
            <4> QED
                BY <2>2, <2>4, <4>1 DEF Kept
        <3> QED
            BY <3>1, <3>2
    <2> QED
        BY <1>1, <1>2, <2>3, <2>4, <2>5 DEF Evidence
<1>7. CASE pread_fails(t)
    BY <1>2, <1>7 DEF pread_fails, Shape, Transfers, Evidence
<1>8. CASE compare(t)
    <2> DEFINE v == first_difference(data(t), xfer[t].chunks)
    <2>1. /\ xfer[t].chunks \in Seq(Byte) /\ Len(xfer[t].chunks) = Size(t)
          /\ xfer[t].done = Size(t) /\ xfer[t].at = "read"
        BY <1>8 DEF compare, Shape, Shaped, Transfers
    <2>2. v = None \/ (v \in 0 .. Size(t) - 1 /\ data(t)[v + 1] # xfer[t].chunks[v + 1])
        BY <1>1, <2>1, FirstDifference
    <2> HIDE DEF v
    <2>3. /\ xfer'[t].at = "over" /\ xfer'[t].verdict = v
          /\ xfer'[t].chunks = xfer[t].chunks /\ xfer'[t].done = xfer[t].done
          /\ upset' = upset /\ mem' = mem
        BY <1>8 DEF compare, Shape, Transfers, v
    <2>4. v # None => addr(t) + v \in upset
        <3> SUFFICES ASSUME v # None PROVE addr(t) + v \in upset
            OBVIOUS
        <3>1. v \in 0 .. Size(t) - 1 /\ data(t)[v + 1] # xfer[t].chunks[v + 1]
            BY <2>2
        <3>2. v + 1 \in 1 .. xfer[t].done
            BY <1>1, <2>1, <3>1
        <3>3. addr(t) + (v + 1) - 1 \in upset
            BY <1>1, <2>1, <3>1, <3>2 DEF Evidence
        <3>4. addr(t) + (v + 1) - 1 = addr(t) + v
            BY <1>1, <3>1
        <3> QED
            BY <3>3, <3>4
    <2>5. \A i \in 1 .. Size(t) : Kept(t, i)'
        BY <1>1, <2>1, <2>3 DEF Evidence, Kept
    <2> QED
        BY <1>1, <1>2, <2>1, <2>3, <2>4, <2>5 DEF Evidence
<1> QED
    BY <1>3, <1>4, <1>5, <1>6, <1>7, <1>8

LEMMA TripUpset ==
    ASSUME Placed, Shape, \A u \in Thread : Evidence(u), Upset
    PROVE  \A u \in Thread : Evidence(u)'
<1> SUFFICES ASSUME NEW u \in Thread PROVE Evidence(u)'
    OBVIOUS
<1>1. PICK a \in Address, b \in Byte :
         mem' = [mem EXCEPT ![a] = b] /\ upset' = upset \cup {a}
    BY DEF Upset, Placed
<1>2. /\ xfer' = xfer /\ addr(u)' = addr(u) /\ data(u)' = data(u) /\ Size(u)' = Size(u)
    BY DEF Upset, addr, data, Size
<1>3. \A i \in 1 .. Size(u) : Kept(u, i) => Kept(u, i)'
    BY <1>1, <1>2 DEF Kept, Shape
<1>4. \A i \in 1 .. xfer[u].done : i \in 1 .. Size(u)
    BY Buffers DEF Shape, Shaped, Transfers
<1> QED
    BY <1>1, <1>2, <1>3, <1>4 DEF Evidence

LEMMA TripKept == Placed /\ Shape /\ TripInv /\ [Next]_dmavars => TripInv'
<1> SUFFICES ASSUME Placed, Shape, TripInv, [Next]_dmavars, Apart
             PROVE  \A u \in Thread : Evidence(u)'
    BY DEF TripInv, Apart, addr, Size, data
<1>1. \A u \in Thread : Evidence(u)
    BY DEF TripInv
<1>2. CASE UNCHANGED dmavars
    BY <1>1, <1>2 DEF dmavars, Evidence, Kept, Size, addr, data
<1> QED
    BY <1>1, <1>2, TripStep, TripUpset DEF Next

(***************************************************************************)
(* The theorems.                                                           *)
(***************************************************************************)

LEMMA Invariance == ASSUME Placed PROVE Spec => []Shape
<1>1. Init => Shape
    BY InitShape
<1>2. Shape /\ [Next]_dmavars => Shape'
    BY ShapeInv
<1> QED
    BY <1>1, <1>2, PTL DEF Spec

(* Transfers cut up in any way implement the memory of independent bytes.  *)
THEOREM MemoryImplemented == ASSUME Placed PROVE Spec => ImplementsMemory
<1>1. Init => Memory!Init
    BY InitMemory
<1>2. Shape /\ Shape' /\ [Next]_dmavars => [Memory!Next]_(Memory!bmvars)
    BY ThreadStep, UpsetStep, StutterStep, Zenon DEF Next
<1> QED
    BY <1>1, <1>2, Invariance, PTL DEF Spec, ImplementsMemory, Memory!Spec

(* The verdict of a round trip is about the memory.                        *)
THEOREM TripsAreRight == ASSUME Placed PROVE Spec => []RoundTrip
<1>1. Init => TripInv
    BY InitTrip
<1>2. Shape /\ TripInv /\ [Next]_dmavars => TripInv'
    BY TripKept
<1>3. Shape /\ TripInv => RoundTrip
    <2> SUFFICES ASSUME Shape, TripInv, Apart, NEW t \in Thread, xfer[t].at = "over"
                 PROVE  IF xfer[t].verdict = None
                        THEN \A i \in 1 .. Size(t) : Kept(t, i)
                        ELSE addr(t) + xfer[t].verdict \in upset
        BY DEF RoundTrip, Kept
    <2> QED
        BY DEF TripInv, Evidence
<1> QED
    BY <1>1, <1>2, <1>3, Invariance, PTL DEF Spec
=============================================================================
