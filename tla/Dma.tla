-------------------------------- MODULE Dma --------------------------------
(***************************************************************************)
(* Bulk transfers (host/alivu13p/dma.py): the loops of write and read over *)
(* a driver that transfers any prefix of what it is asked for or fails,    *)
(* used by several threads on one handle.  Each thread does what the round *)
(* trips of host/tests/test_dma.py do: it writes a buffer, reads it back   *)
(* and compares.  A byte of the card's memory may change by itself.        *)
(***************************************************************************)
EXTENDS Integers, Sequences

CONSTANTS Thread,   \* threads that use the handle
          Address,  \* addresses on the card
          Byte,
          Test,     \* per thread: the address and the buffer of its test
          Weak      \* the addresses that may change by themselves, once

(* The addresses are numbers, and every byte of a test has one.           *)
Placed ==
    /\ Address \subseteq Int /\ Weak \subseteq Address
    /\ \A t \in Thread :
          /\ Test[t].addr \in Int /\ Test[t].data \in Seq(Byte)
          /\ \A i \in 0 .. Len(Test[t].data) - 1 : Test[t].addr + i \in Address

None == -1

VARIABLES mem,      \* the card's memory
          xfer,     \* per thread: its transfer
          upset     \* the addresses that changed by themselves
dmavars == <<mem, xfer, upset>>

addr(t) == Test[t].addr
data(t) == Test[t].data
Size(t) == Len(data(t))

(* written and got of the code are one count, done; chunks are joined.     *)
Transfer(op) == [at |-> op, done |-> 0, chunks |-> <<>>, verdict |-> None]

Init ==
    /\ mem \in [Address -> Byte]
    /\ xfer = [t \in Thread |-> Transfer("write")]
    /\ upset = {}

Least(S) == CHOOSE i \in S : \A j \in S : i <= j
(* Mutant: the last difference.                                            *)
first_difference_last(a, b) ==
    LET bad == {i \in 0 .. Len(a) - 1 : a[i + 1] # b[i + 1]}
    IN  IF bad = {} THEN None ELSE CHOOSE i \in bad : \A j \in bad : i >= j
first_difference(a, b) ==
    LET bad == {i \in 0 .. Len(a) - 1 : a[i + 1] # b[i + 1]}
    IN  CASE Len(a) # Len(b) -> Least({Len(a), Len(b)})
          [] bad # {} -> Least(bad)
          [] OTHER -> None

(* The driver stores the first n bytes of the rest of the buffer.          *)
(* Mutant: every call writes at the address of the transfer.               *)
Stored_in_place(t, n) ==
    [a \in Address |-> IF a - addr(t) \in 0 .. n - 1
                       THEN data(t)[a - addr(t) + xfer[t].done + 1] ELSE mem[a]]
Stored(t, n) ==
    [a \in Address |-> IF a - addr(t) \in xfer[t].done .. xfer[t].done + n - 1
                       THEN data(t)[a - addr(t) + 1] ELSE mem[a]]

pwrite(t) ==
    /\ xfer[t].at = "write"
    /\ \E n \in 1 .. Size(t) - xfer[t].done :
          /\ mem' = Stored(t, n)
          /\ xfer' = [xfer EXCEPT ![t].done = @ + n]
    /\ UNCHANGED upset

write_returns(t) ==
    /\ xfer[t].at = "write" /\ xfer[t].done = Size(t)
    /\ xfer' = [xfer EXCEPT ![t] = Transfer("read")]
    /\ UNCHANGED <<mem, upset>>

(* A call that fails, or returns nothing, may have stored a prefix.        *)
pwrite_fails(t) ==
    /\ xfer[t].at = "write" /\ xfer[t].done < Size(t)
    /\ \E n \in 0 .. Size(t) - xfer[t].done : mem' = Stored(t, n)
    /\ xfer' = [xfer EXCEPT ![t].at = "raised"]
    /\ UNCHANGED upset

(* The next n bytes that the driver fetches.                               *)
Fetched(t, n) == [i \in 1 .. n |-> mem[addr(t) + xfer[t].done + i - 1]]

pread(t) ==
    /\ xfer[t].at = "read"
    /\ \E n \in 1 .. Size(t) - xfer[t].done :
          xfer' = [xfer EXCEPT
            ![t].done = @ + n,
            ![t].chunks = @ \o Fetched(t, n)]
    /\ UNCHANGED <<mem, upset>>

pread_fails(t) ==
    /\ xfer[t].at = "read" /\ xfer[t].done < Size(t)
    /\ xfer' = [xfer EXCEPT ![t].at = "raised"]
    /\ UNCHANGED <<mem, upset>>

compare(t) ==
    /\ xfer[t].at = "read" /\ xfer[t].done = Size(t)
    /\ xfer' = [xfer EXCEPT ![t].at = "over",
            ![t].verdict = first_difference(data(t), xfer[t].chunks)]
    /\ UNCHANGED <<mem, upset>>

Upset ==
    /\ \E a \in Weak \ upset, b \in Byte :
          /\ b # mem[a]
          /\ mem' = [mem EXCEPT ![a] = b]
          /\ upset' = upset \cup {a}
    /\ UNCHANGED xfer

Next == \/ \E t \in Thread : \/ pwrite(t) \/ write_returns(t) \/ pwrite_fails(t)
                             \/ pread(t) \/ pread_fails(t) \/ compare(t)
        \/ Upset

Spec == Init /\ [][Next]_dmavars

-----------------------------------------------------------------------------
Memory == INSTANCE ByteMemory WITH
    Payload <- [t \in Thread |-> [addr |-> addr(t), len |-> Size(t),
                    byte |-> [i \in 0 .. Size(t) - 1 |-> data(t)[i + 1]]]],
    left <- [t \in Thread |-> xfer[t].done .. Size(t) - 1],
    got <- [t \in Thread |->
              [i \in 0 .. Len(xfer[t].chunks) - 1 |-> xfer[t].chunks[i + 1]]],
    at <- [t \in Thread |-> xfer[t].at],
    verdict <- [t \in Thread |-> xfer[t].verdict]

(* "using pread/pwrite keeps the offset out of the object's state --       *)
(* concurrent transfers on one handle then cannot interfere" (dma.py):     *)
(* however the driver cuts the transfers up, every byte is stored and      *)
(* fetched at its own address, once.                                       *)
ImplementsMemory == Memory!Spec

(* Threads whose windows do not overlap.                                   *)
Apart == \A t, u \in Thread : t # u =>
            addr(t) + Size(t) <= addr(u) \/ addr(u) + Size(u) <= addr(t)

(* A round trip that names a byte names one that changed by itself, and    *)
(* one that finds no difference has left its whole buffer in the memory,   *)
(* but for bytes that changed by themselves (host/tests/test_dma.py).      *)
RoundTrip ==
    Apart => \A t \in Thread : xfer[t].at = "over" =>
        IF xfer[t].verdict = None
        THEN \A i \in 1 .. Size(t) : \/ mem[addr(t) + i - 1] = data(t)[i]
                                     \/ addr(t) + i - 1 \in upset
        ELSE addr(t) + xfer[t].verdict \in upset
=============================================================================
