----------------------------- MODULE ByteMemory -----------------------------
(***************************************************************************)
(* What the DMA class promises (host/alivu13p/dma.py): a write stores each *)
(* byte of the buffer at its own address once and touches no other byte, a *)
(* read fetches each byte from its own address once, transfers on one      *)
(* handle do not disturb each other, and a comparison names the first byte *)
(* that differs.  The order and the grouping of the bytes are left open.   *)
(***************************************************************************)
EXTENDS Integers

CONSTANTS Thread,   \* threads that use the handle
          Address,  \* addresses on the card
          Byte,
          Payload   \* per thread: the address, the length and the bytes of
                    \* its test, by offset

Offsets(t) == 0 .. Payload[t].len - 1
None == -1

VARIABLES mem,   \* the card's memory
          left,  \* per thread: the offsets its transfer still owes
          got,   \* per thread: what its read has fetched, by offset
          at,    \* per thread: "write", "read", "over" or "raised"
          verdict   \* per thread: the offset its comparison named
bmvars == <<mem, left, got, at, verdict>>

Init ==
    /\ mem \in [Address -> Byte]
    /\ left = [t \in Thread |-> Offsets(t)]
    /\ got = [t \in Thread |-> [i \in {} |-> i]]
    /\ at = [t \in Thread |-> "write"]
    /\ verdict = [t \in Thread |-> None]

StoredAt(t, I) ==
    [a \in Address |-> IF a - Payload[t].addr \in I
                       THEN Payload[t].byte[a - Payload[t].addr] ELSE mem[a]]

Store(t) ==
    /\ at[t] = "write"
    /\ \E I \in SUBSET left[t] :
          /\ mem' = StoredAt(t, I)
          /\ left' = [left EXCEPT ![t] = @ \ I]
    /\ UNCHANGED <<got, at, verdict>>

WriteReturns(t) ==
    /\ at[t] = "write" /\ left[t] = {}
    /\ at' = [at EXCEPT ![t] = "read"]
    /\ left' = [left EXCEPT ![t] = Offsets(t)]
    /\ UNCHANGED <<mem, got, verdict>>

Fetch(t) ==
    /\ at[t] = "read"
    /\ \E I \in SUBSET left[t] :
          /\ got' = [got EXCEPT ![t] = [i \in DOMAIN got[t] \cup I |->
                        IF i \in I THEN mem[Payload[t].addr + i]
                                   ELSE got[t][i]]]
          /\ left' = [left EXCEPT ![t] = @ \ I]
    /\ UNCHANGED <<mem, at, verdict>>

Compared(t) ==
    /\ at[t] = "read" /\ left[t] = {}
    /\ at' = [at EXCEPT ![t] = "over"]
    /\ \E v \in Offsets(t) \cup {None} :
          /\ v = None => got[t] = Payload[t].byte
          /\ v # None => /\ got[t][v] # Payload[t].byte[v]
                         /\ \A i \in 0 .. v - 1 : got[t][i] = Payload[t].byte[i]
          /\ verdict' = [verdict EXCEPT ![t] = v]
    /\ UNCHANGED <<mem, left, got>>

(* An error ends a transfer, which may have stored some of its bytes.      *)
Raise(t) ==
    /\ at[t] \in {"write", "read"}
    /\ at' = [at EXCEPT ![t] = "raised"]
    /\ \E I \in SUBSET left[t] :
          mem' = IF at[t] = "write" THEN StoredAt(t, I) ELSE mem
    /\ UNCHANGED <<left, got, verdict>>

(* The memory itself may fail.                                             *)
Upset ==
    /\ \E a \in Address, b \in Byte : mem' = [mem EXCEPT ![a] = b]
    /\ UNCHANGED <<left, got, at, verdict>>

Next == \/ \E t \in Thread : \/ Store(t) \/ WriteReturns(t) \/ Fetch(t)
                             \/ Compared(t) \/ Raise(t)
        \/ Upset

Spec == Init /\ [][Next]_bmvars
=============================================================================
