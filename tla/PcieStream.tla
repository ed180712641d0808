----------------------------- MODULE PcieStream -----------------------------
(***************************************************************************)
(* The packet loopback (host/test_pcie_stream.py on 05_pcie_stream): a     *)
(* writer thread sends a packet, the main thread reads a packet back, and  *)
(* between them is the FIFO of the design, which holds fewer beats than    *)
(* the long packets have.  The packets are the same in every run (the seed *)
(* is fixed); a run may be killed, and the next one meets what is left.    *)
(***************************************************************************)
EXTENDS Naturals, Sequences

CONSTANTS Sizes,      \* the packets of a run: beats of each
          Depth,      \* beats the FIFO holds
          Capacity,   \* beats the receive buffer holds
          MaxStreams  \* bound on the runs

(* No packet is empty, the receive buffer has room for more than each, and *)
(* the FIFO does not hold every one of them.                               *)
Packets ==
    /\ Depth \in Nat \ {0} /\ Capacity \in Nat /\ Sizes \in Seq(Nat \ {0})
    /\ \A n \in 1 .. Len(Sizes) : Sizes[n] < Capacity
    /\ \E n \in 1 .. Len(Sizes) : Sizes[n] > Depth

VARIABLES fifo,     \* beats: packet, place in it, whether it ends one
          writer,   \* the writer thread: how it stands, beats sent
          main      \* the main thread; what this run found and met
strmvars == <<fifo, writer, main>>

NoWriter == [is |-> "idle", sent |-> 0]
Main(run, empty) == [at |-> "submit", number |-> 1, got |-> <<>>, run |-> run,
                     empty |-> empty, upset |-> FALSE]

StreamInit == fifo = <<>> /\ writer = NoWriter /\ main = Main(1, TRUE)

StreamEnded == main.at \in {"passed", "failed", "killed"}
Beat(n, i, last) == [packet |-> n, place |-> i, last |-> last]
Packet(n) == [i \in 1 .. Sizes[n] |-> <<n, i>>]

(* The main thread hands the packet to the writer and sleeps a little.     *)
submit ==
    /\ main.at = "submit"
    /\ writer' = [is |-> "writing", sent |-> 0]
    /\ main' = [main EXCEPT !.at = "delay", !.got = <<>>]
    /\ UNCHANGED fifo

read_begins ==
    /\ main.at = "delay"
    /\ main' = [main EXCEPT !.at = "reading"]
    /\ UNCHANGED <<fifo, writer>>

(* os.write, by the driver: a beat at a time, while the FIFO takes it.     *)
Push ==
    /\ writer.is = "writing" /\ Len(fifo) < Depth
    /\ LET i == writer.sent + 1
       IN  /\ i <= Sizes[main.number]
           /\ fifo' = Append(fifo, Beat(main.number, i, i = Sizes[main.number]))
           /\ writer' = [writer EXCEPT !.sent = i]
    /\ UNCHANGED main

write_returns ==
    /\ writer.is = "writing" /\ writer.sent = Sizes[main.number]
    /\ writer' = [writer EXCEPT !.is = "done"]
    /\ UNCHANGED <<fifo, main>>

(* The read ends with the packet (O_TRUNC), or when the buffer is full.    *)
(* Mutant: without O_TRUNC only the full buffer ends it.                   *)
Whole_full_only(beat, got) == Len(got) = Capacity
Whole(beat, got) == beat.last \/ Len(got) = Capacity

Pull ==
    /\ main.at = "reading" /\ fifo # <<>>
    /\ LET beat == Head(fifo)
           got  == Append(main.got, <<beat.packet, beat.place>>)
       IN  main' = [main EXCEPT !.got = got,
                        !.at = IF Whole(beat, got) THEN "await" ELSE "reading"]
    /\ fifo' = Tail(fifo)
    /\ UNCHANGED writer

-----------------------------------------------------------------------------
(* The driver gives up on a write that nobody makes room for, and on a     *)
(* read for which nothing comes.  Its timeouts are seconds, the delay of   *)
(* the main thread is milliseconds.                                        *)
write_times_out ==
    /\ writer.is = "writing" /\ Len(fifo) = Depth
    /\ main.at \notin {"delay", "reading"}
    /\ writer' = [writer EXCEPT !.is = "raised"]
    /\ UNCHANGED <<fifo, main>>

read_times_out ==
    /\ main.at = "reading" /\ fifo = <<>> /\ writer.is # "writing"
    /\ main' = [main EXCEPT !.at = "leaving"]
    /\ UNCHANGED <<fifo, writer>>

(* Mutant: the payload is not compared.                                    *)
Came_back_lengths(n, got) == Len(got) = Sizes[n]
Came_back(n, got) == got = Packet(n)

(* future.result raises what the writer raised, and gives up after 15 s on *)
(* one that is stuck; then lengths and payload are compared.               *)
await ==
    /\ main.at = "await"
    /\ \/ /\ writer.is = "raised" \/ (writer.is = "writing" /\ Len(fifo) = Depth)
          /\ main' = [main EXCEPT !.at = "leaving"]
       \/ /\ writer.is = "done"
          /\ main' =
               IF ~Came_back(main.number, main.got)
               THEN [main EXCEPT !.at = "leaving"]
               ELSE IF main.number < Len(Sizes)
               THEN [main EXCEPT !.at = "submit", !.number = @ + 1]
               ELSE [main EXCEPT !.at = "passed"]
    /\ UNCHANGED <<fifo, writer>>

(* An exception leaves the pool, which waits for the writer.               *)
leave ==
    /\ main.at = "leaving" /\ writer.is # "writing"
    /\ main' = [main EXCEPT !.at = "failed"]
    /\ UNCHANGED <<fifo, writer>>

kill ==
    /\ ~StreamEnded
    /\ main' = [main EXCEPT !.at = "killed"] /\ writer' = NoWriter
    /\ UNCHANGED fifo

rerun ==
    /\ StreamEnded /\ main.run < MaxStreams
    /\ main' = Main(main.run + 1, fifo = <<>>) /\ writer' = NoWriter
    /\ UNCHANGED fifo

(* A design or a driver with a fault: a beat is lost, changed, or loses or *)
(* gains the mark that ends a packet; a read fails.  Once in a run.         *)
Without(s, i) == SubSeq(s, 1, i - 1) \o SubSeq(s, i + 1, Len(s))
Fault ==
    /\ ~StreamEnded /\ ~main.upset
    /\ \/ \E i \in 1 .. Len(fifo) :
             /\ fifo' \in {Without(fifo, i), [fifo EXCEPT ![i].place = 0],
                           [fifo EXCEPT ![i].last = ~@]}
             /\ main' = [main EXCEPT !.upset = TRUE]
       \/ /\ main.at = "reading"
          /\ main' = [main EXCEPT !.upset = TRUE, !.at = "leaving"]
          /\ UNCHANGED fifo
    /\ UNCHANGED writer

StreamNext == \/ submit \/ read_begins \/ Push \/ write_returns \/ Pull
              \/ write_times_out \/ read_times_out \/ await \/ leave
              \/ kill \/ rerun \/ Fault

-----------------------------------------------------------------------------
(* "exact packet lengths and payloads" (test_pcie_stream.py): a run that   *)
(* passes has left nothing in the FIFO for the next one to read, and if it *)
(* found nothing there, no beat was lost or changed while it ran.          *)
PassMeansLossless ==
    main.at = "passed" => fifo = <<>> /\ (main.empty => ~main.upset)

(* A run fails only on a fault, or over what another run left in the FIFO: *)
(* packets longer than the FIFO are not stuck in it, and no packet runs    *)
(* into the next.                                                          *)
FailMeansFault == main.at = "failed" => main.upset \/ ~main.empty
=============================================================================
