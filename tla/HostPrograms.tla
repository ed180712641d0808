---------------------------- MODULE HostPrograms ----------------------------
(***************************************************************************)
(* The programs of the host library on one card, one at a time: the board  *)
(* inventory and the prompt (BoardMgmt), the transfers of several threads  *)
(* (Dma), the interrupt test (Interrupt), the packet loopback (PcieStream) *)
(* and the bring-up script (Bringup).                                      *)
(***************************************************************************)
EXTENDS BoardMgmt

CONSTANTS Thread, Address, Byte, Test, Weak, MaxTests,
          Sizes, Depth, Capacity, MaxStreams, Holder, MaxScripts

VARIABLES program,  \* which one; never changes
          mem, xfer, upset, level, msi, pending, test, arrived,
          fifo, writer, main, pci, held, script

Xdma == INSTANCE Dma
Irq  == INSTANCE Interrupt
Loop == INSTANCE PcieStream
Card == INSTANCE Bringup

ASSUME DmaAssumption == Xdma!Placed
ASSUME StreamAssumption == Loop!Packets

dmavars == <<mem, xfer, upset>>
irqvars == <<level, msi, pending, test, arrived>>
strmvars == <<fifo, writer, main>>
bringvars == <<pci, held, script>>
allvars == <<vars, program, dmavars, irqvars, strmvars, bringvars>>

(* The state of a program that is not the one.                             *)
NoBoard == /\ Init /\ prog.pc = "prompt" /\ board = CHOOSE b \in Boards : TRUE
NoDma   == /\ Xdma!Init /\ mem = [a \in Address |-> CHOOSE b \in Byte : TRUE]
NoIrq   == Irq!Init /\ ~level

Programs == {"board", "dma", "interrupt", "stream", "bringup"}
HostInit ==
    /\ program \in Programs
    /\ IF program = "board" THEN Init ELSE NoBoard
    /\ IF program = "dma" THEN Xdma!Init ELSE NoDma
    /\ IF program = "interrupt" THEN Irq!Init ELSE NoIrq
    /\ Loop!StreamInit /\ Card!BringupInit

HostNext ==
    /\ UNCHANGED program
    /\ \/ /\ program = "board" /\ Next
          /\ UNCHANGED <<dmavars, irqvars, strmvars, bringvars>>
       \/ /\ program = "dma" /\ Xdma!Next
          /\ UNCHANGED <<vars, irqvars, strmvars, bringvars>>
       \/ /\ program = "interrupt" /\ Irq!Next
          /\ UNCHANGED <<vars, dmavars, strmvars, bringvars>>
       \/ /\ program = "stream" /\ Loop!StreamNext
          /\ UNCHANGED <<vars, dmavars, irqvars, bringvars>>
       \/ /\ program = "bringup" /\ Card!BringupNext
          /\ UNCHANGED <<vars, dmavars, irqvars, strmvars>>

HostSpec == HostInit /\ [][HostNext]_allvars /\ Fairness

-----------------------------------------------------------------------------
(* The transfers implement a memory of independent bytes (Dma).            *)
ImplementsMemory == Xdma!ImplementsMemory

(* A round trip's verdict is about bytes that failed, and the right ones   *)
(* (Dma).                                                                  *)
RoundTrip == Xdma!RoundTrip

(* Each pass of the interrupt test has an interrupt of its own (Interrupt).*)
PassNeedsInterrupt == Irq!PassNeedsInterrupt

(* A loopback that passes lost nothing, and one that fails met a fault     *)
(* (PcieStream).                                                           *)
PassMeansLossless == Loop!PassMeansLossless
FailMeansFault == Loop!FailMeansFault

(* What the bring-up script says of driver, endpoint and nodes (Bringup).  *)
BringupTrue == Card!BringupTrue
=============================================================================
