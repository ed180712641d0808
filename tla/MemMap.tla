------------------------------- MODULE MemMap -------------------------------
(***************************************************************************)
(* From a register named in a driver to the wires of a peripheral: the     *)
(* maps of the host library (host/alivu13p/memmap.py), the check in front  *)
(* of every access (AxiLite), the crossbars of the two designs, and the    *)
(* low address bits that each peripheral is wired to.                      *)
(***************************************************************************)
EXTENDS Integers

KB64 == 65536
Window(name, base, kind) == [name |-> name, base |-> base, size |-> KB64,
                             kind |-> kind]
Contains(w, addr) == w.base <= addr /\ addr < w.base + w.size

GOLDEN_PCIE == {Window("bram", 49152 * KB64, "dma"),
                Window("uram", 49153 * KB64, "dma"),
                Window("gpio", 3 * KB64, "reg"),
                Window("xvc", 4 * KB64, "reg")}
BOARD_MGMT == {Window("bram", 49152 * KB64, "dma"),
               Window("qspi", 1 * KB64, "reg"),
               Window("gpio", 3 * KB64, "reg"),
               Window("xvc", 4 * KB64, "reg"),
               Window("iic0", 5 * KB64, "reg"),
               Window("iic1", 6 * KB64, "reg"),
               Window("qsfp", 7 * KB64, "reg")}

(* AxiLite._check, with the size its constructor maps.                     *)
BarSize == 8 * KB64
Check(addr) == addr % 4 = 0 /\ 0 <= addr /\ addr <= BarSize - 4

(* The registers the drivers and programs touch, as offsets.               *)
QuadSpiRegisters == {64, 96, 100, 104, 108, 112}       \* SRR .. SPISSR
IicRegisters == {64, 256, 260, 264, 268, 288}          \* SOFTR .. RX_FIFO_PIRQ
GpioRegisters == {0, 8}                                \* GPIO_DATA1, DATA2
Registers(name) == CASE name = "qspi" -> QuadSpiRegisters
                     [] name \in {"iic0", "iic1"} -> IicRegisters
                     [] name \in {"gpio", "qsfp"} -> GpioRegisters
                     [] OTHER -> {}

(* The register crossbars: each slave has the range of 64 KB at its base,  *)
(* and sees the low bits of the address its port is wired to: 2^bits here. *)
Slave(base, reach) == [base |-> base * KB64, reach |-> reach]
GoldenSlaves == {Slave(3, 512), Slave(4, 32)}
BoardSlaves == {Slave(1, 128), Slave(3, 512), Slave(4, 32), Slave(5, 512),
                Slave(6, 512), Slave(7, 512)}
Selected(slaves, addr) == {s \in slaves : s.base <= addr /\ addr < s.base + KB64}

-----------------------------------------------------------------------------
(* No address of one path is in two windows of a map.                      *)
WindowsApart(map) ==
    \A v, w \in map, addr \in Nat :
        v.kind = w.kind /\ Contains(v, addr) /\ Contains(w, addr) => v = w

(* The access is let through, exactly one slave answers it, at the window's*)
(* base, and what the slave sees of the address is the register's offset.  *)
Reaches(w, offset, slaves) ==
    /\ Contains(w, w.base + offset)
    /\ Check(w.base + offset)
    /\ \E s \in Selected(slaves, w.base + offset) :
        /\ Selected(slaves, w.base + offset) = {s}
        /\ s.base = w.base
        /\ (w.base + offset) % s.reach = offset
AllReached(map, slaves) ==
    \A w \in map : w.kind = "reg" =>
        \A offset \in Registers(w.name) : Reaches(w, offset, slaves)
=============================================================================
