------------------------------ MODULE PciTest -------------------------------
(***************************************************************************)
(* The firmware's test of the Phase 2 device (firmware/rtos/pci_test.c):   *)
(* find the device on the bus, program its BAR, and run the register, DMA  *)
(* and interrupt tests against it.  One step of the firmware is one access *)
(* to the device, which the device's timer may precede.  The firmware has  *)
(* no interrupt handler for the device and leaves MSI-X disabled.          *)
(*                                                                         *)
(* A machine that boots an operating system instead has QemuNic's guest.   *)
(***************************************************************************)
EXTENDS QemuNic, Sequences, FiniteSets

CONSTANTS
    NumSlots,       \* device numbers on bus 0: 32 in the code
    PollLimit,      \* polls of DMA_STS: 500 in the code
    TickRateHz      \* configTICK_RATE_HZ: 100 in the code

ASSUME PciTestAssumption ==
    NumSlots \in Nat \ {0} /\ PollLimit \in Nat \ {0} /\ TickRateHz \in Nat \ {0}

VARIABLES
    bus,        \* bus[d]: what sits in slot d, its BAR0 and its command bits
    dev,        \* the slot smarteth_pci_scan looks at
    bar0,       \* what it has returned, 0 if nothing
    pc,         \* the firmware: "scan", "test", "done"; "os" where it is not run
    n,          \* the next access of Script
    timeout,    \* test_dma's counter
    failed      \* the tests that have failed

fwVars == <<bus, dev, bar0, pc, n, timeout, failed>>
allVars == <<vars, fwVars>>

Slots == 0 .. NumSlots - 1

\* Values of a BAR: not assigned, the window's start, assigned by other means.
PciMmioBase == 1
Bars == {0, PciMmioBase, 2}

\* pdMS_TO_TICKS: vTaskDelay of 0 ticks lasts no time.
Ticks(ms) == (ms * TickRateHz) \div 1000

-----------------------------------------------------------------------------
(* The accesses of smarteth_run_tests, in order.  A read names the values  *)
(* with which its test passes; scratch registers and patterns are reduced  *)
(* to two and to small numbers.                                            *)

Writes(r, v) == [op |-> "write", reg |-> r, val |-> v]
Reads(t, r, want) == [op |-> "read", test |-> t, reg |-> r, want |-> want]

WithBit(bit) == {v \in 0 .. 15 : Has(v, bit)}

ScratchReg(i) == IF i % 2 = 0 THEN "SCRATCH0" ELSE "SCRATCH1"
Patterns == <<0, 15, 10, 7, 14>>
TestScratch(i) ==
    <<Writes(ScratchReg(i - 1), Patterns[i]), Reads("scratch", ScratchReg(i - 1), {Patterns[i]})>>

TestReset ==
    <<Writes("SCRATCH0", 13), Writes("CTRL", SC_CTRL_RESET), Reads("reset", "SCRATCH0", {0})>>

TestMac == <<Reads("mac", "MAC_LO", Nat), Reads("mac", "MAC_HI", Nat)>>

\* The constant or-ed to DMA_START is not DMA_IRQ_EN.
TestDma == <<Writes("DMA_LEN", 1), Writes("DMA_CTRL", SC_DMA_START), [op |-> "poll"]>>

TestInterrupt ==
    <<Writes("IRQ_STS", SC_IRQ_TEST), Writes("IRQ_TEST", 1),
      Reads("irq", "IRQ_STS", WithBit(SC_IRQ_TEST)), Writes("IRQ_STS", SC_IRQ_TEST)>>

Script ==
    <<Reads("id", "DEV_ID", {SC_DEV_ID}), Reads("status", "STATUS", WithBit(SC_STATUS_READY))>>
    \o TestScratch(1) \o TestScratch(2) \o TestScratch(3) \o TestScratch(4) \o TestScratch(5)
    \o TestReset \o TestMac \o TestDma \o TestInterrupt

-----------------------------------------------------------------------------
Device(kind, bar, cmd) == [kind |-> kind, bar |-> bar, cmd |-> cmd]

\* Any bus with at most one SmartEth; BARs may have been assigned before.
PciInit ==
    /\ Init
    /\ \/ pc = "scan" /\ ~msix
       \/ /\ pc = "os"
          /\ bus = [d \in Slots |-> IF d = 0 THEN Device("smarteth", 2, {"mem", "master"})
                                    ELSE Device("none", 0, {})]
    /\ bus \in [Slots -> [kind : {"none", "other", "smarteth"}, bar : Bars,
                          cmd : {{}, {"mem", "master"}}]]
    /\ Cardinality({d \in Slots : bus[d].kind = "smarteth"}) <= 1
    /\ \A d \in Slots : bus[d].kind # "smarteth" => bus[d] = Device(bus[d].kind, 0, {})
    /\ dev = 0 /\ bar0 = 0 /\ n = 1
    /\ timeout = PollLimit /\ failed = {}

\* Mutant: does not step over a foreign device.
ScanNextStuck ==
    /\ pc = "scan" /\ dev < NumSlots /\ bus[dev].kind = "none"
    /\ dev' = dev + 1
    /\ UNCHANGED <<vars, bus, bar0, pc, n, timeout, failed>>

ScanNext ==
    /\ pc = "scan" /\ dev < NumSlots /\ bus[dev].kind # "smarteth"
    /\ dev' = dev + 1
    /\ UNCHANGED <<vars, bus, bar0, pc, n, timeout, failed>>

ScanNotFound ==
    /\ pc = "scan" /\ dev = NumSlots
    /\ pc' = "done"
    /\ UNCHANGED <<vars, bus, dev, bar0, n, timeout, failed>>

\* Mutant: enables the memory space only.
ScanFoundNoMaster ==
    /\ pc = "scan" /\ dev < NumSlots /\ bus[dev].kind = "smarteth"
    /\ LET bar == IF bus[dev].bar = 0 THEN PciMmioBase ELSE bus[dev].bar
       IN bus' = [bus EXCEPT ![dev].bar = bar, ![dev].cmd = @ \cup {"mem"}] /\ bar0' = bar
    /\ pc' = "test"
    /\ UNCHANGED <<vars, dev, n, timeout, failed>>

\* Programs BAR0 unless it is assigned, enables memory space and bus mastering.
ScanFound ==
    /\ pc = "scan" /\ dev < NumSlots /\ bus[dev].kind = "smarteth"
    /\ LET bar == IF bus[dev].bar = 0 THEN PciMmioBase ELSE bus[dev].bar
       IN /\ bus' = [bus EXCEPT ![dev].bar = bar, ![dev].cmd = @ \cup {"mem", "master"}]
          /\ bar0' = bar
    /\ pc' = "test"
    /\ UNCHANGED <<vars, dev, n, timeout, failed>>

-----------------------------------------------------------------------------
\* What the bus does with an access to bar0.
Decoded == bar0 = bus[dev].bar /\ "mem" \in bus[dev].cmd

MmioRead(r) == IF Decoded THEN RegRead(regs, r) ELSE 0

At(op) == pc = "test" /\ n <= Len(Script) /\ Script[n].op = op

TestWrites ==
    /\ At("write")
    /\ IF Decoded THEN MmioWrite(Script[n].reg, Script[n].val) ELSE UNCHANGED devVars
    /\ n' = n + 1
    /\ UNCHANGED <<isr, bus, dev, bar0, pc, timeout, failed>>

\* A failed interrupt test returns before its last write.
TestReads ==
    /\ At("read")
    /\ LET ok == MmioRead(Script[n].reg) \in Script[n].want
       IN /\ failed' = IF ok THEN failed ELSE failed \cup {Script[n].test}
          /\ n' = IF ~ok /\ Script[n].test = "irq" THEN n + 2 ELSE n + 1
    /\ UNCHANGED <<vars, bus, dev, bar0, pc, timeout>>

Busy == Has(MmioRead("DMA_STS"), SC_STATUS_DMA_BSY)

\* Mutant: polls on when timeout has run out.
PollDmaForever ==
    /\ At("poll")
    /\ timeout' = timeout - 1
    /\ IF Busy THEN UNCHANGED n ELSE n' = n + 1
    /\ UNCHANGED <<vars, bus, dev, bar0, pc, failed>>

\* `while (timeout--)' finds timeout not 0 and reads DMA_STS.  Idle ends the
\* loop, with a verdict that looks at timeout; busy leads to vTaskDelay(1 ms).
\* A delay that lasts outlives, from the second on, the 1 ms of the DMA timer.
PollDma ==
    /\ At("poll") /\ timeout > 0
    /\ Ticks(1) > 0 /\ dma.start => timeout > PollLimit - 2
    /\ timeout' = timeout - 1
    /\ IF Busy THEN UNCHANGED <<n, failed>>
       ELSE /\ n' = n + 1
            /\ failed' = IF timeout' <= 0 THEN failed \cup {"dma"} ELSE failed
    /\ UNCHANGED <<vars, bus, dev, bar0, pc>>

\* Mutant: passes when the polls run out.
PollTimeoutPasses ==
    /\ At("poll") /\ timeout = 0
    /\ n' = n + 1
    /\ UNCHANGED <<vars, bus, dev, bar0, pc, timeout, failed>>

\* `while (timeout--)' finds timeout 0 and leaves it at -1.
PollTimeout ==
    /\ At("poll") /\ timeout = 0
    /\ timeout' = -1
    /\ n' = n + 1
    /\ failed' = failed \cup {"dma"}
    /\ UNCHANGED <<vars, bus, dev, bar0, pc>>

TestsEnd ==
    /\ pc = "test" /\ n > Len(Script)
    /\ pc' = "done"
    /\ UNCHANGED <<vars, bus, dev, bar0, n, timeout, failed>>

Firmware ==
    \/ ScanNext \/ ScanNotFound \/ ScanFound
    \/ TestWrites \/ TestReads \/ PollDma \/ PollTimeout \/ TestsEnd

Handler == pc = "os" /\ (IsrRead \/ IsrAck)

PciNext ==
    \/ Firmware
    \/ UNCHANGED fwVars /\ (DmaTimer \/ Handler \/ (pc = "os" /\ GuestWrite))

\* The firmware runs, the DMA timer expires, and an interrupted operating
\* system runs its handler.
PciSpec ==
    /\ PciInit /\ [][PciNext]_allVars
    /\ WF_allVars(Firmware) /\ WF_allVars(DmaTimer /\ UNCHANGED fwVars)
    /\ WF_allVars(Handler /\ UNCHANGED fwVars)

-----------------------------------------------------------------------------
(* Type invariant. *)
PciTypeOK ==
    /\ TypeOK
    /\ bus \in [Slots -> [kind : {"none", "other", "smarteth"}, bar : Bars,
                          cmd : SUBSET {"mem", "master"}]]
    /\ dev \in 0 .. NumSlots /\ bar0 \in Bars
    /\ pc \in {"os", "scan", "test", "done"} /\ n \in 1 .. Len(Script) + 1
    /\ timeout \in -1 .. PollLimit
    /\ failed \subseteq {"id", "status", "scratch", "reset", "mac", "dma", "irq"}

(***************************************************************************)
(* The device does DMA only as a bus master: the scan has enabled it by    *)
(* the time a test starts a transfer (pci_test.c:114-117, 266).            *)
(***************************************************************************)
DmaMastered == dma.start => pc # "scan" /\ "master" \in bus[dev].cmd

(***************************************************************************)
(* A DMA test that is not reported as failed has moved what it asked for   *)
(* (pci_test.c:262-286), and the other tests do not depend on how late     *)
(* the DMA is: they pass on any bus the device sits on.  The tests leave   *)
(* no interrupt behind: the line is down and no cause is pending once they *)
(* have ended and the DMA timer is not armed (pci_test.c:306-334).         *)
(***************************************************************************)
VerdictHonest ==
    bar0 # 0 =>
        /\ "dma" \notin failed => moved = [write |-> FALSE, len |-> 1] /\ ~dma.start
        /\ failed \subseteq {"dma"}
QuietAtEnd == ~dma.start => ~intx /\ regs["IRQ_STS"] = 0
DoneRight == pc = "done" => VerdictHonest /\ QuietAtEnd

(* The test task ends, whatever is on the bus.                             *)
Ends == pc = "scan" ~> pc = "done"

(***************************************************************************)
(* pci_test.c:270, "poll DMA_STS, timeout ~500ms": the device needs 1 ms,  *)
(* so the tests of a working device pass.                                  *)
(***************************************************************************)
SelfTestPasses == pc = "done" => failed = {}
=============================================================================
