------------------------------ MODULE QemuNic -------------------------------
(***************************************************************************)
(* The Phase 2 device (firmware/qemu-dev/smarteth_pci.c): the NIC entirely *)
(* inside QEMU.  Its handlers and its timer callback run one at a time     *)
(* under the BQL, so each is one step; what interleaves is the order in    *)
(* which the guest's accesses and the timer come.  DMA_LEN stands for the  *)
(* source, destination and length registers, which are used together.      *)
(***************************************************************************)
EXTENDS RegBlock

CONSTANTS
    GuestWrites,    \* <<register, value>> pairs the guest may write
    BufSize         \* DMA_BUF_SIZE

ASSUME QemuNicAssumption ==
    /\ GuestWrites \subseteq RegNames \X Nat
    /\ BufSize \in Nat

VARIABLES
    regs,       \* the register array
    dma,        \* s->dma: the parameters start_dma has copied; dma_timer is armed
                \* exactly while the START bit is set
    intx,       \* the level of the INTx line
    msix,       \* the guest has enabled MSI-X; otherwise the INTx line is used
    vecs,       \* MSI-X messages the guest has yet to take
    moved,      \* the last transfer: its direction and its length
    asked,      \* the transfer the guest last asked for, by what it had written then
    isr         \* the guest's interrupt handler, with the IRQ_STS it has read

devVars == <<regs, dma, intx, msix, vecs, moved, asked>>
vars == <<devVars, isr>>

NoTransfer == [write |-> FALSE, len |-> 0]
IsrIdle == [pc |-> "idle", sts |-> 0]

\* realize, with instance_init's address.
Init ==
    /\ regs = RegInit
    /\ dma = [start |-> FALSE, write |-> FALSE, irq |-> FALSE, len |-> 0]
    /\ intx = FALSE /\ vecs = {} /\ msix \in BOOLEAN
    /\ moved = NoTransfer /\ asked = NoTransfer
    /\ isr = IsrIdle

Capped(n) == IF n > BufSize THEN BufSize ELSE n

\* smarteth_raise_irq.
RaiseIrq(bit) ==
    IF msix
    THEN vecs' = vecs \cup {IF bit = SC_IRQ_DMA_DONE THEN 0 ELSE 1} /\ UNCHANGED intx
    ELSE intx' = TRUE /\ UNCHANGED vecs

StartDma(v) ==
    /\ regs' = [regs EXCEPT !["DMA_CTRL"] = v, !["DMA_STS"] = SC_STATUS_DMA_BSY]
    /\ dma' = [start |-> TRUE, write |-> Has(v, SC_DMA_DIR_WRITE),
               irq |-> Has(v, SC_DMA_IRQ_EN), len |-> regs["DMA_LEN"]]
    /\ asked' = [write |-> Has(v, SC_DMA_DIR_WRITE), len |-> Capped(regs["DMA_LEN"])]

\* Mutant: any acknowledgement lowers the line.
ClearsStatusAlways(r, v) == r = "IRQ_STS"

\* A write that clears the last bit of IRQ_STS.
ClearsStatus(r, v) == r = "IRQ_STS" /\ ClearBits(regs["IRQ_STS"], v) = 0

\* smarteth_mmio_write.
MmioWrite(r, v) ==
    /\ IF r = "DMA_CTRL" /\ Has(v, SC_DMA_START) THEN StartDma(v)
       ELSE regs' = RegWrite(regs, r, v) /\ UNCHANGED <<dma, asked>>
    /\ IF r = "IRQ_TEST" /\ v # 0 THEN RaiseIrq(SC_IRQ_TEST)
       ELSE /\ intx' = (intx /\ (ClearsStatus(r, v) => msix))
            /\ UNCHANGED vecs
    /\ UNCHANGED <<msix, moved>>

\* What dma_timer_cb does after the transfer.
DmaIdle(f) ==
    IF dma.irq
    THEN /\ regs' = [f EXCEPT !["IRQ_STS"] = SetBit(@, SC_IRQ_DMA_DONE)]
         /\ RaiseIrq(SC_IRQ_DMA_DONE)
    ELSE regs' = f /\ UNCHANGED <<intx, vecs>>

\* Mutant: transfers as the registers say when the timer expires.
DmaTimerLate ==
    /\ dma.start
    /\ dma' = [dma EXCEPT !.start = FALSE]
    /\ moved' = [write |-> Has(regs["DMA_CTRL"], SC_DMA_DIR_WRITE),
                 len |-> Capped(regs["DMA_LEN"])]
    /\ DmaIdle([regs EXCEPT !["DMA_STS"] = 0])
    /\ UNCHANGED <<msix, asked, isr>>

\* Mutant: leaves busy to the interrupt handler.
DmaTimerBusy ==
    /\ dma.start
    /\ dma' = [dma EXCEPT !.start = FALSE, !.len = Capped(@)]
    /\ moved' = [write |-> dma.write, len |-> Capped(dma.len)]
    /\ DmaIdle(regs)
    /\ UNCHANGED <<msix, asked, isr>>

\* smarteth_dma_timer_cb: the transfer, then busy is cleared and DMA_DONE raised.
DmaTimer ==
    /\ dma.start
    /\ dma' = [dma EXCEPT !.start = FALSE, !.len = Capped(@)]
    /\ moved' = [write |-> dma.write, len |-> Capped(dma.len)]
    /\ DmaIdle([regs EXCEPT !["DMA_STS"] = 0])
    /\ UNCHANGED <<msix, asked, isr>>

-----------------------------------------------------------------------------
(* The guest: a program that writes registers, interrupted by a handler    *)
(* that reads IRQ_STS and writes back what it has read                     *)
(* (smarteth_irq_handler).                                                 *)

GuestWrite ==
    /\ isr = IsrIdle
    /\ \E w \in GuestWrites : MmioWrite(w[1], w[2])
    /\ UNCHANGED isr

\* The handler is entered, for the line or for a message, and reads IRQ_STS.
IsrRead ==
    /\ isr = IsrIdle /\ (intx \/ vecs # {})
    /\ IF vecs = {} THEN UNCHANGED vecs ELSE \E v \in vecs : vecs' = vecs \ {v}
    /\ isr' = IF regs["IRQ_STS"] = 0 THEN IsrIdle
              ELSE [pc |-> "ack", sts |-> regs["IRQ_STS"]]
    /\ UNCHANGED <<regs, dma, intx, msix, moved, asked>>

IsrAck ==
    /\ isr.pc = "ack"
    /\ MmioWrite("IRQ_STS", isr.sts)
    /\ isr' = IsrIdle

Next == GuestWrite \/ IsrRead \/ IsrAck \/ DmaTimer

Spec == Init /\ [][Next]_vars

-----------------------------------------------------------------------------
(* Type invariant. *)
TypeOK ==
    /\ regs \in [RegNames -> Nat]
    /\ dma \in [start : BOOLEAN, write : BOOLEAN, irq : BOOLEAN, len : Nat]
    /\ {intx, msix} \subseteq BOOLEAN
    /\ vecs \subseteq {0, 1}
    /\ {moved, asked} \subseteq [write : BOOLEAN, len : 0 .. BufSize]
    /\ isr \in [pc : {"idle", "ack"}, sts : Nat]

(***************************************************************************)
(* A guest that waits for DMA_STS to go idle is not left waiting: busy is  *)
(* shown only while the timer that will clear it is armed for a transfer   *)
(* (smarteth_pci.c:143-188), whatever the guest writes meanwhile to any    *)
(* register but DMA_STS itself, which the device lets it write.            *)
(***************************************************************************)
BusyMeansArmed == regs["DMA_STS"] # 0 => dma.start

(***************************************************************************)
(* A transfer is the last one asked for, with the parameters the registers *)
(* held when START was written, however they are rewritten before the      *)
(* timer expires (smarteth_pci.c:152-162, 176-181).                        *)
(***************************************************************************)
OwnTransfer == [][dma.start /\ ~dma'.start => moved' = asked]_vars

(***************************************************************************)
(* A pending interrupt cause reaches the handler and is cleared, although  *)
(* the device may raise another cause between the handler's read and its   *)
(* write (smarteth_pci.c:124-137, 243-249).                                *)
(***************************************************************************)
IrqServed ==
    \A bit \in {SC_IRQ_DMA_DONE, SC_IRQ_TEST} :
        Has(regs["IRQ_STS"], bit) ~> ~Has(regs["IRQ_STS"], bit)

(***************************************************************************)
(* smarteth_pci.c:231, "Device reset: clear all regs (except MAC)": a      *)
(* device whose registers are those of a reset device, CTRL and DMA_CTRL   *)
(* included, does not report a DMA done.                                   *)
(***************************************************************************)
ResetQuiets == [][regs = RegReset => ~Has(regs'["IRQ_STS"], SC_IRQ_DMA_DONE)]_vars

(***************************************************************************)
(* smarteth_pci.c:231 and 246-247: a device with no interrupt cause left,  *)
(* reset or acknowledged, does not drive its interrupt line.               *)
(***************************************************************************)
LineMeansCause == intx => regs["IRQ_STS"] # 0
=============================================================================
