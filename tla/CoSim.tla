-------------------------------- MODULE CoSim --------------------------------
(***************************************************************************)
(* The whole co-simulation: the QEMU bridge, the socket, and the SystemC   *)
(* NIC with its socket thread, its network thread and its simulation       *)
(* kernel.  The guest uses the device as GuestReads and GuestWrites say,   *)
(* fills TX descriptors as the driver does, and the network side injects   *)
(* frames.                                                                 *)
(***************************************************************************)
EXTENDS ScBridge, NicProcs, FiniteSets

CONSTANTS
    RxBufLen,       \* SMARTETH_RX_BUF_SIZE
    MaxPackets,     \* bound: frames the network side injects
    MaxTx,          \* bound: frames the guest transmits
    Timely,         \* environment: QEMU is never five seconds late
    Patient,        \* environment: the guest accesses nothing while the NIC does a DMA for it,
                    \* and starts one when QEMU has acknowledged all the others
    Rewrites,       \* environment: the guest writes what a register holds already
    RegVals         \* what a register may hold (for TLC, a few of the naturals)

\* What a driver writes: never a tail, and no ring larger than the one it has.
DriverWrites(r, v) ==
    /\ r \notin {"RX_TAIL", "TX_TAIL"}
    /\ r = "RX_RING_SIZE" => v <= RxRing
    /\ r = "TX_RING_SIZE" => v <= TxRing

\* What the driver's tests send and have the NIC copy (smarteth_test_tx,
\* smarteth_test_dma).
TxFrame == [pkt |-> "test", len |-> 256]
Pattern == [pkt |-> "pattern", len |-> 256]

ASSUME CoSimAssumption ==
    /\ \A i \in RxSlots : {RxDesc(i), RxBuf(i)} \subseteq Addrs
    /\ \A i \in TxSlots : {TxDesc(i), TxBuf(i)} \subseteq Addrs
    /\ {DmaBuf, Other} \subseteq Addrs
    /\ {Blank, Pattern, TxFrame} \cup {Frame(p) : p \in Packets} \subseteq Bytes
    /\ {0, RxBufLen} \subseteq Lengths /\ RxBufLen <= DMA_BUF_SIZE
    /\ Garbage \subseteq Descs /\ {0, 1} \subseteq Vectors
    /\ \A w \in GuestWrites : DriverWrites(w[1], w[2])

VARIABLES
    injected,   \* frames injected, in order
    posted,     \* how many frames the guest has put in the TX ring
    rung,       \* how many of them it has announced at the doorbell
    promised,   \* the registers as the guest's writes should have left them
    genuine     \* no dma_read has returned true on what did not answer it

guestVars == <<posted, rung, promised>>
ghostVars == <<injected, guestVars>>
vars == <<wireVars, qemuVars, nicVars, kernelVars, ghostVars, genuine>>

\* The guest's memory: receive descriptors ready, transmit descriptors as
\* allocated, a pattern in the DMA buffer.
Init ==
    /\ WireInit /\ QemuInit /\ NicInit /\ ProcsInit
    /\ mem = [a \in Addrs |->
                CASE a \in {RxDesc(i) : i \in RxSlots} ->
                        [own |-> TRUE, done |-> FALSE, length |-> RxBufLen,
                         buf |-> RxBuf(a[2])]
                  [] a \in {TxDesc(i) : i \in TxSlots} ->
                        [own |-> FALSE, done |-> FALSE, length |-> 0, buf |-> TxBuf(a[2])]
                  [] a = DmaBuf -> Pattern
                  [] OTHER -> Blank]
    /\ injected = <<>> /\ posted = 0 /\ rung = 0 /\ promised = RegInit
    /\ genuine = TRUE

DmaMsg(m) == m.type \in {"DMA_READ", "DMA_WRITE"}
DmaQuiet ==
    /\ \A i \in DOMAIN q2s : ~DmaMsg(q2s[i])
    /\ \A i \in DOMAIN s2q : ~DmaMsg(s2q[i])
    /\ ~DmaMsg(io.msg) /\ ~DmaMsg(sock.msg)

\* The NIC has yet to carry out a DMA the guest has started.
StartMsg(m) == m.type = "MMIO_WRITE" /\ StartsDma(m.reg, m.val)
NicBusy ==
    \/ m_dma_start
    \/ \E i \in DOMAIN q2s : StartMsg(q2s[i])
    \/ sock.pc = "handle" /\ StartMsg(sock.msg)

\* A DMA read is under way, to QEMU or back.
ReadMsg(m) == m.type = "DMA_READ"
ReadUnderWay ==
    \/ \E i \in DOMAIN q2s : ReadMsg(q2s[i])
    \/ \E i \in DOMAIN s2q : ReadMsg(s2q[i])
    \/ ReadMsg(io.msg) \/ ReadMsg(sock.msg)

(***************************************************************************)
(* A dma_read that returns true has been answered (pcie_bridge.cpp:252-263).*)
(* Requests and answers keep their order, so it has when none of either is *)
(* left; but answers and write acknowledgements alike only clear a flag.   *)
(***************************************************************************)
OwnDmaData == dma.st = "true" => dma.data # NoData /\ ~ReadUnderWay

-----------------------------------------------------------------------------
\* NetIf::listener_thread reads a frame and calls on_packet_rx.
Inject ==
    /\ Len(injected) < MaxPackets
    /\ \E p \in Packets : NetRecv(p) /\ injected' = Append(injected, Frame(p))
    /\ UNCHANGED <<qemuVars, kernelVars, guestVars, genuine>>

\* smarteth_test_tx, by one writer of the sysfs file at a time and on a ring
\* the probe has configured: it fills the descriptor at tx_head, whoever owns
\* it, and advances tx_head, then rings the doorbell.
PostTx ==
    LET desc == TxDesc(posted % TxRing)
        buf == TxBuf(posted % TxRing)
    IN /\ posted < MaxTx /\ rung = posted /\ vcpu.pc = "guest"
       /\ promised["TX_RING_SIZE"] # 0
       /\ mem' = [mem EXCEPT ![buf] = TxFrame,
                             ![desc] = [own |-> TRUE, done |-> FALSE,
                                        length |-> TxFrame.len, buf |-> buf]]
       /\ posted' = posted + 1
       /\ UNCHANGED <<wireVars, vcpu, bql, io, deviceVars, msi, nicVars, kernelVars,
                      injected, rung, promised, genuine>>

Written(r, v) == MmioWrite(r, v) /\ promised' = RegWrite(promised, r, v)

RingTx ==
    /\ rung < posted
    /\ Written("TX_DOORBELL", 1)
    /\ rung' = rung + 1

\* The guest starts an access.
GuestAccess ==
    /\ UNCHANGED <<s2q, posted>>
    /\ \/ /\ Patient => ~NicBusy
          /\ \/ GuestRead /\ UNCHANGED promised
             \/ \E w \in GuestWrites :
                    /\ Rewrites \/ promised[w[1]] # w[2]
                    /\ Patient /\ StartsDma(w[1], w[2]) => DmaQuiet
                    /\ Written(w[1], w[2])
          /\ UNCHANGED rung
       \/ RingTx

\* The device stays here; BridgePeer has its removal.
QemuRuns ==
    \/ UNCHANGED s2q /\ (VcpuGoesOn \/ \E v \in Vectors : TakeMsi(v))
    \/ IoThread

QemuStep ==
    /\ GuestAccess \/ (QemuRuns /\ UNCHANGED guestVars)
    /\ UNCHANGED <<link, nicVars, kernelVars, injected, genuine>>

\* The answer to a dma_read cannot arrive: it is not under way, or the
\* socket thread is stuck ahead of it on the mutex the caller holds.
NoAnswerComes ==
    DmaQuiet \/ (sock.pc = "handle" /\ sock.msg.type \in {"MMIO_READ", "MMIO_WRITE"})

OtherNicThread ==
    \/ NetThread \/ DmaReadSend \/ DmaReadDone
    \/ (Timely => NoAnswerComes) /\ DmaReadTimeout

NicStep ==
    /\ SockThread \/ OtherNicThread
    /\ UNCHANGED <<qemuVars, kernelVars, ghostVars>>
    /\ genuine' = (genuine /\ OwnDmaData')

KernelStep == Kernel /\ UNCHANGED <<qemuVars, ghostVars, genuine>>

Next == QemuStep \/ NicStep \/ KernelStep \/ Inject \/ PostTx

Spec == Init /\ [][Next]_vars

(***************************************************************************)
(* Every thread that can run runs, and five seconds pass; frames and guest *)
(* accesses need not come.  Of the mutexes nothing more is assumed.        *)
(***************************************************************************)
Fairness ==
    /\ WF_vars(QemuStep /\ VcpuGoesOn)
    /\ WF_vars(QemuStep /\ IoThread)
    /\ WF_vars(NicStep /\ SockThread)
    /\ WF_vars(NicStep /\ OtherNicThread)
    /\ WF_vars(KernelStep)

FairSpec == Spec /\ Fairness

\* Mutexes besides that never pass over a socket thread that keeps asking.
FairMutexSpec == FairSpec /\ SF_vars(NicStep /\ SockThread)

-----------------------------------------------------------------------------
(* Type invariant of the composition. *)
TypeOK == WireTypeOK /\ QemuTypeOK /\ NicTypeOK /\ ProcsTypeOK

(***************************************************************************)
(* As long as dma_read returns what it asked for, the descriptors the      *)
(* guest sees DONE are the first ones of the ring, in the order of arrival,*)
(* and each buffer holds as much of its frame as fits, and as much as the  *)
(* descriptor says (on_packet_rx, nic.cpp:197-216: data, write-back, tail).*)
(***************************************************************************)
RxDone == {i \in RxSlots : mem[RxDesc(i)].done}
RxInOrder ==
    genuine =>
      /\ RxDone = 0 .. Cardinality(RxDone) - 1
      /\ \E f \in [RxDone -> DOMAIN injected] :
            /\ \A i, j \in RxDone : i < j => f[i] < f[j]
            /\ \A i \in RxDone :
                  /\ mem[RxBuf(i)] = First(injected[f[i]], RxBufLen)
                  /\ mem[RxDesc(i)].length = mem[RxBuf(i)].len

(***************************************************************************)
(* A frame for the NIC's own address is not filtered out (nic.cpp:150-169, *)
(* reg_block.cpp:23-33).                                                   *)
(***************************************************************************)
OwnFramesKept ==
    [][net.pc = "lock" /\ net'.pc = "idle" /\ net.pkt.dest = get_mac(m_regs)
          => m_regs["RX_RING_SIZE"] = 0]_vars

(***************************************************************************)
(* As long as dma_read returns what it asked for, the NIC writes a receive *)
(* buffer only while its descriptor is still the device's, and no memory   *)
(* the driver never handed over (nic.cpp:191-203).                         *)
(***************************************************************************)
OwnedBuffersOnly ==
    [][genuine =>
         /\ mem'[Other] = mem[Other]
         /\ \A i \in RxSlots :
               mem'[RxBuf(i)] # mem[RxBuf(i)] => mem[RxDesc(i)].own]_vars

(* The receive interrupt does not overtake the DONE flag it announces      *)
(* (nic.cpp:209-222).                                                      *)
IrqAfterDone == 1 \in msi => RxDone # {}

(* Every read of a register returns to the guest, although the listener    *)
(* may hold the register mutex while it waits for answers that queue       *)
(* behind the read (nic.cpp:150-223, pcie_bridge.cpp:214-263): after five  *)
(* seconds it gives up.  No process of the kernel runs.                    *)
ReadReturns == vcpu.pc = "rwait" ~> vcpu.pc = "guest"

\* The guest has read v from register r.
Reads(r) == vcpu.pc = "rlock" /\ vcpu.reg = r

(* A guest that polls DMA_STS and finds it idle has no DMA left to wait    *)
(* for (nic.cpp:72-75, 94-95).                                             *)
IdleMeansDone ==
    Reads("DMA_STS") /\ ~Has(vcpu.val, SC_STATUS_DMA_BSY) => ~m_dma_start

(***************************************************************************)
(* A guest that reads DMA_DONE in IRQ_STS finds its DMA carried out: the   *)
(* device's buffer and the guest's hold the same data (nic.cpp:251-270).   *)
(***************************************************************************)
DoneMeansMoved ==
    Reads("IRQ_STS") /\ Has(vcpu.val, SC_IRQ_DMA_DONE) /\ m_dma.len > 0
        => m_buf = mem[DmaBuf]

-----------------------------------------------------------------------------
(***************************************************************************)
(* CoSim implements RegFile: with the file the guest's writes should have  *)
(* produced, every read gets what that file holds, although writes are     *)
(* posted, cross a socket and are applied by another process.              *)
(***************************************************************************)
Cpu ==
    CASE vcpu.pc \in {"rsend", "rwait"} -> [pc |-> "asked", reg |-> vcpu.reg]
      [] vcpu.pc = "rlock" -> [pc |-> "answered", reg |-> vcpu.reg, val |-> vcpu.val]
      [] OTHER -> [pc |-> "idle"]

Registers == INSTANCE RegFile WITH file <- promised, cpu <- Cpu, Values <- RegVals
RegFileSpec == Registers!Spec

(***************************************************************************)
(* CoSim implements BridgePeer: the NIC is the peer QEMU's bridge relies   *)
(* on.  Whatever its threads do, it serves requests in order, answers each *)
(* once, and asks only for DMA and interrupts in between.  (The sockets    *)
(* never hold MaxQueued messages here: the abstract peer, and the guest    *)
(* with it, may send whenever the socket has room.  The guest writes the   *)
(* doorbell besides what GuestWrites lists.)                               *)
(***************************************************************************)
DmaRequests == [type : {"DMA_READ"}, addr : Addrs]
               \cup [type : {"DMA_WRITE"}, addr : Addrs, data : MemVals]
               \cup [type : {"MSI_IRQ"}, vector : Vectors]
Bridge == INSTANCE BridgePeer WITH
    peer <- sock.msg, MayClose <- FALSE, PeerRequests <- DmaRequests,
    Answers <- RegVals \X {"OK"}, Stores <- MemVals, MaxQueued <- 2 * SockCap + 1,
    GuestWrites <- GuestWrites \cup {<<"TX_DOORBELL", 1>>}
BridgeSpec == Bridge!Spec
=============================================================================
