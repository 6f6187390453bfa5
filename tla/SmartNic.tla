------------------------------ MODULE SmartNic ------------------------------
(***************************************************************************)
(* The SystemC side of the co-simulation: the socket thread and the DMA    *)
(* calls of PcieBridge (sim/systemc/src/pcie_bridge.cpp) and the NIC they  *)
(* drive (sim/systemc/src/nic.cpp): the register callbacks, which run on   *)
(* the socket thread, and packet reception, which runs on NetIf's listener *)
(* thread.  The connection stays up here; BridgePeer has its loss.         *)
(***************************************************************************)
EXTENDS Wire

CONSTANTS
    RxRing,         \* number of RX descriptors
    Packets,        \* frames the network side may inject: destination, payload, length
    Garbage         \* what an uninitialised descriptor on the stack may hold

ASSUME RxRingAssumption == RxRing \in Nat \ {0}

VARIABLES
    m_regs,         \* RegBlock::m_regs
    g_reg_mtx,      \* the thread that holds the register mutex
    sock,           \* the socket thread, with the message it serves and its answer
    m_dma_pending,  \* PcieBridge::m_dma_pending
    m_dma_resp,     \* PcieBridge::m_dma_resp
    dma,            \* the call of PcieBridge::dma_read in progress
    net,            \* NetIf's listener thread in on_packet_rx
    m_dma_start,    \* SmartNic::m_dma_pending: a DMA waits for process_dma
    m_dma,          \* DmaEngine: the configuration of that DMA
    m_tx_pending,   \* SmartNic::m_tx_pending
    m_tx_event      \* m_tx_event has been notified, the kernel has not acted on it

dmaVars == <<m_dma_pending, m_dma_resp, dma>>
procVars == <<m_dma_start, m_dma, m_tx_pending, m_tx_event>>
nicVars == <<m_regs, g_reg_mtx, sock, dmaVars, net, procVars>>

NoData == [none |-> TRUE]

Other == <<"other", 0>>
RxDesc(i) == <<"rx", i>>
RxBuf(i) == <<"buf", i>>
RxSlots == 0 .. RxRing - 1

\* A descriptor as the caller of dma_read sees it: the bytes of the answer,
\* or, where the answer left them alone, what was on the stack.
AsDesc(d) ==
    IF d # NoData /\ d.data \in Descs THEN {d.data} ELSE Garbage

Frame(p) == [pkt |-> p.data, len |-> p.len]

-----------------------------------------------------------------------------
NicInit ==
    /\ m_regs = RegInit
    /\ g_reg_mtx = "none"
    /\ sock = [pc |-> "connect", msg |-> NoMsg, ans |-> NoMsg]
    /\ m_dma_pending = FALSE /\ m_dma_resp = NoData
    /\ dma = [st |-> "idle", addr |-> Other, data |-> NoData]
    /\ net = [pc |-> "idle", pkt |-> NoData, desc |-> NoData]
    /\ m_dma_start = FALSE /\ m_tx_pending = FALSE /\ m_tx_event = FALSE
    /\ m_dma = [len |-> 0, dir_write |-> FALSE]

-----------------------------------------------------------------------------
(* PcieBridge::socket_thread and handle_message. *)

SockConnect ==
    /\ sock.pc = "connect" /\ link = "none"
    /\ link' = "up"
    /\ sock' = [sock EXCEPT !.pc = "recv"]
    /\ UNCHANGED <<q2s, s2q, m_regs, g_reg_mtx, dmaVars, net, procVars>>

SockRecv ==
    /\ sock.pc = "recv" /\ q2s # <<>>
    /\ sock' = [sock EXCEPT !.pc = "handle", !.msg = Head(q2s)]
    /\ q2s' = Tail(q2s)
    /\ UNCHANGED <<s2q, link, m_regs, g_reg_mtx, dmaVars, net, procVars>>

Serves(type) == sock.pc = "handle" /\ sock.msg.type = type
Answering(m) == sock' = [sock EXCEPT !.pc = "answer", !.ans = m]
Served == sock' = [pc |-> "recv", msg |-> NoMsg, ans |-> NoMsg]

\* on_mmio_read: DMA_STS shows DmaEngine::m_busy, which is set only inside
\* DmaEngine::start and so never while this thread has the mutex.
OnMmioRead ==
    /\ Serves("MMIO_READ") /\ g_reg_mtx = "none"
    /\ LET r == sock.msg.reg
           v == RegRead(m_regs, r)
       IN Answering(ReadResp(r, IF r = "DMA_STS" THEN ClearBits(v, SC_STATUS_DMA_BSY) ELSE v,
                             "OK"))
    /\ UNCHANGED <<wireVars, m_regs, g_reg_mtx, dmaVars, net, procVars>>

\* A doorbell write leaves work for process_tx and wakes it.
Kick(r, v) ==
    LET rings == r = "TX_DOORBELL" /\ v > 0
    IN m_tx_pending' = (m_tx_pending \/ rings) /\ m_tx_event' = (m_tx_event \/ rings)

StartsDma(r, v) == r = "DMA_CTRL" /\ Has(v, SC_DMA_START)

\* on_mmio_write.  When the register block reports an interrupt change the
\* interrupt is sent before the mutex is released (pc "irq").
OnMmioWrite ==
    /\ Serves("MMIO_WRITE") /\ g_reg_mtx = "none"
    /\ LET r == sock.msg.reg
           v == sock.msg.val
       IN /\ m_regs' = IF StartsDma(r, v)
                       THEN [RegWrite(m_regs, r, v) EXCEPT !["DMA_STS"] = SC_STATUS_DMA_BSY]
                       ELSE RegWrite(m_regs, r, v)
          /\ IF StartsDma(r, v)
             THEN /\ m_dma' = [len |-> m_regs["DMA_LEN"], dir_write |-> Has(v, SC_DMA_DIR_WRITE)]
                  /\ m_dma_start' = TRUE
             ELSE UNCHANGED <<m_dma, m_dma_start>>
          /\ Kick(r, v)
          /\ IF IrqChanged(r, v)
             THEN g_reg_mtx' = "sock" /\ sock' = [sock EXCEPT !.pc = "irq"]
             ELSE g_reg_mtx' = "none" /\ Answering(WriteResp)
    /\ UNCHANGED <<wireVars, dmaVars, net>>

OnMmioWriteIrq ==
    /\ sock.pc = "irq"
    /\ PutS2q(MsiIrq(0))
    /\ g_reg_mtx' = "none"
    /\ Answering(WriteResp)
    /\ UNCHANGED <<q2s, link, m_regs, dmaVars, net, procVars>>

\* Mutant: does not acknowledge writes.
SockAnswerReadsOnly ==
    /\ sock.pc = "answer"
    /\ IF sock.ans = WriteResp THEN UNCHANGED s2q ELSE PutS2q(sock.ans)
    /\ Served
    /\ UNCHANGED <<q2s, link, m_regs, g_reg_mtx, dmaVars, net, procVars>>

SockAnswer ==
    /\ sock.pc = "answer"
    /\ PutS2q(sock.ans)
    /\ Served
    /\ UNCHANGED <<q2s, link, m_regs, g_reg_mtx, dmaVars, net, procVars>>

HandleDmaReadResp ==
    /\ Serves("DMA_READ")
    /\ m_dma_resp' = [data |-> sock.msg.data]
    /\ m_dma_pending' = FALSE
    /\ Served
    /\ UNCHANGED <<wireVars, m_regs, g_reg_mtx, dma, net, procVars>>

HandleDmaWriteResp ==
    /\ Serves("DMA_WRITE")
    /\ m_dma_pending' = FALSE
    /\ Served
    /\ UNCHANGED <<wireVars, m_regs, g_reg_mtx, m_dma_resp, dma, net, procVars>>

-----------------------------------------------------------------------------
(* PcieBridge::dma_read.  Every caller holds g_reg_mtx from before the call *)
(* until after it, so at most one call is in progress and dma records it.   *)

DmaReadCall(a) ==
    /\ m_dma_pending' = TRUE
    /\ m_dma_resp' = NoData
    /\ dma' = [st |-> "send", addr |-> a, data |-> NoData]

DmaReadSend ==
    /\ dma.st = "send"
    /\ PutS2q(DmaReadReq(dma.addr))
    /\ dma' = [dma EXCEPT !.st = "wait"]
    /\ UNCHANGED <<q2s, link, m_regs, g_reg_mtx, sock, m_dma_pending, m_dma_resp, net, procVars>>

DmaReadDone ==
    /\ dma.st = "wait" /\ ~m_dma_pending
    /\ dma' = [dma EXCEPT !.st = "true", !.data = m_dma_resp]
    /\ UNCHANGED <<wireVars, m_regs, g_reg_mtx, sock, m_dma_pending, m_dma_resp, net, procVars>>

\* Five seconds without an answer; m_dma_pending is left set.
DmaReadTimeout ==
    /\ dma.st = "wait" /\ m_dma_pending
    /\ dma' = [dma EXCEPT !.st = "false"]
    /\ UNCHANGED <<wireVars, m_regs, g_reg_mtx, sock, m_dma_pending, m_dma_resp, net, procVars>>

DmaReadReturned == dma' = [dma EXCEPT !.st = "idle", !.data = NoData]

-----------------------------------------------------------------------------
(* on_packet_rx, on the listener thread.  net.pc: "lock" with a frame,     *)
(* "desc" in dma_read for the descriptor, "data" and "wb" writing the      *)
(* frame and the descriptor back, "irq" sending the interrupt; the mutex   *)
(* is held from "desc" on.                                                 *)

NetRecv(p) ==
    /\ net.pc = "idle"
    /\ net' = [net EXCEPT !.pc = "lock", !.pkt = p]
    /\ UNCHANGED <<wireVars, m_regs, g_reg_mtx, sock, dmaVars, procVars>>

\* The address the filter compares with, most significant byte first.
nic_mac ==
    <<Byte(m_regs["MAC_LO"], 3), Byte(m_regs["MAC_LO"], 2), Byte(m_regs["MAC_LO"], 1),
      Byte(m_regs["MAC_LO"], 0), Byte(m_regs["MAC_HI"], 1), Byte(m_regs["MAC_HI"], 0)>>

\* A whole Ethernet header; a group address has the low bit of its first byte set.
Match(p) == p.len >= 14 /\ (p.dest[1] % 2 = 1 \/ p.dest = nic_mac)

Drop == net' = [pc |-> "idle", pkt |-> NoData, desc |-> NoData]

RxDrop ==
    /\ net.pc = "lock" /\ g_reg_mtx = "none"
    /\ ~Match(net.pkt) \/ m_regs["RX_RING_SIZE"] = 0
    /\ Drop
    /\ UNCHANGED <<wireVars, m_regs, g_reg_mtx, sock, dmaVars, procVars>>

RxReadDesc ==
    /\ net.pc = "lock" /\ g_reg_mtx = "none"
    /\ Match(net.pkt) /\ m_regs["RX_RING_SIZE"] # 0
    /\ g_reg_mtx' = "net"
    /\ net' = [net EXCEPT !.pc = "desc"]
    /\ DmaReadCall(RxDesc(m_regs["RX_TAIL"]))
    /\ UNCHANGED <<wireVars, m_regs, sock, procVars>>

\* Mutant: returns without giving the mutex back.
RxFailedKeepsMutex ==
    /\ net.pc = "desc" /\ dma.st = "false"
    /\ DmaReadReturned /\ Drop
    /\ UNCHANGED <<wireVars, m_regs, g_reg_mtx, sock, m_dma_pending, m_dma_resp, procVars>>

RxFailed ==
    /\ net.pc = "desc" /\ dma.st = "false"
    /\ DmaReadReturned /\ Drop /\ g_reg_mtx' = "none"
    /\ UNCHANGED <<wireVars, m_regs, sock, m_dma_pending, m_dma_resp, procVars>>

\* Mutant: fills the buffer whoever owns the descriptor.
RxGotDescAnyOwner ==
    /\ net.pc = "desc" /\ dma.st = "true"
    /\ DmaReadReturned
    /\ \E d \in AsDesc(dma.data) : net' = [net EXCEPT !.pc = "data", !.desc = d]
    /\ UNCHANGED <<wireVars, m_regs, g_reg_mtx, sock, m_dma_pending, m_dma_resp, procVars>>

RxGotDesc ==
    /\ net.pc = "desc" /\ dma.st = "true"
    /\ DmaReadReturned
    /\ \E d \in AsDesc(dma.data) :
          IF d.own
          THEN net' = [net EXCEPT !.pc = "data", !.desc = d] /\ UNCHANGED g_reg_mtx
          ELSE Drop /\ g_reg_mtx' = "none"
    /\ UNCHANGED <<wireVars, m_regs, sock, m_dma_pending, m_dma_resp, procVars>>

\* Mutant: announces the frame without writing its descriptor back.
RxWriteDataOnly ==
    /\ net.pc = "data"
    /\ PutS2q(DmaWriteReq(net.desc.buf, First(Frame(net.pkt), net.desc.length)))
    /\ net' = [net EXCEPT !.pc = "irq"]
    /\ UNCHANGED <<q2s, link, m_regs, g_reg_mtx, sock, dmaVars, procVars>>

\* What does not fit the buffer is left out.
RxWriteData ==
    /\ net.pc = "data"
    /\ PutS2q(DmaWriteReq(net.desc.buf, First(Frame(net.pkt), net.desc.length)))
    /\ net' = [net EXCEPT !.pc = "wb"]
    /\ UNCHANGED <<q2s, link, m_regs, g_reg_mtx, sock, dmaVars, procVars>>

\* Mutants: the next tail, without wrapping round; and the slot written back.
NextTailNoWrap == m_regs["RX_TAIL"] + 1
NextTail == (m_regs["RX_TAIL"] + 1) % m_regs["RX_RING_SIZE"]
SlotAdvanced == RxDesc(NextTail)
Slot == RxDesc(m_regs["RX_TAIL"])

RxWriteBack ==
    /\ net.pc = "wb"
    /\ PutS2q(DmaWriteReq(Slot,
                          [net.desc EXCEPT !.own = FALSE, !.done = TRUE,
                                           !.length = Smaller(net.pkt.len, @)]))
    /\ LET advanced == [m_regs EXCEPT !["RX_TAIL"] = NextTail]
       IN IF Has(m_regs["IRQ_EN"], SC_IRQ_RX)
          THEN /\ m_regs' = [advanced EXCEPT !["IRQ_STS"] = SetBit(@, SC_IRQ_RX)]
               /\ net' = [net EXCEPT !.pc = "irq"]
               /\ UNCHANGED g_reg_mtx
          ELSE m_regs' = advanced /\ Drop /\ g_reg_mtx' = "none"
    /\ UNCHANGED <<q2s, link, sock, dmaVars, procVars>>

RxIrq ==
    /\ net.pc = "irq"
    /\ PutS2q(MsiIrq(1))
    /\ Drop /\ g_reg_mtx' = "none"
    /\ UNCHANGED <<q2s, link, m_regs, sock, dmaVars, procVars>>

-----------------------------------------------------------------------------
SockThread ==
    \/ SockConnect \/ SockRecv \/ OnMmioRead \/ OnMmioWrite \/ OnMmioWriteIrq
    \/ SockAnswer \/ HandleDmaReadResp \/ HandleDmaWriteResp

NetThread ==
    \/ RxDrop \/ RxReadDesc \/ RxFailed \/ RxGotDesc \/ RxWriteData \/ RxWriteBack \/ RxIrq

NicTypeOK ==
    /\ m_regs \in [RegNames -> Nat]
    /\ g_reg_mtx \in {"none", "sock", "net", "poll_irq", "process_dma", "process_tx"}
    /\ sock \in [pc : {"connect", "recv", "handle", "irq", "answer"},
                 msg : QemuMsgs \cup {NoMsg}, ans : ScMsgs \cup {NoMsg}]
    /\ m_dma_pending \in BOOLEAN
    /\ m_dma_resp = NoData \/ m_dma_resp \in [data : MemVals]
    /\ dma.st \in {"idle", "send", "wait", "true", "false"} /\ dma.addr \in Addrs
    /\ net.pc \in {"idle", "lock", "desc", "data", "wb", "irq"}
    /\ net.pc \notin {"idle"} => net.pkt \in Packets
    /\ net.pc \in {"data", "wb"} => net.desc \in Descs
    /\ <<m_dma_start, m_tx_pending, m_tx_event>> \in BOOLEAN \X BOOLEAN \X BOOLEAN
    /\ m_dma \in [len : Nat, dir_write : BOOLEAN]
=============================================================================
