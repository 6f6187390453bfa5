----------------------------- MODULE CoSim_proofs -----------------------------
(***************************************************************************)
(* Proofs about the whole co-simulation, for every ring and socket size,   *)
(* guest program, set of frames and of locations that CoSimAssumption      *)
(* allows.  First the types and who has the register mutex where,          *)
(* whichever processes of the NIC run.  Then, with the processes           *)
(* registered as the code does, what the guest may rely on of the receive  *)
(* ring: an invariant says what dma_read returns, another where the frame  *)
(* of each slot is, in memory or among the messages under way, and a third *)
(* that an interrupt is behind the descriptor it announces.                *)
(***************************************************************************)
EXTENDS CoSim, ScBridge_proofs, FiniteSetTheorems

-----------------------------------------------------------------------------
(* The invariant, one part for each group of variables, then what relates  *)
(* them. *)

\* Rings are no larger than the driver's, and tails are slots of them.
RegsOK ==
    /\ m_regs \in RegFiles
    /\ m_regs["RX_RING_SIZE"] <= RxRing /\ m_regs["RX_TAIL"] \in RxSlots
    /\ m_regs["TX_RING_SIZE"] <= TxRing /\ m_regs["TX_TAIL"] \in TxSlots

\* The answer the socket thread is about to send is one to the message it serves.
Answered ==
    \/ sock.msg.type = "MMIO_WRITE" /\ sock.ans = WriteResp
    \/ /\ sock.msg.type = "MMIO_READ" /\ sock.msg.reg \in RegNames
       /\ \E v \in Nat : sock.ans = ReadResp(sock.msg.reg, v, "OK")

SockOK ==
    /\ sock \in [pc : {"connect", "recv", "handle", "irq", "answer"},
                 msg : QemuMsgs \cup {NoMsg}, ans : ScMsgs \cup {NoMsg}]
    /\ sock.pc \in {"connect", "recv"} => sock.msg = NoMsg
    /\ sock.pc = "handle" => sock.msg \in QemuMsgs
    /\ sock.pc = "irq" => sock.msg.type = "MMIO_WRITE"
    /\ sock.pc = "answer" => Answered

\* What dma_read may find in m_dma_resp.
DmaAnswers == [data : MemVals] \cup {NoData}
DmaOK ==
    /\ dma \in [st : {"idle", "send", "wait", "true", "false"}, addr : Addrs,
                data : DmaAnswers]
    /\ m_dma_resp \in DmaAnswers /\ m_dma_pending \in BOOLEAN

NetOK ==
    /\ net \in [pc : {"idle", "lock", "desc", "data", "wb", "irq"},
                pkt : Packets \cup {NoData}, desc : Descs \cup {NoData}]
    /\ net.pc # "idle" => net.pkt \in Packets
    /\ net.pc \in {"data", "wb"} => net.desc \in Descs

WorkTypeOK ==
    /\ <<m_dma_start, m_tx_pending, m_tx_event>> \in BOOLEAN \X BOOLEAN \X BOOLEAN
    /\ m_dma \in [len : Nat, dir_write : BOOLEAN]

ProcsOK ==
    /\ ProcsTypeOK
    /\ pc["poll_irq"] \in {"never", "wait", "lock", "irq"}
    /\ pc["process_dma"] \in {"never", "wait", "lock", "read", "write", "finish", "irq", "hold"}
    /\ pc["process_tx"] \in {"never", "wait", "lock", "desc", "data", "wb", "hold",
                             "irqlock", "irq"}
    /\ pc["process_tx"] \in {"data", "wb"} => tx_desc \in Descs

(***************************************************************************)
(* The places at which a thread has the register mutex: two threads are    *)
(* never at such a place together.                                         *)
(***************************************************************************)
MutexOK ==
    /\ g_reg_mtx \in {"none", "sock", "net", "poll_irq", "process_dma", "process_tx"}
    /\ sock.pc = "irq" <=> g_reg_mtx = "sock"
    /\ net.pc \in {"desc", "data", "wb", "irq"} <=> g_reg_mtx = "net"
    /\ pc["poll_irq"] = "irq" <=> g_reg_mtx = "poll_irq"
    /\ pc["process_dma"] \in {"read", "write", "finish", "irq", "hold"}
          <=> g_reg_mtx = "process_dma"
    /\ pc["process_tx"] \in {"desc", "data", "wb", "hold", "irq"} <=> g_reg_mtx = "process_tx"

\* dma_read is in progress only for a caller that waits for it.
CallerOK ==
    dma.st # "idle" => \/ net.pc = "desc" \/ pc["process_dma"] = "read"
                       \/ pc["process_tx"] \in {"desc", "data"}

\* A thread that has found work under the mutex still has it there.
WorkOK ==
    /\ net.pc \in {"desc", "data", "wb"} => m_regs["RX_RING_SIZE"] # 0
    /\ pc["process_tx"] \in {"desc", "data", "wb"} => ~TxNoWork

NicInv == RegsOK /\ SockOK /\ DmaOK /\ NetOK /\ WorkTypeOK /\ ProcsOK
          /\ MutexOK /\ CallerOK /\ WorkOK

\* Every write on its way to the register block is one the guest makes.
OfGuest(r, v) == <<r, v>> \in GuestWrites \cup {<<"TX_DOORBELL", 1>>}
AllowedMsg(m) == m.type = "MMIO_WRITE" => OfGuest(m.reg, m.val)
WritesOK ==
    /\ vcpu.pc = "wsend" => OfGuest(vcpu.reg, vcpu.val)
    /\ \A i \in DOMAIN q2s : AllowedMsg(q2s[i])
    /\ AllowedMsg(sock.msg)

PostedOK == posted \in Nat

\* The device is not removed, and the connection stays up.
StaysOK ==
    /\ io_thread_running /\ link \in {"none", "up"}
    /\ io.pc \in {"accept", "recv", "handle", "reply"}
    /\ io.pc # "accept" => sock_fd /\ link = "up"

Inv == BridgeTypeOK /\ NicInv /\ WritesOK /\ PostedOK /\ StaysOK

-----------------------------------------------------------------------------
(* The NIC's registers. *)

(* A new register file, of the constructor or of a reset.                  *)
LEMMA RegInitType ==
    /\ RegInit \in RegFiles /\ RegReset = RegInit
    /\ \A r \in RegNames \ {"MAC_LO", "MAC_HI"} : RegInit[r] = 0
<1>1. MacLo(DefaultMac) \in Nat /\ MacHi(DefaultMac) \in Nat
  BY DEF MacLo, MacHi, DefaultMac
<1> QED
  BY <1>1 DEF RegInit, RegReset, set_mac, Zeros, RegFiles

(* What the guest writes is what a driver does.                            *)
LEMMA GuestDrives ==
    ASSUME NEW r, NEW v, OfGuest(r, v)
    PROVE  r \in RegNames /\ v \in Nat /\ DriverWrites(r, v)
<1>1. CASE <<r, v>> \in GuestWrites
  BY <1>1, CoSimAssumption, GuestAssumption
<1>2. CASE <<r, v>> = <<"TX_DOORBELL", 1>>
  BY <1>2 DEF RegNames, DriverWrites
<1> QED
  BY <1>1, <1>2 DEF OfGuest

(* Setting a bit of a register leaves a natural number.                    *)
LEMMA SetBitNat == ASSUME NEW v \in Nat, NEW b \in Nat PROVE SetBit(v, b) \in Nat
BY DEF SetBit

(* A driver's write leaves a register file, whose rings stay within the    *)
(* driver's and whose tails move to 0 or not at all (reg_block.cpp:60-117).*)
LEMMA RegWriteOK ==
    ASSUME NEW f \in RegFiles, NEW r \in RegNames, NEW v \in Nat, DriverWrites(r, v)
    PROVE  /\ RegWrite(f, r, v) \in RegFiles
           /\ RegWrite(f, r, v)["RX_TAIL"] \in {0, f["RX_TAIL"]}
           /\ RegWrite(f, r, v)["TX_TAIL"] \in {0, f["TX_TAIL"]}
           /\ f["RX_RING_SIZE"] <= RxRing => RegWrite(f, r, v)["RX_RING_SIZE"] <= RxRing
           /\ f["TX_RING_SIZE"] <= TxRing => RegWrite(f, r, v)["TX_RING_SIZE"] <= TxRing
<1>1. CASE r = "CTRL" /\ Has(v, SC_CTRL_RESET)
  BY <1>1, RegInitType, RxRingAssumption, ProcsAssumption DEF RegWrite, RegNames
<1>2. CASE ~(r = "CTRL" /\ Has(v, SC_CTRL_RESET)) /\ r \in {"IRQ_STS", "IRQ_TEST"}
  <2>1. f["IRQ_STS"] \in Nat
    BY DEF RegFiles, RegNames
  <2>2. ClearBits(f["IRQ_STS"], v) \in Nat /\ SetBit(f["IRQ_STS"], SC_IRQ_TEST) \in Nat
    BY <2>1, ClearBitsNat, SetBitNat DEF SC_IRQ_TEST
  <2>3. CASE r = "IRQ_STS"
    <3>1. RegWrite(f, r, v) = [f EXCEPT !["IRQ_STS"] = ClearBits(f["IRQ_STS"], v)]
      BY <1>2, <2>3 DEF RegWrite
    <3> QED
      BY <2>2, <3>1 DEF RegFiles, RegNames
  <2>4. CASE r = "IRQ_TEST"
    <3>1. RegWrite(f, r, v) \in {f, [f EXCEPT !["IRQ_STS"] = SetBit(f["IRQ_STS"], SC_IRQ_TEST)]}
      BY <1>2, <2>4 DEF RegWrite
    <3> QED
      BY <2>2, <3>1 DEF RegFiles, RegNames
  <2> QED
    BY <1>2, <2>3, <2>4
<1>3. CASE ~(r = "CTRL" /\ Has(v, SC_CTRL_RESET)) /\ r \notin {"IRQ_STS", "IRQ_TEST"}
  BY <1>3 DEF RegWrite, RegFiles, DriverWrites
<1> QED
  BY <1>1, <1>2, <1>3

(* What on_mmio_read answers with (nic.cpp:66-76).                         *)
RegAnswer(f, r) ==
    IF r = "DMA_STS" THEN ClearBits(RegRead(f, r), SC_STATUS_DMA_BSY) ELSE RegRead(f, r)

\* What on_mmio_read answers with is a number.
LEMMA RegAnswerNat ==
    ASSUME NEW f \in RegFiles, NEW r \in RegNames
    PROVE  RegRead(f, r) \in Nat /\ RegAnswer(f, r) \in Nat
<1>1. RegRead(f, r) \in Nat
  BY DEF RegRead, RegFiles, SC_DEV_ID, SC_STATUS_READY
<1>2. SC_STATUS_DMA_BSY \in Nat
  BY DEF SC_STATUS_DMA_BSY
<1> QED
  BY <1>1, <1>2, ClearBitsNat DEF RegAnswer

-----------------------------------------------------------------------------
(* Locations and messages. *)

(* What the driver's rings and buffers consist of can be touched by a DMA. *)
LEMMA Locations ==
    /\ \A i \in RxSlots : RxDesc(i) \in Addrs /\ RxBuf(i) \in Addrs
    /\ \A i \in TxSlots : TxDesc(i) \in Addrs /\ TxBuf(i) \in Addrs
    /\ DmaBuf \in Addrs /\ Other \in Addrs
BY CoSimAssumption

(* A descriptor as dma_read's caller sees it is a descriptor, and so is    *)
(* what it writes back.                                                    *)
LEMMA DescType ==
    /\ \A d : AsDesc(d) \subseteq Descs
    /\ \A d \in Descs : /\ d.own \in BOOLEAN /\ d.buf \in Addrs /\ d.length \in Lengths
                        /\ [d EXCEPT !.own = FALSE, !.done = TRUE] \in Descs
    /\ Descs \subseteq MemVals /\ NoData \notin Descs
BY CoSimAssumption DEF AsDesc, Descs, MemVals, NoData

(* So is what on_packet_rx writes back (nic.cpp:208-210).                  *)
RxBack == [net.desc EXCEPT !.own = FALSE, !.done = TRUE, !.length = Smaller(net.pkt.len, @)]
LEMMA RxBackType ==
    ASSUME net.pkt \in Packets, net.desc \in Descs
    PROVE  RxBack \in Descs /\ RxBack.done /\ ~RxBack.own /\ RxBack.buf = net.desc.buf
<1>1. net.pkt.len \in Lengths
  <2>1. Frame(net.pkt) \in Bytes
    BY CoSimAssumption
  <2>2. [pkt |-> net.pkt.data, len |-> net.pkt.len] \in Bytes
    BY <2>1 DEF Frame
  <2> QED
    BY <2>2 DEF Bytes
<1>2. Smaller(net.pkt.len, net.desc.length) \in Lengths
  BY <1>1 DEF Smaller, Descs
<1> QED
  BY <1>2 DEF RxBack, Descs

(* And the part of the frame that fits the buffer (nic.cpp:198-203).       *)
LEMMA RxDataType ==
    ASSUME net.pkt \in Packets, net.desc \in Descs
    PROVE  First(Frame(net.pkt), net.desc.length) \in MemVals
<1>1. Frame(net.pkt) \in MemVals
  BY CoSimAssumption DEF MemVals
<1> QED
  BY <1>1, FirstType, DescType

(* The NIC writes its messages to the wire.                                *)
LEMMA PutType ==
    ASSUME s2q \in Seq(ScMsgs), NEW m \in ScMsgs, PutS2q(m)
    PROVE  s2q' \in Seq(ScMsgs)
BY AppendElements DEF PutS2q

(* What a message of QEMU's holds follows from its type.                   *)
LEMMA ServedFields ==
    ASSUME NEW m \in QemuMsgs
    PROVE  /\ m.type = "MMIO_READ" => m.reg \in RegNames
           /\ m.type = "MMIO_WRITE" => m.reg \in RegNames /\ m.val \in Nat
           /\ m.type = "DMA_READ" => m.data \in MemVals
BY DEF QemuMsgs, DmaWriteResp

(* No message in hand is no message of QEMU's.                             *)
LEMMA NoMsgOther == NoMsg \notin QemuMsgs /\ NoMsg \notin ScMsgs /\ AllowedMsg(NoMsg)
BY DEF NoMsg, QemuMsgs, ScMsgs, DmaWriteResp, WriteResp, AllowedMsg

-----------------------------------------------------------------------------
(* The NIC's steps. *)

(* The socket thread keeps the NIC's invariant.                            *)
LEMMA SockNicInv ==
    ASSUME Inv, SockThread, UNCHANGED kernelVars
    PROVE  NicInv'
<1> USE DEF Inv, NicInv
<1>0. UNCHANGED <<running, pc, m_buf, tx_desc>> /\ ProcsOK'
  BY DEF kernelVars, localVars, ProcsOK, ProcsTypeOK
<1>1. CASE SockConnect \/ SockRecv \/ OnMmioRead \/ SockAnswer
  <2>1. UNCHANGED <<m_regs, g_reg_mtx, m_dma_pending, m_dma_resp, dma, net, m_dma_start,
                    m_dma, m_tx_pending, m_tx_event>>
    BY <1>1 DEF SockConnect, SockRecv, OnMmioRead, SockAnswer, dmaVars, procVars
  <2>2. RegsOK' /\ DmaOK' /\ NetOK' /\ WorkTypeOK' /\ CallerOK' /\ WorkOK'
    BY <1>0, <2>1 DEF RegsOK, DmaOK, NetOK, WorkTypeOK, CallerOK, WorkOK, TxNoWork
  <2>3. SockOK' /\ sock.pc # "irq" /\ sock'.pc # "irq"
    <3>1. CASE SockConnect
      BY <3>1 DEF SockConnect, SockOK
    <3>2. CASE SockRecv
      <4>1. Head(q2s) \in QemuMsgs
        BY <3>2 DEF SockRecv, BridgeTypeOK, WireTypeOK
      <4> QED
        BY <3>2, <4>1 DEF SockRecv, SockOK
    <3>3. CASE OnMmioRead
      <4>1. /\ sock' = [sock EXCEPT !.pc = "answer",
                           !.ans = ReadResp(sock.msg.reg, RegAnswer(m_regs, sock.msg.reg), "OK")]
            /\ sock.pc = "handle" /\ sock.msg.type = "MMIO_READ"
        BY <3>3 DEF OnMmioRead, Answering, Serves, RegAnswer
      <4>2. sock.msg.reg \in RegNames /\ "OK" \in Status
        BY <4>1, ServedFields DEF SockOK, Status
      <4>3. RegAnswer(m_regs, sock.msg.reg) \in Nat
        BY <4>2, RegAnswerNat DEF RegsOK
      <4>4. ReadResp(sock.msg.reg, RegAnswer(m_regs, sock.msg.reg), "OK") \in ScMsgs
        BY <4>2, <4>3, ScMessages
      <4>5. /\ sock'.pc = "answer" /\ sock'.msg = sock.msg
            /\ sock'.ans = ReadResp(sock.msg.reg, RegAnswer(m_regs, sock.msg.reg), "OK")
        BY <4>1 DEF SockOK
      <4>6. Answered'
        BY <4>1, <4>2, <4>3, <4>5 DEF Answered
      <4> QED
        BY <4>1, <4>4, <4>5, <4>6 DEF SockOK
    <3>4. CASE SockAnswer
      BY <3>4 DEF SockAnswer, Served, SockOK
    <3> QED
      BY <1>1, <3>1, <3>2, <3>3, <3>4
  <2>4. MutexOK'
    BY <1>0, <2>1, <2>3 DEF MutexOK
  <2> QED
    BY <1>0, <2>2, <2>3, <2>4
<1>2. CASE OnMmioWrite
  <2> DEFINE r == sock.msg.reg
             v == sock.msg.val
  <2>1. /\ sock.pc = "handle" /\ sock.msg.type = "MMIO_WRITE" /\ g_reg_mtx = "none"
        /\ UNCHANGED <<m_dma_pending, m_dma_resp, dma, net>>
    BY <1>2 DEF OnMmioWrite, Serves, dmaVars
  <2>2. r \in RegNames /\ v \in Nat /\ DriverWrites(r, v)
    BY <2>1, GuestDrives DEF WritesOK, AllowedMsg
  <2>3. RegsOK'
    <3>1. \/ m_regs' = RegWrite(m_regs, r, v)
          \/ m_regs' = [RegWrite(m_regs, r, v) EXCEPT !["DMA_STS"] = SC_STATUS_DMA_BSY]
      BY <1>2 DEF OnMmioWrite
    <3>2. 0 \in RxSlots /\ 0 \in TxSlots
      BY RxRingAssumption, ProcsAssumption DEF RxSlots, TxSlots
    <3>3. /\ RegWrite(m_regs, r, v) \in RegFiles
          /\ RegWrite(m_regs, r, v)["RX_RING_SIZE"] <= RxRing
          /\ RegWrite(m_regs, r, v)["TX_RING_SIZE"] <= TxRing
          /\ RegWrite(m_regs, r, v)["RX_TAIL"] \in RxSlots
          /\ RegWrite(m_regs, r, v)["TX_TAIL"] \in TxSlots
      BY <2>2, <3>2, RegWriteOK DEF RegsOK
    <3> HIDE DEF r, v
    <3> QED
      BY <3>1, <3>3 DEF RegsOK, RegFiles, RegNames, SC_STATUS_DMA_BSY
  <2>4. WorkTypeOK'
    <3>1. m_regs["DMA_LEN"] \in Nat /\ Has(v, SC_DMA_DIR_WRITE) \in BOOLEAN
      BY DEF RegsOK, RegFiles, RegNames, Has
    <3>2. /\ \/ m_dma' = m_dma
             \/ m_dma' = [len |-> m_regs["DMA_LEN"], dir_write |-> Has(v, SC_DMA_DIR_WRITE)]
          /\ m_dma_start' \in BOOLEAN
      BY <1>2 DEF OnMmioWrite, WorkTypeOK
    <3>3. m_tx_pending' \in BOOLEAN /\ m_tx_event' \in BOOLEAN
      BY <1>2 DEF OnMmioWrite, WorkTypeOK, Kick
    <3>4. [len |-> m_regs["DMA_LEN"], dir_write |-> Has(v, SC_DMA_DIR_WRITE)]
              \in [len : Nat, dir_write : BOOLEAN]
      BY <3>1, Zenon
    <3>5. m_dma' \in [len : Nat, dir_write : BOOLEAN]
      BY <3>2, <3>4, Zenon DEF WorkTypeOK
    <3> QED
      BY <3>2, <3>3, <3>5 DEF WorkTypeOK
  <2>5. \/ g_reg_mtx' = "sock" /\ sock' = [sock EXCEPT !.pc = "irq"]
        \/ g_reg_mtx' = "none" /\ sock' = [sock EXCEPT !.pc = "answer", !.ans = WriteResp]
    BY <1>2 DEF OnMmioWrite, Answering
  <2>6. SockOK' /\ (sock'.pc = "irq" <=> g_reg_mtx' = "sock") /\ g_reg_mtx' \in {"none", "sock"}
    BY <2>1, <2>5, ScMessages DEF SockOK, Answered
  <2>7. MutexOK' /\ WorkOK' /\ CallerOK' /\ DmaOK' /\ NetOK'
    BY <1>0, <2>1, <2>6 DEF MutexOK, WorkOK, CallerOK, DmaOK, NetOK
  <2> QED
    BY <1>0, <2>3, <2>4, <2>6, <2>7
<1>3. CASE OnMmioWriteIrq
  <2>1. /\ sock.pc = "irq" /\ g_reg_mtx' = "none"
        /\ sock' = [sock EXCEPT !.pc = "answer", !.ans = WriteResp]
        /\ UNCHANGED <<m_regs, m_dma_pending, m_dma_resp, dma, net, m_dma_start,
                       m_dma, m_tx_pending, m_tx_event>>
    BY <1>3 DEF OnMmioWriteIrq, Answering, dmaVars, procVars
  <2>2. SockOK' /\ sock'.pc = "answer"
    BY <2>1, ScMessages DEF SockOK, Answered
  <2>3. MutexOK' /\ WorkOK' /\ CallerOK'
    BY <1>0, <2>1, <2>2 DEF MutexOK, WorkOK, CallerOK, TxNoWork
  <2> QED
    BY <1>0, <2>1, <2>2, <2>3 DEF RegsOK, DmaOK, NetOK, WorkTypeOK
<1>4. CASE HandleDmaReadResp \/ HandleDmaWriteResp
  <2>1. /\ sock.pc = "handle" /\ sock' = [pc |-> "recv", msg |-> NoMsg, ans |-> NoMsg]
        /\ UNCHANGED <<m_regs, g_reg_mtx, dma, net, m_dma_start, m_dma, m_tx_pending, m_tx_event>>
    BY <1>4 DEF HandleDmaReadResp, HandleDmaWriteResp, Serves, Served, procVars
  <2>2. m_dma_pending' = FALSE /\ m_dma_resp' \in DmaAnswers
    <3>1. CASE HandleDmaReadResp
      BY <3>1, ServedFields DEF HandleDmaReadResp, Serves, SockOK, DmaAnswers
    <3>2. CASE HandleDmaWriteResp
      BY <3>2 DEF HandleDmaWriteResp, DmaOK
    <3> QED
      BY <1>4, <3>1, <3>2
  <2>3. SockOK' /\ DmaOK'
    BY <2>1, <2>2 DEF SockOK, DmaOK
  <2>4. MutexOK' /\ WorkOK' /\ CallerOK'
    BY <1>0, <2>1 DEF MutexOK, WorkOK, CallerOK, TxNoWork
  <2> QED
    BY <1>0, <2>1, <2>3, <2>4 DEF RegsOK, NetOK, WorkTypeOK
<1> QED
  BY <1>1, <1>2, <1>3, <1>4 DEF SockThread

(* A tail that has advanced is a slot still (nic.cpp:214-216, 332-334).    *)
LEMMA AdvanceOK ==
    ASSUME RegsOK
    PROVE  /\ m_regs["RX_RING_SIZE"] # 0 =>
                 (m_regs["RX_TAIL"] + 1) % m_regs["RX_RING_SIZE"] \in RxSlots
           /\ m_regs["TX_RING_SIZE"] # 0 =>
                 (m_regs["TX_TAIL"] + 1) % m_regs["TX_RING_SIZE"] \in TxSlots
<1>1. /\ m_regs["RX_RING_SIZE"] \in Nat /\ m_regs["TX_RING_SIZE"] \in Nat
      /\ m_regs["RX_TAIL"] \in Nat /\ m_regs["TX_TAIL"] \in Nat
      /\ m_regs["RX_RING_SIZE"] <= RxRing /\ m_regs["TX_RING_SIZE"] <= TxRing
  BY DEF RegsOK, RegFiles, RegNames
<1>2. RxRing \in Nat /\ TxRing \in Nat
  BY RxRingAssumption, ProcsAssumption
<1>3. ASSUME NEW t \in Nat, NEW n \in Nat, NEW r \in Nat, n # 0, n <= r
      PROVE  (t + 1) % n \in 0 .. r - 1
  <2>1. (t + 1) % n \in 0 .. n - 1
    BY <1>3
  <2> QED
    BY <1>3, <2>1
<1>4. m_regs["RX_RING_SIZE"] # 0 =>
          (m_regs["RX_TAIL"] + 1) % m_regs["RX_RING_SIZE"] \in RxSlots
  BY <1>1, <1>2, <1>3 DEF RxSlots
<1>5. m_regs["TX_RING_SIZE"] # 0 =>
          (m_regs["TX_TAIL"] + 1) % m_regs["TX_RING_SIZE"] \in TxSlots
  BY <1>1, <1>2, <1>3 DEF TxSlots
<1> QED
  BY <1>4, <1>5

(* What a call of dma_read leaves of the NIC's invariant.                  *)
LEMMA DmaReadCallOK ==
    ASSUME DmaOK, NEW a \in Addrs, DmaReadCall(a)
    PROVE  DmaOK' /\ dma'.st = "send"
BY DEF DmaReadCall, DmaOK, DmaAnswers

\* dma_read returns and is idle again (pcie_bridge.cpp).
LEMMA DmaReadReturnedOK ==
    ASSUME DmaOK, DmaReadReturned, UNCHANGED <<m_dma_pending, m_dma_resp>>
    PROVE  DmaOK' /\ dma'.st = "idle"
BY DEF DmaReadReturned, DmaOK, DmaAnswers

(* Packet reception keeps the NIC's invariant.                             *)
LEMMA NetNicInv ==
    ASSUME Inv, NetThread, UNCHANGED kernelVars
    PROVE  NicInv'
<1> USE DEF Inv, NicInv
<1>0. /\ UNCHANGED <<running, pc, m_buf, tx_desc>> /\ ProcsOK'
      /\ UNCHANGED sock /\ SockOK'
      /\ WorkTypeOK'
  <2>1. UNCHANGED <<running, pc, m_buf, tx_desc>>
    BY DEF kernelVars, localVars
  <2>2. UNCHANGED <<sock, m_dma_start, m_dma, m_tx_pending, m_tx_event>>
    BY DEF NetThread, RxDrop, RxReadDesc, RxFailed, RxGotDesc, RxWriteData, RxWriteBack,
           RxIrq, procVars
  <2> QED
    BY <2>1, <2>2 DEF ProcsOK, ProcsTypeOK, SockOK, Answered, WorkTypeOK
<1>1. CASE RxDrop
  <2>1. /\ net.pc = "lock" /\ net' = [pc |-> "idle", pkt |-> NoData, desc |-> NoData]
        /\ UNCHANGED <<m_regs, g_reg_mtx, m_dma_pending, m_dma_resp, dma>>
    BY <1>1 DEF RxDrop, Drop, dmaVars
  <2>2. NetOK' /\ MutexOK' /\ CallerOK' /\ WorkOK'
    BY <1>0, <2>1 DEF NetOK, MutexOK, CallerOK, WorkOK, TxNoWork
  <2> QED
    BY <1>0, <2>1, <2>2 DEF RegsOK, DmaOK
<1>2. CASE RxReadDesc
  <2>1. /\ net.pc = "lock" /\ net' = [net EXCEPT !.pc = "desc"]
        /\ g_reg_mtx = "none" /\ g_reg_mtx' = "net" /\ m_regs["RX_RING_SIZE"] # 0
        /\ DmaReadCall(RxDesc(m_regs["RX_TAIL"])) /\ UNCHANGED m_regs
    BY <1>2 DEF RxReadDesc
  <2>2. DmaOK'
    BY <2>1, Locations, DmaReadCallOK DEF RegsOK
  <2>3. NetOK' /\ net'.pc = "desc"
    BY <2>1 DEF NetOK
  <2>4. MutexOK' /\ CallerOK' /\ WorkOK'
    BY <1>0, <2>1, <2>3 DEF MutexOK, CallerOK, WorkOK
  <2> QED
    BY <1>0, <2>1, <2>2, <2>3, <2>4 DEF RegsOK
<1>3. CASE RxFailed
  <2>1. /\ net.pc = "desc" /\ net' = [pc |-> "idle", pkt |-> NoData, desc |-> NoData]
        /\ g_reg_mtx' = "none" /\ DmaReadReturned
        /\ UNCHANGED <<m_regs, m_dma_pending, m_dma_resp>>
    BY <1>3 DEF RxFailed, Drop
  <2>2. DmaOK' /\ dma'.st = "idle"
    BY <2>1, DmaReadReturnedOK
  <2>3. NetOK' /\ MutexOK' /\ CallerOK' /\ WorkOK'
    BY <1>0, <2>1, <2>2 DEF NetOK, MutexOK, CallerOK, WorkOK, TxNoWork
  <2> QED
    BY <1>0, <2>1, <2>2, <2>3 DEF RegsOK
<1>4. CASE RxGotDesc
  <2>1. /\ net.pc = "desc" /\ DmaReadReturned
        /\ UNCHANGED <<m_regs, m_dma_pending, m_dma_resp>>
    BY <1>4 DEF RxGotDesc
  <2>2. PICK d \in Descs :
            \/ net' = [net EXCEPT !.pc = "data", !.desc = d] /\ UNCHANGED g_reg_mtx
            \/ /\ net' = [pc |-> "idle", pkt |-> NoData, desc |-> NoData]
               /\ g_reg_mtx' = "none"
    BY <1>4, DescType DEF RxGotDesc, Drop
  <2>3. DmaOK' /\ dma'.st = "idle"
    BY <2>1, DmaReadReturnedOK
  <2>4. NetOK' /\ \/ net'.pc = "data" /\ UNCHANGED g_reg_mtx
                  \/ net'.pc = "idle" /\ g_reg_mtx' = "none"
    <3>1. CASE net' = [net EXCEPT !.pc = "data", !.desc = d] /\ UNCHANGED g_reg_mtx
      BY <2>1, <3>1 DEF NetOK
    <3>2. CASE /\ net' = [pc |-> "idle", pkt |-> NoData, desc |-> NoData]
               /\ g_reg_mtx' = "none"
      BY <2>1, <3>2 DEF NetOK
    <3> QED
      BY <2>2, <3>1, <3>2
  <2>5. MutexOK' /\ CallerOK' /\ WorkOK'
    BY <1>0, <2>1, <2>3, <2>4 DEF MutexOK, CallerOK, WorkOK, TxNoWork
  <2> QED
    BY <1>0, <2>1, <2>3, <2>4, <2>5 DEF RegsOK
<1>5. CASE RxWriteData
  <2>1. /\ net.pc = "data" /\ net' = [net EXCEPT !.pc = "wb"]
        /\ UNCHANGED <<m_regs, g_reg_mtx, m_dma_pending, m_dma_resp, dma>>
    BY <1>5 DEF RxWriteData, dmaVars
  <2>2. NetOK' /\ net'.pc = "wb"
    BY <2>1 DEF NetOK
  <2>3. MutexOK' /\ CallerOK' /\ WorkOK'
    BY <1>0, <2>1, <2>2 DEF MutexOK, CallerOK, WorkOK, TxNoWork
  <2> QED
    BY <1>0, <2>1, <2>2, <2>3 DEF RegsOK, DmaOK
<1>6. CASE RxWriteBack
  <2> DEFINE advanced == [m_regs EXCEPT !["RX_TAIL"] = NextTail]
  <2>1. /\ net.pc = "wb"
        /\ UNCHANGED <<m_dma_pending, m_dma_resp, dma>>
        /\ \/ /\ m_regs' = [advanced EXCEPT !["IRQ_STS"] = SetBit(@, SC_IRQ_RX)]
              /\ net' = [net EXCEPT !.pc = "irq"] /\ UNCHANGED g_reg_mtx
           \/ /\ m_regs' = advanced /\ g_reg_mtx' = "none"
              /\ net' = [pc |-> "idle", pkt |-> NoData, desc |-> NoData]
    BY <1>6 DEF RxWriteBack, Drop, dmaVars
  <2>2. NextTail \in RxSlots /\ NextTail \in Nat
    BY <2>1, AdvanceOK, RxRingAssumption DEF WorkOK, NextTail, RxSlots
  <2>3. advanced["IRQ_STS"] \in Nat
    BY DEF RegsOK, RegFiles, RegNames
  <2>4. SetBit(advanced["IRQ_STS"], SC_IRQ_RX) \in Nat
    BY <2>3, SetBitNat DEF SC_IRQ_RX
  <2>5. RegsOK' /\ UNCHANGED <<m_regs["RX_RING_SIZE"], m_regs["TX_RING_SIZE"], m_regs["TX_DOORBELL"]>>
    BY <2>1, <2>2, <2>4 DEF RegsOK, RegFiles, RegNames
  <2>6. NetOK' /\ \/ net'.pc = "irq" /\ UNCHANGED g_reg_mtx
                  \/ net'.pc = "idle" /\ g_reg_mtx' = "none"
    BY <2>1 DEF NetOK
  <2>7. MutexOK' /\ CallerOK' /\ WorkOK'
    BY <1>0, <2>1, <2>5, <2>6 DEF MutexOK, CallerOK, WorkOK, TxNoWork
  <2> QED
    BY <1>0, <2>1, <2>5, <2>6, <2>7 DEF DmaOK
<1>7. CASE RxIrq
  <2>1. /\ net.pc = "irq" /\ net' = [pc |-> "idle", pkt |-> NoData, desc |-> NoData]
        /\ g_reg_mtx' = "none"
        /\ UNCHANGED <<m_regs, m_dma_pending, m_dma_resp, dma>>
    BY <1>7 DEF RxIrq, Drop, dmaVars
  <2>2. NetOK' /\ MutexOK' /\ CallerOK' /\ WorkOK'
    BY <1>0, <2>1 DEF NetOK, MutexOK, CallerOK, WorkOK, TxNoWork
  <2> QED
    BY <1>0, <2>1, <2>2 DEF RegsOK, DmaOK
<1> QED
  BY <1>1, <1>2, <1>3, <1>4, <1>5, <1>6, <1>7 DEF NetThread

(* So do the steps of dma_read, and the arrival of a frame.                *)
LEMMA DmaNicInv ==
    ASSUME Inv, DmaReadSend \/ DmaReadDone \/ DmaReadTimeout, UNCHANGED kernelVars
    PROVE  NicInv'
<1> USE DEF Inv, NicInv
<1>1. /\ UNCHANGED <<running, pc, m_buf, tx_desc, m_regs, g_reg_mtx, sock, m_dma_pending,
                     m_dma_resp, net, m_dma_start, m_dma, m_tx_pending, m_tx_event>>
      /\ dma.st # "idle"
      /\ \/ dma' = [dma EXCEPT !.st = "wait"]
         \/ dma' = [dma EXCEPT !.st = "true", !.data = m_dma_resp]
         \/ dma' = [dma EXCEPT !.st = "false"]
  BY DEF DmaReadSend, DmaReadDone, DmaReadTimeout, kernelVars, localVars, procVars
<1>2. DmaOK'
  BY <1>1 DEF DmaOK
<1>3. CallerOK' /\ MutexOK' /\ WorkOK'
  BY <1>1 DEF CallerOK, MutexOK, WorkOK, TxNoWork
<1> QED
  BY <1>1, <1>2, <1>3 DEF RegsOK, SockOK, Answered, NetOK, WorkTypeOK, ProcsOK, ProcsTypeOK

\* A frame's arrival starts handle_rx_packet and keeps the NIC's invariant.
LEMMA InjectNicInv ==
    ASSUME Inv, NEW p \in Packets, NetRecv(p), UNCHANGED kernelVars
    PROVE  NicInv'
<1> USE DEF Inv, NicInv
<1>1. /\ UNCHANGED <<running, pc, m_buf, tx_desc, m_regs, g_reg_mtx, sock, m_dma_pending,
                     m_dma_resp, dma, m_dma_start, m_dma, m_tx_pending, m_tx_event>>
      /\ net.pc = "idle" /\ net' = [net EXCEPT !.pc = "lock", !.pkt = p]
  BY DEF NetRecv, kernelVars, localVars, procVars, dmaVars
<1>2. NetOK' /\ net'.pc = "lock"
  BY <1>1 DEF NetOK
<1>3. CallerOK' /\ MutexOK' /\ WorkOK'
  BY <1>1, <1>2 DEF CallerOK, MutexOK, WorkOK, TxNoWork
<1> QED
  BY <1>1, <1>2, <1>3 DEF RegsOK, SockOK, Answered, DmaOK, WorkTypeOK, ProcsOK, ProcsTypeOK

(* The processes move one at a time.                                       *)
Places == {"never", "wait", "lock", "read", "write", "finish", "desc", "data", "wb",
           "hold", "irqlock", "irq"}

\* One process goes to its next wait() and the others stay where they are.
LEMMA PcStep ==
    ASSUME ProcsOK, NEW p \in Procs, NEW l \in Places, pc' = [pc EXCEPT ![p] = l]
    PROVE  /\ pc' \in [Procs -> Places] /\ pc'[p] = l
           /\ \A q \in Procs \ {p} : pc'[q] = pc[q]
BY DEF ProcsOK, ProcsTypeOK, Places

(* poll_irq keeps the NIC's invariant.                                     *)
LEMMA PollNicInv == ASSUME Inv, PollIrq PROVE NicInv'
<1> USE DEF Inv, NicInv
<1> DEFINE p == "poll_irq"
<1>1. /\ UNCHANGED <<m_buf, tx_desc, m_regs, sock, m_dma_pending, m_dma_resp, dma, net,
                     m_dma_start, m_dma, m_tx_pending, m_tx_event>>
      /\ running' \in {"none", p}
      /\ \E l \in {"wait", "lock", "irq"} :
            /\ pc' = [pc EXCEPT ![p] = l]
            /\ \/ l # "irq" /\ pc[p] # "irq" /\ UNCHANGED g_reg_mtx
               \/ l = "irq" /\ pc[p] # "irq" /\ g_reg_mtx = "none" /\ g_reg_mtx' = p
               \/ l = "wait" /\ pc[p] = "irq" /\ g_reg_mtx' = "none"
  BY DEF PollIrq, PollResume, PollQuiet, PollPending, PollSendIrq, Resumes, Waits, Goes,
         Acquire, Release, localVars, nicVars, dmaVars, procVars
<1>2. PICK l \in {"wait", "lock", "irq"} :
            /\ pc' = [pc EXCEPT ![p] = l]
            /\ \/ l # "irq" /\ pc[p] # "irq" /\ UNCHANGED g_reg_mtx
               \/ l = "irq" /\ pc[p] # "irq" /\ g_reg_mtx = "none" /\ g_reg_mtx' = p
               \/ l = "wait" /\ pc[p] = "irq" /\ g_reg_mtx' = "none"
  BY <1>1
<1>3. /\ pc' \in [Procs -> Places] /\ pc'[p] = l
      /\ pc'["process_dma"] = pc["process_dma"] /\ pc'["process_tx"] = pc["process_tx"]
  BY <1>2, PcStep DEF Procs, Places
<1>4. ProcsOK'
  BY <1>1, <1>3 DEF ProcsOK, ProcsTypeOK, Procs, Places
<1>5. MutexOK' /\ CallerOK' /\ WorkOK'
  BY <1>1, <1>2, <1>3 DEF MutexOK, CallerOK, WorkOK, TxNoWork
<1> QED
  BY <1>1, <1>4, <1>5 DEF RegsOK, SockOK, Answered, DmaOK, NetOK, WorkTypeOK

(* process_dma keeps the NIC's invariant.                                  *)
LEMMA ProcessDmaNicInv == ASSUME Inv, ProcessDma PROVE NicInv'
<1> USE DEF Inv, NicInv
<1> DEFINE p == "process_dma"
           Held == {"read", "write", "finish", "irq", "hold"}
<1>1. /\ UNCHANGED <<sock, net, tx_desc, m_dma, m_tx_pending, m_tx_event>>
      /\ running' \in {"none", p}
  BY DEF ProcessDma, DmaResume, DmaEngineStart, DmaEngineWrite, DmaEngineRead, DmaFinish,
         DmaSendIrq, DmaRelease, Resumes, Waits, Goes, localVars, nicVars, procVars
<1>2. ASSUME NEW l \in {"wait", "lock"} \cup Held, pc' = [pc EXCEPT ![p] = l],
             \/ l \in Held /\ pc[p] \in Held /\ UNCHANGED g_reg_mtx
             \/ l \notin Held /\ pc[p] \notin Held /\ UNCHANGED g_reg_mtx
             \/ l \in Held /\ pc[p] \notin Held /\ g_reg_mtx = "none" /\ g_reg_mtx' = p
             \/ l \notin Held /\ pc[p] \in Held /\ g_reg_mtx' = "none",
             m_buf' \in MemVals
      PROVE  ProcsOK' /\ MutexOK' /\ pc'[p] = l /\ pc'["process_tx"] = pc["process_tx"]
  <2>1. /\ pc' \in [Procs -> Places] /\ pc'[p] = l
        /\ pc'["poll_irq"] = pc["poll_irq"] /\ pc'["process_tx"] = pc["process_tx"]
    BY <1>2, PcStep DEF Procs, Places
  <2>2. ProcsOK'
    BY <1>1, <1>2, <2>1 DEF ProcsOK, ProcsTypeOK, Procs, Places
  <2>3. MutexOK'
    BY <1>1, <1>2, <2>1 DEF MutexOK
  <2> QED
    BY <2>1, <2>2, <2>3
<1>3. m_buf \in MemVals
  BY DEF ProcsOK, ProcsTypeOK
<1>4. SockOK' /\ NetOK'
  BY <1>1 DEF SockOK, Answered, NetOK
<1>5. CASE DmaResume \/ DmaRelease \/ DmaSendIrq \/ DmaEngineWrite
  <2>1. /\ UNCHANGED <<m_regs, m_dma_pending, m_dma_resp, dma, m_dma_start, m_buf>>
        /\ \/ /\ pc' = [pc EXCEPT ![p] = "lock"] /\ pc[p] = "wait" /\ UNCHANGED g_reg_mtx
           \/ /\ pc' = [pc EXCEPT ![p] = "wait"] /\ pc[p] = "hold" /\ g_reg_mtx' = "none"
           \/ /\ pc' = [pc EXCEPT ![p] = "hold"] /\ pc[p] = "irq" /\ UNCHANGED g_reg_mtx
           \/ /\ pc' = [pc EXCEPT ![p] = "finish"] /\ pc[p] = "write" /\ UNCHANGED g_reg_mtx
    BY <1>5 DEF DmaResume, DmaRelease, DmaSendIrq, DmaEngineWrite, Resumes, Release, Waits, Goes,
                nicVars, localVars, dmaVars, procVars
  <2>2. ProcsOK' /\ MutexOK' /\ pc'["process_tx"] = pc["process_tx"]
    BY <1>2, <1>3, <2>1
  <2>3. CallerOK'
    BY <1>1, <2>1, <2>2 DEF CallerOK
  <2>4. WorkOK' /\ RegsOK' /\ DmaOK' /\ WorkTypeOK'
    BY <1>1, <2>1, <2>2 DEF WorkOK, RegsOK, DmaOK, WorkTypeOK, TxNoWork
  <2> QED
    BY <1>4, <2>2, <2>3, <2>4
<1>6. CASE DmaEngineStart
  <2>1. /\ UNCHANGED <<m_regs, m_dma_start, m_buf>>
        /\ pc[p] = "lock" /\ g_reg_mtx = "none" /\ g_reg_mtx' = p
        /\ \/ pc' = [pc EXCEPT ![p] = "finish"] /\ UNCHANGED <<m_dma_pending, m_dma_resp, dma>>
           \/ pc' = [pc EXCEPT ![p] = "write"] /\ UNCHANGED <<m_dma_pending, m_dma_resp, dma>>
           \/ pc' = [pc EXCEPT ![p] = "read"] /\ DmaReadCall(DmaBuf)
    BY <1>6 DEF DmaEngineStart, Acquire, Goes, localVars, dmaVars, procVars
  <2>2. DmaOK'
    BY <2>1, Locations, DmaReadCallOK DEF DmaOK
  <2>3. ProcsOK' /\ MutexOK' /\ pc'["process_tx"] = pc["process_tx"]
    BY <1>2, <1>3, <2>1
  <2>4. CallerOK'
    <3>1. dma.st = "idle"
      BY <2>1 DEF CallerOK, MutexOK
    <3>2. CASE pc' = [pc EXCEPT ![p] = "read"]
      BY <1>2, <1>3, <2>1, <3>2 DEF CallerOK
    <3> QED
      BY <2>1, <3>1, <3>2 DEF CallerOK
  <2>5. WorkOK' /\ RegsOK' /\ WorkTypeOK'
    BY <1>1, <2>1, <2>3 DEF WorkOK, RegsOK, WorkTypeOK, TxNoWork
  <2> QED
    BY <1>4, <2>2, <2>3, <2>4, <2>5
<1>7. CASE DmaEngineRead
  <2>1. /\ UNCHANGED <<m_regs, g_reg_mtx, m_dma_pending, m_dma_resp, m_dma_start>>
        /\ pc[p] = "read" /\ pc' = [pc EXCEPT ![p] = "finish"]
        /\ DmaReadReturned
        /\ m_buf' = IF dma.data = NoData THEN m_buf ELSE dma.data.data
    BY <1>7 DEF DmaEngineRead, Goes, procVars
  <2>2. DmaOK' /\ dma'.st = "idle"
    BY <2>1, DmaReadReturnedOK
  <2>3. m_buf' \in MemVals
    BY <1>3, <2>1 DEF DmaOK, DmaAnswers
  <2>4. ProcsOK' /\ MutexOK' /\ pc'["process_tx"] = pc["process_tx"]
    BY <1>2, <2>1, <2>3
  <2>5. CallerOK' /\ WorkOK' /\ RegsOK' /\ WorkTypeOK'
    BY <1>1, <2>1, <2>2, <2>4 DEF CallerOK, WorkOK, RegsOK, WorkTypeOK, TxNoWork
  <2> QED
    BY <1>4, <2>2, <2>4, <2>5
<1>8. CASE DmaFinish
  <2> DEFINE idle == [m_regs EXCEPT !["DMA_STS"] = 0]
  <2>1. /\ UNCHANGED <<g_reg_mtx, m_dma_pending, m_dma_resp, dma, m_buf>>
        /\ pc[p] = "finish" /\ m_dma_start' = FALSE
        /\ \/ /\ m_regs' = [idle EXCEPT !["IRQ_STS"] = SetBit(@, SC_IRQ_DMA_DONE)]
              /\ pc' = [pc EXCEPT ![p] = "irq"]
           \/ m_regs' = idle /\ pc' = [pc EXCEPT ![p] = "hold"]
    BY <1>8 DEF DmaFinish, Goes, Waits, localVars, dmaVars
  <2>2. idle["IRQ_STS"] \in Nat
    BY DEF RegsOK, RegFiles, RegNames
  <2>3. SetBit(idle["IRQ_STS"], SC_IRQ_DMA_DONE) \in Nat
    BY <2>2, SetBitNat DEF SC_IRQ_DMA_DONE
  <2>4. RegsOK' /\ UNCHANGED <<m_regs["RX_RING_SIZE"], m_regs["TX_RING_SIZE"], m_regs["TX_DOORBELL"]>>
    BY <2>1, <2>3 DEF RegsOK, RegFiles, RegNames
  <2>5. ProcsOK' /\ MutexOK' /\ pc'["process_tx"] = pc["process_tx"]
    BY <1>2, <1>3, <2>1
  <2>6. CallerOK' /\ WorkOK' /\ DmaOK' /\ WorkTypeOK'
    BY <1>1, <2>1, <2>4, <2>5 DEF CallerOK, WorkOK, DmaOK, WorkTypeOK, TxNoWork
  <2> QED
    BY <1>4, <2>4, <2>5, <2>6
<1> QED
  BY <1>5, <1>6, <1>7, <1>8 DEF ProcessDma

(* Appending to a queue adds one message and changes none.                 *)
LEMMA AppendedOne ==
    ASSUME NEW S, NEW s \in Seq(S), NEW m \in S
    PROVE  \A i \in DOMAIN Append(s, m) :
              (i \in DOMAIN s /\ Append(s, m)[i] = s[i]) \/ Append(s, m)[i] = m
<1>1. DOMAIN s = 1 .. Len(s) /\ Len(s) \in Nat
  OBVIOUS
<1>2. ASSUME NEW i \in DOMAIN Append(s, m), i \notin DOMAIN s PROVE i = Len(s) + 1
  BY <1>1, <1>2, AppendElements
<1> QED
  BY <1>2, AppendElements

(* process_tx keeps the NIC's invariant.                                   *)
LEMMA ProcessTxNicInv == ASSUME Inv, ProcessTx PROVE NicInv'
<1> USE DEF Inv, NicInv
<1> DEFINE p == "process_tx"
           Held == {"desc", "data", "wb", "hold", "irq"}
<1>1. /\ UNCHANGED <<sock, net, m_buf, m_dma_start, m_dma>>
      /\ running' \in {"none", p}
  BY DEF ProcessTx, TxResume, TxEventLost, TxIdle, TxReadDesc, TxReadFailed, TxGotDesc,
         TxTransmit, TxWriteBack, TxRelease, TxDoneQuiet, TxDone, TxSendIrq,
         Resumes, Waits, Goes, localVars, kernelVars, nicVars, procVars
<1>2. ASSUME NEW l \in {"wait", "lock", "irqlock"} \cup Held, pc' = [pc EXCEPT ![p] = l],
             \/ l \in Held /\ pc[p] \in Held /\ UNCHANGED g_reg_mtx
             \/ l \notin Held /\ pc[p] \notin Held /\ UNCHANGED g_reg_mtx
             \/ l \in Held /\ pc[p] \notin Held /\ g_reg_mtx = "none" /\ g_reg_mtx' = p
             \/ l \notin Held /\ pc[p] \in Held /\ g_reg_mtx' = "none",
             tx_desc' \in Descs \cup {NoData},
             l \in {"data", "wb"} => tx_desc' \in Descs
      PROVE  /\ ProcsOK' /\ MutexOK' /\ pc'[p] = l
             /\ pc'["process_dma"] = pc["process_dma"]
  <2>1. /\ pc' \in [Procs -> Places] /\ pc'[p] = l
        /\ pc'["poll_irq"] = pc["poll_irq"] /\ pc'["process_dma"] = pc["process_dma"]
    <3>1. /\ p \in Procs /\ l \in Places /\ ProcsOK
          /\ "poll_irq" \in Procs \ {p} /\ "process_dma" \in Procs \ {p}
      BY DEF Procs, Places
    <3>2. pc' = [pc EXCEPT ![p] = l]
      BY <1>2
    <3>3. /\ pc' \in [Procs -> Places] /\ pc'[p] = l
          /\ \A q \in Procs \ {p} : pc'[q] = pc[q]
      BY <3>1, <3>2, PcStep
    <3> QED
      BY <3>1, <3>3
  <2>2. ProcsOK'
    BY <1>1, <1>2, <2>1 DEF ProcsOK, ProcsTypeOK, Procs, Places
  <2>3. MutexOK'
    <3>1. /\ pc[p] \in Held <=> g_reg_mtx = p
          /\ g_reg_mtx \in {"none", "sock", "net", "poll_irq", "process_dma", "process_tx"}
      BY DEF MutexOK
    <3>2. /\ g_reg_mtx' = p <=> l \in Held
          /\ \A q \in {"sock", "net", "poll_irq", "process_dma"} :
                g_reg_mtx' = q <=> g_reg_mtx = q
          /\ g_reg_mtx' \in {"none", "sock", "net", "poll_irq", "process_dma", "process_tx"}
      BY <1>2, <3>1
    <3> QED
      BY <1>1, <2>1, <3>2 DEF MutexOK
  <2> QED
    BY <2>1, <2>2, <2>3
<1>3. tx_desc \in Descs \cup {NoData} /\ (pc[p] \in {"data", "wb"} => tx_desc \in Descs)
  BY DEF ProcsOK, ProcsTypeOK
<1>4. SockOK' /\ NetOK'
  BY <1>1 DEF SockOK, Answered, NetOK
<1>5. WorkTypeOK'
  <2>1. m_tx_pending' \in {m_tx_pending, FALSE} /\ m_tx_event' \in {m_tx_event, FALSE}
    BY DEF ProcessTx, TxResume, TxEventLost, TxIdle, TxReadDesc, TxReadFailed, TxGotDesc,
           TxTransmit, TxWriteBack, TxRelease, TxDoneQuiet, TxDone, TxSendIrq, nicVars, procVars
  <2> QED
    BY <1>1, <2>1 DEF WorkTypeOK
<1>6. CASE TxEventLost
  <2>1. UNCHANGED <<m_regs, g_reg_mtx, m_dma_pending, m_dma_resp, dma, running, pc, tx_desc>>
    BY <1>6 DEF TxEventLost, dmaVars, kernelVars, localVars
  <2> QED
    BY <1>1, <1>4, <1>5, <2>1 DEF RegsOK, DmaOK, ProcsOK, ProcsTypeOK, MutexOK, CallerOK, WorkOK,
                                  TxNoWork
<1>7. CASE TxResume \/ TxIdle \/ TxRelease \/ TxDoneQuiet \/ TxSendIrq
  <2>1. /\ UNCHANGED <<m_regs, m_dma_pending, m_dma_resp, dma, tx_desc>>
        /\ \/ /\ pc' = [pc EXCEPT ![p] = "lock"] /\ pc[p] = "wait" /\ UNCHANGED g_reg_mtx
           \/ /\ pc' = [pc EXCEPT ![p] = "irqlock"] /\ pc[p] = "lock" /\ UNCHANGED g_reg_mtx
           \/ /\ pc' = [pc EXCEPT ![p] = "lock"] /\ pc[p] = "hold" /\ g_reg_mtx' = "none"
           \/ /\ pc' = [pc EXCEPT ![p] = "wait"] /\ pc[p] = "irqlock" /\ UNCHANGED g_reg_mtx
           \/ /\ pc' = [pc EXCEPT ![p] = "wait"] /\ pc[p] = "irq" /\ g_reg_mtx' = "none"
    BY <1>7 DEF TxResume, TxIdle, TxRelease, TxDoneQuiet, TxSendIrq, Resumes, Release, Waits,
                Goes, nicVars, localVars, dmaVars, procVars
  <2>2. /\ ProcsOK' /\ MutexOK' /\ pc'["process_dma"] = pc["process_dma"]
        /\ pc[p] \notin {"desc", "data"} /\ pc'[p] \notin {"desc", "data", "wb"}
    BY <1>2, <1>3, <2>1
  <2>3. CallerOK' /\ WorkOK'
    BY <1>1, <2>1, <2>2 DEF CallerOK, WorkOK
  <2> QED
    BY <1>4, <1>5, <2>1, <2>2, <2>3 DEF RegsOK, DmaOK
<1>8. CASE TxReadDesc
  <2>1. /\ UNCHANGED <<m_regs, tx_desc>> /\ ~TxNoWork
        /\ pc[p] = "lock" /\ g_reg_mtx = "none" /\ g_reg_mtx' = p
        /\ pc' = [pc EXCEPT ![p] = "desc"] /\ DmaReadCall(TxDesc(m_regs["TX_TAIL"]))
    BY <1>8 DEF TxReadDesc, Acquire, Goes, localVars
  <2>2. DmaOK'
    BY <2>1, Locations, DmaReadCallOK DEF RegsOK
  <2>3. ProcsOK' /\ MutexOK' /\ pc'["process_dma"] = pc["process_dma"] /\ pc'[p] = "desc"
    BY <1>2, <1>3, <2>1
  <2>4. CallerOK' /\ WorkOK'
    BY <1>1, <2>1, <2>3 DEF CallerOK, WorkOK, TxNoWork
  <2> QED
    BY <1>4, <1>5, <2>1, <2>2, <2>3, <2>4 DEF RegsOK
<1>9. CASE TxReadFailed
  <2>1. /\ UNCHANGED <<m_regs, m_dma_pending, m_dma_resp, tx_desc>>
        /\ pc[p] \in {"desc", "data"} /\ g_reg_mtx' = "none"
        /\ pc' = [pc EXCEPT ![p] = "irqlock"] /\ DmaReadReturned
    BY <1>9 DEF TxReadFailed, Release, Goes, localVars
  <2>2. DmaOK' /\ dma'.st = "idle"
    BY <2>1, DmaReadReturnedOK
  <2>3. ProcsOK' /\ MutexOK' /\ pc'["process_dma"] = pc["process_dma"] /\ pc'[p] = "irqlock"
    BY <1>2, <1>3, <2>1
  <2>4. CallerOK' /\ WorkOK'
    BY <1>1, <2>1, <2>2, <2>3 DEF CallerOK, WorkOK
  <2> QED
    BY <1>4, <1>5, <2>1, <2>2, <2>3, <2>4 DEF RegsOK
<1>10. CASE TxGotDesc
  <2>1. pc[p] = "desc" /\ UNCHANGED m_regs
    BY <1>10 DEF TxGotDesc
  <2>2. PICK d \in Descs :
            \/ /\ DmaReadCall(d.buf) /\ tx_desc' = d /\ UNCHANGED g_reg_mtx
               /\ pc' = [pc EXCEPT ![p] = "data"]
            \/ /\ DmaReadReturned /\ UNCHANGED <<m_dma_pending, m_dma_resp, tx_desc>>
               /\ g_reg_mtx' = "none" /\ pc' = [pc EXCEPT ![p] = "irqlock"]
    BY <1>10, DescType DEF TxGotDesc, Goes, Release
  <2>3. CASE /\ DmaReadCall(d.buf) /\ tx_desc' = d /\ UNCHANGED g_reg_mtx
             /\ pc' = [pc EXCEPT ![p] = "data"]
    <3>1. DmaOK'
      BY <2>3, DescType, DmaReadCallOK
    <3>2. ProcsOK' /\ MutexOK' /\ pc'["process_dma"] = pc["process_dma"] /\ pc'[p] = "data"
      BY <1>2, <1>3, <2>1, <2>3
    <3>3. CallerOK' /\ WorkOK'
      BY <1>1, <2>1, <3>2 DEF CallerOK, WorkOK, TxNoWork
    <3> QED
      BY <1>4, <1>5, <2>1, <3>1, <3>2, <3>3 DEF RegsOK
  <2>4. CASE /\ DmaReadReturned /\ UNCHANGED <<m_dma_pending, m_dma_resp, tx_desc>>
             /\ g_reg_mtx' = "none" /\ pc' = [pc EXCEPT ![p] = "irqlock"]
    <3>1. DmaOK' /\ dma'.st = "idle"
      BY <2>4, DmaReadReturnedOK
    <3>2. ProcsOK' /\ MutexOK' /\ pc'["process_dma"] = pc["process_dma"] /\ pc'[p] = "irqlock"
      BY <1>2, <1>3, <2>1, <2>4
    <3>3. CallerOK' /\ WorkOK'
      BY <1>1, <2>1, <3>1, <3>2 DEF CallerOK, WorkOK
    <3> QED
      BY <1>4, <1>5, <2>1, <3>1, <3>2, <3>3 DEF RegsOK
  <2> QED
    BY <2>2, <2>3, <2>4
<1>11. CASE TxTransmit
  <2>1. /\ UNCHANGED <<m_regs, g_reg_mtx, m_dma_pending, m_dma_resp, tx_desc>>
        /\ pc[p] = "data" /\ pc' = [pc EXCEPT ![p] = "wb"] /\ DmaReadReturned
    BY <1>11 DEF TxTransmit, Goes, localVars
  <2>2. DmaOK' /\ dma'.st = "idle"
    BY <2>1, DmaReadReturnedOK
  <2>3. ProcsOK' /\ MutexOK' /\ pc'["process_dma"] = pc["process_dma"] /\ pc'[p] = "wb"
    BY <1>2, <1>3, <2>1
  <2>4. CallerOK' /\ WorkOK'
    BY <1>1, <2>1, <2>2, <2>3 DEF CallerOK, WorkOK, TxNoWork
  <2> QED
    BY <1>4, <1>5, <2>1, <2>2, <2>3, <2>4 DEF RegsOK
<1>12. CASE TxWriteBack
  <2> DEFINE next == (m_regs["TX_TAIL"] + 1) % m_regs["TX_RING_SIZE"]
             left == m_regs["TX_DOORBELL"] - 1
  <2>1. /\ UNCHANGED <<g_reg_mtx, m_dma_pending, m_dma_resp, dma, tx_desc>>
        /\ pc[p] = "wb" /\ pc' = [pc EXCEPT ![p] = "hold"]
        /\ m_regs' = [m_regs EXCEPT !["TX_TAIL"] = (@ + 1) % m_regs["TX_RING_SIZE"],
                                    !["TX_DOORBELL"] = @ - 1]
    BY <1>12 DEF TxWriteBack, Waits, localVars, dmaVars
  <2>2. next \in TxSlots /\ next \in Nat
    BY <2>1, AdvanceOK, ProcsAssumption DEF WorkOK, TxNoWork, TxSlots
  <2>3. left \in Nat
    BY <2>1 DEF WorkOK, TxNoWork, RegsOK, RegFiles, RegNames
  <2>4. m_regs' = [[m_regs EXCEPT !["TX_TAIL"] = next] EXCEPT !["TX_DOORBELL"] = left]
    BY <2>1 DEF RegsOK, RegFiles, RegNames
  <2>5. RegsOK' /\ m_regs'["RX_RING_SIZE"] = m_regs["RX_RING_SIZE"]
    <3> HIDE DEF next, left
    <3> QED
      BY <2>2, <2>3, <2>4 DEF RegsOK, RegFiles, RegNames
  <2>6. ProcsOK' /\ MutexOK' /\ pc'["process_dma"] = pc["process_dma"] /\ pc'[p] = "hold"
    BY <1>2, <1>3, <2>1
  <2>7. CallerOK' /\ WorkOK'
    BY <1>1, <2>1, <2>5, <2>6 DEF CallerOK, WorkOK
  <2> QED
    BY <1>4, <1>5, <2>1, <2>5, <2>6, <2>7 DEF DmaOK
<1>13. CASE TxDone
  <2>1. /\ UNCHANGED <<m_dma_pending, m_dma_resp, dma, tx_desc>>
        /\ pc[p] = "irqlock" /\ pc' = [pc EXCEPT ![p] = "irq"]
        /\ g_reg_mtx = "none" /\ g_reg_mtx' = p
        /\ m_regs' = [m_regs EXCEPT !["IRQ_STS"] = SetBit(@, SC_IRQ_TX_DONE)]
    BY <1>13 DEF TxDone, Acquire, Goes, localVars, dmaVars
  <2>2. m_regs["IRQ_STS"] \in Nat
    BY DEF RegsOK, RegFiles, RegNames
  <2>3. SetBit(m_regs["IRQ_STS"], SC_IRQ_TX_DONE) \in Nat
    BY <2>2, SetBitNat DEF SC_IRQ_TX_DONE
  <2>4. RegsOK' /\ m_regs'["RX_RING_SIZE"] = m_regs["RX_RING_SIZE"]
    BY <2>1, <2>3 DEF RegsOK, RegFiles, RegNames
  <2>5. ProcsOK' /\ MutexOK' /\ pc'["process_dma"] = pc["process_dma"] /\ pc'[p] = "irq"
    BY <1>2, <1>3, <2>1
  <2>6. CallerOK' /\ WorkOK'
    BY <1>1, <2>1, <2>4, <2>5 DEF CallerOK, WorkOK
  <2> QED
    BY <1>4, <1>5, <2>1, <2>4, <2>5, <2>6 DEF DmaOK
<1> QED
  BY <1>6, <1>7, <1>8, <1>9, <1>10, <1>11, <1>12, <1>13 DEF ProcessTx

-----------------------------------------------------------------------------
(* The NIC on the wire. *)

NicAction ==
    \/ SockThread /\ UNCHANGED kernelVars
    \/ NetThread /\ UNCHANGED kernelVars
    \/ (DmaReadSend \/ DmaReadDone \/ DmaReadTimeout) /\ UNCHANGED kernelVars
    \/ Kernel
    \/ (\E p \in Packets : NetRecv(p)) /\ UNCHANGED kernelVars

(* Whatever it does, the NIC keeps its invariant.                          *)
LEMMA NicActionInv == ASSUME Inv, NicAction PROVE NicInv'
BY SockNicInv, NetNicInv, DmaNicInv, PollNicInv, ProcessDmaNicInv, ProcessTxNicInv, InjectNicInv
   DEF NicAction, Kernel

(* What the NIC may write to the wire: an interrupt, the answer to the     *)
(* request it serves, the request of the dma_read in progress, or, by the  *)
(* thread that has the mutex, a write.                                     *)
Writing == net.pc \in {"data", "wb"} \/ pc["process_dma"] = "write" \/ pc["process_tx"] = "wb"
Sends ==
    \/ \E v \in {0, 1} : PutS2q(MsiIrq(v))
    \/ SockAnswer \/ DmaReadSend
    \/ Writing /\ \E a \in Addrs, d \in MemVals : PutS2q(DmaWriteReq(a, d))

\* A step of the NIC puts at most one message on the wire, and one of these.
LEMMA NicSends == ASSUME Inv, NicAction PROVE UNCHANGED s2q \/ Sends
<1> USE DEF Inv, NicInv
<1>1. CASE SockThread
  BY <1>1 DEF SockThread, SockConnect, SockRecv, OnMmioRead, OnMmioWrite, OnMmioWriteIrq,
     SockAnswer, HandleDmaReadResp, HandleDmaWriteResp, Sends, wireVars
<1>2. CASE NetThread
  <2>1. CASE RxWriteData
    <3>1. /\ net.desc.buf \in Addrs
          /\ First(Frame(net.pkt), net.desc.length) \in MemVals
      BY <2>1, DescType, RxDataType DEF RxWriteData, NetOK
    <3> QED
      BY <2>1, <3>1 DEF RxWriteData, Sends, Writing
  <2>2. CASE RxWriteBack
    <3>1. Slot \in Addrs /\ RxBack \in MemVals
      BY <2>2, DescType, RxBackType, Locations DEF RxWriteBack, NetOK, RegsOK, Slot
    <3> QED
      BY <2>2, <3>1 DEF RxWriteBack, RxBack, Sends, Writing
  <2>3. CASE RxIrq
    BY <2>3 DEF RxIrq, Sends
  <2>4. CASE RxDrop \/ RxReadDesc \/ RxFailed \/ RxGotDesc
    BY <2>4 DEF RxDrop, RxReadDesc, RxFailed, RxGotDesc, wireVars
  <2> QED
    BY <1>2, <2>1, <2>2, <2>3, <2>4 DEF NetThread
<1>3. CASE DmaReadSend \/ DmaReadDone \/ DmaReadTimeout
  BY <1>3 DEF DmaReadSend, DmaReadDone, DmaReadTimeout, Sends, wireVars
<1>4. CASE PollIrq
  BY <1>4 DEF PollIrq, PollResume, PollQuiet, PollPending, PollSendIrq, Sends, wireVars
<1>5. CASE ProcessDma
  <2>1. CASE DmaEngineWrite
    <3>1. DmaBuf \in Addrs /\ m_buf \in MemVals
      BY Locations DEF ProcsOK, ProcsTypeOK
    <3> QED
      BY <2>1, <3>1 DEF DmaEngineWrite, Sends, Writing
  <2>2. CASE ~DmaEngineWrite
    BY <1>5, <2>2 DEF ProcessDma, DmaResume, DmaEngineStart, DmaEngineRead, DmaFinish, DmaSendIrq,
       DmaRelease, Sends, wireVars
  <2> QED
    BY <2>1, <2>2
<1>6. CASE ProcessTx
  <2>1. CASE TxWriteBack
    <3>1. /\ TxDesc(m_regs["TX_TAIL"]) \in Addrs
          /\ [tx_desc EXCEPT !.own = FALSE, !.done = TRUE] \in MemVals
      BY <2>1, DescType, Locations DEF TxWriteBack, ProcsOK, RegsOK
    <3> QED
      BY <2>1, <3>1 DEF TxWriteBack, Sends, Writing
  <2>2. CASE ~TxWriteBack
    BY <1>6, <2>2 DEF ProcessTx, TxResume, TxEventLost, TxIdle, TxReadDesc, TxReadFailed, TxGotDesc,
       TxTransmit, TxRelease, TxDoneQuiet, TxDone, TxSendIrq, Sends, wireVars
  <2> QED
    BY <2>1, <2>2
<1>7. CASE \E p \in Packets : NetRecv(p)
  BY <1>7 DEF NetRecv, wireVars
<1> QED
  BY <1>1, <1>2, <1>3, <1>4, <1>5, <1>6, <1>7 DEF NicAction, Kernel

(* No step of the NIC's threads or processes is the arrival of a frame.    *)
LEMMA NoArrival == ASSUME Inv, NicStep \/ KernelStep PROVE ~\E p \in Packets : NetRecv(p)
<1> SUFFICES ASSUME NEW p \in Packets, NetRecv(p) PROVE FALSE
  OBVIOUS
<1>1. net.pc = "idle" /\ net'.pc = "lock"
  BY DEF NetRecv, Inv, NicInv, NetOK
<1>2. CASE UNCHANGED net
  BY <1>1, <1>2
<1>3. CASE NetThread
  BY <1>1, <1>3 DEF NetThread, RxDrop, RxReadDesc, RxFailed, RxGotDesc, RxWriteData, RxWriteBack,
     RxIrq
<1>4. CASE SockThread
  <2>1. UNCHANGED net
    BY <1>4 DEF SockThread, SockConnect, SockRecv, OnMmioRead, OnMmioWrite, OnMmioWriteIrq,
       SockAnswer, HandleDmaReadResp, HandleDmaWriteResp
  <2> QED
    BY <1>2, <2>1
<1>5. CASE DmaReadSend \/ DmaReadDone \/ DmaReadTimeout
  BY <1>2, <1>5 DEF DmaReadSend, DmaReadDone, DmaReadTimeout
<1>6. CASE Kernel
  <2>1. CASE PollIrq
    BY <1>2, <2>1 DEF PollIrq, PollResume, PollQuiet, PollPending, PollSendIrq, nicVars
  <2>2. CASE ProcessDma
    BY <1>2, <2>2 DEF ProcessDma, DmaResume, DmaEngineStart, DmaEngineWrite, DmaEngineRead,
       DmaFinish, DmaSendIrq, DmaRelease, nicVars
  <2>3. CASE ProcessTx
    BY <1>2, <2>3 DEF ProcessTx, TxResume, TxEventLost, TxIdle, TxReadDesc, TxReadFailed,
       TxGotDesc, TxTransmit, TxWriteBack, TxRelease, TxDoneQuiet, TxDone, TxSendIrq, nicVars
  <2> QED
    BY <1>6, <2>1, <2>2, <2>3 DEF Kernel
<1> QED
  BY <1>3, <1>4, <1>5, <1>6 DEF NicStep, KernelStep, OtherNicThread

(* Only the socket thread takes messages off the wire or serves them.      *)
LEMMA OthersKeepSock ==
    ASSUME NicAction, ~SockThread
    PROVE  UNCHANGED <<q2s, link, sock>>
<1>1. CASE NetThread
  BY <1>1 DEF NetThread, RxDrop, RxReadDesc, RxFailed, RxGotDesc, RxWriteData, RxWriteBack,
              RxIrq, wireVars
<1>2. CASE DmaReadSend \/ DmaReadDone \/ DmaReadTimeout
  BY <1>2 DEF DmaReadSend, DmaReadDone, DmaReadTimeout, wireVars
<1>3. CASE PollIrq
  BY <1>3 DEF PollIrq, PollResume, PollQuiet, PollPending, PollSendIrq, wireVars, nicVars
<1>4. CASE ProcessDma
  BY <1>4 DEF ProcessDma, DmaResume, DmaEngineStart, DmaEngineWrite, DmaEngineRead, DmaFinish,
              DmaSendIrq, DmaRelease, wireVars, nicVars
<1>5. CASE ProcessTx
  BY <1>5 DEF ProcessTx, TxResume, TxEventLost, TxIdle, TxReadDesc, TxReadFailed, TxGotDesc,
              TxTransmit, TxWriteBack, TxRelease, TxDoneQuiet, TxDone, TxSendIrq, wireVars, nicVars
<1>6. CASE \E p \in Packets : NetRecv(p)
  BY <1>6 DEF NetRecv, wireVars
<1> QED
  BY <1>1, <1>2, <1>3, <1>4, <1>5, <1>6 DEF NicAction, Kernel

(* It takes messages off the wire one at a time: its socket thread does.   *)
LEMMA NicTakes ==
    ASSUME Inv, NicAction
    PROVE  /\ link' \in {link, "up"}
           /\ \/ UNCHANGED q2s /\ sock'.msg \in {sock.msg, NoMsg}
              \/ /\ q2s # <<>> /\ q2s' = Tail(q2s)
                 /\ sock' = [sock EXCEPT !.pc = "handle", !.msg = Head(q2s)]
                 /\ sock.pc = "recv" /\ sock'.msg = Head(q2s)
<1>1. sock \in [pc : {"connect", "recv", "handle", "irq", "answer"},
                msg : QemuMsgs \cup {NoMsg}, ans : ScMsgs \cup {NoMsg}]
  BY DEF Inv, NicInv, SockOK
<1>2. CASE SockThread
  <2>1. CASE SockRecv
    BY <1>1, <2>1 DEF SockRecv
  <2>2. CASE SockConnect
    BY <1>1, <2>2 DEF SockConnect
  <2>3. CASE OnMmioRead \/ OnMmioWrite \/ OnMmioWriteIrq
    <3>1. /\ UNCHANGED <<q2s, link>>
          /\ \/ \E m : sock' = [sock EXCEPT !.pc = "answer", !.ans = m]
             \/ sock' = [sock EXCEPT !.pc = "irq"]
      BY <2>3 DEF OnMmioRead, OnMmioWrite, OnMmioWriteIrq, Answering, wireVars
    <3> QED
      BY <1>1, <3>1
  <2>4. CASE SockAnswer \/ HandleDmaReadResp \/ HandleDmaWriteResp
    BY <2>4 DEF SockAnswer, HandleDmaReadResp, HandleDmaWriteResp, Served, wireVars
  <2> QED
    BY <1>2, <2>1, <2>2, <2>3, <2>4 DEF SockThread
<1>3. CASE ~SockThread
  BY <1>3, OthersKeepSock
<1> QED
  BY <1>2, <1>3

(* What it writes to the wire are messages of SystemC's.                   *)
LEMMA NicBridgeType ==
    ASSUME Inv, NicAction, UNCHANGED qemuVars
    PROVE  BridgeTypeOK'
<1> USE DEF Inv, BridgeTypeOK, WireTypeOK
<1>1. UNCHANGED s2q \/ \E m \in ScMsgs : PutS2q(m)
  <2>1. UNCHANGED s2q \/ Sends
    BY NicSends
  <2>2. \A v \in {0, 1} : MsiIrq(v) \in ScMsgs
    BY CoSimAssumption, ScMessages
  <2>3. sock.pc = "answer" => sock.ans \in ScMsgs
    <3>1. "OK" \in Status
      BY DEF Status
    <3> QED
      BY <3>1, ScMessages DEF NicInv, SockOK, Answered
  <2>4. DmaReadReq(dma.addr) \in ScMsgs
    BY DEF NicInv, DmaOK, DmaReadReq, ScMsgs
  <2> QED
    BY <2>1, <2>2, <2>3, <2>4, ScMessages DEF Sends, SockAnswer, DmaReadSend
<1>2. s2q' \in Seq(ScMsgs)
  BY <1>1, PutType
<1>3. q2s' \in Seq(QemuMsgs) /\ link' \in {"none", "up", "closed"}
  BY NicTakes, TailElements
<1> QED
  BY <1>2, <1>3 DEF qemuVars, QemuTypeOK, MmioTypeOK

(* The writes on their way stay those of the guest.                        *)
LEMMA NicWrites ==
    ASSUME Inv, NicAction, UNCHANGED qemuVars
    PROVE  WritesOK'
<1> USE DEF Inv, WritesOK
<1>1. CASE UNCHANGED q2s /\ sock'.msg \in {sock.msg, NoMsg}
  BY <1>1, NoMsgOther DEF qemuVars, AllowedMsg
<1>2. CASE q2s # <<>> /\ q2s' = Tail(q2s) /\ sock'.msg = Head(q2s)
  <2>1. q2s \in Seq(QemuMsgs)
    BY DEF BridgeTypeOK, WireTypeOK
  <2>2. /\ \A i \in DOMAIN Tail(q2s) : i + 1 \in DOMAIN q2s /\ Tail(q2s)[i] = q2s[i + 1]
        /\ 1 \in DOMAIN q2s /\ Head(q2s) = q2s[1]
    BY <1>2, <2>1, TailElements
  <2> QED
    BY <1>2, <2>2 DEF qemuVars, AllowedMsg
<1> QED
  BY <1>1, <1>2, NicTakes

-----------------------------------------------------------------------------
(* The steps of QEMU and of the guest. *)

(* QEMU writes to the wire only what the guest wrote, or an answer.        *)
LEMMA QemuSends ==
    ASSUME Inv, VcpuGoesOn \/ GuestRead \/ IoThread \/ \E v \in Vectors : TakeMsi(v)
    PROVE  UNCHANGED q2s \/ \E m \in QemuMsgs : AllowedMsg(m) /\ PutQ2s(m)
<1> USE DEF Inv, BridgeTypeOK, QemuTypeOK, MmioTypeOK, WritesOK
<1>1. CASE MmioReadSend
  <2>1. ReadReq(vcpu.reg) \in QemuMsgs /\ AllowedMsg(ReadReq(vcpu.reg))
    BY QemuMessages DEF AllowedMsg, ReadReq
  <2> QED
    BY <1>1, <2>1 DEF MmioReadSend, Send
<1>2. CASE MmioWriteSend
  <2>1. WriteReq(vcpu.reg, vcpu.val) \in QemuMsgs /\ AllowedMsg(WriteReq(vcpu.reg, vcpu.val))
    BY <1>2, QemuMessages DEF MmioWriteSend, AllowedMsg, WriteReq
  <2> QED
    BY <1>2, <2>1 DEF MmioWriteSend, Send
<1>3. CASE IoReply
  <2>1. io.msg \in QemuMsgs /\ AllowedMsg(io.msg)
    BY <1>3 DEF IoReply, AllowedMsg
  <2> QED
    BY <1>3, <2>1 DEF IoReply, Send
<1>4. CASE MmioReadWake \/ MmioReadReturn \/ MmioReadLost \/ GuestRead \/ \E v \in Vectors : TakeMsi(v)
  BY <1>4 DEF MmioReadWake, MmioReadReturn, MmioReadLost, GuestRead, MmioReadCached, MmioReadStart,
              TakeMsi
<1>5. CASE IoThread /\ ~IoReply
  BY <1>5 DEF IoThread, IoAccept, IoAcceptFails, IoRecv, IoLoopEnds, IoCleanup, IoMmioReadResp,
              IoMmioWriteResp, IoDmaRead, IoDmaWrite, IoMsi, IoLost
<1> QED
  BY <1>1, <1>2, <1>3, <1>4, <1>5 DEF VcpuGoesOn

(* When a write begins, the guest began it; no other step begins one.      *)
LEMMA QemuWriting ==
    ASSUME Inv, VcpuGoesOn \/ GuestRead \/ IoThread \/ \E v \in Vectors : TakeMsi(v)
    PROVE  vcpu' = vcpu \/ vcpu'.pc # "wsend"
<1> USE DEF Inv, BridgeTypeOK, QemuTypeOK, MmioTypeOK
<1>1. CASE VcpuGoesOn \/ GuestRead
  BY <1>1 DEF VcpuGoesOn, MmioReadSend, MmioReadWake, MmioReadLost, MmioReadReturn, MmioWriteSend,
              GuestRead, MmioReadCached, MayAccess, MmioReadStart
<1>2. CASE IoThread \/ \E v \in Vectors : TakeMsi(v)
  BY <1>2 DEF TakeMsi, IoThread, IoAccept, IoAcceptFails, IoRecv, IoLoopEnds, IoCleanup,
              IoMmioReadResp, IoMmioWriteResp, IoDmaRead, IoDmaWrite, IoReply, IoMsi, IoLost
<1> QED
  BY <1>1, <1>2

(* The writes on their way stay those of the guest.                        *)
LEMMA QemuWrites ==
    ASSUME Inv, UNCHANGED sock,
           VcpuGoesOn \/ GuestRead \/ IoThread \/ \E v \in Vectors : TakeMsi(v)
    PROVE  WritesOK'
<1>1. \A i \in DOMAIN q2s' : AllowedMsg(q2s'[i])
  <2>1. CASE UNCHANGED q2s
    BY <2>1 DEF Inv, WritesOK
  <2>2. ASSUME NEW m \in QemuMsgs, AllowedMsg(m), PutQ2s(m)
        PROVE  \A i \in DOMAIN q2s' : AllowedMsg(q2s'[i])
    <3>1. /\ q2s \in Seq(QemuMsgs) /\ q2s' = Append(q2s, m)
          /\ \A i \in DOMAIN q2s : AllowedMsg(q2s[i])
      BY <2>2 DEF PutQ2s, Inv, BridgeTypeOK, WireTypeOK, WritesOK
    <3>2. ASSUME NEW i \in DOMAIN q2s'
          PROVE  (i \in DOMAIN q2s /\ q2s'[i] = q2s[i]) \/ q2s'[i] = m
      BY <3>1, <3>2, AppendElements
    <3> QED
      BY <2>2, <3>1, <3>2
  <2> QED
    BY <2>1, <2>2, QemuSends
<1>2. (vcpu.pc = "wsend" => OfGuest(vcpu.reg, vcpu.val))'
  BY QemuWriting DEF Inv, WritesOK
<1> QED
  BY <1>1, <1>2 DEF Inv, WritesOK, AllowedMsg

(* A write the guest starts is one of its own.                             *)
LEMMA WriteWrites ==
    ASSUME Inv, UNCHANGED sock, NEW r, NEW v, OfGuest(r, v), MmioWrite(r, v)
    PROVE  WritesOK'
<1>1. UNCHANGED q2s /\ (UNCHANGED vcpu \/ (vcpu'.reg = r /\ vcpu'.val = v))
  BY DEF MmioWrite, Inv, BridgeTypeOK, QemuTypeOK, MmioTypeOK
<1> QED
  BY <1>1 DEF Inv, WritesOK, AllowedMsg

(* While the device stays, no thread of QEMU leaves its loop or loses its  *)
(* mutex.                                                                  *)
LEMMA Remains ==
    ASSUME StaysOK
    PROVE  ~MmioReadLost /\ ~IoLost /\ ~IoAcceptFails /\ ~IoLoopEnds /\ ~IoCleanup
BY DEF StaysOK, MmioReadLost, IoLost, Destroyed, IoAcceptFails, IoLoopEnds, IoCleanup

(* The I/O thread stays in its loop.                                       *)
LEMMA QemuStays ==
    ASSUME Inv, QemuStep
    PROVE  StaysOK'
<1> USE DEF Inv, StaysOK
<1>1. UNCHANGED link
  BY DEF QemuStep
<1>2. CASE IoThread
  <2>1. CASE IoAccept \/ IoAcceptFails \/ IoLoopEnds \/ IoCleanup \/ IoLost
    BY <1>1, <2>1 DEF BridgeTypeOK, QemuTypeOK, IoAccept, IoAcceptFails, IoLoopEnds, IoCleanup, IoLost, Destroyed
  <2>2. CASE IoRecv \/ IoMmioReadResp \/ IoMmioWriteResp \/ IoDmaRead \/ IoDmaWrite \/ IoReply
             \/ IoMsi
    <3>1. io'.pc \in {"recv", "handle", "reply"} /\ io.pc \in {"recv", "handle", "reply"}
      <4>1. CASE IoMmioReadResp \/ IoMmioWriteResp \/ IoMsi
        <5>1. io.pc = "handle" /\ Handled
          BY <4>1 DEF IoMmioReadResp, IoMmioWriteResp, IoMsi, Handles
        <5> QED
          BY <5>1 DEF Handled
      <4>2. CASE IoDmaRead \/ IoDmaWrite
        BY <4>2 DEF IoDmaRead, IoDmaWrite, Handles
      <4>3. CASE IoRecv \/ IoReply
        BY <4>3 DEF IoRecv, IoReply, Handled
      <4> QED
        BY <2>2, <4>1, <4>2, <4>3
    <3>2. UNCHANGED <<sock_fd, io_thread_running>>
      BY <2>2 DEF IoRecv, IoMmioReadResp, IoMmioWriteResp, IoDmaRead, IoDmaWrite, IoReply,
                  IoMsi, deviceVars
    <3> QED
      BY <1>1, <3>1, <3>2
  <2> QED
    BY <1>2, <2>1, <2>2 DEF IoThread
<1>3. CASE VcpuGoesOn \/ GuestRead \/ \E v \in Vectors : TakeMsi(v)
  BY <1>1, <1>3 DEF VcpuGoesOn, MmioReadSend, MmioReadWake, MmioReadLost, MmioReadReturn,
       MmioWriteSend, GuestRead, MmioReadCached, MmioReadStart, TakeMsi, deviceVars
<1>4. CASE RingTx \/ \E w \in GuestWrites : Written(w[1], w[2])
  BY <1>1, <1>4 DEF RingTx, Written, MmioWrite
<1> QED
  BY <1>2, <1>3, <1>4 DEF QemuStep, GuestAccess, QemuRuns

(* QEMU and the guest keep the invariant.                                  *)
LEMMA QemuInv == ASSUME Inv, QemuStep PROVE Inv'
<1>1. UNCHANGED <<link, nicVars, kernelVars, posted>>
  BY DEF QemuStep, GuestAccess, guestVars
<1>2. NicInv' /\ PostedOK' /\ StaysOK'
  BY <1>1, QemuStays DEF Inv, NicInv, nicVars, kernelVars, localVars, dmaVars, procVars, RegsOK, SockOK,
     Answered, DmaOK, NetOK, WorkTypeOK, ProcsOK, ProcsTypeOK, MutexOK, CallerOK, WorkOK, TxNoWork,
     PostedOK
<1>3. ASSUME NEW r, NEW v, OfGuest(r, v), MmioWrite(r, v), UNCHANGED s2q
      PROVE  Inv'
  BY <1>1, <1>2, <1>3, GuestDrives, WriteType, WriteWrites DEF Inv, nicVars
<1>4. ASSUME VcpuGoesOn \/ GuestRead \/ IoThread \/ (\E v \in Vectors : TakeMsi(v)),
             IoThread \/ UNCHANGED s2q
      PROVE  Inv'
  <2>1. BridgeTypeOK'
    BY <1>1, <1>4, VcpuType, IoType, ExitType DEF Inv
  <2> QED
    BY <1>1, <1>2, <1>4, <2>1, QemuWrites DEF Inv, nicVars
<1>5. CASE GuestAccess
  <2>1. CASE GuestRead
    BY <1>4, <1>5, <2>1 DEF GuestAccess
  <2>2. ASSUME NEW w \in GuestWrites, Written(w[1], w[2]) PROVE Inv'
    <3>1. w = <<w[1], w[2]>>
      BY GuestAssumption
    <3> QED
      BY <1>3, <1>5, <2>2, <3>1 DEF GuestAccess, Written, OfGuest
  <2>3. CASE RingTx
    BY <1>3, <1>5, <2>3 DEF GuestAccess, RingTx, Written, OfGuest
  <2> QED
    BY <1>5, <2>1, <2>2, <2>3 DEF GuestAccess
<1>6. CASE QemuRuns
  BY <1>4, <1>6 DEF QemuRuns
<1> QED
  BY <1>5, <1>6 DEF QemuStep

(* The guest posts a frame: memory holds what memory may hold.             *)
LEMMA PostStep ==
    ASSUME PostedOK, mem \in [Addrs -> MemVals], PostTx
    PROVE  mem' \in [Addrs -> MemVals] /\ PostedOK'
<1> DEFINE desc == TxDesc(posted % TxRing)
           buf == TxBuf(posted % TxRing)
           d == [own |-> TRUE, done |-> FALSE, length |-> TxFrame.len, buf |-> buf]
<1>1. posted' = posted + 1 /\ mem' = [mem EXCEPT ![buf] = TxFrame, ![desc] = d]
  BY DEF PostTx
<1>2. desc \in Addrs /\ buf \in Addrs
  BY Locations, ProcsAssumption DEF PostedOK, TxSlots
<1>3. TxFrame \in MemVals /\ TxFrame.len \in Lengths
  BY CoSimAssumption DEF MemVals, Bytes
<1>4. d \in MemVals
  BY <1>2, <1>3 DEF MemVals, Descs
<1> HIDE DEF desc, buf, d
<1> QED
  BY <1>1, <1>2, <1>3, <1>4 DEF PostedOK

\* The driver filling a TX slot keeps the invariant (smarteth_test_tx).
LEMMA PostInv == ASSUME Inv, PostTx PROVE Inv'
<1>1. UNCHANGED <<wireVars, vcpu, bql, io, deviceVars, msi, nicVars, kernelVars>>
  BY DEF PostTx
<1>2. mem' \in [Addrs -> MemVals] /\ PostedOK'
  BY PostStep DEF Inv, BridgeTypeOK, QemuTypeOK
<1>3. BridgeTypeOK'
  BY <1>1, <1>2 DEF Inv, BridgeTypeOK, WireTypeOK, QemuTypeOK, MmioTypeOK, wireVars, deviceVars
<1>4. NicInv' /\ WritesOK' /\ StaysOK'
  BY <1>1 DEF Inv, StaysOK, deviceVars, NicInv, wireVars, nicVars, kernelVars, localVars, dmaVars, procVars, RegsOK,
     SockOK, Answered, DmaOK, NetOK, WorkTypeOK, ProcsOK, ProcsTypeOK, MutexOK, CallerOK, WorkOK,
     TxNoWork, WritesOK, AllowedMsg
<1> QED
  BY <1>2, <1>3, <1>4 DEF Inv

-----------------------------------------------------------------------------
(* The system starts with the invariant. *)

(* Memory holds descriptors, the pattern and zeros (smarteth_main.c).      *)
LEMMA InitMem == ASSUME Init PROVE mem \in [Addrs -> MemVals]
<1> DEFINE Holds(a) == CASE a \in {RxDesc(i) : i \in RxSlots} ->
                              [own |-> TRUE, done |-> FALSE, length |-> RxBufLen, buf |-> RxBuf(a[2])]
                        [] a \in {TxDesc(i) : i \in TxSlots} ->
                              [own |-> FALSE, done |-> FALSE, length |-> 0, buf |-> TxBuf(a[2])]
                        [] a = DmaBuf -> Pattern
                        [] OTHER -> Blank
<1>1. mem = [a \in Addrs |-> Holds(a)]
  BY DEF Init
<1>2. ASSUME NEW a \in Addrs PROVE Holds(a) \in MemVals
  <2>1. ASSUME NEW i \in RxSlots, a = RxDesc(i) PROVE Holds(a) \in MemVals
    <3>0. /\ a \in {RxDesc(j) : j \in RxSlots} /\ a \notin {TxDesc(j) : j \in TxSlots}
          /\ a # DmaBuf /\ a[2] = i
      BY <2>1 DEF RxDesc, TxDesc, DmaBuf
    <3>1. Holds(a) = [own |-> TRUE, done |-> FALSE, length |-> RxBufLen, buf |-> RxBuf(i)]
      <4>1. Holds(a) = [own |-> TRUE, done |-> FALSE, length |-> RxBufLen, buf |-> RxBuf(a[2])]
        BY <3>0, Zenon
      <4> QED
        BY <3>0, <4>1
    <3>2. Holds(a) \in Descs
      <4> HIDE DEF Holds
      <4> QED
        BY <3>1, Locations, CoSimAssumption DEF Descs
    <3> QED
      BY <3>2, DescType
  <2>2. ASSUME NEW i \in TxSlots, a = TxDesc(i) PROVE Holds(a) \in MemVals
    <3>0. /\ a \in {TxDesc(j) : j \in TxSlots} /\ a \notin {RxDesc(j) : j \in RxSlots}
          /\ a # DmaBuf /\ a[2] = i
      BY <2>2 DEF RxDesc, TxDesc, DmaBuf
    <3>1. Holds(a) = [own |-> FALSE, done |-> FALSE, length |-> 0, buf |-> TxBuf(i)]
      <4>1. Holds(a) = [own |-> FALSE, done |-> FALSE, length |-> 0, buf |-> TxBuf(a[2])]
        BY <3>0, Zenon
      <4> QED
        BY <3>0, <4>1
    <3>2. Holds(a) \in Descs
      <4> HIDE DEF Holds
      <4> QED
        BY <3>1, Locations, CoSimAssumption DEF Descs
    <3> QED
      BY <3>2, DescType
  <2>3. CASE a \notin {RxDesc(i) : i \in RxSlots} \cup {TxDesc(i) : i \in TxSlots}
    BY <2>3, CoSimAssumption DEF MemVals
  <2> QED
    BY <2>1, <2>2, <2>3
<1> QED
  BY <1>1, <1>2

\* It holds when QEMU and the NIC have started.
LEMMA InitInv == Init => Inv
<1> SUFFICES ASSUME Init PROVE Inv
  OBVIOUS
<1>1. BridgeTypeOK
  BY InitMem, BridgeInitType DEF Init
<1>2. RegsOK
  <2>1. 0 \in RxSlots /\ 0 \in TxSlots
    BY RxRingAssumption, ProcsAssumption DEF RxSlots, TxSlots
  <2>2. {"RX_RING_SIZE", "RX_TAIL", "TX_RING_SIZE", "TX_TAIL"} \subseteq RegNames \ {"MAC_LO", "MAC_HI"}
    BY DEF RegNames
  <2> QED
    BY <2>1, <2>2, RegInitType, RxRingAssumption, ProcsAssumption DEF Init, NicInit, RegsOK
<1>3. SockOK /\ DmaOK /\ NetOK
  BY Locations DEF Init, NicInit, SockOK, DmaOK, DmaAnswers, NetOK
<1>4. WorkTypeOK
  BY DEF Init, NicInit, WorkTypeOK
<1>5. ProcsOK /\ pc["process_tx"] \in {"never", "wait"} /\ pc["process_dma"] \in {"never", "wait"}
      /\ pc["poll_irq"] \in {"never", "wait"}
  BY CoSimAssumption DEF Init, ProcsInit, ProcsOK, ProcsTypeOK, Procs, MemVals
<1>6. MutexOK /\ CallerOK /\ WorkOK
  BY <1>5 DEF Init, NicInit, MutexOK, CallerOK, WorkOK
<1>7. WritesOK /\ PostedOK /\ StaysOK
  BY NoMsgOther DEF Init, WireInit, QemuInit, NicInit, WritesOK, PostedOK, StaysOK
<1> QED
  BY <1>1, <1>2, <1>3, <1>4, <1>5, <1>6, <1>7 DEF Inv, NicInv

-----------------------------------------------------------------------------
(* The invariant holds. *)

(* A step of the NIC, whether of its threads or of its processes, or of    *)
(* the network side, keeps the invariant.                                  *)
LEMMA NicStepInv == ASSUME Inv, NicStep \/ KernelStep \/ Inject PROVE Inv'
<1>1. NicAction /\ UNCHANGED <<qemuVars, posted>>
  BY DEF NicStep, OtherNicThread, KernelStep, Inject, NicAction, ghostVars, guestVars
<1> QED
  BY <1>1, NicActionInv, NicBridgeType, NicWrites, NicTakes DEF Inv, PostedOK, StaysOK, qemuVars

\* And while nothing happens.
LEMMA StutterInv == ASSUME Inv, UNCHANGED vars PROVE Inv'
BY DEF Inv, vars, wireVars, qemuVars, ghostVars, guestVars, BridgeTypeOK, WireTypeOK, QemuTypeOK,
   MmioTypeOK, NicInv, nicVars, kernelVars, localVars, dmaVars, procVars, RegsOK, SockOK, Answered,
   DmaOK, NetOK, WorkTypeOK, ProcsOK, ProcsTypeOK, MutexOK, CallerOK, WorkOK, TxNoWork, WritesOK,
   AllowedMsg, PostedOK, StaysOK

\* The invariant holds throughout.
LEMMA Invariant == Spec => []Inv
<1>1. ASSUME Inv, [Next]_vars PROVE Inv'
  BY <1>1, QemuInv, NicStepInv, PostInv, StutterInv DEF Next
<1> QED
  BY <1>1, InitInv, PTL DEF Spec

(***************************************************************************)
(* Both bridges, the NIC, its threads and its processes keep their types:  *)
(* no message is taken apart as what it is not, no descriptor is used that *)
(* is none (pcie_bridge.cpp, nic.cpp, smarteth_sc_bridge.c).               *)
(***************************************************************************)
THEOREM TypeCorrect == Spec => []TypeOK
<1>1. Inv => TypeOK
  <2> SUFFICES ASSUME Inv PROVE TypeOK
    OBVIOUS
  <2>1. WireTypeOK /\ QemuTypeOK /\ ProcsTypeOK
    BY DEF Inv, BridgeTypeOK, NicInv, ProcsOK
  <2>2. NicTypeOK
    BY DEF Inv, NicInv, RegsOK, RegFiles, SockOK, DmaOK, DmaAnswers, NetOK, WorkTypeOK, MutexOK,
           NicTypeOK
  <2> QED
    BY <2>1, <2>2 DEF TypeOK
<1> QED
  BY <1>1, Invariant, PTL

-----------------------------------------------------------------------------
(* The rest is about the NIC as the code has it: no process runs, so the   *)
(* listener thread alone calls dma_read and writes guest memory.           *)

AsRegistered == DontInitialize = Procs

\* The processes are where they were registered.
Still == running = "none" /\ \A p \in Procs : pc[p] = "never"

(* The kernel then has nothing to do but to drop the notifications that    *)
(* m_tx_event gets (nic.cpp:15-24).                                        *)
LEMMA KernelIdle ==
    ASSUME Still, Kernel
    PROVE  /\ UNCHANGED <<wireVars, m_regs, g_reg_mtx, sock, dmaVars, net, m_dma_start, m_dma,
                          m_tx_pending, kernelVars>>
           /\ m_tx_event' = FALSE
<1>1. /\ running = "none" /\ pc["poll_irq"] = "never" /\ pc["process_dma"] = "never"
      /\ pc["process_tx"] = "never"
  BY DEF Still, Procs
<1>2. ~PollIrq
  BY <1>1 DEF PollIrq, PollResume, PollQuiet, PollPending, PollSendIrq, Resumes
<1>3. ~ProcessDma
  BY <1>1 DEF ProcessDma, DmaResume, DmaEngineStart, DmaEngineWrite, DmaEngineRead, DmaFinish,
     DmaSendIrq, DmaRelease, Resumes
<1>4. ProcessTx => TxEventLost
  BY <1>1 DEF ProcessTx, TxResume, TxIdle, TxReadDesc, TxReadFailed, TxGotDesc, TxTransmit,
     TxWriteBack, TxRelease, TxDoneQuiet, TxDone, TxSendIrq, Resumes
<1> QED
  BY <1>2, <1>3, <1>4 DEF Kernel, TxEventLost

\* No process ever starts.
LEMMA NothingRuns == ASSUME AsRegistered PROVE Spec => []Still
<1>1. Init => Still
  BY DEF Init, ProcsInit, AsRegistered, Still
<1>2. ASSUME Still, [Next]_vars PROVE Still'
  <2>1. CASE KernelStep
    BY <1>2, <2>1, KernelIdle DEF KernelStep, kernelVars, Still
  <2>2. CASE ~KernelStep
    BY <1>2, <2>2 DEF Next, QemuStep, NicStep, Inject, PostTx, vars, kernelVars, Still
  <2> QED
    BY <2>1, <2>2
<1> QED
  BY <1>1, <1>2, PTL DEF Spec

(* Who waits for dma_read has the mutex: it is the listener thread.        *)
LEMMA OnlyReader == ASSUME Inv, Still, dma.st # "idle" PROVE net.pc = "desc" /\ g_reg_mtx = "net"
BY DEF Inv, NicInv, CallerOK, MutexOK, Still, Procs

-----------------------------------------------------------------------------
(* What the NIC has written and memory does not hold yet: the message the  *)
(* I/O thread has in hand, and those behind it on the wire.                *)

Flight == IF io.pc = "handle" THEN <<io.msg>> \o s2q ELSE s2q
Puts(m) == Flight' = Append(Flight, m)

\* The messages of F that write location a; memory M once m is carried out.
Writers(F, a) == {p \in DOMAIN F : F[p].type = "DMA_WRITE" /\ F[p].addr = a}
After(M, m) == IF m.type = "DMA_WRITE" THEN [M EXCEPT ![m.addr] = Capped(m.data)] ELSE M

\* They are messages of SystemC's.
LEMMA FlightType ==
    ASSUME Inv
    PROVE  Flight \in Seq(ScMsgs) /\ s2q \in Seq(ScMsgs) /\ mem \in [Addrs -> MemVals]
<1>1. /\ s2q \in Seq(ScMsgs) /\ mem \in [Addrs -> MemVals]
      /\ io.pc = "handle" => io.msg \in ScMsgs
  BY DEF Inv, BridgeTypeOK, WireTypeOK, QemuTypeOK
<1> QED
  BY <1>1 DEF Flight

(* A step of the NIC leaves them, or puts what it sends behind them.       *)
LEMMA FlightPut ==
    ASSUME Inv, UNCHANGED io
    PROVE  /\ UNCHANGED s2q => UNCHANGED Flight
           /\ \A m \in ScMsgs : PutS2q(m) => Puts(m)
<1>1. s2q \in Seq(ScMsgs) /\ (io.pc = "handle" => io.msg \in ScMsgs)
  BY DEF Inv, BridgeTypeOK, WireTypeOK, QemuTypeOK
<1>2. ASSUME NEW m \in ScMsgs, PutS2q(m) PROVE Flight' = Append(Flight, m)
  <2>1. s2q' = Append(s2q, m)
    BY <1>2 DEF PutS2q
  <2>2. CASE io.pc = "handle"
    <3>1. <<io.msg>> \o Append(s2q, m) = Append(<<io.msg>> \o s2q, m)
      BY <1>1, <2>2
    <3> QED
      BY <2>1, <2>2, <3>1 DEF Flight
  <2>3. CASE io.pc # "handle"
    BY <2>1, <2>3 DEF Flight
  <2> QED
    BY <2>2, <2>3
<1> QED
  BY <1>2 DEF Flight, Puts

(* A step of QEMU leaves them, or carries out the first.                   *)
Takes ==
    /\ Flight # <<>> /\ io.pc = "handle" /\ Head(Flight) = io.msg /\ io'.pc # "handle"
    /\ Flight' = Tail(Flight) /\ mem' = After(mem, Head(Flight))

LEMMA FlightTaken == ASSUME Inv, QemuStep PROVE UNCHANGED <<Flight, mem>> \/ Takes
<1>1. /\ s2q \in Seq(ScMsgs) /\ StaysOK
      /\ io \in [pc : {"accept", "recv", "handle", "reply", "cleanup", "dead", "lost"},
                 msg : ScMsgs \cup QemuMsgs \cup {NoMsg}]
      /\ io.pc = "handle" => io.msg \in ScMsgs
  BY DEF Inv, BridgeTypeOK, WireTypeOK, QemuTypeOK
<1>2. CASE UNCHANGED <<s2q, io, mem>>
  BY <1>2 DEF Flight
<1>3. CASE IoThread
  <2>1. CASE IoAccept \/ IoReply
    <3>1. UNCHANGED <<s2q, mem>> /\ io.pc # "handle" /\ io'.pc # "handle"
      BY <1>1, <2>1 DEF IoAccept, IoReply, Handled
    <3> QED
      BY <3>1 DEF Flight
  <2>2. CASE IoRecv
    <3>1. /\ io.pc = "recv" /\ s2q # <<>> /\ s2q' = Tail(s2q) /\ UNCHANGED mem
          /\ io'.pc = "handle" /\ io'.msg = Head(s2q)
      BY <2>2 DEF IoRecv
    <3>2. <<Head(s2q)>> \o Tail(s2q) = s2q
      BY <1>1, <3>1
    <3> QED
      BY <3>1, <3>2 DEF Flight
  <2>3. CASE IoMmioReadResp \/ IoMmioWriteResp \/ IoDmaRead \/ IoDmaWrite \/ IoMsi
    <3>1. io.pc = "handle" /\ io'.pc # "handle" /\ UNCHANGED s2q
      BY <2>3 DEF IoMmioReadResp, IoMmioWriteResp, IoDmaRead, IoDmaWrite, IoMsi, Handles, Handled
    <3>2. mem' = After(mem, io.msg)
      <4>1. CASE IoDmaWrite
        BY <4>1 DEF IoDmaWrite, Handles, After
      <4>2. CASE IoMmioReadResp \/ IoMmioWriteResp \/ IoDmaRead \/ IoMsi
        BY <4>2 DEF IoMmioReadResp, IoMmioWriteResp, IoDmaRead, IoMsi, Handles, After
      <4> QED
        BY <2>3, <4>1, <4>2
    <3>3. /\ Tail(<<io.msg>> \o s2q) = s2q /\ Head(<<io.msg>> \o s2q) = io.msg
          /\ <<io.msg>> \o s2q # <<>>
      BY <1>1, <3>1
    <3> QED
      BY <3>1, <3>2, <3>3 DEF Flight, Takes
  <2> QED
    BY <1>1, <1>3, <2>1, <2>2, <2>3, Remains DEF IoThread
<1>4. ASSUME VcpuGoesOn, UNCHANGED s2q PROVE UNCHANGED <<s2q, io, mem>>
  BY <1>4 DEF VcpuGoesOn, MmioReadSend, MmioReadWake, MmioReadLost, MmioReadReturn, MmioWriteSend
<1>5. ASSUME GuestAccess PROVE UNCHANGED <<s2q, io, mem>>
  BY <1>5 DEF GuestAccess, GuestRead, MmioReadCached, MmioReadStart, RingTx, Written, MmioWrite
<1>6. ASSUME \E v \in Vectors : TakeMsi(v), UNCHANGED s2q PROVE UNCHANGED <<s2q, io, mem>>
  BY <1>6 DEF TakeMsi
<1> QED
  BY <1>2, <1>3, <1>4, <1>5, <1>6 DEF QemuStep, QemuRuns

(* What the NIC sends: an answer or an interrupt, the request of dma_read, *)
(* or the frame in hand and then its descriptor (nic.cpp:200-210).         *)
NetData == DmaWriteReq(net.desc.buf, First(Frame(net.pkt), net.desc.length))
NetBack == DmaWriteReq(Slot, RxBack)

LEMMA NicPuts ==
    ASSUME Inv, Still, NicStep \/ KernelStep \/ Inject
    PROVE  \/ UNCHANGED Flight /\ ~RxWriteData /\ ~RxWriteBack /\ ~RxIrq
           \/ \E m \in ScMsgs : /\ Puts(m) /\ ~DmaMsg(m) /\ ~RxWriteData /\ ~RxWriteBack
                                /\ m = MsiIrq(1) => net.pc = "irq"
           \/ DmaReadSend /\ Puts(DmaReadReq(dma.addr)) /\ DmaReadReq(dma.addr) \in ScMsgs
           \/ RxWriteData /\ Puts(NetData) /\ NetData \in ScMsgs
           \/ RxWriteBack /\ Puts(NetBack) /\ NetBack \in ScMsgs
<1> USE DEF Inv, NicInv
<1>0. UNCHANGED io
  BY DEF NicStep, KernelStep, Inject, qemuVars
<1>1. /\ UNCHANGED s2q => UNCHANGED Flight
      /\ \A m \in ScMsgs : PutS2q(m) => Puts(m)
  BY <1>0, FlightPut
<1>2. /\ \A v \in {0, 1} : MsiIrq(v) \in ScMsgs /\ ~DmaMsg(MsiIrq(v)) /\ MsiIrq(v).vector = v
      /\ \A m : m = MsiIrq(1) => m.type = "MSI_IRQ" /\ m.vector = 1
  BY CoSimAssumption, ScMessages DEF MsiIrq, DmaMsg
<1>3. CASE SockThread
  <2>0. ~RxWriteData /\ ~RxWriteBack /\ ~RxIrq
    <3>1. net' = net
      BY <1>3 DEF SockThread, SockConnect, SockRecv, OnMmioRead, OnMmioWrite, OnMmioWriteIrq,
         SockAnswer, HandleDmaReadResp, HandleDmaWriteResp
    <3> QED
      BY <3>1 DEF NetOK, RxWriteData, RxWriteBack, RxIrq, Drop
  <2>1. /\ sock.pc = "answer" => sock.ans \in ScMsgs /\ ~DmaMsg(sock.ans) /\ sock.ans.type # "MSI_IRQ"
    <3>1. "OK" \in Status
      BY DEF Status
    <3> QED
      BY <3>1, ScMessages DEF SockOK, Answered, ReadResp, WriteResp, DmaMsg
  <2>2. CASE SockAnswer
    BY <1>1, <1>2, <2>0, <2>1, <2>2 DEF SockAnswer
  <2>3. CASE OnMmioWriteIrq
    BY <1>1, <1>2, <2>0, <2>3 DEF OnMmioWriteIrq
  <2>4. CASE ~SockAnswer /\ ~OnMmioWriteIrq
    <3>1. UNCHANGED s2q
      BY <1>3, <2>4 DEF SockThread, SockConnect, SockRecv, OnMmioRead, OnMmioWrite,
         HandleDmaReadResp, HandleDmaWriteResp, wireVars
    <3> QED
      BY <1>1, <2>0, <3>1
  <2> QED
    BY <2>2, <2>3, <2>4
<1>4. CASE NetThread
  <2>1. CASE RxWriteData
    <3>1. net.desc.buf \in Addrs /\ First(Frame(net.pkt), net.desc.length) \in MemVals
      BY <2>1, DescType, RxDataType DEF RxWriteData, NetOK
    <3>2. NetData \in ScMsgs
      BY <3>1, ScMessages DEF NetData
    <3>3. PutS2q(NetData)
      BY <2>1 DEF RxWriteData, NetData
    <3> QED
      BY <1>1, <2>1, <3>2, <3>3
  <2>2. CASE RxWriteBack
    <3>1. Slot \in Addrs /\ RxBack \in MemVals
      BY <2>2, DescType, RxBackType, Locations DEF RxWriteBack, NetOK, RegsOK, Slot
    <3>2. NetBack \in ScMsgs
      BY <3>1, ScMessages DEF NetBack
    <3>3. PutS2q(NetBack)
      BY <2>2 DEF RxWriteBack, RxBack, NetBack
    <3> QED
      BY <1>1, <2>2, <3>2, <3>3
  <2>3. CASE RxIrq
    <3>1. net.pc = "irq" /\ PutS2q(MsiIrq(1)) /\ ~RxWriteData /\ ~RxWriteBack
      BY <2>3 DEF RxIrq, RxWriteData, RxWriteBack
    <3> QED
      BY <1>1, <1>2, <3>1
  <2>4. CASE RxDrop \/ RxReadDesc \/ RxFailed \/ RxGotDesc
    <3>1. UNCHANGED s2q /\ net.pc \notin {"data", "wb", "irq"}
      BY <2>4 DEF RxDrop, RxReadDesc, RxFailed, RxGotDesc, wireVars
    <3> QED
      BY <1>1, <3>1 DEF RxWriteData, RxWriteBack, RxIrq
  <2> QED
    BY <1>4, <2>1, <2>2, <2>3, <2>4 DEF NetThread
<1>5. CASE DmaReadSend
  <2>1. DmaReadReq(dma.addr) \in ScMsgs
    BY ScMessages DEF DmaOK, DmaReadReq, ScMsgs
  <2> QED
    BY <1>1, <1>5, <2>1 DEF DmaReadSend
<1>6. CASE DmaReadDone \/ DmaReadTimeout \/ KernelStep \/ Inject
  <2>1. UNCHANGED s2q
    BY <1>6, KernelIdle DEF DmaReadDone, DmaReadTimeout, KernelStep, Inject, NetRecv, wireVars
  <2>2. ~RxWriteData /\ ~RxWriteBack /\ ~RxIrq
    <3>1. CASE DmaReadDone \/ DmaReadTimeout \/ KernelStep
      <4>1. net' = net
        BY <3>1, KernelIdle DEF DmaReadDone, DmaReadTimeout, KernelStep
      <4> QED
        BY <4>1 DEF NetOK, RxWriteData, RxWriteBack, RxIrq, Drop
    <3>2. CASE Inject
      BY <3>2 DEF Inject, NetRecv, RxWriteData, RxWriteBack, RxIrq
    <3> QED
      BY <1>6, <3>1, <3>2
  <2> QED
    BY <1>1, <2>1, <2>2
<1> QED
  BY <1>3, <1>4, <1>5, <1>6 DEF NicStep, OtherNicThread

\* A receive descriptor as the driver leaves it and as the NIC hands it back.
Ready(i) == [own |-> TRUE, done |-> FALSE, length |-> RxBufLen, buf |-> RxBuf(i)]
Full(i, d) == [Ready(i) EXCEPT !.own = FALSE, !.done = TRUE, !.length = d.len]

(***************************************************************************)
(* A receive slot, with memory M and the messages F under way: nobody has  *)
(* touched it; its frame d is written and its descriptor is not; both are  *)
(* written, the descriptor behind the frame and not yet in memory; the     *)
(* guest has both.                                                         *)
(***************************************************************************)
Empty(F, M, i) ==
    /\ M[RxDesc(i)] = Ready(i)
    /\ Writers(F, RxDesc(i)) = {} /\ Writers(F, RxBuf(i)) = {}

Filling(F, M, i, d) ==
    /\ M[RxDesc(i)] = Ready(i) /\ Writers(F, RxDesc(i)) = {}
    /\ \A p \in Writers(F, RxBuf(i)) : F[p].data = d
    /\ M[RxBuf(i)] = d \/ Writers(F, RxBuf(i)) # {}

Landing(F, M, i, d) ==
    /\ M[RxDesc(i)] = Ready(i) /\ Writers(F, RxDesc(i)) # {}
    /\ \A p \in Writers(F, RxBuf(i)) : F[p].data = d
    /\ \A p \in Writers(F, RxDesc(i)) :
          /\ F[p].data = Full(i, d)
          /\ M[RxBuf(i)] = d \/ \E q \in Writers(F, RxBuf(i)) : q < p
          /\ \A q \in Writers(F, RxBuf(i)) : q < p
          /\ \A q \in Writers(F, RxDesc(i)) : q = p

Filled(F, M, i, d) ==
    /\ M[RxDesc(i)] = Full(i, d) /\ M[RxBuf(i)] = d
    /\ Writers(F, RxDesc(i)) = {} /\ Writers(F, RxBuf(i)) = {}

-----------------------------------------------------------------------------
(* What a message sent and a message carried out do to a slot. *)

\* What a frame leaves in its buffer; runs of bytes that QEMU does not cut.
Cut(b) == First(b, RxBufLen)
Fits == {b \in Bytes : b.len <= DMA_BUF_SIZE}

(* A receive buffer takes as much of a frame as it holds (nic.cpp:198-208).*)
LEMMA CutFits ==
    ASSUME NEW b \in Bytes
    PROVE  /\ Cut(b) \in Fits /\ Cut(b) \notin Descs
           /\ Cut(b).len = Smaller(b.len, RxBufLen)
<1>1. RxBufLen \in Lengths /\ RxBufLen \in Nat /\ b.len \in Lengths /\ b.len \in Nat
      /\ RxBufLen <= DMA_BUF_SIZE
  BY CoSimAssumption, LengthsAssumption DEF Bytes
<1>2. /\ Smaller(b.len, RxBufLen) \in Lengths
      /\ Smaller(b.len, RxBufLen) \in Nat /\ Smaller(b.len, RxBufLen) <= RxBufLen
  BY <1>1 DEF Smaller
<1>3. \A c \in Bytes : c \notin Descs
  BY DEF Bytes, Descs
<1>4. Cut(b) = [b EXCEPT !.len = Smaller(b.len, RxBufLen)]
  BY <1>3 DEF Cut, First
<1>5. Cut(b) \in Bytes /\ Cut(b).len = Smaller(b.len, RxBufLen)
  BY <1>2, <1>4 DEF Bytes
<1> QED
  BY <1>1, <1>2, <1>3, <1>5 DEF Fits, DMA_BUF_SIZE

(* QEMU writes what fits, and descriptors, as they are.                    *)
LEMMA NotCapped ==
    /\ \A d \in Fits : Capped(d) = d
    /\ \A d \in Descs : Capped(d) = d
    /\ \A i \in RxSlots : Ready(i) \in Descs
    /\ \A i \in RxSlots, d \in Fits : Full(i, d) \in Descs
<1>1. ASSUME NEW d \in Fits PROVE Capped(d) = d
  <2>1. d \in Bytes /\ d.len \in Nat /\ d.len <= DMA_BUF_SIZE
    BY LengthsAssumption DEF Fits, Bytes
  <2>2. Smaller(d.len, DMA_BUF_SIZE) = d.len
    BY <2>1 DEF Smaller, DMA_BUF_SIZE
  <2>3. [d EXCEPT !.len = d.len] = d
    BY <2>1 DEF Bytes
  <2> QED
    BY <2>2, <2>3 DEF Capped, First
<1>2. \A d \in Descs : Capped(d) = d
  BY DEF Capped, First
<1>3. ASSUME NEW i \in RxSlots PROVE Ready(i) \in Descs
  BY Locations, CoSimAssumption DEF Ready, Descs
<1>4. ASSUME NEW i \in RxSlots, NEW d \in Fits PROVE Full(i, d) \in Descs
  BY <1>3 DEF Full, Fits, Bytes, Descs
<1> QED
  BY <1>1, <1>2, <1>3, <1>4

(* No two of the locations the driver uses are the same.                   *)
LEMMA Apart ==
    /\ \A i, j : /\ RxDesc(i) = RxDesc(j) <=> i = j
                 /\ RxBuf(i) = RxBuf(j) <=> i = j
                 /\ TxDesc(i) = TxDesc(j) <=> i = j
                 /\ TxBuf(i) = TxBuf(j) <=> i = j
    /\ \A i, j : /\ RxDesc(i) # RxBuf(j) /\ RxDesc(i) # TxDesc(j) /\ RxDesc(i) # TxBuf(j)
                 /\ RxBuf(i) # TxDesc(j) /\ RxBuf(i) # TxBuf(j) /\ TxDesc(i) # TxBuf(j)
    /\ \A i : DmaBuf \notin {RxDesc(i), RxBuf(i), TxDesc(i), TxBuf(i)}
    /\ \A i : Other \notin {RxDesc(i), RxBuf(i), TxDesc(i), TxBuf(i)}
    /\ Other # DmaBuf
BY DEF RxDesc, RxBuf, TxDesc, TxBuf, DmaBuf, Other

(* A message sent is behind all the others; it leaves what writes other    *)
(* locations as it was.                                                    *)
LEMMA WritersPut ==
    ASSUME NEW F \in Seq(ScMsgs), NEW m \in ScMsgs
    PROVE  /\ Append(F, m)[Len(F) + 1] = m /\ Len(F) \in Nat
           /\ \A a : \A p \in Writers(F, a) :
                 p \in Nat /\ p <= Len(F) /\ Append(F, m)[p] = F[p]
           /\ \A a : ~(m.type = "DMA_WRITE" /\ m.addr = a)
                     => Writers(Append(F, m), a) = Writers(F, a)
           /\ \A a : m.type = "DMA_WRITE" /\ m.addr = a
                     => Writers(Append(F, m), a) = Writers(F, a) \cup {Len(F) + 1}
<1> DEFINE G == Append(F, m)
<1>1. /\ DOMAIN F = 1 .. Len(F) /\ Len(F) \in Nat /\ DOMAIN G = 1 .. Len(F) + 1
      /\ \A p \in DOMAIN F : G[p] = F[p]
      /\ G[Len(F) + 1] = m
  BY AppendElements
<1> HIDE DEF G
<1>2. \A a : \A p \in Writers(F, a) : p \in Nat /\ p <= Len(F) /\ G[p] = F[p]
  BY <1>1 DEF Writers
<1>3. \A a : ~(m.type = "DMA_WRITE" /\ m.addr = a) => Writers(G, a) = Writers(F, a)
  BY <1>1 DEF Writers
<1>4. \A a : m.type = "DMA_WRITE" /\ m.addr = a
             => Writers(G, a) = Writers(F, a) \cup {Len(F) + 1}
  BY <1>1 DEF Writers
<1> QED
  BY <1>1, <1>2, <1>3, <1>4 DEF G

(* A message taken moves the others up.                                    *)
LEMMA WritersTake ==
    ASSUME NEW F \in Seq(ScMsgs), F # <<>>
    PROVE  /\ \A a : \A p : p \in Writers(Tail(F), a) <=> p \in Nat \ {0} /\ p + 1 \in Writers(F, a)
           /\ \A a : \A p \in Writers(Tail(F), a) : Tail(F)[p] = F[p + 1]
           /\ \A a : \A p \in Writers(F, a) :
                 p \in Nat \ {0} /\ (p = 1 \/ p - 1 \in Writers(Tail(F), a))
           /\ \A a : 1 \in Writers(F, a) <=> Head(F).type = "DMA_WRITE" /\ Head(F).addr = a
           /\ Head(F) = F[1]
<1> DEFINE G == Tail(F)
<1>1. /\ DOMAIN F = 1 .. Len(F) /\ Len(F) \in Nat \ {0} /\ DOMAIN G = 1 .. Len(F) - 1
      /\ \A p \in DOMAIN G : G[p] = F[p + 1]
      /\ Head(F) = F[1]
  OBVIOUS
<1> HIDE DEF G
<1>2. \A a : \A p : p \in Writers(G, a) <=> p \in Nat \ {0} /\ p + 1 \in Writers(F, a)
  <2> SUFFICES ASSUME NEW a, NEW p
               PROVE  p \in Writers(G, a) <=> p \in Nat \ {0} /\ p + 1 \in Writers(F, a)
    OBVIOUS
  <2>1. p \in DOMAIN G <=> p \in Nat \ {0} /\ p + 1 \in DOMAIN F
    BY <1>1
  <2> QED
    BY <1>1, <2>1 DEF Writers
<1>3. \A a : \A p \in Writers(F, a) : p \in Nat \ {0}
  BY <1>1 DEF Writers
<1>4. \A a : \A p \in Writers(F, a) : p = 1 \/ p - 1 \in Writers(G, a)
  BY <1>2, <1>3
<1>5. \A a : \A p \in Writers(G, a) : G[p] = F[p + 1]
  BY <1>1 DEF Writers
<1>6. \A a : 1 \in Writers(F, a) <=> Head(F).type = "DMA_WRITE" /\ Head(F).addr = a
  BY <1>1 DEF Writers
<1> QED
  BY <1>1, <1>2, <1>3, <1>4, <1>5, <1>6 DEF G

(* A message to somewhere else leaves a slot as it is.                     *)
LEMMA SlotPut ==
    ASSUME NEW F \in Seq(ScMsgs), NEW m \in ScMsgs,
           NEW M, NEW i, NEW d,
           m.type = "DMA_WRITE" => m.addr \notin {RxDesc(i), RxBuf(i)}
    PROVE  /\ Empty(F, M, i) => Empty(Append(F, m), M, i)
           /\ Filling(F, M, i, d) => Filling(Append(F, m), M, i, d)
           /\ Landing(F, M, i, d) => Landing(Append(F, m), M, i, d)
           /\ Filled(F, M, i, d) => Filled(Append(F, m), M, i, d)
<1> DEFINE G == Append(F, m)
<1>p. /\ G[Len(F) + 1] = m /\ Len(F) \in Nat
      /\ \A a : \A p \in Writers(F, a) : p \in Nat /\ p <= Len(F) /\ G[p] = F[p]
      /\ \A a : ~(m.type = "DMA_WRITE" /\ m.addr = a) => Writers(G, a) = Writers(F, a)
      /\ \A a : m.type = "DMA_WRITE" /\ m.addr = a
                => Writers(G, a) = Writers(F, a) \cup {Len(F) + 1}
  BY WritersPut
<1> HIDE DEF G
<1>0. /\ ~(m.type = "DMA_WRITE" /\ m.addr = RxDesc(i))
      /\ ~(m.type = "DMA_WRITE" /\ m.addr = RxBuf(i))
  OBVIOUS
<1>1. /\ Writers(G, RxDesc(i)) = Writers(F, RxDesc(i))
      /\ \A p \in Writers(F, RxDesc(i)) : G[p] = F[p]
  BY <1>0, <1>p
<1>2. /\ Writers(G, RxBuf(i)) = Writers(F, RxBuf(i))
      /\ \A p \in Writers(F, RxBuf(i)) : G[p] = F[p]
  BY <1>0, <1>p
<1>3. Empty(F, M, i) => Empty(G, M, i)
  BY <1>1, <1>2 DEF Empty
<1>4. Filling(F, M, i, d) => Filling(G, M, i, d)
  BY <1>1, <1>2 DEF Filling
<1>5. Landing(F, M, i, d) => Landing(G, M, i, d)
  BY <1>1, <1>2 DEF Landing
<1>6. Filled(F, M, i, d) => Filled(G, M, i, d)
  BY <1>1, <1>2 DEF Filled
<1> QED
  BY <1>3, <1>4, <1>5, <1>6 DEF G

(* The frame of an empty slot is written (nic.cpp:200).                    *)
LEMMA SlotFill ==
    ASSUME NEW F \in Seq(ScMsgs), NEW m \in ScMsgs,
           NEW M, NEW i, NEW d, Empty(F, M, i), m = DmaWriteReq(RxBuf(i), d)
    PROVE  Filling(Append(F, m), M, i, d)
<1> DEFINE G == Append(F, m)
<1>p. /\ G[Len(F) + 1] = m /\ Len(F) \in Nat
      /\ \A a : \A p \in Writers(F, a) : p \in Nat /\ p <= Len(F) /\ G[p] = F[p]
      /\ \A a : ~(m.type = "DMA_WRITE" /\ m.addr = a) => Writers(G, a) = Writers(F, a)
      /\ \A a : m.type = "DMA_WRITE" /\ m.addr = a
                => Writers(G, a) = Writers(F, a) \cup {Len(F) + 1}
  BY WritersPut
<1> HIDE DEF G
<1>1. m.type = "DMA_WRITE" /\ m.addr = RxBuf(i) /\ m.data = d /\ m.addr # RxDesc(i)
  BY Apart DEF DmaWriteReq
<1>2. M[RxDesc(i)] = Ready(i) /\ Writers(G, RxDesc(i)) = {}
  BY <1>1, <1>p DEF Empty
<1>3. Writers(G, RxBuf(i)) = {Len(F) + 1} /\ G[Len(F) + 1] = m
  BY <1>1, <1>p DEF Empty
<1> QED
  BY <1>1, <1>2, <1>3 DEF Filling, G

(* Its descriptor is written back (nic.cpp:203-209).                       *)
LEMMA SlotLand ==
    ASSUME NEW F \in Seq(ScMsgs), NEW m \in ScMsgs,
           NEW M, NEW i, NEW d, Filling(F, M, i, d), m = DmaWriteReq(RxDesc(i), Full(i, d))
    PROVE  Landing(Append(F, m), M, i, d)
<1> DEFINE G == Append(F, m)
<1>p. /\ G[Len(F) + 1] = m /\ Len(F) \in Nat
      /\ \A a : \A p \in Writers(F, a) : p \in Nat /\ p <= Len(F) /\ G[p] = F[p]
      /\ \A a : ~(m.type = "DMA_WRITE" /\ m.addr = a) => Writers(G, a) = Writers(F, a)
      /\ \A a : m.type = "DMA_WRITE" /\ m.addr = a
                => Writers(G, a) = Writers(F, a) \cup {Len(F) + 1}
  BY WritersPut
<1> HIDE DEF G
<1>1. /\ m.type = "DMA_WRITE" /\ m.addr = RxDesc(i) /\ m.data = Full(i, d)
      /\ m.addr # RxBuf(i)
  BY Apart DEF DmaWriteReq
<1>2. /\ M[RxDesc(i)] = Ready(i) /\ Writers(F, RxDesc(i)) = {}
      /\ \A p \in Writers(F, RxBuf(i)) : F[p].data = d
      /\ M[RxBuf(i)] = d \/ Writers(F, RxBuf(i)) # {}
  BY DEF Filling
<1>3. Writers(G, RxDesc(i)) = {Len(F) + 1} /\ G[Len(F) + 1] = m /\ Len(F) \in Nat
  BY <1>1, <1>2, <1>p
<1>4. /\ Writers(G, RxBuf(i)) = Writers(F, RxBuf(i))
      /\ \A p \in Writers(F, RxBuf(i)) : p \in Nat /\ p <= Len(F) /\ G[p] = F[p]
  BY <1>1, <1>p
<1>5. /\ \A p \in Writers(G, RxBuf(i)) : G[p].data = d /\ p < Len(F) + 1
      /\ M[RxBuf(i)] = d \/ \E q \in Writers(G, RxBuf(i)) : q < Len(F) + 1
  BY <1>2, <1>3, <1>4
<1>6. Landing(G, M, i, d)
  BY <1>1, <1>2, <1>3, <1>5 DEF Landing
<1> QED
  BY <1>6 DEF G

(* Memory elsewhere does not matter to a slot.                             *)
LEMMA SlotMem ==
    ASSUME NEW F, NEW M, NEW N, NEW i, NEW d,
           N[RxDesc(i)] = M[RxDesc(i)], N[RxBuf(i)] = M[RxBuf(i)]
    PROVE  /\ Empty(F, M, i) => Empty(F, N, i)
           /\ Filling(F, M, i, d) => Filling(F, N, i, d)
           /\ Landing(F, M, i, d) => Landing(F, N, i, d)
           /\ Filled(F, M, i, d) => Filled(F, N, i, d)
BY DEF Empty, Filling, Landing, Filled

(* A message carried out: what was on its way arrives.                     *)
LEMMA SlotTake ==
    ASSUME NEW F \in Seq(ScMsgs), F # <<>>, NEW M \in [Addrs -> MemVals],
           NEW i \in RxSlots, NEW d \in Fits
    PROVE  LET G == Tail(F)
               N == After(M, Head(F))
           IN /\ Empty(F, M, i) => Empty(G, N, i)
              /\ Filling(F, M, i, d) => Filling(G, N, i, d)
              /\ Landing(F, M, i, d) => IF 1 \in Writers(F, RxDesc(i)) THEN Filled(G, N, i, d)
                                        ELSE Landing(G, N, i, d)
              /\ Filled(F, M, i, d) => Filled(G, N, i, d)
<1> DEFINE G == Tail(F)
           m == Head(F)
           N == After(M, m)
           D == RxDesc(i)
           B == RxBuf(i)
<1>1. /\ \A a : \A p : p \in Writers(G, a) <=> p \in Nat \ {0} /\ p + 1 \in Writers(F, a)
      /\ \A a : \A p \in Writers(G, a) : G[p] = F[p + 1]
      /\ \A a : \A p \in Writers(F, a) : p \in Nat \ {0} /\ (p = 1 \/ p - 1 \in Writers(G, a))
      /\ \A a : 1 \in Writers(F, a) <=> m.type = "DMA_WRITE" /\ m.addr = a
      /\ m = F[1]
  BY WritersTake
<1>2. D \in Addrs /\ B \in Addrs /\ D # B
  BY Locations, Apart
<1>c. Capped(d) = d /\ Capped(Full(i, d)) = Full(i, d)
  BY NotCapped
<1>3. /\ N[D] = IF 1 \in Writers(F, D) THEN Capped(F[1].data) ELSE M[D]
      /\ N[B] = IF 1 \in Writers(F, B) THEN Capped(F[1].data) ELSE M[B]
  BY <1>1, <1>2 DEF After
<1>4. /\ \A a : Writers(F, a) = {} => Writers(G, a) = {}
      /\ ~(1 \in Writers(F, D) /\ 1 \in Writers(F, B))
  BY <1>1, <1>2
<1> HIDE DEF G, m, N, D, B
<1>5. Empty(F, M, i) => Empty(G, N, i)
  BY <1>3, <1>4 DEF Empty, D, B
<1>6. Filled(F, M, i, d) => Filled(G, N, i, d)
  BY <1>3, <1>4 DEF Filled, D, B
<1>7. ASSUME Filling(F, M, i, d) PROVE Filling(G, N, i, d)
  <2>1. /\ M[D] = Ready(i) /\ Writers(F, D) = {}
        /\ \A p \in Writers(F, B) : F[p].data = d
        /\ M[B] = d \/ Writers(F, B) # {}
    BY <1>7 DEF Filling, D, B
  <2>2. N[D] = Ready(i) /\ Writers(G, D) = {}
    BY <1>3, <1>4, <2>1
  <2>3. \A p \in Writers(G, B) : G[p].data = d
    BY <1>1, <2>1
  <2>4. N[B] = d \/ Writers(G, B) # {}
    BY <1>1, <1>3, <1>c, <2>1
  <2> QED
    BY <2>2, <2>3, <2>4 DEF Filling, D, B
<1>8. ASSUME Landing(F, M, i, d)
      PROVE  IF 1 \in Writers(F, D) THEN Filled(G, N, i, d) ELSE Landing(G, N, i, d)
  <2>1. /\ M[D] = Ready(i) /\ Writers(F, D) # {}
        /\ \A p \in Writers(F, B) : F[p].data = d
        /\ \A p \in Writers(F, D) :
              /\ F[p].data = Full(i, d)
              /\ M[B] = d \/ \E q \in Writers(F, B) : q < p
              /\ \A q \in Writers(F, B) : q < p
              /\ \A q \in Writers(F, D) : q = p
    BY <1>8 DEF Landing, D, B
  <2>2. \A p \in Writers(G, B) : G[p].data = d
    BY <1>1, <2>1
  <2>3. CASE 1 \in Writers(F, D)
    <3>1. N[D] = Full(i, d)
      BY <1>3, <1>c, <2>1, <2>3
    <3>2. Writers(F, B) = {} /\ M[B] = d
      BY <1>1, <2>1, <2>3
    <3>3. Writers(G, D) = {}
      BY <1>1, <2>1, <2>3
    <3> QED
      BY <1>3, <1>4, <2>3, <3>1, <3>2, <3>3 DEF Filled, D, B
  <2>4. CASE 1 \notin Writers(F, D)
    <3>1. N[D] = Ready(i)
      BY <1>3, <2>1, <2>4
    <3>2. Writers(G, D) # {}
      BY <1>1, <2>1, <2>4
    <3>3. ASSUME NEW p \in Writers(G, D)
          PROVE  /\ G[p].data = Full(i, d)
                 /\ N[B] = d \/ \E q \in Writers(G, B) : q < p
                 /\ \A q \in Writers(G, B) : q < p
                 /\ \A q \in Writers(G, D) : q = p
      <4>1. p \in Nat \ {0} /\ p + 1 \in Writers(F, D) /\ G[p] = F[p + 1]
        BY <1>1
      <4>2. \A q \in Writers(G, D) : q = p
        <5> TAKE q \in Writers(G, D)
        <5>1. q + 1 = p + 1 /\ q \in Nat
          BY <1>1, <2>1, <4>1
        <5> QED
          BY <4>1, <5>1
      <4>3. \A q \in Writers(G, B) : q < p
        <5> TAKE q \in Writers(G, B)
        <5>1. q + 1 < p + 1 /\ q \in Nat
          BY <1>1, <2>1, <4>1
        <5> QED
          BY <4>1, <5>1
      <4>4. N[B] = d \/ \E q \in Writers(G, B) : q < p
        <5>1. CASE 1 \in Writers(F, B)
          BY <1>3, <1>c, <2>1, <5>1
        <5>2. CASE 1 \notin Writers(F, B)
          BY <1>1, <1>3, <2>1, <4>1, <4>3, <5>2
        <5> QED
          BY <5>1, <5>2
      <4> QED
        BY <2>1, <4>1, <4>2, <4>3, <4>4
    <3> QED
      BY <2>2, <2>4, <3>1, <3>2, <3>3 DEF Landing, D, B
  <2> QED
    BY <2>3, <2>4
<1> QED
  BY <1>5, <1>6, <1>7, <1>8 DEF G, N, m, D

-----------------------------------------------------------------------------
(* What dma_read returns.  Requests to memory keep their order, and so do  *)
(* QEMU's answers: while dma_read waits, either its request is under way   *)
(* and no DMA behind it, or no DMA is under way at all, and the newest     *)
(* answer is what memory holds.  Older answers and acknowledgements may    *)
(* end the wait before (H1): what dma_read then returns is not genuine.    *)

NoDma(F) == \A p \in DOMAIN F : ~DmaMsg(F[p])
Asked(F) ==
    \E p \in DOMAIN F : /\ F[p] = DmaReadReq(dma.addr)
                        /\ \A q \in DOMAIN F : q > p => ~DmaMsg(F[q])

\* What the socket thread has in hand or before it; the last answer to a
\* dma_read in S, or r if there is none, holds v.
Inbound == IF sock.pc = "handle" THEN <<sock.msg>> \o q2s ELSE q2s
LastRead(S, r, v) ==
    \/ \E p \in DOMAIN S : /\ S[p] = DmaReadResp(v)
                           /\ \A q \in DOMAIN S : q > p => ~ReadMsg(S[q])
    \/ (\A p \in DOMAIN S : ~ReadMsg(S[p])) /\ r = [data |-> v]

Replying == io.pc = "reply" /\ ReadMsg(io.msg)
Newest(v) ==
    IF Replying THEN io.msg = DmaReadResp(v) ELSE LastRead(Inbound, m_dma_resp, v)

ReadInv ==
    /\ dma.st # "idle" => dma.addr = Slot
    /\ dma.st = "wait" =>
          Asked(Flight) \/ (NoDma(Flight) /\ Newest(Capped(mem[dma.addr])))
    /\ dma.st = "true" /\ genuine =>
          NoDma(Flight) /\ dma.data = [data |-> Capped(mem[dma.addr])]

\* A message that is no DMA does not get in the way.
LEMMA AskedPut ==
    ASSUME NEW F \in Seq(ScMsgs), NEW m \in ScMsgs
    PROVE  /\ NoDma(F) /\ ~DmaMsg(m) => NoDma(Append(F, m))
           /\ Asked(F) /\ ~DmaMsg(m) => Asked(Append(F, m))
           /\ m = DmaReadReq(dma.addr) => Asked(Append(F, m))
<1> DEFINE G == Append(F, m)
<1>1. /\ DOMAIN F = 1 .. Len(F) /\ Len(F) \in Nat /\ DOMAIN G = 1 .. Len(F) + 1
      /\ \A p \in DOMAIN F : G[p] = F[p]
      /\ G[Len(F) + 1] = m
  BY AppendElements
<1> HIDE DEF G
<1>2. \A p \in DOMAIN G : (p \in DOMAIN F /\ G[p] = F[p]) \/ (p = Len(F) + 1 /\ G[p] = m)
  BY <1>1
<1>3. NoDma(F) /\ ~DmaMsg(m) => NoDma(G)
  BY <1>2 DEF NoDma
<1>4. ASSUME Asked(F), ~DmaMsg(m) PROVE Asked(G)
  <2>1. PICK p \in DOMAIN F : /\ F[p] = DmaReadReq(dma.addr)
                              /\ \A q \in DOMAIN F : q > p => ~DmaMsg(F[q])
    BY <1>4 DEF Asked
  <2>2. p \in DOMAIN G /\ G[p] = DmaReadReq(dma.addr)
    BY <1>1, <2>1
  <2>3. \A q \in DOMAIN G : q > p => ~DmaMsg(G[q])
    BY <1>2, <1>4, <2>1
  <2> QED
    BY <2>2, <2>3 DEF Asked
<1>5. ASSUME m = DmaReadReq(dma.addr) PROVE Asked(G)
  <2>1. Len(F) + 1 \in DOMAIN G /\ G[Len(F) + 1] = DmaReadReq(dma.addr)
    BY <1>1, <1>5
  <2>2. \A q \in DOMAIN G : ~(q > Len(F) + 1)
    BY <1>1
  <2> QED
    BY <2>1, <2>2 DEF Asked
<1> QED
  BY <1>3, <1>4, <1>5 DEF G

\* Once the request is carried out, no DMA is under way.
LEMMA AskedTake ==
    ASSUME NEW F \in Seq(ScMsgs), F # <<>>
    PROVE  /\ NoDma(F) => NoDma(Tail(F)) /\ ~DmaMsg(Head(F))
           /\ Asked(F) => \/ Asked(Tail(F))
                          \/ Head(F) = DmaReadReq(dma.addr) /\ NoDma(Tail(F))
<1> DEFINE G == Tail(F)
<1>1. /\ DOMAIN F = 1 .. Len(F) /\ Len(F) \in Nat \ {0} /\ DOMAIN G = 1 .. Len(F) - 1
      /\ \A p \in DOMAIN G : G[p] = F[p + 1]
      /\ Head(F) = F[1]
  OBVIOUS
<1> HIDE DEF G
<1>2. /\ \A p \in DOMAIN G : p \in Nat /\ p + 1 \in DOMAIN F /\ p + 1 > 1 /\ G[p] = F[p + 1]
      /\ 1 \in DOMAIN F
  BY <1>1
<1>3. NoDma(F) => NoDma(G) /\ ~DmaMsg(Head(F))
  BY <1>1, <1>2 DEF NoDma
<1>4. ASSUME Asked(F) PROVE Asked(G) \/ (Head(F) = DmaReadReq(dma.addr) /\ NoDma(G))
  <2>1. PICK p \in DOMAIN F : /\ F[p] = DmaReadReq(dma.addr)
                              /\ \A q \in DOMAIN F : q > p => ~DmaMsg(F[q])
    BY <1>4 DEF Asked
  <2>2. CASE p = 1
    BY <1>1, <1>2, <2>1, <2>2 DEF NoDma
  <2>3. CASE p # 1
    <3>1. p - 1 \in DOMAIN G /\ G[p - 1] = F[p]
      BY <1>1, <2>3
    <3>2. \A q \in DOMAIN G : q > p - 1 => ~DmaMsg(G[q])
      BY <1>1, <1>2, <2>1
    <3> QED
      BY <2>1, <3>1, <3>2 DEF Asked
  <2> QED
    BY <2>2, <2>3
<1> QED
  BY <1>3, <1>4 DEF G

\* An answer behind the others is the last; what is no answer changes nothing.
LEMMA LastReadPut ==
    ASSUME NEW S \in Seq(QemuMsgs), NEW m \in QemuMsgs, NEW r, NEW v
    PROVE  /\ m = DmaReadResp(v) => LastRead(Append(S, m), r, v)
           /\ LastRead(S, r, v) /\ ~ReadMsg(m) => LastRead(Append(S, m), r, v)
<1> DEFINE T == Append(S, m)
<1>1. /\ DOMAIN S = 1 .. Len(S) /\ Len(S) \in Nat /\ DOMAIN T = 1 .. Len(S) + 1
      /\ \A p \in DOMAIN S : T[p] = S[p]
      /\ T[Len(S) + 1] = m
  BY AppendElements
<1> HIDE DEF T
<1>2. \A p \in DOMAIN T : (p \in DOMAIN S /\ T[p] = S[p]) \/ (p = Len(S) + 1 /\ T[p] = m)
  BY <1>1
<1>3. ASSUME m = DmaReadResp(v) PROVE LastRead(T, r, v)
  <2>1. Len(S) + 1 \in DOMAIN T /\ T[Len(S) + 1] = DmaReadResp(v)
    BY <1>1, <1>3
  <2>2. \A q \in DOMAIN T : ~(q > Len(S) + 1)
    BY <1>1
  <2> QED
    BY <2>1, <2>2 DEF LastRead
<1>4. ASSUME LastRead(S, r, v), ~ReadMsg(m) PROVE LastRead(T, r, v)
  <2>1. CASE \E p \in DOMAIN S : /\ S[p] = DmaReadResp(v)
                                 /\ \A q \in DOMAIN S : q > p => ~ReadMsg(S[q])
    <3>1. PICK p \in DOMAIN S : /\ S[p] = DmaReadResp(v)
                                /\ \A q \in DOMAIN S : q > p => ~ReadMsg(S[q])
      BY <2>1
    <3>2. p \in DOMAIN T /\ T[p] = DmaReadResp(v)
      BY <1>1, <3>1
    <3>3. \A q \in DOMAIN T : q > p => ~ReadMsg(T[q])
      BY <1>2, <1>4, <3>1
    <3> QED
      BY <3>2, <3>3 DEF LastRead
  <2>2. CASE (\A p \in DOMAIN S : ~ReadMsg(S[p])) /\ r = [data |-> v]
    BY <1>2, <1>4, <2>2 DEF LastRead
  <2> QED
    BY <1>4, <2>1, <2>2 DEF LastRead
<1> QED
  BY <1>3, <1>4 DEF T

\* The socket thread stores the answer it serves (pcie_bridge.cpp:137-139).
LEMMA LastReadTake ==
    ASSUME NEW S \in Seq(QemuMsgs), S # <<>>, NEW r, NEW v, LastRead(S, r, v),
           NEW n, n = IF ReadMsg(Head(S)) THEN [data |-> Head(S).data] ELSE r
    PROVE  LastRead(Tail(S), n, v)
<1> DEFINE T == Tail(S)
<1>1. /\ DOMAIN S = 1 .. Len(S) /\ Len(S) \in Nat \ {0} /\ DOMAIN T = 1 .. Len(S) - 1
      /\ \A p \in DOMAIN T : T[p] = S[p + 1]
      /\ Head(S) = S[1]
  OBVIOUS
<1> HIDE DEF T
<1>2. /\ \A p \in DOMAIN T : p \in Nat /\ p + 1 \in DOMAIN S /\ p + 1 > 1 /\ T[p] = S[p + 1]
      /\ 1 \in DOMAIN S
  BY <1>1
<1>3. CASE \E p \in DOMAIN S : /\ S[p] = DmaReadResp(v)
                               /\ \A q \in DOMAIN S : q > p => ~ReadMsg(S[q])
  <2>1. PICK p \in DOMAIN S : /\ S[p] = DmaReadResp(v)
                              /\ \A q \in DOMAIN S : q > p => ~ReadMsg(S[q])
    BY <1>3
  <2>2. CASE p = 1
    <3>1. ReadMsg(Head(S)) /\ Head(S).data = v
      BY <1>1, <2>1, <2>2 DEF ReadMsg, DmaReadResp
    <3>2. \A q \in DOMAIN T : ~ReadMsg(T[q])
      BY <1>2, <2>1, <2>2
    <3> QED
      BY <3>1, <3>2 DEF LastRead, T
  <2>3. CASE p # 1
    <3>1. p - 1 \in DOMAIN T /\ T[p - 1] = S[p]
      BY <1>1, <2>3
    <3>2. \A q \in DOMAIN T : q > p - 1 => ~ReadMsg(T[q])
      BY <1>1, <1>2, <2>1
    <3> QED
      BY <2>1, <3>1, <3>2 DEF LastRead, T
  <2> QED
    BY <2>2, <2>3
<1>4. CASE (\A p \in DOMAIN S : ~ReadMsg(S[p])) /\ r = [data |-> v]
  <2>1. n = r
    BY <1>1, <1>2, <1>4
  <2> QED
    BY <1>2, <1>4, <2>1 DEF LastRead, T
<1> QED
  BY <1>3, <1>4 DEF LastRead

\* What is before the socket thread are messages of QEMU's.
LEMMA InboundType ==
    ASSUME Inv
    PROVE  /\ Inbound \in Seq(QemuMsgs) /\ q2s \in Seq(QemuMsgs)
           /\ sock.pc = "handle" => sock.msg \in QemuMsgs
BY DEF Inv, BridgeTypeOK, WireTypeOK, NicInv, SockOK, Inbound

-----------------------------------------------------------------------------
(* How the steps change what dma_read waits for. *)

(* The socket thread takes what QEMU sent in its order, and keeps answers. *)
LEMMA NicInbound ==
    ASSUME Inv, Still, NicStep \/ KernelStep \/ Inject
    PROVE  \/ UNCHANGED <<Inbound, m_dma_resp>>
           \/ /\ Inbound # <<>> /\ Inbound' = Tail(Inbound)
              /\ m_dma_resp' = IF ReadMsg(Head(Inbound)) THEN [data |-> Head(Inbound).data]
                               ELSE m_dma_resp
           \/ RxReadDesc
<1>1. /\ q2s \in Seq(QemuMsgs)
      /\ sock.pc = "handle" => sock.msg \in QemuMsgs
      /\ Inbound \in Seq(QemuMsgs)
      /\ sock \in [pc : {"connect", "recv", "handle", "irq", "answer"},
                   msg : QemuMsgs \cup {NoMsg}, ans : ScMsgs \cup {NoMsg}]
  BY InboundType DEF Inv, NicInv, SockOK
<1>2. CASE UNCHANGED <<sock, q2s, m_dma_resp>>
  BY <1>2 DEF Inbound
<1>3. CASE SockConnect \/ OnMmioWriteIrq \/ SockAnswer
  <2>1. sock.pc # "handle" /\ sock'.pc # "handle" /\ UNCHANGED <<q2s, m_dma_resp>>
    <3>1. CASE SockConnect
      BY <1>1, <3>1 DEF SockConnect, dmaVars
    <3>2. CASE OnMmioWriteIrq
      BY <1>1, <3>2 DEF OnMmioWriteIrq, Answering, dmaVars
    <3>3. CASE SockAnswer
      BY <1>1, <3>3 DEF SockAnswer, Served, dmaVars
    <3> QED
      BY <1>3, <3>1, <3>2, <3>3
  <2> QED
    BY <2>1 DEF Inbound
<1>4. CASE SockRecv
  <2>1. /\ sock.pc # "handle" /\ sock'.pc = "handle" /\ sock'.msg = Head(q2s) /\ q2s # <<>>
        /\ q2s' = Tail(q2s) /\ m_dma_resp' = m_dma_resp
    BY <1>1, <1>4 DEF SockRecv, dmaVars
  <2>2. <<Head(q2s)>> \o Tail(q2s) = q2s
    BY <1>1, <2>1
  <2> QED
    BY <2>1, <2>2 DEF Inbound
<1>5. CASE OnMmioRead \/ OnMmioWrite \/ HandleDmaReadResp \/ HandleDmaWriteResp
  <2>1. /\ sock.pc = "handle" /\ sock'.pc # "handle" /\ q2s' = q2s
        /\ m_dma_resp' = IF ReadMsg(sock.msg) THEN [data |-> sock.msg.data] ELSE m_dma_resp
    <3>1. CASE OnMmioRead \/ OnMmioWrite
      <4>1. /\ sock.pc = "handle" /\ sock.msg.type # "DMA_READ" /\ UNCHANGED <<q2s, m_dma_resp>>
            /\ \/ sock' = [sock EXCEPT !.pc = "irq"]
               \/ \E m : sock' = [sock EXCEPT !.pc = "answer", !.ans = m]
        <5>1. CASE OnMmioRead
          BY <5>1 DEF OnMmioRead, Serves, Answering, wireVars, dmaVars
        <5>2. CASE OnMmioWrite
          BY <5>2 DEF OnMmioWrite, Serves, Answering, wireVars, dmaVars
        <5> QED
          BY <3>1, <5>1, <5>2
      <4> QED
        BY <1>1, <4>1 DEF ReadMsg
    <3>2. CASE HandleDmaReadResp \/ HandleDmaWriteResp
      BY <1>1, <3>2 DEF HandleDmaReadResp, HandleDmaWriteResp, Serves, Served, ReadMsg, wireVars
    <3> QED
      BY <1>5, <3>1, <3>2
  <2>2. /\ Tail(<<sock.msg>> \o q2s) = q2s /\ Head(<<sock.msg>> \o q2s) = sock.msg
        /\ <<sock.msg>> \o q2s # <<>>
    BY <1>1, <2>1
  <2> QED
    BY <2>1, <2>2 DEF Inbound
<1>6. NetThread => RxReadDesc \/ UNCHANGED <<sock, q2s, m_dma_resp>>
  BY DEF NetThread, RxDrop, RxFailed, RxGotDesc, RxWriteData, RxWriteBack, RxIrq, wireVars, dmaVars
<1>7. DmaReadSend \/ DmaReadDone \/ DmaReadTimeout \/ Inject => UNCHANGED <<sock, q2s, m_dma_resp>>
  BY DEF DmaReadSend, DmaReadDone, DmaReadTimeout, Inject, NetRecv, wireVars, dmaVars
<1>8. KernelStep => UNCHANGED <<sock, q2s, m_dma_resp>>
  BY KernelIdle DEF KernelStep, wireVars, dmaVars
<1> QED
  BY <1>2, <1>3, <1>4, <1>5, <1>6, <1>7, <1>8 DEF NicStep, SockThread, OtherNicThread

(* QEMU answers a read it carries out with what memory holds then, and its *)
(* answers keep their order (smarteth_sc_bridge.c:290-330).                *)
Passive == UNCHANGED <<Flight, mem>> /\ (io'.pc = "reply" <=> io.pc = "reply")
           /\ (io.pc = "reply" => io'.msg = io.msg)
LEMMA QemuReads ==
    ASSUME Inv, QemuStep
    PROVE  /\ UNCHANGED <<sock, m_dma_resp, dma, genuine, m_regs, net>>
           /\ \/ Passive /\ UNCHANGED q2s
              \/ Passive /\ \E m \in QemuMsgs : ~ReadMsg(m) /\ q2s' = Append(q2s, m)
              \/ /\ UNCHANGED <<Flight, mem>> /\ io.pc = "reply" /\ io'.pc # "reply"
                 /\ io.msg \in QemuMsgs /\ q2s' = Append(q2s, io.msg)
              \/ /\ Takes /\ UNCHANGED q2s
                 /\ IF ReadMsg(Head(Flight))
                    THEN io' = [pc |-> "reply",
                                msg |-> DmaReadResp(Capped(mem[Head(Flight).addr]))]
                    ELSE ~Replying'
<1>1. /\ s2q \in Seq(ScMsgs) /\ StaysOK /\ q2s \in Seq(QemuMsgs)
      /\ io \in [pc : {"accept", "recv", "handle", "reply", "cleanup", "dead", "lost"},
                 msg : ScMsgs \cup QemuMsgs \cup {NoMsg}]
      /\ io.pc = "handle" => io.msg \in ScMsgs
      /\ io.pc = "reply" => io.msg \in QemuMsgs
      /\ vcpu \in [pc : {"guest", "rsend", "rwait", "rlock", "wsend", "lost"},
                   reg : RegNames, val : Nat, status : Status]
  BY DEF Inv, BridgeTypeOK, WireTypeOK, QemuTypeOK, MmioTypeOK
<1>2. UNCHANGED <<Flight, mem>> \/ Takes
  BY FlightTaken
<1>3. UNCHANGED <<sock, m_dma_resp, dma, genuine, m_regs, net>>
  BY DEF QemuStep, nicVars, dmaVars
<1>4. CASE UNCHANGED <<s2q, io, mem>>
  <2>1. Passive
    BY <1>4 DEF Passive, Flight
  <2>2. UNCHANGED q2s \/ \E m \in QemuMsgs : ~ReadMsg(m) /\ q2s' = Append(q2s, m)
    <3>1. ReadReq(vcpu.reg) \in QemuMsgs /\ ~ReadMsg(ReadReq(vcpu.reg))
      BY <1>1 DEF ReadReq, QemuMsgs, ReadMsg
    <3>2. WriteReq(vcpu.reg, vcpu.val) \in QemuMsgs /\ ~ReadMsg(WriteReq(vcpu.reg, vcpu.val))
      BY <1>1 DEF WriteReq, QemuMsgs, ReadMsg
    <3>3. VcpuGoesOn =>
            UNCHANGED q2s \/ \E m \in QemuMsgs : ~ReadMsg(m) /\ q2s' = Append(q2s, m)
      BY <3>1, <3>2 DEF VcpuGoesOn, MmioReadSend, MmioReadWake, MmioReadLost, MmioReadReturn,
         MmioWriteSend, Send, PutQ2s
    <3>4. GuestAccess => UNCHANGED q2s
      BY DEF GuestAccess, GuestRead, MmioReadCached, MmioReadStart, RingTx, Written, MmioWrite
    <3>5. (\E v \in Vectors : TakeMsi(v)) => UNCHANGED q2s
      BY DEF TakeMsi
    <3>6. IoThread => UNCHANGED q2s
      <4>1. ~IoReply
        BY <1>1, <1>4 DEF IoReply, Handled
      <4> QED
        BY <1>1, <4>1, Remains DEF IoThread, IoAccept, IoRecv, IoMmioReadResp, IoMmioWriteResp,
           IoDmaRead, IoDmaWrite, IoMsi
    <3> QED
      BY <3>3, <3>4, <3>5, <3>6 DEF QemuStep, QemuRuns
  <2> QED
    BY <1>3, <2>1, <2>2
<1>5. CASE IoThread /\ ~UNCHANGED <<s2q, io, mem>>
  <2>1. CASE IoAccept
    <3>1. UNCHANGED <<q2s, s2q, mem>> /\ io.pc = "accept" /\ io'.pc = "recv"
      BY <1>1, <2>1 DEF IoAccept
    <3> QED
      BY <1>3, <3>1 DEF Passive, Flight
  <2>2. CASE IoRecv
    <3>1. UNCHANGED <<q2s, mem>> /\ io.pc = "recv" /\ io'.pc = "handle" /\ s2q # <<>>
          /\ io'.msg = Head(s2q) /\ s2q' = Tail(s2q)
      BY <2>2 DEF IoRecv
    <3>2. <<Head(s2q)>> \o Tail(s2q) = s2q
      BY <1>1, <3>1
    <3> QED
      BY <1>3, <3>1, <3>2 DEF Passive, Flight
  <2>3. CASE IoReply
    <3>1. UNCHANGED <<s2q, mem>> /\ io.pc = "reply" /\ io'.pc = "recv" /\ q2s' = Append(q2s, io.msg)
      BY <1>1, <2>3 DEF IoReply, Handled, Send, PutQ2s, StaysOK
    <3> QED
      BY <1>1, <1>3, <3>1 DEF Flight
  <2>4. CASE IoMmioReadResp \/ IoMmioWriteResp \/ IoDmaRead \/ IoDmaWrite \/ IoMsi
    <3>1. /\ io.pc = "handle" /\ UNCHANGED <<s2q, q2s>>
          /\ IF ReadMsg(io.msg) THEN io' = [pc |-> "reply", msg |-> DmaReadResp(Capped(mem[io.msg.addr]))]
             ELSE io' = [pc |-> "recv", msg |-> NoMsg] \/ io' = [pc |-> "reply", msg |-> DmaWriteResp]
      BY <2>4 DEF IoMmioReadResp, IoMmioWriteResp, IoDmaRead, IoDmaWrite, IoMsi, Handles, Handled,
         ReadMsg
    <3>2. Flight = <<io.msg>> \o s2q /\ Head(Flight) = io.msg /\ Tail(Flight) = s2q /\ Flight # <<>>
      BY <1>1, <3>1 DEF Flight
    <3>3. Flight' = s2q /\ io'.pc # "handle"
      BY <3>1 DEF Flight
    <3>4. Takes
      <4>1. s2q # <<io.msg>> \o s2q
        <5>1. Len(<<io.msg>> \o s2q) = Len(s2q) + 1 /\ Len(s2q) \in Nat
          BY <1>1, <3>1
        <5> QED
          BY <5>1
      <4>2. Flight' # Flight
        BY <3>2, <3>3, <4>1
      <4> QED
        BY <1>2, <4>2
    <3>5. ~ReadMsg(io.msg) => ~Replying'
      BY <3>1 DEF Replying, ReadMsg, DmaWriteResp
    <3> QED
      BY <1>3, <3>1, <3>2, <3>4, <3>5
  <2> QED
    BY <1>1, <1>5, <2>1, <2>2, <2>3, <2>4, Remains DEF IoThread
<1>6. VcpuGoesOn /\ UNCHANGED s2q => UNCHANGED <<s2q, io, mem>>
  BY DEF VcpuGoesOn, MmioReadSend, MmioReadWake, MmioReadLost, MmioReadReturn, MmioWriteSend
<1>7. GuestAccess => UNCHANGED <<s2q, io, mem>>
  BY DEF GuestAccess, GuestRead, MmioReadCached, MmioReadStart, RingTx, Written, MmioWrite
<1>8. (\E v \in Vectors : TakeMsi(v)) /\ UNCHANGED s2q => UNCHANGED <<s2q, io, mem>>
  BY DEF TakeMsi
<1> QED
  BY <1>4, <1>5, <1>6, <1>7, <1>8 DEF QemuStep, QemuRuns

(* The NIC's steps do no more to dma_read than its own; and the mutex      *)
(* keeps the tail where it is meanwhile.                                   *)
LEMMA NicReads ==
    ASSUME Inv, Still, NicStep \/ KernelStep \/ Inject
    PROVE  /\ UNCHANGED <<mem, io>>
           /\ genuine' => genuine
           /\ dma.st # "idle" => Slot' = Slot /\ ~RxReadDesc /\ ~RxWriteData /\ ~RxWriteBack
           /\ \/ UNCHANGED dma
              \/ DmaReadSend
              \/ DmaReadDone /\ genuine' = (genuine /\ OwnDmaData')
              \/ dma.st # "idle" /\ dma'.st = "false" /\ dma'.addr = dma.addr
              \/ dma'.st = "send" /\ dma'.addr = Slot'
              \/ dma'.st = "idle"
<1>1. /\ dma \in [st : {"idle", "send", "wait", "true", "false"}, addr : Addrs, data : DmaAnswers]
      /\ dma.st # "idle" => net.pc = "desc" /\ g_reg_mtx = "net"
  BY OnlyReader DEF Inv, NicInv, DmaOK
<1>2. UNCHANGED <<mem, io>> /\ (genuine' => genuine)
  <2>1. UNCHANGED <<mem, io>>
    BY DEF NicStep, KernelStep, Inject, qemuVars
  <2>2. genuine' => genuine
    BY Zenon DEF NicStep, KernelStep, Inject
  <2> QED
    BY <2>1, <2>2
<1>3. CASE SockThread \/ KernelStep \/ Inject
  <2>1. UNCHANGED dma /\ ~RxReadDesc /\ ~RxWriteData /\ ~RxWriteBack
    <3>1. CASE SockThread \/ KernelStep
      <4>1. UNCHANGED <<dma, net>>
        BY <3>1, KernelIdle DEF SockThread, SockConnect, SockRecv, OnMmioRead, OnMmioWrite,
           OnMmioWriteIrq, SockAnswer, HandleDmaReadResp, HandleDmaWriteResp, dmaVars, KernelStep
      <4> QED
        BY <4>1 DEF Inv, NicInv, NetOK, RxReadDesc, RxWriteData, RxWriteBack, Drop
    <3>2. CASE Inject
      BY <3>2 DEF Inject, NetRecv, RxReadDesc, RxWriteData, RxWriteBack, dmaVars
    <3> QED
      BY <1>3, <3>1, <3>2
  <2>2. g_reg_mtx # "none" => UNCHANGED m_regs
    BY <1>3, KernelIdle DEF SockThread, SockConnect, SockRecv, OnMmioRead, OnMmioWrite,
       OnMmioWriteIrq, SockAnswer, HandleDmaReadResp, HandleDmaWriteResp, KernelStep, Inject, NetRecv
  <2> QED
    BY <1>1, <1>2, <2>1, <2>2 DEF Slot
<1>4. CASE DmaReadSend \/ DmaReadTimeout
  BY <1>1, <1>2, <1>4 DEF DmaReadSend, DmaReadTimeout, RxReadDesc, RxWriteData, RxWriteBack, Slot
<1>5. CASE DmaReadDone
  <2>1. /\ UNCHANGED <<m_regs, net>> /\ dma.st = "wait"
        /\ NicStep => genuine' = (genuine /\ OwnDmaData')
    BY <1>5 DEF DmaReadDone, NicStep
  <2>2. NicStep
    <3>1. dma' # dma
      BY <1>1, <1>5 DEF DmaReadDone
    <3>2. KernelStep \/ Inject => dma' = dma
      BY KernelIdle DEF KernelStep, Inject, NetRecv, dmaVars
    <3> QED
      BY <3>1, <3>2
  <2> QED
    BY <1>1, <1>2, <1>5, <2>1, <2>2 DEF RxReadDesc, RxWriteData, RxWriteBack, Slot
<1>6. CASE RxDrop \/ RxReadDesc \/ RxWriteData \/ RxWriteBack \/ RxIrq
  <2>1. net.pc # "desc"
    BY <1>6 DEF RxDrop, RxReadDesc, RxWriteData, RxWriteBack, RxIrq
  <2>2. UNCHANGED dma \/ (dma'.st = "send" /\ dma'.addr = Slot')
    BY <1>6 DEF RxDrop, RxReadDesc, RxWriteData, RxWriteBack, RxIrq, dmaVars, DmaReadCall, Slot
  <2> QED
    BY <1>1, <1>2, <2>1, <2>2
<1>7. CASE RxFailed \/ RxGotDesc
  <2>1. dma'.st = "idle" /\ UNCHANGED m_regs /\ net.pc = "desc"
    BY <1>1, <1>7 DEF RxFailed, RxGotDesc, DmaReadReturned
  <2>2. Slot' = Slot /\ ~RxReadDesc /\ ~RxWriteData /\ ~RxWriteBack
    BY <2>1 DEF Slot, RxReadDesc, RxWriteData, RxWriteBack
  <2> QED
    BY <1>2, <2>1, <2>2
<1> QED
  BY <1>3, <1>4, <1>5, <1>6, <1>7 DEF NicStep, OtherNicThread, NetThread

(* Nothing of a read is under way: no request in flight, no answer before  *)
(* the socket thread.                                                      *)
LEMMA NoneUnderWay ==
    ASSUME Inv, ~ReadUnderWay
    PROVE  ~Asked(Flight) /\ ~Replying /\ \A p \in DOMAIN Inbound : ~ReadMsg(Inbound[p])
<1>1. /\ q2s \in Seq(QemuMsgs) /\ s2q \in Seq(ScMsgs)
  BY InboundType, FlightType
<1>2. /\ \A i \in DOMAIN q2s : ~ReadMsg(q2s[i])
      /\ \A i \in DOMAIN s2q : ~ReadMsg(s2q[i])
      /\ ~ReadMsg(io.msg) /\ ~ReadMsg(sock.msg)
  BY DEF ReadUnderWay
<1>3. \A p \in DOMAIN Flight : ~ReadMsg(Flight[p])
  <2>1. CASE io.pc = "handle"
    <3> SUFFICES ASSUME NEW p \in DOMAIN Flight PROVE ~ReadMsg(Flight[p])
      OBVIOUS
    <3>1. Flight = <<io.msg>> \o s2q
      BY <2>1 DEF Flight
    <3>2. Flight[p] = io.msg \/ \E i \in DOMAIN s2q : Flight[p] = s2q[i]
      <4>1. /\ DOMAIN Flight = 1 .. Len(s2q) + 1 /\ Len(s2q) \in Nat /\ DOMAIN s2q = 1 .. Len(s2q)
            /\ p = 1 => Flight[p] = io.msg
            /\ p # 1 => Flight[p] = s2q[p - 1]
        BY <1>1, <3>1
      <4>2. CASE p # 1
        <5>1. p - 1 \in DOMAIN s2q
          BY <4>1, <4>2
        <5> QED
          BY <4>1, <4>2, <5>1
      <4> QED
        BY <4>1, <4>2
    <3> QED
      BY <1>2, <3>2
  <2>2. CASE io.pc # "handle"
    BY <1>2, <2>2 DEF Flight
  <2> QED
    BY <2>1, <2>2
<1>4. \A p \in DOMAIN Inbound : ~ReadMsg(Inbound[p])
  <2>1. CASE sock.pc = "handle"
    <3> SUFFICES ASSUME NEW p \in DOMAIN Inbound PROVE ~ReadMsg(Inbound[p])
      OBVIOUS
    <3>1. Inbound = <<sock.msg>> \o q2s
      BY <2>1 DEF Inbound
    <3>2. Inbound[p] = sock.msg \/ \E i \in DOMAIN q2s : Inbound[p] = q2s[i]
      <4>1. /\ DOMAIN Inbound = 1 .. Len(q2s) + 1 /\ Len(q2s) \in Nat /\ DOMAIN q2s = 1 .. Len(q2s)
            /\ p = 1 => Inbound[p] = sock.msg
            /\ p # 1 => Inbound[p] = q2s[p - 1]
        BY <1>1, <3>1
      <4>2. CASE p # 1
        <5>1. p - 1 \in DOMAIN q2s
          BY <4>1, <4>2
        <5> QED
          BY <4>1, <4>2, <5>1
      <4> QED
        BY <4>1, <4>2
    <3> QED
      BY <1>2, <3>2
  <2>2. CASE sock.pc # "handle"
    BY <1>2, <2>2 DEF Inbound
  <2> QED
    BY <2>1, <2>2
<1> QED
  BY <1>2, <1>3, <1>4 DEF Asked, Replying, ReadMsg, DmaReadReq

(***************************************************************************)
(* dma_read returns true and genuine: then it returns what memory holds    *)
(* at the descriptor, and no DMA is under way.                             *)
(***************************************************************************)
LEMMA ReadDone ==
    ASSUME Inv, ReadInv, DmaReadDone, UNCHANGED <<mem, io>>, OwnDmaData'
    PROVE  NoDma(Flight) /\ m_dma_resp = [data |-> Capped(mem[dma.addr])]
<1>1. /\ dma.st = "wait" /\ UNCHANGED <<q2s, s2q, sock>> /\ dma'.st = "true"
  BY DEF DmaReadDone, wireVars, Inv, NicInv, DmaOK
<1>2. ~ReadUnderWay
  BY <1>1 DEF OwnDmaData, ReadUnderWay
<1>3. NoDma(Flight) /\ Newest(Capped(mem[dma.addr]))
  BY <1>1, <1>2, NoneUnderWay DEF ReadInv
<1>4. LastRead(Inbound, m_dma_resp, Capped(mem[dma.addr]))
  BY <1>2, <1>3, NoneUnderWay DEF Newest
<1>5. \A p \in DOMAIN Inbound : ~ReadMsg(Inbound[p])
  BY <1>2, NoneUnderWay
<1>6. ~\E p \in DOMAIN Inbound : Inbound[p] = DmaReadResp(Capped(mem[dma.addr]))
  BY <1>5 DEF ReadMsg, DmaReadResp
<1> QED
  BY <1>3, <1>4, <1>6 DEF LastRead

\* What QEMU sends is behind all the socket thread has before it.
LEMMA InboundPut ==
    ASSUME Inv, UNCHANGED sock, NEW m \in QemuMsgs, q2s' = Append(q2s, m)
    PROVE  Inbound' = Append(Inbound, m)
<1>1. q2s \in Seq(QemuMsgs)
  BY InboundType
<1>2. CASE sock.pc = "handle"
  <2>1. sock.msg \in QemuMsgs
    BY <1>2, InboundType
  <2>2. <<sock.msg>> \o Append(q2s, m) = Append(<<sock.msg>> \o q2s, m)
    BY <1>1, <2>1
  <2> QED
    BY <1>2, <2>2 DEF Inbound
<1>3. CASE sock.pc # "handle"
  BY <1>3 DEF Inbound
<1> QED
  BY <1>2, <1>3

\* QEMU brings the answer along.
LEMMA QemuNewest ==
    ASSUME Inv, QemuStep, NEW v, NoDma(Flight), Newest(v)
    PROVE  NoDma(Flight') /\ mem' = mem /\ Newest(v)'
<1>1. UNCHANGED m_dma_resp /\ UNCHANGED sock
  BY QemuReads
<1>2. Inbound \in Seq(QemuMsgs) /\ q2s \in Seq(QemuMsgs)
  BY InboundType
<1>3. ASSUME NEW m \in QemuMsgs, q2s' = Append(q2s, m) PROVE Inbound' = Append(Inbound, m)
  BY <1>1, <1>3, InboundPut
<1>4. CASE Passive /\ UNCHANGED q2s
  <2>1. Inbound' = Inbound /\ UNCHANGED <<Flight, mem>> /\ (Replying' <=> Replying)
        /\ (Replying => io'.msg = io.msg)
    BY <1>1, <1>4 DEF Passive, Inbound, Replying
  <2> QED
    BY <1>1, <2>1 DEF Newest
<1>5. CASE Passive /\ \E m \in QemuMsgs : ~ReadMsg(m) /\ q2s' = Append(q2s, m)
  <2>1. PICK m \in QemuMsgs : ~ReadMsg(m) /\ q2s' = Append(q2s, m)
    BY <1>5
  <2>2. Inbound' = Append(Inbound, m) /\ UNCHANGED <<Flight, mem>> /\ (Replying' <=> Replying)
        /\ (Replying => io'.msg = io.msg)
    BY <1>3, <1>5, <2>1 DEF Passive, Replying
  <2>3. ~Replying => LastRead(Append(Inbound, m), m_dma_resp, v)
    BY <1>2, <2>1, LastReadPut DEF Newest
  <2> QED
    BY <1>1, <2>2, <2>3 DEF Newest
<1>6. CASE /\ UNCHANGED <<Flight, mem>> /\ io.pc = "reply" /\ io'.pc # "reply"
           /\ io.msg \in QemuMsgs /\ q2s' = Append(q2s, io.msg)
  <2>1. Inbound' = Append(Inbound, io.msg) /\ ~Replying'
    BY <1>3, <1>6 DEF Replying
  <2>2. LastRead(Append(Inbound, io.msg), m_dma_resp, v)
    <3>1. CASE Replying
      BY <1>2, <1>6, <3>1, LastReadPut DEF Newest
    <3>2. CASE ~Replying
      <4>1. ~ReadMsg(io.msg) /\ LastRead(Inbound, m_dma_resp, v)
        BY <1>6, <3>2 DEF Newest, Replying
      <4> QED
        BY <1>2, <1>6, <4>1, LastReadPut
    <3> QED
      BY <3>1, <3>2
  <2> QED
    BY <1>1, <1>6, <2>1, <2>2 DEF Newest
<1>7. CASE /\ Takes /\ UNCHANGED q2s
           /\ IF ReadMsg(Head(Flight))
              THEN io' = [pc |-> "reply", msg |-> DmaReadResp(Capped(mem[Head(Flight).addr]))]
              ELSE ~Replying'
  <2>1. NoDma(Tail(Flight)) /\ ~DmaMsg(Head(Flight))
    BY <1>7, FlightType, AskedTake DEF Takes
  <2>2. mem' = mem /\ ~ReadMsg(Head(Flight))
    BY <1>7, <2>1 DEF Takes, After, DmaMsg, ReadMsg
  <2>3. Inbound' = Inbound /\ ~Replying /\ ~Replying'
    BY <1>1, <1>7, <2>2 DEF Inbound, Replying, Takes
  <2> QED
    BY <1>1, <1>7, <2>1, <2>2, <2>3 DEF Newest, Takes
<1> QED
  BY <1>4, <1>5, <1>6, <1>7, QemuReads

\* QEMU carries the request out, or it is still on its way.
LEMMA QemuAsked ==
    ASSUME Inv, QemuStep, NEW v, v = Capped(mem[dma.addr]), Asked(Flight)
    PROVE  Asked(Flight') \/ (NoDma(Flight') /\ mem' = mem /\ Newest(v)')
<1>1. CASE UNCHANGED Flight
  BY <1>1
<1>2. CASE ~UNCHANGED Flight
  <2>1. /\ Takes /\ UNCHANGED q2s
        /\ ReadMsg(Head(Flight)) =>
              io' = [pc |-> "reply", msg |-> DmaReadResp(Capped(mem[Head(Flight).addr]))]
    BY <1>2, QemuReads DEF Passive
  <2>2. Asked(Tail(Flight)) \/ (Head(Flight) = DmaReadReq(dma.addr) /\ NoDma(Tail(Flight)))
    BY <2>1, FlightType, AskedTake DEF Takes
  <2>3. ASSUME Head(Flight) = DmaReadReq(dma.addr), NoDma(Tail(Flight))
        PROVE  NoDma(Flight') /\ mem' = mem /\ Newest(v)'
    <3>1. ReadMsg(Head(Flight)) /\ Head(Flight).addr = dma.addr /\ Head(Flight).type # "DMA_WRITE"
      BY <2>3 DEF ReadMsg, DmaReadReq
    <3>2. io'.pc = "reply" /\ io'.msg = DmaReadResp(v) /\ mem' = mem
      BY <2>1, <3>1 DEF Takes, After
    <3>3. Replying'
      BY <3>2 DEF Replying, ReadMsg, DmaReadResp
    <3> QED
      BY <2>1, <2>3, <3>2, <3>3 DEF Takes, Newest
  <2> QED
    BY <2>1, <2>2, <2>3 DEF Takes
<1> QED
  BY <1>1, <1>2

\* The NIC does not disturb either.
LEMMA NicNewest ==
    ASSUME Inv, Still, NicStep \/ KernelStep \/ Inject, dma.st \in {"wait", "true"}
    PROVE  /\ NoDma(Flight) => NoDma(Flight')
           /\ Asked(Flight) => Asked(Flight')
           /\ \A v : Newest(v) => Newest(v)'
<1>1. ~DmaReadSend /\ ~RxReadDesc /\ ~RxWriteData /\ ~RxWriteBack
  BY NicReads DEF DmaReadSend
<1>2. UNCHANGED Flight \/ \E m \in ScMsgs : Puts(m) /\ ~DmaMsg(m)
  BY <1>1, NicPuts
<1>3. (NoDma(Flight) => NoDma(Flight')) /\ (Asked(Flight) => Asked(Flight'))
  BY <1>2, FlightType, AskedPut DEF Puts
<1>4. io' = io
  BY NicReads
<1>5. ASSUME NEW v, Newest(v) PROVE Newest(v)'
  <2>1. Replying' <=> Replying
    BY <1>4 DEF Replying
  <2>2. CASE UNCHANGED <<Inbound, m_dma_resp>>
    BY <1>4, <1>5, <2>1, <2>2 DEF Newest
  <2>3. CASE /\ Inbound # <<>> /\ Inbound' = Tail(Inbound)
             /\ m_dma_resp' = IF ReadMsg(Head(Inbound)) THEN [data |-> Head(Inbound).data]
                              ELSE m_dma_resp
    <3>1. LastRead(Inbound, m_dma_resp, v) => LastRead(Tail(Inbound), m_dma_resp', v)
      BY <2>3, InboundType, LastReadTake
    <3> QED
      BY <1>4, <1>5, <2>1, <2>3, <3>1 DEF Newest
  <2> QED
    BY <1>1, <2>2, <2>3, NicInbound
<1> QED
  BY <1>3, <1>5

(* dma_read keeps its invariant.                                           *)
LEMMA ReadStep == ASSUME Inv, Still, ReadInv, [Next]_vars PROVE ReadInv'
<1>0. /\ dma \in [st : {"idle", "send", "wait", "true", "false"}, addr : Addrs, data : DmaAnswers]
      /\ dma.st # "idle" => dma.addr = Slot
  BY DEF Inv, NicInv, DmaOK, ReadInv
<1>1. CASE QemuStep
  <2>1. UNCHANGED <<dma, genuine, Slot>>
    BY <1>1, QemuReads DEF Slot
  <2>2. ASSUME dma.st = "wait"
        PROVE  Asked(Flight') \/ (NoDma(Flight') /\ Newest(Capped(mem[dma.addr]))')
    <3>1. PICK v : v = Capped(mem[dma.addr])
      OBVIOUS
    <3>2. Asked(Flight) \/ (NoDma(Flight) /\ Newest(v))
      BY <2>2, <3>1 DEF ReadInv
    <3>3. Asked(Flight') \/ (NoDma(Flight') /\ mem' = mem /\ Newest(v)')
      BY <1>1, <3>1, <3>2, QemuNewest, QemuAsked
    <3> QED
      BY <2>1, <3>1, <3>3 DEF Newest
  <2>3. ASSUME NoDma(Flight) PROVE NoDma(Flight') /\ mem' = mem
    <3>1. Takes => NoDma(Tail(Flight)) /\ ~DmaMsg(Head(Flight))
      BY <2>3, FlightType, AskedTake DEF Takes
    <3> QED
      BY <1>1, <2>3, <3>1, FlightTaken DEF Takes, After, DmaMsg
  <2> QED
    BY <1>0, <2>1, <2>2, <2>3 DEF ReadInv, Asked
<1>2. CASE NicStep \/ KernelStep \/ Inject
  <2>1. mem' = mem /\ io' = io /\ (genuine' => genuine) /\ (dma.st # "idle" => Slot' = Slot)
    BY <1>2, NicReads
  <2>2. CASE UNCHANGED dma
    <3>1. dma.st \in {"wait", "true"} => /\ NoDma(Flight) => NoDma(Flight')
                                         /\ Asked(Flight) => Asked(Flight')
                                         /\ Newest(Capped(mem[dma.addr])) => Newest(Capped(mem[dma.addr]))'
      <4>1. PICK v : v = Capped(mem[dma.addr])
        OBVIOUS
      <4>2. dma.st \in {"wait", "true"} => (Newest(v) => Newest(v)')
        BY <1>2, NicNewest
      <4>3. Newest(v)' <=> Newest(Capped(mem[dma.addr]))'
        BY <2>1, <2>2, <4>1 DEF Newest
      <4> QED
        BY <1>2, <4>1, <4>2, <4>3, NicNewest
    <3> QED
      BY <1>0, <2>1, <2>2, <3>1 DEF ReadInv, Asked
  <2>3. CASE DmaReadSend
    <3>1. Puts(DmaReadReq(dma.addr)) /\ DmaReadReq(dma.addr) \in ScMsgs
      <4>1. DmaReadReq(dma.addr) \in ScMsgs
        BY <1>0, ScMessages DEF DmaReadReq, ScMsgs
      <4> QED
        BY <2>1, <2>3, <4>1, FlightPut DEF DmaReadSend
    <3>2. Asked(Flight')
      BY <3>1, FlightType, AskedPut DEF Puts
    <3>3. dma'.st = "wait" /\ dma'.addr = dma.addr /\ dma.st = "send"
      BY <1>0, <2>3 DEF DmaReadSend
    <3> QED
      BY <1>0, <2>1, <3>2, <3>3 DEF ReadInv, Asked
  <2>4. CASE DmaReadDone /\ genuine' = (genuine /\ OwnDmaData')
    <3>1. /\ dma'.st = "true" /\ dma'.addr = dma.addr /\ dma'.data = m_dma_resp /\ dma.st = "wait"
          /\ UNCHANGED Flight
      <4>1. UNCHANGED s2q
        BY <2>4 DEF DmaReadDone, wireVars
      <4> QED
        BY <1>0, <2>1, <2>4, <4>1 DEF DmaReadDone, Flight
    <3>2. genuine' => OwnDmaData'
      BY <2>4, Zenon
    <3>3. genuine' => NoDma(Flight) /\ m_dma_resp = [data |-> Capped(mem[dma.addr])]
      BY <2>1, <2>4, <3>2, ReadDone
    <3> QED
      BY <1>0, <2>1, <3>1, <3>3 DEF ReadInv
  <2>5. CASE \/ dma.st # "idle" /\ dma'.st = "false" /\ dma'.addr = dma.addr
             \/ dma'.st = "send" /\ dma'.addr = Slot'
             \/ dma'.st = "idle"
    BY <1>0, <2>1, <2>5 DEF ReadInv
  <2> QED
    BY <1>2, <2>2, <2>3, <2>4, <2>5, NicReads
<1>3. CASE PostTx
  <2>1. UNCHANGED <<s2q, q2s, io, dma, m_dma_resp, sock, m_regs, genuine>>
    BY <1>3 DEF PostTx, wireVars, nicVars, dmaVars
  <2>2. dma.st # "idle" => mem'[dma.addr] = mem[dma.addr]
    <3>1. dma.addr \in Addrs /\ mem \in [Addrs -> MemVals]
      BY <1>0, FlightType
    <3>2. PICK b, d : mem' = [mem EXCEPT ![TxBuf(posted % TxRing)] = b,
                                         ![TxDesc(posted % TxRing)] = d]
      BY <1>3 DEF PostTx
    <3>3. dma.st # "idle" => /\ dma.addr # TxBuf(posted % TxRing)
                             /\ dma.addr # TxDesc(posted % TxRing)
      BY <1>0, Apart DEF Slot
    <3> QED
      BY <3>1, <3>2, <3>3
  <2> QED
    BY <2>1, <2>2 DEF ReadInv, Slot, Flight, Asked, Newest, Replying, Inbound
<1>4. CASE UNCHANGED vars
  BY <1>4 DEF vars, wireVars, qemuVars, nicVars, dmaVars, ReadInv, Slot, Flight, Asked, Newest,
     Replying, Inbound
<1> QED
  BY <1>1, <1>2, <1>3, <1>4 DEF Next

-----------------------------------------------------------------------------
(* What a step does to the registers that say where the ring stands. *)

\* The guest configures the receive ring it has and resets nothing under the driver.
DriverRings ==
    \A w \in GuestWrites : /\ w[1] = "RX_RING_SIZE" => w[2] = RxRing
                           /\ ~(w[1] = "CTRL" /\ Has(w[2], SC_CTRL_RESET))

RingSize == m_regs["RX_RING_SIZE"] \in {0, RxRing}
KeepsTail == m_regs'["RX_TAIL"] = m_regs["RX_TAIL"]

(* Such a guest moves no tail (reg_block.cpp:60-117).                      *)
LEMMA WriteKeepsRing ==
    ASSUME DriverRings, NEW f \in RegFiles, NEW r, NEW v, OfGuest(r, v)
    PROVE  /\ RegWrite(f, r, v)["RX_TAIL"] = f["RX_TAIL"]
           /\ RegWrite(f, r, v)["RX_RING_SIZE"] \in {f["RX_RING_SIZE"], RxRing}
<1>1. /\ r \in RegNames /\ r # "RX_TAIL"
      /\ r = "RX_RING_SIZE" => v = RxRing
      /\ ~(r = "CTRL" /\ Has(v, SC_CTRL_RESET))
  <2>1. r \in RegNames /\ r # "RX_TAIL"
    BY GuestDrives DEF DriverWrites
  <2>2. CASE <<r, v>> \in GuestWrites
    BY <2>1, <2>2 DEF DriverRings
  <2>3. CASE <<r, v>> = <<"TX_DOORBELL", 1>>
    BY <2>1, <2>3
  <2> QED
    BY <2>2, <2>3 DEF OfGuest
<1>2. \E g : RegWrite(f, r, v) \in {f, [f EXCEPT !["IRQ_STS"] = g]}
             \/ RegWrite(f, r, v) = [f EXCEPT ![r] = v]
  <2>1. CASE r = "IRQ_STS"
    BY <1>1, <2>1 DEF RegWrite
  <2>2. CASE r = "IRQ_TEST"
    BY <1>1, <2>2 DEF RegWrite
  <2>3. CASE r \notin {"IRQ_STS", "IRQ_TEST"}
    BY <1>1, <2>3 DEF RegWrite
  <2> QED
    BY <2>1, <2>2, <2>3
<1> QED
  BY <1>1, <1>2 DEF RegFiles, RegNames

(* Only the write-back of a descriptor moves the tail (nic.cpp:214).       *)
LEMMA StepKeepsRing ==
    ASSUME DriverRings, Inv, Still, RingSize, [Next]_vars
    PROVE  RingSize' /\ (KeepsTail \/ RxWriteBack)
<1>0. m_regs \in RegFiles
  BY DEF Inv, NicInv, RegsOK
<1>1. ASSUME UNCHANGED m_regs PROVE RingSize' /\ KeepsTail
  BY <1>1 DEF RingSize, KeepsTail
<1>2. CASE SockThread
  <2>1. CASE OnMmioWrite
    <3> DEFINE r == sock.msg.reg
               v == sock.msg.val
    <3>1. OfGuest(r, v)
      BY <2>1 DEF OnMmioWrite, Serves, Inv, WritesOK, AllowedMsg
    <3>2. \/ m_regs' = RegWrite(m_regs, r, v)
          \/ m_regs' = [RegWrite(m_regs, r, v) EXCEPT !["DMA_STS"] = SC_STATUS_DMA_BSY]
      BY <2>1 DEF OnMmioWrite
    <3> HIDE DEF r, v
    <3>3. RegWrite(m_regs, r, v) \in RegFiles
      BY <1>0, <3>1, GuestDrives, RegWriteOK
    <3>4. /\ RegWrite(m_regs, r, v)["RX_TAIL"] = m_regs["RX_TAIL"]
          /\ RegWrite(m_regs, r, v)["RX_RING_SIZE"] \in {m_regs["RX_RING_SIZE"], RxRing}
      BY <1>0, <3>1, WriteKeepsRing
    <3> QED
      BY <3>2, <3>3, <3>4 DEF RingSize, KeepsTail, RegFiles, RegNames
  <2>2. CASE ~OnMmioWrite
    BY <1>1, <1>2, <2>2 DEF SockThread, SockConnect, SockRecv, OnMmioRead, OnMmioWriteIrq,
       SockAnswer, HandleDmaReadResp, HandleDmaWriteResp
  <2> QED
    BY <2>1, <2>2
<1>3. CASE NetThread
  <2>1. CASE RxWriteBack
    BY <1>0, <2>1 DEF RxWriteBack, RingSize, RegFiles, RegNames
  <2>2. CASE ~RxWriteBack
    BY <1>1, <1>3, <2>2 DEF NetThread, RxDrop, RxReadDesc, RxFailed, RxGotDesc, RxWriteData, RxIrq
  <2> QED
    BY <2>1, <2>2
<1>4. CASE DmaReadSend \/ DmaReadDone \/ DmaReadTimeout \/ Inject
  BY <1>1, <1>4 DEF DmaReadSend, DmaReadDone, DmaReadTimeout, Inject, NetRecv
<1>5. CASE QemuStep \/ PostTx \/ UNCHANGED vars
  BY <1>1, <1>5 DEF QemuStep, PostTx, vars, nicVars
<1>6. CASE KernelStep
  BY <1>1, <1>6, KernelIdle DEF KernelStep
<1> QED
  BY <1>2, <1>3, <1>4, <1>5, <1>6 DEF Next, NicStep, OtherNicThread

-----------------------------------------------------------------------------
(* The receive ring.  The first k slots have been filled, slot i with the  *)
(* frame that arrived as number f[i]; the others are as the driver left    *)
(* them.  The frame the listener thread has in hand is the last to arrive. *)

InHand == net.pc \in {"lock", "desc", "data", "wb"}
Arrived == Len(injected) - (IF InHand THEN 1 ELSE 0)

FrameInHand ==
    /\ injected \in Seq(Bytes)
    /\ net.pc # "idle" => injected # <<>> /\ Frame(net.pkt) = injected[Len(injected)]

RxOrder(k, f) ==
    /\ \A i \in 0 .. k - 1 : f[i] \in 1 .. Arrived
    /\ \A i, j \in 0 .. k - 1 : i < j => f[i] < f[j]

\* What slot i holds: a write-back is under way only while no frame follows.
RxSlotOK(k, f, i) ==
    /\ i < k => \/ Filled(Flight, mem, i, Cut(injected[f[i]]))
                \/ /\ i = k - 1 /\ net.pc \notin {"data", "wb"}
                   /\ Landing(Flight, mem, i, Cut(injected[f[i]]))
    /\ i = k => IF net.pc = "wb" THEN Filling(Flight, mem, i, Cut(Frame(net.pkt)))
                ELSE Empty(Flight, mem, i)
    /\ i > k => Empty(Flight, mem, i)

RxTurn(k) ==
    /\ m_regs["RX_TAIL"] = IF k = RxRing THEN 0 ELSE k
    /\ net.pc \in {"data", "wb"} => k < RxRing /\ net.desc = Ready(k)

RxRingOK(k, f) ==
    /\ k \in 0 .. RxRing /\ f \in [RxSlots -> Nat]
    /\ RxOrder(k, f) /\ (\A i \in RxSlots : RxSlotOK(k, f, i)) /\ RxTurn(k)
RxOK == \E k, f : RxRingOK(k, f)

\* No write under way goes to memory the driver has not handed over.
NoStray == Writers(Flight, Other) = {}

\* A step after which the slots hold what they held.
KeepsSlots ==
    \A i \in RxSlots : \A d \in Fits :
        /\ Empty(Flight, mem, i) => Empty(Flight', mem', i)
        /\ Filling(Flight, mem, i, d) => Filling(Flight', mem', i, d)
        /\ Landing(Flight, mem, i, d) => \/ Landing(Flight', mem', i, d)
                                         \/ Filled(Flight', mem', i, d)
        /\ Filled(Flight, mem, i, d) => Filled(Flight', mem', i, d)

\* A message that is no write leaves the receive slots as they are.
LEMMA PutKeepsSlots ==
    ASSUME Inv, NEW m \in ScMsgs, Puts(m), UNCHANGED mem, m.type # "DMA_WRITE"
    PROVE  KeepsSlots /\ (NoStray => NoStray')
<1>1. Flight \in Seq(ScMsgs) /\ Flight' = Append(Flight, m) /\ mem' = mem
  BY FlightType DEF Puts
<1> HIDE DEF Flight
<1>2. KeepsSlots
  <2> SUFFICES ASSUME NEW i \in RxSlots, NEW d \in Fits
               PROVE  /\ Empty(Flight, mem, i) => Empty(Flight', mem', i)
                      /\ Filling(Flight, mem, i, d) => Filling(Flight', mem', i, d)
                      /\ Landing(Flight, mem, i, d) => Landing(Flight', mem', i, d)
                      /\ Filled(Flight, mem, i, d) => Filled(Flight', mem', i, d)
    BY DEF KeepsSlots
  <2> QED
    BY <1>1, SlotPut
<1>3. Writers(Flight', Other) = Writers(Flight, Other)
  BY <1>1, WritersPut
<1> QED
  BY <1>2, <1>3 DEF NoStray

\* QEMU handling a message moves a receive slot from Landing to Filled at most.
LEMMA QemuKeepsSlots == ASSUME Inv, QemuStep PROVE KeepsSlots /\ (NoStray => NoStray')
<1>0. Flight \in Seq(ScMsgs) /\ mem \in [Addrs -> MemVals]
  BY FlightType
<1>1. CASE UNCHANGED <<Flight, mem>>
  <2> HIDE DEF Flight
  <2> QED
    BY <1>1 DEF KeepsSlots, NoStray
<1>2. CASE Takes
  <2>0. Flight # <<>> /\ Flight' = Tail(Flight) /\ mem' = After(mem, Head(Flight))
    BY <1>2 DEF Takes
  <2> HIDE DEF Flight
  <2>1. KeepsSlots
    <3> SUFFICES ASSUME NEW i \in RxSlots, NEW d \in Fits
                 PROVE  /\ Empty(Flight, mem, i) => Empty(Flight', mem', i)
                        /\ Filling(Flight, mem, i, d) => Filling(Flight', mem', i, d)
                        /\ Landing(Flight, mem, i, d) => \/ Landing(Flight', mem', i, d)
                                                         \/ Filled(Flight', mem', i, d)
                        /\ Filled(Flight, mem, i, d) => Filled(Flight', mem', i, d)
      BY DEF KeepsSlots
    <3> QED
      BY <1>0, <2>0, SlotTake
  <2>2. NoStray => NoStray'
    BY <1>0, <2>0, WritersTake DEF NoStray
  <2> QED
    BY <2>1, <2>2
<1> QED
  BY <1>1, <1>2, FlightTaken

(* The guest fills a TX slot, and nothing else (smarteth_main.c:292-302).  *)
LEMMA PostMem ==
    ASSUME Inv, PostTx
    PROVE  /\ \A i \in RxSlots : mem'[RxDesc(i)] = mem[RxDesc(i)] /\ mem'[RxBuf(i)] = mem[RxBuf(i)]
           /\ mem'[Other] = mem[Other]
<1>1. PICK b, d : mem' = [mem EXCEPT ![TxBuf(posted % TxRing)] = b,
                                     ![TxDesc(posted % TxRing)] = d]
  BY DEF PostTx
<1>2. mem \in [Addrs -> MemVals]
  BY FlightType
<1>3. \A a \in Addrs : a # TxBuf(posted % TxRing) /\ a # TxDesc(posted % TxRing) => mem'[a] = mem[a]
  BY <1>1, <1>2
<1> QED
  BY <1>3, Apart, Locations

(* So the receive slots stay as they are.                                  *)
LEMMA PostKeepsSlots == ASSUME Inv, PostTx PROVE KeepsSlots /\ (NoStray => NoStray')
<1>1. UNCHANGED Flight
  BY DEF PostTx, Flight, wireVars
<1> HIDE DEF Flight
<1> QED
  BY <1>1, PostMem, SlotMem DEF KeepsSlots, NoStray

\* The frame of a slot that has been filled fits its buffer.
LEMMA FilledFits ==
    ASSUME FrameInHand, NEW k, NEW f, RxRingOK(k, f), NEW i \in RxSlots
    PROVE  i < k => /\ f[i] \in 1 .. Len(injected) /\ injected[f[i]] \in Bytes
                    /\ Cut(injected[f[i]]) \in Fits
<1>1. k \in Nat /\ i \in Nat /\ Len(injected) \in Nat /\ Arrived \in Int /\ Arrived <= Len(injected)
  BY RxRingAssumption DEF RxRingOK, RxSlots, FrameInHand, Arrived
<1>2. i < k => f[i] \in 1 .. Len(injected)
  BY <1>1 DEF RxRingOK, RxOrder
<1> QED
  BY <1>2, CutFits DEF FrameInHand

(* What leaves reception alone and the slots as they are leaves the ring.  *)
LEMMA RxKept ==
    ASSUME Inv, FrameInHand, NEW k, NEW f, RxRingOK(k, f), KeepsSlots,
           UNCHANGED <<net, injected>>, KeepsTail
    PROVE  RxRingOK(k, f)'
<1>1. RxOrder(k, f)' /\ RxTurn(k)'
  BY DEF RxRingOK, RxOrder, RxTurn, Arrived, InHand, KeepsTail
<1>2. ASSUME NEW i \in RxSlots PROVE RxSlotOK(k, f, i)'
  <2>1. RxSlotOK(k, f, i)
    BY DEF RxRingOK
  <2>2. i < k => Cut(injected[f[i]]) \in Fits
    BY FilledFits
  <2>3. net.pc = "wb" => Cut(Frame(net.pkt)) \in Fits
    BY CutFits, CoSimAssumption DEF Inv, NicInv, NetOK
  <2>4. \E d : d \in Fits
    BY CutFits, CoSimAssumption
  <2> QED
    BY <2>1, <2>2, <2>3, <2>4 DEF RxSlotOK, KeepsSlots
<1> QED
  BY <1>1, <1>2 DEF RxRingOK

(* Reception goes on, or gives up, without touching the ring.              *)
LEMMA RxGoesOn ==
    ASSUME Inv, FrameInHand, NEW k, NEW f, RxRingOK(k, f), KeepsSlots, UNCHANGED injected, KeepsTail,
           net.pc # "wb", net'.pc \notin {"data", "wb"}, net'.pc \in {"lock", "desc"} => InHand
    PROVE  RxRingOK(k, f)'
<1>1. Arrived \in Int /\ Arrived' \in Int /\ Arrived <= Arrived'
  BY DEF Arrived, InHand, FrameInHand
<1>2. RxOrder(k, f)'
  BY <1>1 DEF RxRingOK, RxOrder
<1>3. RxTurn(k)'
  BY DEF RxRingOK, RxTurn, KeepsTail
<1>4. ASSUME NEW i \in RxSlots PROVE RxSlotOK(k, f, i)'
  <2>1. RxSlotOK(k, f, i)
    BY DEF RxRingOK
  <2>2. i < k => Cut(injected[f[i]]) \in Fits
    BY FilledFits
  <2>3. \E d : d \in Fits
    BY CutFits, CoSimAssumption
  <2> QED
    BY <2>1, <2>2, <2>3 DEF RxSlotOK, KeepsSlots
<1> QED
  BY <1>2, <1>3, <1>4 DEF RxRingOK

\* What on_packet_rx sets in a descriptor: own cleared, done set (nic.cpp:208-210).
LEMMA FullDesc ==
    \A i \in RxSlots, d \in Fits :
        /\ Ready(i) \in Descs /\ Ready(i).own /\ ~Ready(i).done
        /\ Full(i, d) \in Descs /\ ~Full(i, d).own /\ Full(i, d).done /\ Full(i, d).length = d.len
<1> TAKE i \in RxSlots, d \in Fits
<1>1. Ready(i) \in Descs /\ Ready(i).own /\ ~Ready(i).done
  BY NotCapped DEF Ready
<1>2. Full(i, d) \in Descs
  BY NotCapped
<1> HIDE DEF Ready
<1>3. ~Full(i, d).own /\ Full(i, d).done /\ Full(i, d).length = d.len
  BY <1>1 DEF Full, Descs
<1> QED
  BY <1>1, <1>2, <1>3

(* A descriptor that is the device's is that of the next slot, and nobody  *)
(* has touched the slot; the frames before it are in memory                *)
(* (nic.cpp:191-197).                                                      *)
LEMMA RxGetsDesc ==
    ASSUME Inv, ReadInv, FrameInHand, genuine, NEW k, NEW f, RxRingOK(k, f),
           net.pc = "desc", dma.st = "true", NEW d \in AsDesc(dma.data), d.own
    PROVE  k < RxRing /\ d = Ready(k) /\ \A i, e : ~Landing(Flight, mem, i, e)
<1>1. dma.addr = RxDesc(m_regs["RX_TAIL"]) /\ dma.data = [data |-> Capped(mem[dma.addr])]
      /\ NoDma(Flight)
  BY DEF ReadInv, Slot
<1>2. k \in 0 .. RxRing /\ RxRing \in Nat \ {0}
  BY RxRingAssumption DEF RxRingOK
<1>3. \A i, e : ~Landing(Flight, mem, i, e)
  BY <1>1 DEF NoDma, Landing, Writers, DmaMsg
<1>4. /\ m_regs["RX_TAIL"] = IF k = RxRing THEN 0 ELSE k
      /\ \A i \in RxSlots : RxSlotOK(k, f, i)
  BY DEF RxRingOK, RxTurn
<1>5. dma.data # NoData /\ dma.data.data = Capped(mem[dma.addr])
  BY <1>1 DEF NoData
<1>6. CASE k = RxRing
  <2>1. 0 \in RxSlots /\ 0 < k
    BY <1>2, <1>6 DEF RxSlots
  <2>2. PICK e \in Fits : mem[RxDesc(0)] = Full(0, e)
    BY <1>3, <1>4, <2>1, FilledFits DEF RxSlotOK, Filled
  <2>3. dma.addr = RxDesc(0) /\ Full(0, e) \in Descs /\ ~Full(0, e).own
        /\ Capped(Full(0, e)) = Full(0, e)
    BY <1>1, <1>4, <1>6, <2>1, FullDesc, NotCapped
  <2> QED
    BY <1>5, <2>2, <2>3 DEF AsDesc
<1>7. CASE k < RxRing
  <2>1. k \in RxSlots
    BY <1>2, <1>7 DEF RxSlots
  <2>2. mem[RxDesc(k)] = Ready(k) /\ dma.addr = RxDesc(k)
    BY <1>1, <1>2, <1>4, <1>7, <2>1 DEF RxSlotOK, Empty
  <2>3. Ready(k) \in Descs /\ Capped(Ready(k)) = Ready(k)
    BY <2>1, NotCapped
  <2> QED
    BY <1>3, <1>5, <1>7, <2>2, <2>3 DEF AsDesc
<1> QED
  BY <1>2, <1>6, <1>7

(* As much of the frame as fits goes into the slot whose turn it is        *)
(* (nic.cpp:198-203).                                                      *)
LEMMA RxFills ==
    ASSUME Inv, FrameInHand, NEW k, NEW f, RxRingOK(k, f), UNCHANGED <<injected, mem>>, RxWriteData,
           Puts(NetData), NetData \in ScMsgs, NoStray
    PROVE  RxRingOK(k, f)' /\ NoStray'
<1> DEFINE m == NetData
           c == Cut(Frame(net.pkt))
<1>1. net.pc = "data" /\ UNCHANGED m_regs /\ net' = [net EXCEPT !.pc = "wb"]
  BY DEF RxWriteData
<1>2. net'.pc = "wb" /\ net'.pkt = net.pkt /\ net'.desc = net.desc
  BY <1>1 DEF Inv, NicInv, NetOK
<1>3. k \in RxSlots /\ net.desc = Ready(k)
  BY <1>1, RxRingAssumption DEF RxRingOK, RxTurn, RxSlots
<1>4. m = DmaWriteReq(RxBuf(k), c) /\ m.type = "DMA_WRITE" /\ m.addr = RxBuf(k)
  BY <1>3 DEF NetData, Ready, Cut, DmaWriteReq
<1>5. Flight \in Seq(ScMsgs) /\ Flight' = Append(Flight, m) /\ mem' = mem
  BY FlightType DEF Puts
<1>6. c \in Fits /\ \A i : i \in RxSlots /\ i < k => Cut(injected[f[i]]) \in Fits
  BY <1>1, FilledFits, CutFits, CoSimAssumption DEF Inv, NicInv, NetOK
<1>7. m \in ScMsgs
  OBVIOUS
<1> HIDE DEF Flight, m, c
<1>8. RxOrder(k, f)' /\ RxTurn(k)'
  BY <1>1, <1>2 DEF RxRingOK, RxOrder, RxTurn, Arrived, InHand
<1>9. ASSUME NEW i \in RxSlots PROVE RxSlotOK(k, f, i)'
  <2>0. RxSlotOK(k, f, i)
    BY DEF RxRingOK
  <2>1. CASE i = k
    <3>1. Empty(Flight, mem, k)
      BY <1>1, <2>0, <2>1 DEF RxSlotOK
    <3>2. Filling(Flight', mem', k, c)
      BY <1>4, <1>5, <1>7, <3>1, SlotFill
    <3> QED
      BY <1>2, <1>3, <2>1, <3>2 DEF RxSlotOK, RxSlots, c
  <2>2. CASE i # k
    <3>1. m.type = "DMA_WRITE" => m.addr \notin {RxDesc(i), RxBuf(i)}
      BY <1>4, <2>2, Apart
    <3>2. \A d : /\ Empty(Flight, mem, i) => Empty(Flight', mem', i)
                 /\ Filled(Flight, mem, i, d) => Filled(Flight', mem', i, d)
      BY <1>5, <1>7, <3>1, SlotPut
    <3> QED
      BY <1>1, <1>2, <2>0, <2>2, <3>2 DEF RxSlotOK
  <2> QED
    BY <2>1, <2>2
<1>10. NoStray'
  <2>1. m.addr # Other
    BY <1>4, Apart
  <2> QED
    BY <1>5, <1>7, <2>1, WritersPut DEF NoStray
<1> QED
  BY <1>8, <1>9, <1>10 DEF RxRingOK

(* The slot is given back and the turn is the next one's                   *)
(* (nic.cpp:205-216).                                                      *)
LEMMA RxGivesBack ==
    ASSUME Inv, RingSize, FrameInHand, NEW k, NEW f, RxRingOK(k, f), UNCHANGED <<injected, mem>>,
           RxWriteBack, Puts(NetBack), NetBack \in ScMsgs, NoStray,
           NEW g, g = [f EXCEPT ![k] = Len(injected)]
    PROVE  RxRingOK(k + 1, g)' /\ NoStray'
<1> DEFINE m == NetBack
           c == Cut(Frame(net.pkt))
<1>1. /\ net.pc = "wb" /\ net'.pc \in {"irq", "idle"}
      /\ m_regs'["RX_TAIL"] = (m_regs["RX_TAIL"] + 1) % m_regs["RX_RING_SIZE"]
  <2>1. net.pc = "wb" /\ DOMAIN net = {"pc", "pkt", "desc"}
    BY DEF RxWriteBack, Inv, NicInv, NetOK
  <2>2. net'.pc \in {"irq", "idle"}
    BY <2>1 DEF RxWriteBack, Drop
  <2>3. DOMAIN m_regs = RegNames /\ {"RX_TAIL", "IRQ_STS"} \subseteq RegNames
    BY DEF Inv, NicInv, RegsOK, RegFiles, RegNames
  <2>4. m_regs'["RX_TAIL"] = NextTail
    BY <2>3 DEF RxWriteBack
  <2> QED
    BY <2>1, <2>2, <2>4 DEF NextTail
<1>2. /\ k \in RxSlots /\ k \in Nat /\ k < RxRing /\ RxRing \in Nat /\ f \in [RxSlots -> Nat]
      /\ m_regs["RX_TAIL"] = k /\ net.desc = Ready(k)
      /\ m_regs["RX_RING_SIZE"] = RxRing
  BY <1>1, RxRingAssumption DEF RxRingOK, RxTurn, RxSlots, RingSize, Inv, NicInv, WorkOK
<1>3. m_regs'["RX_TAIL"] = IF k + 1 = RxRing THEN 0 ELSE k + 1
  <2>1. m_regs'["RX_TAIL"] = (k + 1) % RxRing
    BY <1>1, <1>2
  <2>2. CASE k + 1 = RxRing
    BY <1>2, <2>1, <2>2
  <2>3. CASE k + 1 < RxRing
    BY <1>2, <2>1, <2>3
  <2> QED
    BY <1>2, <2>2, <2>3
<1>c. c \in Fits /\ c.len = Smaller(net.pkt.len, RxBufLen)
  <2>1. Frame(net.pkt) \in Bytes /\ Frame(net.pkt).len = net.pkt.len
    BY <1>1, CoSimAssumption DEF Inv, NicInv, NetOK, Frame
  <2> QED
    BY <2>1, CutFits
<1>4. m = DmaWriteReq(RxDesc(k), Full(k, c))
  <2>1. RxBack = Full(k, c)
    BY <1>2, <1>c DEF RxBack, Full, Ready
  <2> QED
    BY <1>2, <2>1 DEF Slot, NetBack
<1>5. Flight \in Seq(ScMsgs) /\ Flight' = Append(Flight, m) /\ mem' = mem
  BY FlightType DEF Puts
<1>6. /\ Len(injected) \in Nat \ {0} /\ Arrived = Len(injected) - 1
      /\ Arrived' = Len(injected) /\ Frame(net.pkt) = injected[Len(injected)]
  BY <1>1 DEF FrameInHand, Arrived, InHand
<1>7. /\ \A i \in 0 .. k - 1 : f[i] \in 1 .. Len(injected) - 1
      /\ \A i, j \in 0 .. k - 1 : i < j => f[i] < f[j]
      /\ \A i \in RxSlots : RxSlotOK(k, f, i)
  BY <1>6 DEF RxRingOK, RxOrder
<1>m. m \in ScMsgs /\ m.type = "DMA_WRITE" /\ m.addr = RxDesc(k) /\ m.addr # Other
  BY <1>4, Apart DEF DmaWriteReq
<1>x. c = Cut(injected[Len(injected)])
  BY <1>6
<1> HIDE DEF Flight, m, c
<1>8. /\ g \in [RxSlots -> Nat] /\ g[k] = Len(injected)
      /\ \A i \in 0 .. k - 1 : g[i] = f[i]
  BY <1>2, <1>6 DEF RxSlots
<1>9. RxOrder(k + 1, g)'
  <2>1. \A i \in 0 .. (k + 1) - 1 : i = k \/ i \in 0 .. k - 1
    BY <1>2
  <2>2. \A i \in 0 .. (k + 1) - 1 : g[i] \in 1 .. Len(injected)
    BY <1>6, <1>7, <1>8, <2>1
  <2>3. \A i, j \in 0 .. (k + 1) - 1 : i < j => g[i] < g[j]
    <3> TAKE i, j \in 0 .. (k + 1) - 1
    <3>1. CASE j = k
      BY <1>2, <1>6, <1>7, <1>8, <2>1, <3>1
    <3>2. CASE j # k
      BY <1>2, <1>7, <1>8, <2>1, <3>2
    <3> QED
      BY <3>1, <3>2
  <2> QED
    BY <1>6, <2>2, <2>3 DEF RxOrder
<1>10. RxTurn(k + 1)'
  BY <1>1, <1>3 DEF RxTurn
<1>11. ASSUME NEW i \in RxSlots PROVE RxSlotOK(k + 1, g, i)'
  <2>0. RxSlotOK(k, f, i) /\ i \in Nat
    BY <1>7 DEF RxSlots
  <2>1. CASE i = k
    <3>1. Filling(Flight, mem, k, c)
      BY <1>1, <1>2, <2>0, <2>1 DEF RxSlotOK, c
    <3>2. Landing(Flight', mem', k, c)
      BY <1>4, <1>5, <1>m, <3>1, SlotLand
    <3>3. Landing(Flight', mem', k, Cut(injected'[g[k]]))
      BY <1>8, <1>x, <3>2
    <3> QED
      BY <1>1, <1>2, <2>1, <3>3 DEF RxSlotOK
  <2>2. CASE i # k
    <3>1. m.type = "DMA_WRITE" => m.addr \notin {RxDesc(i), RxBuf(i)}
      BY <1>m, <2>2, Apart
    <3>2. \A d : /\ Empty(Flight, mem, i) => Empty(Flight', mem', i)
                 /\ Filled(Flight, mem, i, d) => Filled(Flight', mem', i, d)
      BY <1>m, <1>5, <3>1, SlotPut
    <3>3. CASE i < k
      <4>1. Filled(Flight, mem, i, Cut(injected[g[i]]))
        BY <1>1, <1>2, <1>8, <2>0, <3>3 DEF RxSlotOK
      <4> QED
        BY <1>2, <2>0, <3>2, <3>3, <4>1 DEF RxSlotOK
    <3>4. CASE i > k
      <4>1. Empty(Flight', mem', i)
        BY <1>2, <2>0, <3>2, <3>4 DEF RxSlotOK
      <4> QED
        BY <1>1, <1>2, <2>0, <3>4, <4>1 DEF RxSlotOK
    <3> QED
      BY <1>2, <2>0, <2>2, <3>3, <3>4
  <2> QED
    BY <2>1, <2>2
<1>12. k + 1 \in 0 .. RxRing
  BY <1>2
<1>13. NoStray'
  BY <1>5, <1>m, WritersPut DEF NoStray
<1> QED
  BY <1>8, <1>9, <1>10, <1>11, <1>12, <1>13 DEF RxRingOK

-----------------------------------------------------------------------------
(* What the steps of the system do to the ring. *)

\* Only the listener thread moves what it has in hand.
LEMMA OthersKeepNet == ASSUME Inv, Still, NicStep \/ KernelStep, ~NetThread PROVE net' = net
<1>1. SockThread \/ DmaReadSend \/ DmaReadDone \/ DmaReadTimeout => net' = net
  BY DEF SockThread, SockConnect, SockRecv, OnMmioRead, OnMmioWrite, OnMmioWriteIrq, SockAnswer,
     HandleDmaReadResp, HandleDmaWriteResp, DmaReadSend, DmaReadDone, DmaReadTimeout
<1>2. KernelStep => net' = net
  BY KernelIdle DEF KernelStep
<1> QED
  BY <1>1, <1>2 DEF NicStep, OtherNicThread

(* The frame the listener thread has in hand is the last that arrived.     *)
LEMMA NicFrame ==
    ASSUME Inv, Still, FrameInHand, NicStep \/ KernelStep
    PROVE  FrameInHand'
<1>0. /\ net \in [pc : {"idle", "lock", "desc", "data", "wb", "irq"},
                  pkt : Packets \cup {NoData}, desc : Descs \cup {NoData}]
      /\ injected' = injected
  BY DEF Inv, NicInv, NetOK, NicStep, KernelStep, ghostVars
<1>1. net'.pc = "idle" \/ (net'.pkt = net.pkt /\ net.pc # "idle") \/ UNCHANGED net
  <2>1. CASE RxGotDesc
    <3>1. PICK d \in AsDesc(dma.data) :
              IF d.own THEN net' = [net EXCEPT !.pc = "data", !.desc = d] ELSE Drop
      <4>1. \E d \in AsDesc(dma.data) :
               IF d.own THEN net' = [net EXCEPT !.pc = "data", !.desc = d] /\ UNCHANGED g_reg_mtx
               ELSE Drop /\ g_reg_mtx' = "none"
        BY <2>1 DEF RxGotDesc
      <4> HIDE DEF Drop
      <4> QED
        BY <4>1
    <3>2. net.pc = "desc"
      BY <2>1 DEF RxGotDesc
    <3>3. CASE d.own
      BY <1>0, <3>1, <3>2, <3>3
    <3>4. CASE ~d.own
      BY <3>1, <3>4 DEF Drop
    <3> QED
      BY <3>3, <3>4
  <2>2. CASE RxReadDesc \/ RxWriteData \/ RxWriteBack
    BY <1>0, <2>2 DEF RxReadDesc, RxWriteData, RxWriteBack, Drop
  <2>3. CASE RxDrop \/ RxFailed \/ RxIrq
    BY <2>3 DEF RxDrop, RxFailed, RxIrq, Drop
  <2>4. CASE ~NetThread
    BY <2>4, OthersKeepNet
  <2> QED
    BY <2>1, <2>2, <2>3, <2>4 DEF NetThread
<1> QED
  BY <1>0, <1>1 DEF FrameInHand

\* What the NIC sends besides the frame and its descriptor is no write.
LEMMA NicKeepsSlots ==
    ASSUME Inv, Still, NicStep \/ KernelStep, ~RxWriteData, ~RxWriteBack
    PROVE  KeepsSlots /\ (NoStray => NoStray')
<1>1. mem' = mem
  BY NicReads
<1>2. CASE UNCHANGED Flight
  <2> HIDE DEF Flight
  <2> QED
    BY <1>1, <1>2 DEF KeepsSlots, NoStray
<1>3. CASE \E m \in ScMsgs : Puts(m) /\ ~DmaMsg(m)
  BY <1>1, <1>3, PutKeepsSlots DEF DmaMsg
<1>4. CASE Puts(DmaReadReq(dma.addr)) /\ DmaReadReq(dma.addr) \in ScMsgs
  BY <1>1, <1>4, PutKeepsSlots DEF DmaReadReq
<1> QED
  BY <1>2, <1>3, <1>4, NicPuts

(* What a step of the NIC does to the ring.                                *)
LEMMA NicRxOK ==
    ASSUME DriverRings, Inv, Still, ReadInv, RingSize, FrameInHand, genuine, RxOK, NoStray,
           NicStep \/ KernelStep
    PROVE  RxOK' /\ NoStray'
<1>0. /\ UNCHANGED <<mem, injected>>
      /\ net \in [pc : {"idle", "lock", "desc", "data", "wb", "irq"},
                  pkt : Packets \cup {NoData}, desc : Descs \cup {NoData}]
  BY NicReads DEF Inv, NicInv, NetOK, NicStep, KernelStep, ghostVars
<1>1. PICK k, f : RxRingOK(k, f)
  BY DEF RxOK
<1> SUFFICES (\E j, g : RxRingOK(j, g)') /\ NoStray'
  BY DEF RxOK
<1>t. ~RxWriteBack => KeepsTail
  BY StepKeepsRing DEF Next
<1>2. CASE ~NetThread
  <2>1. UNCHANGED net /\ ~RxWriteData /\ ~RxWriteBack
    BY <1>2, OthersKeepNet DEF NetThread
  <2> QED
    BY <1>0, <1>1, <1>t, <2>1, NicKeepsSlots, RxKept
<1>3. CASE RxDrop \/ RxFailed \/ RxIrq \/ RxReadDesc
  <2>1. /\ net.pc \notin {"data", "wb"} /\ ~RxWriteData /\ ~RxWriteBack
        /\ net'.pc = "idle" \/ (net'.pc = "desc" /\ net.pc = "lock")
    BY <1>0, <1>3 DEF RxDrop, RxFailed, RxIrq, RxReadDesc, Drop, RxWriteData, RxWriteBack
  <2> QED
    BY <1>0, <1>1, <1>t, <2>1, NicKeepsSlots, RxGoesOn DEF InHand
<1>4. CASE RxGotDesc
  <2>1. net.pc = "desc" /\ dma.st = "true" /\ ~RxWriteData /\ ~RxWriteBack
    BY <1>4 DEF RxGotDesc, RxWriteData, RxWriteBack
  <2>2. KeepsSlots /\ NoStray'
    BY <2>1, NicKeepsSlots
  <2>3. PICK d \in AsDesc(dma.data) :
            IF d.own THEN net' = [net EXCEPT !.pc = "data", !.desc = d] ELSE Drop
    <3>1. \E d \in AsDesc(dma.data) :
             IF d.own THEN net' = [net EXCEPT !.pc = "data", !.desc = d] /\ UNCHANGED g_reg_mtx
             ELSE Drop /\ g_reg_mtx' = "none"
      BY <1>4 DEF RxGotDesc
    <3> HIDE DEF Drop
    <3> QED
      BY <3>1
  <2>4. CASE d.own
    <3>1. k < RxRing /\ d = Ready(k) /\ \A i, e : ~Landing(Flight, mem, i, e)
      BY <1>1, <2>1, <2>4, RxGetsDesc
    <3>2. net'.pc = "data" /\ net'.pkt = net.pkt /\ net'.desc = Ready(k)
      BY <1>0, <2>3, <2>4, <3>1
    <3>3. RxOrder(k, f)' /\ RxTurn(k)'
      BY <1>0, <1>1, <1>t, <2>1, <3>1, <3>2 DEF RxRingOK, RxOrder, RxTurn, Arrived, InHand, KeepsTail
    <3>4. ASSUME NEW i \in RxSlots PROVE RxSlotOK(k, f, i)'
      <4>1. RxSlotOK(k, f, i)
        BY <1>1 DEF RxRingOK
      <4>2. i < k => Cut(injected[f[i]]) \in Fits
        BY <1>1, FilledFits
      <4>3. \E e : e \in Fits
        BY CutFits, CoSimAssumption
      <4> QED
        BY <1>0, <2>1, <2>2, <3>1, <3>2, <4>1, <4>2, <4>3 DEF RxSlotOK, KeepsSlots
    <3> QED
      BY <1>1, <2>2, <3>3, <3>4 DEF RxRingOK
  <2>5. CASE ~d.own
    <3>1. net'.pc = "idle" /\ net.pc = "desc"
      BY <2>1, <2>3, <2>5 DEF Drop
    <3> QED
      BY <1>0, <1>1, <1>t, <2>1, <2>2, <3>1, RxGoesOn
  <2> QED
    BY <2>4, <2>5
<1>5. CASE RxWriteData
  <2>1. ~RxWriteBack /\ ~DmaReadSend
    <3>1. net.pc = "data"
      BY <1>5 DEF RxWriteData
    <3> QED
      BY <3>1, OnlyReader DEF RxWriteBack, DmaReadSend
  <2>2. Puts(NetData) /\ NetData \in ScMsgs
    BY <1>5, <2>1, NicPuts
  <2> QED
    BY <1>0, <1>1, <1>5, <2>2, RxFills
<1>6. CASE RxWriteBack
  <2>1. ~RxWriteData /\ ~DmaReadSend
    <3>1. net.pc = "wb"
      BY <1>6 DEF RxWriteBack
    <3> QED
      BY <3>1, OnlyReader DEF RxWriteData, DmaReadSend
  <2>2. Puts(NetBack) /\ NetBack \in ScMsgs
    BY <1>6, <2>1, NicPuts
  <2> DEFINE g == [f EXCEPT ![k] = Len(injected)]
  <2>3. RxRingOK(k + 1, g)' /\ NoStray'
    BY <1>0, <1>1, <1>6, <2>2, RxGivesBack
  <2> QED
    BY <2>3
<1> QED
  BY <1>2, <1>3, <1>4, <1>5, <1>6 DEF NetThread

(* A frame arrives.                                                        *)
LEMMA InjectRxOK ==
    ASSUME Inv, FrameInHand, Inject
    PROVE  FrameInHand' /\ (RxOK => RxOK') /\ (NoStray => NoStray')
<1>0. PICK p \in Packets : NetRecv(p) /\ injected' = Append(injected, Frame(p))
  BY DEF Inject
<1>1. /\ net.pc = "idle" /\ net'.pc = "lock" /\ net'.pkt = p
      /\ UNCHANGED <<m_regs, io, s2q, mem>>
  BY <1>0 DEF NetRecv, Inject, qemuVars, wireVars, Inv, NicInv, NetOK
<1>2. /\ injected \in Seq(Bytes) /\ Len(injected) \in Nat /\ Frame(p) \in Bytes
      /\ Len(injected') = Len(injected) + 1 /\ injected' \in Seq(Bytes)
      /\ \A i \in 1 .. Len(injected) : injected'[i] = injected[i]
      /\ injected'[Len(injected) + 1] = Frame(p)
  BY <1>0, CoSimAssumption, AppendElements DEF FrameInHand
<1>3. FrameInHand'
  BY <1>1, <1>2 DEF FrameInHand
<1>5. UNCHANGED <<Flight, mem>>
  BY <1>1 DEF Flight
<1> HIDE DEF Flight
<1>6. Arrived = Len(injected) /\ Arrived' = Len(injected)
  BY <1>1, <1>2 DEF Arrived, InHand
<1>7. ASSUME NEW k, NEW f, RxRingOK(k, f) PROVE RxRingOK(k, f)'
  <2>1. RxOrder(k, f)' /\ RxTurn(k)'
    BY <1>1, <1>6, <1>7 DEF RxRingOK, RxOrder, RxTurn
  <2>2. ASSUME NEW i \in RxSlots PROVE RxSlotOK(k, f, i)'
    <3>1. RxSlotOK(k, f, i) /\ i \in Nat
      BY <1>7 DEF RxRingOK, RxSlots
    <3>2. i < k => injected'[f[i]] = injected[f[i]]
      BY <1>2, <1>7, FilledFits
    <3> QED
      BY <1>1, <1>5, <3>1, <3>2 DEF RxSlotOK
  <2> QED
    BY <1>7, <2>1, <2>2 DEF RxRingOK
<1> QED
  BY <1>3, <1>5, <1>7 DEF RxOK, NoStray

(* QEMU carries out what is under way; the guest fills TX slots only.      *)
LEMMA QemuRxOK ==
    ASSUME Inv, FrameInHand, QemuStep \/ PostTx
    PROVE  FrameInHand' /\ (RxOK => RxOK') /\ (NoStray => NoStray')
<1>1. UNCHANGED <<net, injected, m_regs>>
  BY DEF QemuStep, PostTx, nicVars
<1>2. KeepsSlots /\ (NoStray => NoStray')
  BY QemuKeepsSlots, PostKeepsSlots
<1>3. ASSUME NEW k, NEW f, RxRingOK(k, f) PROVE RxRingOK(k, f)'
  BY <1>1, <1>2, <1>3, RxKept DEF KeepsTail
<1> QED
  BY <1>1, <1>2, <1>3 DEF RxOK, FrameInHand

-----------------------------------------------------------------------------
(***************************************************************************)
(* The invariant of the receive ring: what the guest and the NIC know of   *)
(* each other's descriptors, the messages between them included, as long   *)
(* as dma_read returns what it asked for.                                  *)
(***************************************************************************)
RingInv == RingSize /\ FrameInHand /\ ReadInv /\ (genuine => RxOK /\ NoStray)

(* At the start the receive slots are the device's (smarteth_main.c).      *)
LEMMA InitSlots == ASSUME Init PROVE \A i \in RxSlots : mem[RxDesc(i)] = Ready(i)
<1> DEFINE Holds(a) == CASE a \in {RxDesc(i) : i \in RxSlots} ->
                              [own |-> TRUE, done |-> FALSE, length |-> RxBufLen,
                               buf |-> RxBuf(a[2])]
                        [] a \in {TxDesc(i) : i \in TxSlots} ->
                              [own |-> FALSE, done |-> FALSE, length |-> 0, buf |-> TxBuf(a[2])]
                        [] a = DmaBuf -> Pattern
                        [] OTHER -> Blank
<1>1. mem = [a \in Addrs |-> Holds(a)]
  BY DEF Init
<1>2. ASSUME NEW i \in RxSlots PROVE mem[RxDesc(i)] = Ready(i)
  <2> DEFINE a == RxDesc(i)
  <2>0. /\ a \in {RxDesc(j) : j \in RxSlots} /\ a \notin {TxDesc(j) : j \in TxSlots}
        /\ a # DmaBuf /\ a[2] = i /\ a \in Addrs
    BY Locations DEF RxDesc, TxDesc, DmaBuf
  <2> HIDE DEF a
  <2>1. Holds(a) = [own |-> TRUE, done |-> FALSE, length |-> RxBufLen, buf |-> RxBuf(a[2])]
    BY <2>0, Zenon
  <2>2. Holds(a) = Ready(i)
    BY <2>0, <2>1 DEF Ready
  <2> HIDE DEF Holds
  <2> QED
    BY <1>1, <2>0, <2>2 DEF a
<1> QED
  BY <1>2

\* Initially the ring is empty (smarteth_setup_rx_ring).
LEMMA InitRing == ASSUME Init PROVE RingInv
<1>1. /\ io.pc # "handle" /\ s2q = <<>> /\ net.pc = "idle" /\ dma.st = "idle"
      /\ m_regs = RegInit /\ injected = <<>>
  BY DEF Init, NicInit, QemuInit, WireInit
<1>2. Flight = <<>>
  BY <1>1 DEF Flight
<1>3. \A a : Writers(Flight, a) = {}
  BY <1>2 DEF Writers
<1>4. m_regs["RX_RING_SIZE"] = 0 /\ m_regs["RX_TAIL"] = 0
  BY <1>1, RegInitType DEF RegNames
<1>5. RingSize /\ FrameInHand /\ ReadInv /\ NoStray
  BY <1>1, <1>3, <1>4 DEF RingSize, FrameInHand, ReadInv, NoStray
<1>6. RxOK
  <2> DEFINE f == [i \in RxSlots |-> 0]
  <2>0. 0 \in 0 .. RxRing /\ RxRing # 0 /\ f \in [RxSlots -> Nat]
    BY RxRingAssumption
  <2> HIDE DEF f
  <2>1. RxOrder(0, f)
    BY DEF RxOrder
  <2>2. RxTurn(0)
    BY <1>1, <1>4, <2>0 DEF RxTurn
  <2> HIDE DEF Flight
  <2>3. ASSUME NEW i \in RxSlots PROVE RxSlotOK(0, f, i)
    <3>1. Empty(Flight, mem, i)
      BY <1>3, InitSlots DEF Empty
    <3>2. i \in Nat /\ net.pc # "wb"
      BY <1>1 DEF RxSlots
    <3> QED
      BY <3>1, <3>2 DEF RxSlotOK
  <2> QED
    BY <2>0, <2>1, <2>2, <2>3 DEF RxOK, RxRingOK
<1> QED
  BY <1>5, <1>6 DEF RingInv

\* Every step of the system keeps the ring invariant: one case per kind of step.
LEMMA RingStep == ASSUME DriverRings, Inv, Still, RingInv, [Next]_vars PROVE RingInv'
<1> USE DEF RingInv
<1>1. RingSize' /\ ReadInv'
  BY StepKeepsRing, ReadStep
<1>2. CASE QemuStep \/ PostTx
  <2>1. genuine' = genuine
    BY <1>2 DEF QemuStep, PostTx
  <2> QED
    BY <1>1, <1>2, <2>1, QemuRxOK
<1>3. CASE NicStep \/ KernelStep
  <2>1. genuine' => genuine
    BY <1>3, NicReads
  <2> QED
    BY <1>1, <1>3, <2>1, NicRxOK, NicFrame
<1>4. CASE Inject
  <2>1. genuine' => genuine
    BY <1>4, NicReads
  <2> QED
    BY <1>1, <1>4, <2>1, InjectRxOK
<1>5. CASE UNCHANGED vars
  <2>1. UNCHANGED <<Flight, mem, injected, net, m_regs, genuine>>
    BY <1>5 DEF vars, wireVars, qemuVars, ghostVars, nicVars, Flight
  <2> HIDE DEF Flight
  <2>2. FrameInHand' /\ (NoStray => NoStray') /\ KeepsSlots /\ KeepsTail
    BY <2>1 DEF FrameInHand, NoStray, KeepsSlots, KeepsTail
  <2>3. RxOK => RxOK'
    BY <2>1, <2>2, RxKept DEF RxOK
  <2> QED
    BY <1>1, <2>1, <2>2, <2>3
<1> QED
  BY <1>2, <1>3, <1>4, <1>5 DEF Next

\* The ring invariant holds throughout.
LEMMA RingInvariant == ASSUME AsRegistered, DriverRings PROVE Spec => []RingInv
<1>1. Init => RingInv
  BY InitRing
<1>2. Inv /\ Still /\ RingInv /\ [Next]_vars => RingInv'
  BY RingStep
<1> QED
  BY <1>1, <1>2, Invariant, NothingRuns, PTL DEF Spec

-----------------------------------------------------------------------------
(***************************************************************************)
(* Reception, for a ring of any size and any number of frames, with the    *)
(* driver filling TX slots meanwhile: as long as dma_read returns what it  *)
(* asked for, the descriptors the guest sees DONE are the first ones of    *)
(* the ring, and their buffers hold the frames in the order they arrived,  *)
(* cut to the buffer and to the length the descriptor gives                *)
(* (on_packet_rx, nic.cpp:191-222).                                        *)
(***************************************************************************)
THEOREM RxFramesInOrder == ASSUME AsRegistered, DriverRings PROVE Spec => []RxInOrder
<1>1. ASSUME RingInv, genuine
      PROVE  /\ RxDone = 0 .. Cardinality(RxDone) - 1
             /\ \E f \in [RxDone -> DOMAIN injected] :
                   /\ \A i, j \in RxDone : i < j => f[i] < f[j]
                   /\ \A i \in RxDone : /\ mem[RxBuf(i)] = First(injected[f[i]], RxBufLen)
                                        /\ mem[RxDesc(i)].length = mem[RxBuf(i)].len
  <2>1. PICK k, f : RxRingOK(k, f)
    BY <1>1 DEF RingInv, RxOK
  <2>2. /\ k \in 0 .. RxRing /\ f \in [RxSlots -> Nat] /\ RxRing \in Nat
        /\ RxOrder(k, f) /\ \A i \in RxSlots : RxSlotOK(k, f, i)
    BY <2>1, RxRingAssumption DEF RxRingOK
  <2> DEFINE InMemory(i) == i < k /\ Filled(Flight, mem, i, Cut(injected[f[i]]))
  <2>3. \A i \in RxSlots :
           /\ InMemory(i) => /\ i \in RxDone /\ mem[RxBuf(i)] = Cut(injected[f[i]])
                             /\ mem[RxDesc(i)].length = mem[RxBuf(i)].len
           /\ mem[RxDesc(i)] = Ready(i) => i \notin RxDone
    <3> TAKE i \in RxSlots
    <3>1. i < k => Cut(injected[f[i]]) \in Fits
      BY <1>1, <2>1, FilledFits DEF RingInv
    <3>2. \E e : e \in Fits
      BY CutFits, CoSimAssumption
    <3>3. Ready(i).own /\ ~Ready(i).done
      BY <3>2, FullDesc
    <3>4. \A d \in Fits : Full(i, d).done /\ Full(i, d).length = d.len
      BY FullDesc
    <3>5. InMemory(i) => /\ mem[RxDesc(i)] = Full(i, Cut(injected[f[i]]))
                         /\ mem[RxBuf(i)] = Cut(injected[f[i]]) /\ Cut(injected[f[i]]) \in Fits
      BY <3>1 DEF Filled
    <3> HIDE DEF InMemory
    <3> QED
      BY <3>3, <3>4, <3>5 DEF RxDone
  <2>4. \A i \in RxSlots : /\ i < k => InMemory(i) \/ (i = k - 1 /\ mem[RxDesc(i)] = Ready(i))
                           /\ i >= k => mem[RxDesc(i)] = Ready(i)
    BY <2>2 DEF RxSlotOK, Landing, Filling, Empty, RxSlots
  <2> HIDE DEF InMemory
  <2>5. PICK n \in 0 .. k : \A i \in RxSlots : IF i < n THEN InMemory(i) ELSE mem[RxDesc(i)] = Ready(i)
    <3>1. CASE k > 0 /\ mem[RxDesc(k - 1)] = Ready(k - 1)
      <4>1. k - 1 \in 0 .. k
        BY <2>2, <3>1
      <4>2. ASSUME NEW i \in RxSlots
            PROVE  IF i < k - 1 THEN InMemory(i) ELSE mem[RxDesc(i)] = Ready(i)
        <5>1. i < k - 1 \/ i = k - 1 \/ i >= k
          BY <2>2 DEF RxSlots
        <5>2. i < k - 1 => i < k /\ i # k - 1
          BY <2>2 DEF RxSlots
        <5>3. i = k - 1 => ~(i < k - 1)
          BY <2>2
        <5>4. i >= k => ~(i < k - 1)
          BY <2>2 DEF RxSlots
        <5> QED
          BY <2>4, <3>1, <5>1, <5>2, <5>3, <5>4
      <4> QED
        BY <4>1, <4>2
    <3>2. CASE ~(k > 0 /\ mem[RxDesc(k - 1)] = Ready(k - 1))
      <4>1. k \in 0 .. k
        BY <2>2
      <4>2. ASSUME NEW i \in RxSlots
            PROVE  IF i < k THEN InMemory(i) ELSE mem[RxDesc(i)] = Ready(i)
        <5>1. i \in Nat /\ (i < k => k > 0) /\ (i < k \/ i >= k)
          BY <2>2 DEF RxSlots
        <5> QED
          BY <2>4, <3>2, <5>1
      <4> QED
        BY <4>1, <4>2
    <3> QED
      BY <3>1, <3>2
  <2>6. RxDone = 0 .. n - 1
    <3>1. \A i : i \in 0 .. n - 1 <=> i \in RxSlots /\ i < n
      BY <2>2 DEF RxSlots
    <3>2. RxDone \subseteq RxSlots
      BY DEF RxDone
    <3> QED
      BY <2>3, <2>5, <3>1, <3>2
  <2>7. Cardinality(RxDone) = n
    <3>1. Cardinality(0 .. n - 1) = n
      BY <2>2, FS_Interval
    <3> QED
      BY <2>6, <3>1
  <2>8. /\ \A i \in 0 .. n - 1 : i \in RxSlots /\ i \in 0 .. k - 1 /\ i < n
        /\ \A i \in 0 .. k - 1 : f[i] \in 1 .. Arrived
        /\ \A i, j \in 0 .. k - 1 : i < j => f[i] < f[j]
    BY <2>2 DEF RxOrder, RxSlots
  <2>9. DOMAIN injected = 1 .. Len(injected) /\ Len(injected) \in Nat /\ Arrived <= Len(injected)
        /\ Arrived \in Int
    BY <1>1 DEF RingInv, FrameInHand, Arrived
  <2> DEFINE g == [i \in RxDone |-> f[i]]
  <2>10. g \in [RxDone -> DOMAIN injected]
    BY <2>6, <2>8, <2>9
  <2>11. \A i, j \in RxDone : i < j => g[i] < g[j]
    BY <2>6, <2>8
  <2>12. \A i \in RxDone : /\ mem[RxBuf(i)] = First(injected[g[i]], RxBufLen)
                           /\ mem[RxDesc(i)].length = mem[RxBuf(i)].len
    <3> SUFFICES ASSUME NEW i \in RxDone
                 PROVE  /\ mem[RxBuf(i)] = Cut(injected[g[i]])
                        /\ mem[RxDesc(i)].length = mem[RxBuf(i)].len
      BY DEF Cut
    <3>1. g[i] = f[i]
      OBVIOUS
    <3>2. i \in RxSlots /\ i < n
      BY <2>6, <2>8
    <3> HIDE DEF g
    <3> QED
      BY <2>3, <2>5, <3>1, <3>2
  <2> HIDE DEF g
  <2> QED
    BY <2>6, <2>7, <2>10, <2>11, <2>12
<1>2. RingInv => RxInOrder
  BY <1>1 DEF RxInOrder
<1> QED
  BY <1>2, RingInvariant, PTL

(***************************************************************************)
(* As long as dma_read returns what it asked for, the NIC writes a receive *)
(* buffer only while its descriptor is still the device's, and no memory   *)
(* the driver never handed over (nic.cpp:191-203).                         *)
(***************************************************************************)
THEOREM WritesOwnedOnly == ASSUME AsRegistered, DriverRings PROVE Spec => OwnedBuffersOnly
<1>1. ASSUME Inv, Still, RingInv, genuine, [Next]_vars
      PROVE  /\ mem'[Other] = mem[Other]
             /\ \A i \in RxSlots : mem'[RxBuf(i)] # mem[RxBuf(i)] => mem[RxDesc(i)].own
  <2>1. CASE UNCHANGED mem
    BY <2>1
  <2>2. CASE PostTx
    BY <1>1, <2>2, PostMem
  <2>3. CASE Takes
    <3>0. Flight # <<>> /\ mem' = After(mem, Head(Flight))
      BY <2>3 DEF Takes
    <3>1. Flight \in Seq(ScMsgs) /\ mem \in [Addrs -> MemVals]
      BY <1>1, FlightType
    <3>2. PICK k, f : RxRingOK(k, f)
      BY <1>1 DEF RingInv, RxOK
    <3> HIDE DEF Flight
    <3>3. \A a \in Addrs : mem'[a] # mem[a] => Writers(Flight, a) # {}
      <4>1. \A a : 1 \in Writers(Flight, a)
                      <=> Head(Flight).type = "DMA_WRITE" /\ Head(Flight).addr = a
        BY <3>0, <3>1, WritersTake
      <4> QED
        BY <3>0, <3>1, <4>1 DEF After
    <3>4. mem'[Other] = mem[Other]
      BY <1>1, <3>3, Locations DEF RingInv, NoStray
    <3>5. ASSUME NEW i \in RxSlots, mem'[RxBuf(i)] # mem[RxBuf(i)]
          PROVE  mem[RxDesc(i)].own
      <4>1. Writers(Flight, RxBuf(i)) # {}
        BY <3>3, <3>5, Locations
      <4>2. RxSlotOK(k, f, i) /\ i \in Nat /\ k \in Nat
        BY <3>2, RxRingAssumption DEF RxRingOK, RxSlots
      <4>3. i < k \/ i = k \/ i > k
        BY <4>2
      <4>4. mem[RxDesc(i)] = Ready(i)
        BY <4>1, <4>2, <4>3 DEF RxSlotOK, Empty, Filling, Landing, Filled
      <4>5. \E e : e \in Fits
        BY CutFits, CoSimAssumption
      <4> QED
        BY <4>4, <4>5, FullDesc
    <3> QED
      BY <3>4, <3>5
  <2>4. CASE NicStep \/ KernelStep \/ Inject
    BY <1>1, <2>1, <2>4, NicReads
  <2>5. CASE UNCHANGED vars
    BY <2>1, <2>5 DEF vars, qemuVars
  <2> QED
    BY <1>1, <2>1, <2>2, <2>3, <2>4, <2>5, FlightTaken DEF Next
<1>2. Inv /\ Still /\ RingInv /\ [Next]_vars
      => [genuine => /\ mem'[Other] = mem[Other]
                     /\ \A i \in RxSlots :
                           mem'[RxBuf(i)] # mem[RxBuf(i)] => mem[RxDesc(i)].own]_vars
  BY <1>1
<1> QED
  BY <1>2, Invariant, NothingRuns, RingInvariant, PTL DEF Spec, OwnedBuffersOnly

-----------------------------------------------------------------------------
(* The receive interrupt, with dma_read genuine or not: for it suffices    *)
(* that no descriptor, and nothing that an uninitialised one may be, has   *)
(* its buffer where a receive descriptor is.                               *)

DescLocs == {RxDesc(i) : i \in RxSlots}
Tame(v) == v \in Descs => v.buf \notin DescLocs
GarbageTame == \A d \in Garbage : Tame(d)

\* A write to a receive descriptor hands it back.
Handing(m) == m.type = "DMA_WRITE" /\ m.addr \in DescLocs
TameWrite(m) ==
    /\ m.type = "DMA_WRITE" => Tame(m.data)
    /\ Handing(m) => m.data \in Descs /\ m.data.done
TameRead(m) == ReadMsg(m) => Tame(m.data)
TameAnswer(r) == r # NoData => Tame(r.data)

\* All that travels is tame.
TameInv ==
    /\ \A a \in Addrs : Tame(mem[a])
    /\ \A p \in DOMAIN Flight : TameWrite(Flight[p])
    /\ io.pc = "reply" => TameRead(io.msg)
    /\ \A p \in DOMAIN Inbound : TameRead(Inbound[p])
    /\ TameAnswer(m_dma_resp) /\ TameAnswer(dma.data)
    /\ net.pc \in {"data", "wb"} => Tame(net.desc)

\* Cutting what a location holds leaves it tame.
LEMMA FirstTame ==
    /\ \A b \in Bytes : Tame(b)
    /\ \A b \in Bytes, n \in Nat : Tame(First(b, n))
    /\ \A v \in MemVals : Tame(v) => Tame(Capped(v))
    /\ \A v \in Descs : First(v, DMA_BUF_SIZE) = v
<1>1. \A b \in Bytes : b \notin Descs
  BY DEF Bytes, Descs
<1>2. ASSUME NEW b \in Bytes, NEW n PROVE First(b, n) \notin Descs
  <2>1. First(b, n) = [b EXCEPT !.len = Smaller(b.len, n)]
    BY <1>1 DEF First
  <2>2. First(b, n) \in [pkt : Payloads, len : {Smaller(b.len, n)}]
    BY <2>1 DEF Bytes
  <2> QED
    BY <2>2 DEF Descs
<1>3. \A v \in Descs : First(v, DMA_BUF_SIZE) = v
  BY DEF First
<1>4. \A v \in MemVals : Tame(v) => Tame(Capped(v))
  BY <1>2, <1>3 DEF MemVals, Capped, Tame
<1> QED
  BY <1>1, <1>2, <1>3, <1>4 DEF Tame

\* Memory stays tame when a message is carried out.
LEMMA AfterTame ==
    ASSUME NEW M \in [Addrs -> MemVals], NEW m \in ScMsgs, TameWrite(m), \A a \in Addrs : Tame(M[a])
    PROVE  /\ \A a \in Addrs : Tame(After(M, m)[a])
           /\ ~Handing(m) => \A a \in DescLocs : After(M, m)[a] = M[a]
           /\ Handing(m) => /\ After(M, m)[m.addr].done
                            /\ \A a \in DescLocs : M[a].done => After(M, m)[a].done
<1>1. CASE m.type # "DMA_WRITE"
  BY <1>1 DEF After, Handing
<1>2. CASE m.type = "DMA_WRITE"
  <2>1. /\ m.addr \in Addrs /\ m.data \in MemVals /\ Tame(m.data) /\ Tame(Capped(m.data))
        /\ After(M, m) = [M EXCEPT ![m.addr] = Capped(m.data)]
    <3>1. m.addr \in Addrs /\ m.data \in MemVals
      BY <1>2 DEF ScMsgs, WriteResp
    <3> QED
      BY <1>2, <3>1, FirstTame DEF TameWrite, After
  <2>2. DescLocs \subseteq Addrs
    BY Locations DEF DescLocs
  <2>3. Handing(m) => Capped(m.data).done
    BY FirstTame DEF TameWrite, Capped
  <2> QED
    BY <1>2, <2>1, <2>2, <2>3 DEF Handing
<1> QED
  BY <1>1, <1>2

-----------------------------------------------------------------------------
\* What QEMU sends and carries out.
LEMMA QemuTame == ASSUME Inv, TameInv, QemuStep PROVE TameInv'
<1> USE DEF TameInv
<1>0. /\ UNCHANGED <<sock, m_dma_resp, dma, net>>
      /\ Inbound \in Seq(QemuMsgs) /\ Flight \in Seq(ScMsgs) /\ mem \in [Addrs -> MemVals]
      /\ \A m \in QemuMsgs : q2s' = Append(q2s, m) => Inbound' = Append(Inbound, m)
      /\ q2s' = q2s => Inbound' = Inbound
  <2>1. UNCHANGED <<sock, m_dma_resp, dma, net>>
    BY QemuReads
  <2>2. q2s' = q2s => Inbound' = Inbound
    BY <2>1 DEF Inbound
  <2>3. \A m \in QemuMsgs : q2s' = Append(q2s, m) => Inbound' = Append(Inbound, m)
    BY <2>1, InboundPut
  <2> QED
    BY <2>1, <2>2, <2>3, InboundType, FlightType
<1>i. ASSUME NEW m \in QemuMsgs, q2s' = Append(q2s, m), TameRead(m)
      PROVE  \A p \in DOMAIN Inbound' : TameRead(Inbound'[p])
  <2>1. Inbound' = Append(Inbound, m)
    BY <1>0, <1>i
  <2> QED
    BY <1>0, <1>i, <2>1, AppendElements
<1>1. CASE Passive /\ UNCHANGED q2s
  <2>1. UNCHANGED <<Flight, mem, Inbound>> /\ (io'.pc = "reply" => io.pc = "reply" /\ io'.msg = io.msg)
    BY <1>0, <1>1 DEF Passive
  <2> HIDE DEF Flight, Inbound
  <2> QED
    BY <1>0, <2>1
<1>2. CASE Passive /\ \E m \in QemuMsgs : ~ReadMsg(m) /\ q2s' = Append(q2s, m)
  <2>1. UNCHANGED <<Flight, mem>> /\ (io'.pc = "reply" => io.pc = "reply" /\ io'.msg = io.msg)
    BY <1>2 DEF Passive
  <2>2. \A p \in DOMAIN Inbound' : TameRead(Inbound'[p])
    BY <1>2, <1>i DEF TameRead
  <2> HIDE DEF Flight, Inbound
  <2> QED
    BY <1>0, <2>1, <2>2
<1>3. CASE /\ UNCHANGED <<Flight, mem>> /\ io.pc = "reply" /\ io'.pc # "reply"
           /\ io.msg \in QemuMsgs /\ q2s' = Append(q2s, io.msg)
  <2>1. \A p \in DOMAIN Inbound' : TameRead(Inbound'[p])
    BY <1>3, <1>i
  <2> HIDE DEF Flight, Inbound
  <2> QED
    BY <1>0, <1>3, <2>1
<1>4. CASE /\ Takes /\ UNCHANGED q2s
           /\ IF ReadMsg(Head(Flight))
              THEN io' = [pc |-> "reply", msg |-> DmaReadResp(Capped(mem[Head(Flight).addr]))]
              ELSE ~Replying'
  <2>0. Flight # <<>> /\ Flight' = Tail(Flight) /\ mem' = After(mem, Head(Flight)) /\ UNCHANGED Inbound
    BY <1>0, <1>4 DEF Takes
  <2> HIDE DEF Flight, Inbound
  <2>1. Head(Flight) \in ScMsgs /\ Head(Flight) = Flight[1] /\ 1 \in DOMAIN Flight
    BY <1>0, <2>0
  <2>2. \A a \in Addrs : Tame(mem'[a])
    BY <1>0, <2>0, <2>1, AfterTame
  <2>3. \A p \in DOMAIN Flight' : TameWrite(Flight'[p])
    BY <1>0, <2>0, TailElements
  <2>4. io'.pc = "reply" => TameRead(io'.msg)
    <3>1. CASE ReadMsg(Head(Flight))
      <4>1. Head(Flight).addr \in Addrs
        BY <2>1, <3>1 DEF ReadMsg, ScMsgs, WriteResp
      <4>2. Tame(Capped(mem[Head(Flight).addr]))
        BY <1>0, <4>1, FirstTame
      <4> QED
        BY <1>4, <3>1, <4>2 DEF TameRead, DmaReadResp
    <3>2. CASE ~ReadMsg(Head(Flight))
      BY <1>4, <3>2 DEF Replying, TameRead
    <3> QED
      BY <3>1, <3>2
  <2> QED
    BY <1>0, <2>0, <2>2, <2>3, <2>4
<1> QED
  BY <1>1, <1>2, <1>3, <1>4, QemuReads

\* What the NIC sends, and has in hand.
LEMMA NicTame ==
    ASSUME GarbageTame, Inv, Still, TameInv, NicStep \/ KernelStep \/ Inject
    PROVE  TameInv'
<1> USE DEF TameInv
<1>0. /\ UNCHANGED <<mem, io>>
      /\ Inbound \in Seq(QemuMsgs) /\ Flight \in Seq(ScMsgs)
      /\ net \in [pc : {"idle", "lock", "desc", "data", "wb", "irq"},
                  pkt : Packets \cup {NoData}, desc : Descs \cup {NoData}]
      /\ net.pc \in {"data", "wb"} => net.desc \in Descs /\ net.pkt \in Packets
      /\ dma \in [st : {"idle", "send", "wait", "true", "false"}, addr : Addrs, data : DmaAnswers]
      /\ m_dma_resp \in DmaAnswers
  BY NicReads, InboundType, FlightType DEF Inv, NicInv, NetOK, DmaOK
<1>1. \A p \in DOMAIN Flight' : TameWrite(Flight'[p])
  <2>1. ASSUME NEW m \in ScMsgs, Puts(m), TameWrite(m)
        PROVE  \A p \in DOMAIN Flight' : TameWrite(Flight'[p])
    <3> HIDE DEF Flight
    <3> QED
      BY <1>0, <2>1, AppendElements DEF Puts
  <2>2. CASE UNCHANGED Flight
    BY <2>2
  <2>3. CASE \E m \in ScMsgs : Puts(m) /\ ~DmaMsg(m)
    BY <2>1, <2>3 DEF TameWrite, Handing, DmaMsg
  <2>4. CASE Puts(DmaReadReq(dma.addr)) /\ DmaReadReq(dma.addr) \in ScMsgs
    BY <2>1, <2>4 DEF TameWrite, Handing, DmaReadReq
  <2>5. CASE RxWriteData /\ Puts(NetData) /\ NetData \in ScMsgs
    <3>1. net.desc \in Descs /\ net.pkt \in Packets /\ Tame(net.desc)
      BY <1>0, <2>5 DEF RxWriteData
    <3>2. Tame(First(Frame(net.pkt), net.desc.length))
      <4>1. Frame(net.pkt) \in Bytes /\ net.desc.length \in Nat
        BY <3>1, CoSimAssumption, LengthsAssumption DEF Descs
      <4> QED
        BY <4>1, FirstTame
    <3>3. TameWrite(NetData)
      BY <3>1, <3>2 DEF TameWrite, Handing, NetData, DmaWriteReq, Tame
    <3> QED
      BY <2>1, <2>5, <3>3
  <2>6. CASE RxWriteBack /\ Puts(NetBack) /\ NetBack \in ScMsgs
    <3>1. net.desc \in Descs /\ net.pkt \in Packets /\ Tame(net.desc)
      BY <1>0, <2>6 DEF RxWriteBack
    <3>2. RxBack \in Descs /\ RxBack.done /\ Tame(RxBack)
      BY <3>1, RxBackType DEF Tame
    <3>3. TameWrite(NetBack)
      BY <3>2 DEF TameWrite, Handing, NetBack, DmaWriteReq
    <3> QED
      BY <2>1, <2>6, <3>3
  <2> QED
    BY <2>2, <2>3, <2>4, <2>5, <2>6, NicPuts
<1>2. /\ \A p \in DOMAIN Inbound' : TameRead(Inbound'[p])
      /\ TameAnswer(m_dma_resp')
  <2>1. CASE UNCHANGED <<Inbound, m_dma_resp>>
    BY <2>1
  <2>2. CASE /\ Inbound # <<>> /\ Inbound' = Tail(Inbound)
             /\ m_dma_resp' = IF ReadMsg(Head(Inbound)) THEN [data |-> Head(Inbound).data]
                              ELSE m_dma_resp
    <3> HIDE DEF Inbound
    <3>1. Head(Inbound) = Inbound[1] /\ 1 \in DOMAIN Inbound
      BY <1>0, <2>2
    <3>2. \A p \in DOMAIN Inbound' : TameRead(Inbound'[p])
      BY <1>0, <2>2, TailElements
    <3> QED
      BY <2>2, <3>1, <3>2 DEF TameRead, TameAnswer
  <2>3. CASE RxReadDesc
    <3>1. UNCHANGED Inbound /\ m_dma_resp' = NoData
      BY <2>3 DEF RxReadDesc, DmaReadCall, wireVars, Inbound
    <3> HIDE DEF Inbound
    <3> QED
      BY <3>1 DEF TameAnswer
  <2> QED
    BY <2>1, <2>2, <2>3, NicInbound
<1>3. TameAnswer(dma'.data)
  <2>1. CASE SockThread \/ KernelStep \/ Inject
    <3>1. UNCHANGED dma
      BY <2>1, KernelIdle DEF SockThread, SockConnect, SockRecv, OnMmioRead, OnMmioWrite,
         OnMmioWriteIrq, SockAnswer, HandleDmaReadResp, HandleDmaWriteResp, dmaVars, KernelStep,
         Inject, NetRecv
    <3> QED
      BY <3>1
  <2>2. CASE DmaReadSend \/ DmaReadDone \/ DmaReadTimeout
    <3>1. dma'.data \in {dma.data, m_dma_resp}
      BY <1>0, <2>2 DEF DmaReadSend, DmaReadDone, DmaReadTimeout
    <3> QED
      BY <3>1
  <2>3. CASE RxDrop \/ RxWriteData \/ RxWriteBack \/ RxIrq
    <3>1. UNCHANGED dma
      BY <2>3 DEF RxDrop, RxWriteData, RxWriteBack, RxIrq, dmaVars
    <3> QED
      BY <3>1
  <2>4. CASE RxReadDesc \/ RxFailed \/ RxGotDesc
    <3>1. DmaReadReturned \/ DmaReadCall(RxDesc(m_regs["RX_TAIL"]))
      BY <2>4, Zenon DEF RxReadDesc, RxFailed, RxGotDesc
    <3>2. dma'.data = NoData
      <4>1. CASE DmaReadReturned
        BY <1>0, <4>1 DEF DmaReadReturned
      <4>2. CASE DmaReadCall(RxDesc(m_regs["RX_TAIL"]))
        <5> DEFINE a == RxDesc(m_regs["RX_TAIL"])
        <5>1. dma' = [st |-> "send", addr |-> a, data |-> NoData]
          BY <4>2 DEF DmaReadCall
        <5> HIDE DEF a
        <5> QED
          BY <5>1
      <4> QED
        BY <3>1, <4>1, <4>2
    <3> QED
      BY <3>2 DEF TameAnswer
  <2> QED
    BY <2>1, <2>2, <2>3, <2>4 DEF NicStep, OtherNicThread, NetThread
<1>4. net'.pc \in {"data", "wb"} => Tame(net'.desc)
  <2>1. CASE UNCHANGED net
    BY <2>1
  <2>2. CASE RxGotDesc
    <3>1. PICK d \in AsDesc(dma.data) :
              net' = [net EXCEPT !.pc = "data", !.desc = d] \/ Drop
      <4>1. \E d \in AsDesc(dma.data) :
               IF d.own THEN net' = [net EXCEPT !.pc = "data", !.desc = d] /\ UNCHANGED g_reg_mtx
               ELSE Drop /\ g_reg_mtx' = "none"
        BY <2>2 DEF RxGotDesc
      <4> HIDE DEF Drop
      <4> QED
        BY <4>1
    <3>2. Tame(d)
      BY <3>1 DEF AsDesc, TameAnswer, GarbageTame
    <3>3. CASE Drop
      BY <3>3 DEF Drop
    <3>4. CASE net' = [net EXCEPT !.pc = "data", !.desc = d]
      BY <1>0, <3>2, <3>4
    <3> QED
      BY <3>1, <3>3, <3>4
  <2>3. CASE RxWriteData
    BY <1>0, <2>3 DEF RxWriteData
  <2>4. CASE RxDrop \/ RxFailed \/ RxIrq \/ RxReadDesc
    BY <1>0, <2>4 DEF RxDrop, RxFailed, RxIrq, RxReadDesc, Drop
  <2>5. CASE RxWriteBack
    BY <1>0, <2>5 DEF RxWriteBack, Drop
  <2>6. CASE Inject
    BY <1>0, <2>6 DEF Inject, NetRecv
  <2> QED
    BY <2>1, <2>2, <2>3, <2>4, <2>5, <2>6, OthersKeepNet DEF NetThread
<1> HIDE DEF Flight, Inbound
<1> QED
  BY <1>0, <1>1, <1>2, <1>3, <1>4

-----------------------------------------------------------------------------
\* The guest has a descriptor back, or the write that gives one back is under
\* way; it is so far ahead that the guest has it before message p.
GuestHas == RxDone # {}
HandedBack == GuestHas \/ \E q \in DOMAIN Flight : Handing(Flight[q])
HandedBefore(p) == GuestHas \/ \E q \in DOMAIN Flight : q < p /\ Handing(Flight[q])

IrqInv ==
    /\ net.pc = "irq" => HandedBack
    /\ \A p \in DOMAIN Flight : Flight[p] = MsiIrq(1) => HandedBefore(p)
    /\ 1 \in msi => GuestHas

\* What the guest has is a matter of the receive descriptors alone.
LEMMA GuestKeeps ==
    /\ (\A a \in DescLocs : mem[a].done => mem'[a].done) => (GuestHas => GuestHas')
    /\ \A a \in DescLocs : mem'[a].done => GuestHas'
<1>1. GuestHas <=> \E i \in RxSlots : mem[RxDesc(i)].done
  BY DEF GuestHas, RxDone
<1>2. GuestHas' <=> \E i \in RxSlots : mem'[RxDesc(i)].done
  BY DEF GuestHas, RxDone
<1> QED
  BY <1>1, <1>2 DEF DescLocs

\* A message put behind the others leaves interrupts behind what they announce.
LEMMA PutBehind ==
    ASSUME Inv, IrqInv, NEW m \in ScMsgs, Puts(m), UNCHANGED mem, m = MsiIrq(1) => net.pc = "irq"
    PROVE  /\ \A p \in DOMAIN Flight' : Flight'[p] = MsiIrq(1) => HandedBefore(p)'
           /\ HandedBack \/ Handing(m) => HandedBack'
<1> DEFINE F == Flight
           n == Len(Flight) + 1
<1>1. /\ F \in Seq(ScMsgs) /\ Flight' = Append(F, m) /\ GuestHas' = GuestHas
  BY FlightType DEF Puts, GuestHas, RxDone
<1>2. /\ net.pc = "irq" => GuestHas \/ \E q \in DOMAIN F : Handing(F[q])
      /\ \A p \in DOMAIN F : F[p] = MsiIrq(1) => GuestHas \/ \E q \in DOMAIN F : q < p /\ Handing(F[q])
      /\ HandedBack = (GuestHas \/ \E q \in DOMAIN F : Handing(F[q]))
      /\ HandedBack' = (GuestHas' \/ \E q \in DOMAIN Flight' : Handing(Flight'[q]))
      /\ \A p : HandedBefore(p)' = (GuestHas' \/ \E q \in DOMAIN Flight' : q < p /\ Handing(Flight'[q]))
  BY DEF IrqInv, HandedBack, HandedBefore
<1> HIDE DEF F
<1>3. /\ DOMAIN F = 1 .. Len(F) /\ Len(F) \in Nat /\ DOMAIN Flight' = 1 .. Len(F) + 1
      /\ \A p \in DOMAIN F : Flight'[p] = F[p]
      /\ Flight'[Len(F) + 1] = m
  BY <1>1, AppendElements
<1>4. HandedBack \/ Handing(m) => HandedBack'
  <2>1. Len(F) + 1 \in DOMAIN Flight' /\ DOMAIN F \subseteq DOMAIN Flight'
    BY <1>3
  <2> QED
    BY <1>1, <1>2, <1>3, <2>1
<1>5. ASSUME NEW p \in DOMAIN Flight', Flight'[p] = MsiIrq(1) PROVE HandedBefore(p)'
  <2>1. CASE p \in DOMAIN F
    <3>1. GuestHas \/ \E q \in DOMAIN F : q < p /\ Handing(F[q])
      BY <1>2, <1>3, <1>5, <2>1
    <3>2. DOMAIN F \subseteq DOMAIN Flight'
      BY <1>3
    <3> QED
      BY <1>1, <1>2, <1>3, <3>1, <3>2
  <2>2. CASE p = Len(F) + 1
    <3>1. GuestHas \/ \E q \in DOMAIN F : Handing(F[q])
      BY <1>2, <1>3, <1>5, <2>2
    <3>2. \A q \in DOMAIN F : q \in DOMAIN Flight' /\ q < p
      BY <1>3, <2>2
    <3> QED
      BY <1>1, <1>2, <1>3, <3>1, <3>2
  <2> QED
    BY <1>3, <2>1, <2>2
<1> QED
  BY <1>4, <1>5

\* A message carried out: the descriptor arrives, or stays on its way.
LEMMA TakeBehind ==
    ASSUME Inv, TameInv, IrqInv, Takes
    PROVE  /\ \A p \in DOMAIN Flight' : Flight'[p] = MsiIrq(1) => HandedBefore(p)'
           /\ HandedBack => HandedBack'
           /\ GuestHas => GuestHas'
           /\ Head(Flight) = MsiIrq(1) => GuestHas
<1> DEFINE F == Flight
<1>1. /\ F \in Seq(ScMsgs) /\ mem \in [Addrs -> MemVals] /\ F # <<>> /\ Flight' = Tail(F)
      /\ mem' = After(mem, Head(F))
      /\ (\A a \in Addrs : Tame(mem[a])) /\ \A p \in DOMAIN F : TameWrite(F[p])
  BY FlightType DEF Takes, TameInv
<1>2. /\ \A p \in DOMAIN F : F[p] = MsiIrq(1) => GuestHas \/ \E q \in DOMAIN F : q < p /\ Handing(F[q])
      /\ HandedBack = (GuestHas \/ \E q \in DOMAIN F : Handing(F[q]))
      /\ HandedBack' = (GuestHas' \/ \E q \in DOMAIN Flight' : Handing(Flight'[q]))
      /\ \A p : HandedBefore(p)' = (GuestHas' \/ \E q \in DOMAIN Flight' : q < p /\ Handing(Flight'[q]))
  BY DEF IrqInv, HandedBack, HandedBefore
<1> SUFFICES /\ \A p \in DOMAIN Flight' : Flight'[p] = MsiIrq(1) => HandedBefore(p)'
             /\ HandedBack => HandedBack'
             /\ GuestHas => GuestHas'
             /\ Head(F) = MsiIrq(1) => GuestHas
  OBVIOUS
<1> HIDE DEF F
<1>3. /\ DOMAIN F = 1 .. Len(F) /\ Len(F) \in Nat \ {0} /\ DOMAIN Flight' = 1 .. Len(F) - 1
      /\ \A p \in DOMAIN Flight' : Flight'[p] = F[p + 1]
      /\ Head(F) = F[1] /\ Head(F) \in ScMsgs /\ 1 \in DOMAIN F
  BY <1>1
<1>4. (GuestHas => GuestHas') /\ (Handing(Head(F)) => GuestHas')
  <2>1. /\ ~Handing(Head(F)) => \A a \in DescLocs : mem'[a] = mem[a]
        /\ Handing(Head(F)) => /\ mem'[Head(F).addr].done
                               /\ \A a \in DescLocs : mem[a].done => mem'[a].done
    BY <1>1, <1>3, AfterTame
  <2>2. Handing(Head(F)) => Head(F).addr \in DescLocs
    BY DEF Handing
  <2> QED
    BY <2>1, <2>2, GuestKeeps
<1>5. \A q \in DOMAIN F : Handing(F[q]) => GuestHas' \/ (q - 1 \in DOMAIN Flight' /\ Handing(Flight'[q - 1]))
  <2> TAKE q \in DOMAIN F
  <2>1. CASE q = 1
    BY <1>3, <1>4, <2>1
  <2>2. CASE q # 1
    <3>1. q - 1 \in DOMAIN Flight' /\ (q - 1) + 1 = q
      BY <1>3, <2>2
    <3> QED
      BY <1>3, <3>1
  <2> QED
    BY <2>1, <2>2
<1>6. HandedBack => HandedBack'
  BY <1>2, <1>4, <1>5
<1>7. ASSUME NEW p \in DOMAIN Flight', Flight'[p] = MsiIrq(1) PROVE HandedBefore(p)'
  <2>1. p \in Nat /\ p + 1 \in DOMAIN F /\ F[p + 1] = MsiIrq(1)
    BY <1>3, <1>7
  <2>2. GuestHas \/ \E q \in DOMAIN F : q < p + 1 /\ Handing(F[q])
    BY <1>2, <2>1
  <2>3. \A q \in DOMAIN F : q < p + 1 => q - 1 < p
    BY <1>3, <2>1
  <2> QED
    BY <1>2, <1>4, <1>5, <2>2, <2>3
<1>8. Head(F) = MsiIrq(1) => GuestHas
  <2>1. \A q \in DOMAIN F : ~(q < 1)
    BY <1>3
  <2> QED
    BY <1>2, <1>3, <2>1
<1> QED
  BY <1>4, <1>6, <1>7, <1>8

\* What a step of QEMU adds to the interrupts the guest sees.
LEMMA QemuIrqs ==
    ASSUME Inv, QemuStep
    PROVE  1 \in msi' => 1 \in msi \/ (Takes /\ Head(Flight) = MsiIrq(1))
<1>1. CASE IoMsi
  <2>1. /\ io.pc = "handle" /\ io.msg.type = "MSI_IRQ" /\ msi' \subseteq msi \cup {io.msg.vector}
        /\ io' = [pc |-> "recv", msg |-> NoMsg] /\ UNCHANGED s2q
    BY <1>1 DEF IoMsi, Handles, Handled
  <2>2. io.msg \in ScMsgs /\ s2q \in Seq(ScMsgs)
    BY <2>1, FlightType DEF Inv, BridgeTypeOK, QemuTypeOK
  <2>3. io.msg = MsiIrq(io.msg.vector)
    BY <2>1, <2>2 DEF ScMsgs, MsiIrq, WriteResp
  <2>4. Flight = <<io.msg>> \o s2q /\ Flight' = s2q
    BY <2>1 DEF Flight
  <2>5. Flight # Flight' /\ Head(Flight) = io.msg
    <3>1. Len(<<io.msg>> \o s2q) = Len(s2q) + 1 /\ Len(s2q) \in Nat /\ Head(<<io.msg>> \o s2q) = io.msg
      BY <2>2
    <3> QED
      BY <2>4, <3>1
  <2> QED
    BY <2>1, <2>3, <2>5, FlightTaken
<1>2. CASE UNCHANGED msi
  BY <1>2
<1>3. CASE \E v \in Vectors : TakeMsi(v)
  BY <1>3 DEF TakeMsi
<1>4. IoThread /\ ~IoMsi => UNCHANGED msi
  BY Remains DEF Inv, IoThread, IoAccept, IoRecv, IoMmioReadResp, IoMmioWriteResp, IoDmaRead,
     IoDmaWrite, IoReply
<1>5. GuestAccess \/ VcpuGoesOn => UNCHANGED msi
  BY DEF GuestAccess, GuestRead, MmioReadCached, MmioReadStart, RingTx, Written, MmioWrite,
     VcpuGoesOn, MmioReadSend, MmioReadWake, MmioReadLost, MmioReadReturn, MmioWriteSend
<1> QED
  BY <1>1, <1>2, <1>3, <1>4, <1>5 DEF QemuStep, QemuRuns

\* A step of QEMU takes what is under way in order.
LEMMA QemuIrqInv == ASSUME Inv, TameInv, IrqInv, QemuStep PROVE IrqInv'
<1>1. UNCHANGED net
  BY QemuReads
<1>2. /\ \A p \in DOMAIN Flight' : Flight'[p] = MsiIrq(1) => HandedBefore(p)'
      /\ HandedBack => HandedBack'
      /\ GuestHas => GuestHas'
  <2>1. CASE UNCHANGED <<Flight, mem>>
    <3> HIDE DEF Flight
    <3> QED
      BY <2>1 DEF IrqInv, HandedBefore, HandedBack, GuestHas, RxDone
  <2>2. CASE Takes
    BY <2>2, TakeBehind
  <2> QED
    BY <2>1, <2>2, FlightTaken
<1>3. 1 \in msi' => GuestHas'
  BY <1>2, QemuIrqs, TakeBehind DEF IrqInv
<1> HIDE DEF Flight
<1> QED
  BY <1>1, <1>2, <1>3 DEF IrqInv

\* A step of the NIC puts the interrupt behind the descriptor it announces.
LEMMA NicIrqInv ==
    ASSUME Inv, Still, IrqInv, NicStep \/ KernelStep \/ Inject
    PROVE  IrqInv'
<1>0. /\ UNCHANGED <<mem, msi>>
      /\ GuestHas' = GuestHas
  BY NicReads DEF GuestHas, RxDone, NicStep, KernelStep, Inject, qemuVars
<1>1. net'.pc = "irq" => net.pc = "irq" \/ RxWriteBack
  <2>1. CASE UNCHANGED net \/ RxWriteBack
    BY <2>1
  <2>2. CASE RxDrop \/ RxFailed \/ RxIrq
    BY <2>2 DEF RxDrop, RxFailed, RxIrq, Drop
  <2>3. CASE RxReadDesc \/ RxWriteData
    BY <2>3 DEF RxReadDesc, RxWriteData, Inv, NicInv, NetOK
  <2>4. CASE RxGotDesc
    <3>1. PICK d : net' = [net EXCEPT !.pc = "data", !.desc = d] \/ Drop
      BY <2>4 DEF RxGotDesc
    <3>2. CASE Drop
      BY <3>2 DEF Drop
    <3>3. CASE net' = [net EXCEPT !.pc = "data", !.desc = d]
      BY <3>3 DEF Inv, NicInv, NetOK
    <3> QED
      BY <3>1, <3>2, <3>3
  <2>5. CASE Inject
    BY <2>5 DEF Inject, NetRecv, Inv, NicInv, NetOK
  <2> QED
    BY <2>1, <2>2, <2>3, <2>4, <2>5, OthersKeepNet DEF NetThread
<1>2. ASSUME NEW m \in ScMsgs, Puts(m), m = MsiIrq(1) => net.pc = "irq", RxWriteBack => Handing(m)
      PROVE  IrqInv'
  <2>1. /\ \A p \in DOMAIN Flight' : Flight'[p] = MsiIrq(1) => HandedBefore(p)'
        /\ HandedBack \/ Handing(m) => HandedBack'
    BY <1>0, <1>2, PutBehind
  <2> HIDE DEF Flight
  <2> QED
    BY <1>0, <1>1, <1>2, <2>1 DEF IrqInv
<1>3. CASE UNCHANGED Flight /\ ~RxWriteBack
  <2> HIDE DEF Flight
  <2> QED
    BY <1>0, <1>1, <1>3 DEF IrqInv, HandedBack, HandedBefore
<1>4. CASE \E m \in ScMsgs : /\ Puts(m) /\ ~RxWriteBack
                             /\ m = MsiIrq(1) => net.pc = "irq"
  BY <1>2, <1>4
<1>5. CASE DmaReadSend /\ Puts(DmaReadReq(dma.addr)) /\ DmaReadReq(dma.addr) \in ScMsgs
  <2>1. ~RxWriteBack /\ DmaReadReq(dma.addr) # MsiIrq(1)
    BY <1>5, NicReads DEF DmaReadSend, DmaReadReq, MsiIrq
  <2> QED
    BY <1>2, <1>5, <2>1
<1>6. CASE RxWriteData /\ Puts(NetData) /\ NetData \in ScMsgs
  <2>1. ~RxWriteBack /\ NetData # MsiIrq(1)
    BY <1>6 DEF RxWriteData, RxWriteBack, NetData, DmaWriteReq, MsiIrq
  <2> QED
    BY <1>2, <1>6, <2>1
<1>7. CASE RxWriteBack /\ Puts(NetBack) /\ NetBack \in ScMsgs
  <2>1. Handing(NetBack) /\ NetBack # MsiIrq(1)
    BY DEF Inv, NicInv, RegsOK, Handing, NetBack, DmaWriteReq, MsiIrq, Slot, DescLocs
  <2> QED
    BY <1>2, <1>7, <2>1
<1> QED
  BY <1>3, <1>4, <1>5, <1>6, <1>7, NicPuts

-----------------------------------------------------------------------------
\* Initially nothing travels.
LEMMA InitTame == ASSUME Init PROVE TameInv /\ IrqInv
<1>1. /\ io.pc # "handle" /\ io.pc # "reply" /\ s2q = <<>> /\ q2s = <<>> /\ net.pc = "idle"
      /\ sock.pc = "connect" /\ msi = {} /\ m_dma_resp = NoData /\ dma.data = NoData
  BY DEF Init, NicInit, QemuInit, WireInit
<1>2. Flight = <<>> /\ Inbound = <<>>
  BY <1>1 DEF Flight, Inbound
<1>3. ASSUME NEW a \in Addrs PROVE Tame(mem[a])
  <2>1. \/ \E i \in RxSlots : mem[a] = [own |-> TRUE, done |-> FALSE, length |-> RxBufLen,
                                        buf |-> RxBuf(a[2])]
        \/ \E i \in TxSlots : mem[a] = [own |-> FALSE, done |-> FALSE, length |-> 0,
                                        buf |-> TxBuf(a[2])]
        \/ mem[a] \in {Pattern, Blank}
    BY <1>3 DEF Init
  <2>2. \A i \in RxSlots : \A j : RxDesc(i) # RxBuf(j) /\ RxDesc(i) # TxBuf(j)
    BY Apart
  <2>3. Tame(Pattern) /\ Tame(Blank)
    BY CoSimAssumption, FirstTame
  <2> QED
    BY <2>1, <2>2, <2>3 DEF Tame, DescLocs
<1>4. TameInv
  BY <1>1, <1>2, <1>3 DEF TameInv, TameAnswer
<1> HIDE DEF Flight
<1> QED
  BY <1>1, <1>2, <1>4 DEF IrqInv

\* The guest fills a TX slot with its frame and a descriptor of that frame.
LEMMA PostTame ==
    ASSUME Inv, PostTx
    PROVE  /\ (\A a \in Addrs : Tame(mem[a])) => \A a \in Addrs : Tame(mem'[a])
           /\ GuestHas' = GuestHas
<1> DEFINE buf == TxBuf(posted % TxRing)
           d == [own |-> TRUE, done |-> FALSE, length |-> TxFrame.len, buf |-> buf]
<1>1. mem' = [mem EXCEPT ![buf] = TxFrame, ![TxDesc(posted % TxRing)] = d] /\ d.buf = buf
  BY DEF PostTx
<1>2. mem \in [Addrs -> MemVals]
  BY FlightType
<1> HIDE DEF d
<1>3. Tame(TxFrame) /\ Tame(d)
  BY <1>1, CoSimAssumption, FirstTame, Apart DEF Tame, DescLocs
<1> HIDE DEF buf
<1>4. \A a \in Addrs : mem'[a] \in {mem[a], TxFrame, d}
  BY <1>1, <1>2
<1>5. \A i \in RxSlots : mem'[RxDesc(i)] = mem[RxDesc(i)]
  BY PostMem
<1> QED
  BY <1>3, <1>4, <1>5 DEF GuestHas, RxDone

\* Every step of the system keeps both: one case per kind of step.
LEMMA IrqStep ==
    ASSUME GarbageTame, Inv, Still, TameInv, IrqInv, [Next]_vars
    PROVE  TameInv' /\ IrqInv'
<1>1. CASE QemuStep
  BY <1>1, QemuTame, QemuIrqInv
<1>2. CASE NicStep \/ KernelStep \/ Inject
  BY <1>2, NicTame, NicIrqInv
<1>3. CASE PostTx
  <2>1. UNCHANGED <<Flight, Inbound, io, m_dma_resp, dma, net, msi>>
    BY <1>3 DEF PostTx, nicVars, dmaVars, wireVars, Flight, Inbound
  <2> HIDE DEF Flight, Inbound
  <2> QED
    BY <1>3, <2>1, PostTame DEF TameInv, IrqInv, HandedBack, HandedBefore
<1>4. CASE UNCHANGED vars
  <2>1. UNCHANGED <<Flight, Inbound, io, m_dma_resp, dma, net, msi, mem>>
    BY <1>4 DEF vars, nicVars, dmaVars, wireVars, qemuVars, Flight, Inbound
  <2> HIDE DEF Flight, Inbound
  <2> QED
    BY <2>1 DEF TameInv, IrqInv, HandedBack, HandedBefore, GuestHas, RxDone
<1> QED
  BY <1>1, <1>2, <1>3, <1>4 DEF Next

(***************************************************************************)
(* The receive interrupt does not overtake the DONE flag it announces,     *)
(* whatever dma_read returned: a guest that takes vector 1 finds a         *)
(* descriptor DONE (nic.cpp:209-222).                                      *)
(***************************************************************************)
THEOREM IrqBehindFrame == ASSUME AsRegistered, GarbageTame PROVE Spec => []IrqAfterDone
<1>1. Init => TameInv /\ IrqInv
  BY InitTame
<1>2. Inv /\ Still /\ TameInv /\ IrqInv /\ [Next]_vars => (TameInv /\ IrqInv)'
  BY IrqStep
<1>3. IrqInv => IrqAfterDone
  BY DEF IrqInv, IrqAfterDone, GuestHas
<1> QED
  BY <1>1, <1>2, <1>3, Invariant, NothingRuns, PTL DEF Spec
=============================================================================
