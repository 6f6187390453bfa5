----------------------------- MODULE CoSim_refines -----------------------------
(***************************************************************************)
(* Proof that the co-simulation implements BridgePeer: the NIC, whatever   *)
(* its threads and processes do, is the peer QEMU's bridge relies on.  So  *)
(* what is proved of the bridge and that peer holds with the NIC in its    *)
(* place; and with that, the last part proves that the guest sees one      *)
(* register file (RegFile) through cache, queue and NIC.                   *)
(***************************************************************************)
EXTENDS CoSim_proofs

-----------------------------------------------------------------------------
(* What the refinement needs besides Inv. *)

\* The NIC is as far as its socket thread has taken it, and the sockets hold
\* what they have room for.
LinkOK ==
    /\ sock.pc = "connect" <=> link = "none"
    /\ Len(q2s) <= SockCap /\ Len(s2q) <= SockCap

\* Before it is connected, the NIC has nothing to do and so nothing to send.
QuietBefore ==
    link = "none" =>
        /\ m_regs = RegInit /\ g_reg_mtx = "none"
        /\ ~m_dma_start /\ ~m_tx_event
        /\ pc["process_dma"] \in {"never", "wait"} /\ pc["process_tx"] \in {"never", "wait"}

RefInv == LinkOK /\ QuietBefore

-----------------------------------------------------------------------------
(* The abstract bridge's operators are the bridge's. *)

(* The cache and the messages are the same.                                *)
LEMMA SameCache ==
    /\ \A f, r : Bridge!CacheRead(f, r) = CacheRead(f, r)
    /\ \A f, r, v : Bridge!CacheWrite(f, r, v) = CacheWrite(f, r, v)
    /\ Bridge!CacheInit = CacheInit
BY DEF Bridge!CacheRead, CacheRead, Bridge!CacheWrite, CacheWrite, Bridge!CacheInit, CacheInit,
   Bridge!Zeros, Zeros, Bridge!RegNames, RegNames, Bridge!Has, Has, Bridge!ClearBits, ClearBits,
   Bridge!Keep, Keep, Bridge!SC_DEV_ID, SC_DEV_ID, Bridge!SC_STATUS_READY, SC_STATUS_READY,
   Bridge!SC_MAC_DEFAULT_LO, SC_MAC_DEFAULT_LO, Bridge!SC_MAC_DEFAULT_HI, SC_MAC_DEFAULT_HI,
   Bridge!SC_CTRL_RESET, SC_CTRL_RESET, Bridge!SC_DMA_START, SC_DMA_START,
   Bridge!SC_STATUS_DMA_BSY, SC_STATUS_DMA_BSY

\* Both specifications build the same messages.
LEMMA SameMessages ==
    /\ \A r : Bridge!ReadReq(r) = ReadReq(r)
    /\ \A r, v : Bridge!WriteReq(r, v) = WriteReq(r, v)
    /\ \A r, v, st : Bridge!ReadResp(r, v, st) = ReadResp(r, v, st)
    /\ \A d : Bridge!DmaReadResp(d) = DmaReadResp(d)
    /\ \A d : Bridge!Capped(d) = Capped(d)
    /\ Bridge!WriteResp = WriteResp /\ Bridge!DmaWriteResp = DmaWriteResp
    /\ Bridge!NoMsg = NoMsg
    /\ \A m : Bridge!Send(m) <=> Send(m)
    /\ \A m : Bridge!PutS2q(m) <=> PutS2q(m)
BY DEF Bridge!ReadReq, ReadReq, Bridge!WriteReq, WriteReq, Bridge!ReadResp, ReadResp,
   Bridge!DmaReadResp, DmaReadResp, Bridge!WriteResp, WriteResp, Bridge!DmaWriteResp, DmaWriteResp,
   Bridge!NoMsg, NoMsg, Bridge!Send, Send, Bridge!PutQ2s, PutQ2s, Bridge!PutS2q, PutS2q,
   Bridge!Capped, Capped, Bridge!First, First, Bridge!Descs, Descs, Bridge!Smaller, Smaller,
   Bridge!DMA_BUF_SIZE, DMA_BUF_SIZE

(* With the sockets' sizes known, the abstract guest may start an access.  *)
LEMMA QuotaHolds == ASSUME Inv, LinkOK PROVE Bridge!Quota
<1>1. Len(q2s) \in Nat /\ Len(s2q) \in Nat
  BY DEF Inv, BridgeTypeOK, WireTypeOK
<1> QED
  BY <1>1, SockCapAssumption DEF LinkOK, Bridge!Quota

-----------------------------------------------------------------------------
(* QEMU's steps are the abstract bridge's. *)

LEMMA WriteRefines ==
    ASSUME Inv, LinkOK, NEW r, NEW v, MmioWrite(r, v)
    PROVE  Bridge!MmioWrite(r, v)
BY QuotaHolds, SameCache DEF MmioWrite, Bridge!MmioWrite, MayAccess, Bridge!MayAccess,
   Bridge!Has, Has, Bridge!SC_CTRL_RESET, SC_CTRL_RESET

\* A guest access in the co-simulation is one of the bridge's.
LEMMA VcpuRefines ==
    ASSUME Inv, LinkOK
    PROVE  /\ VcpuGoesOn => Bridge!VcpuGoesOn
           /\ GuestRead => Bridge!GuestRead
<1>1. MmioReadSend => Bridge!MmioReadSend
  BY SameMessages DEF MmioReadSend, Bridge!MmioReadSend, deviceVars, Bridge!deviceVars
<1>2. /\ MmioReadWake => Bridge!MmioReadWake
      /\ MmioReadLost => Bridge!MmioReadLost
  BY DEF MmioReadWake, Bridge!MmioReadWake, MmioReadLost, Bridge!MmioReadLost, Destroyed,
         Bridge!Destroyed, deviceVars, Bridge!deviceVars
<1>3. MmioReadReturn => Bridge!MmioReadReturn
  BY DEF MmioReadReturn, Bridge!MmioReadReturn
<1>4. MmioWriteSend => Bridge!MmioWriteSend
  BY SameMessages DEF MmioWriteSend, Bridge!MmioWriteSend, deviceVars, Bridge!deviceVars
<1>5. \A r : MmioReadCached(r) => Bridge!MmioReadCached(r)
  BY SameCache DEF MmioReadCached, Bridge!MmioReadCached, MayAccess, Bridge!MayAccess, deviceVars,
     Bridge!deviceVars
<1>6. \A r : MmioReadStart(r) => Bridge!MmioReadStart(r)
  BY QuotaHolds DEF MmioReadStart, Bridge!MmioReadStart, MayAccess, Bridge!MayAccess
<1> QED
  BY <1>1, <1>2, <1>3, <1>4, <1>5, <1>6 DEF VcpuGoesOn, Bridge!VcpuGoesOn, GuestRead,
     Bridge!GuestRead

\* A step of the I/O thread in the co-simulation is one of the bridge's.
LEMMA IoRefines == IoThread => Bridge!IoThread
<1>1. /\ IoAccept => Bridge!IoAccept
      /\ IoAcceptFails => Bridge!IoAcceptFails
      /\ IoCleanup => Bridge!IoCleanup
  BY DEF IoAccept, Bridge!IoAccept, IoAcceptFails, Bridge!IoAcceptFails, IoCleanup, Bridge!IoCleanup
<1>2. IoRecv => Bridge!IoRecv
  BY DEF IoRecv, Bridge!IoRecv, deviceVars, Bridge!deviceVars
<1>3. IoLoopEnds => Bridge!IoLoopEnds
  BY DEF IoLoopEnds, Bridge!IoLoopEnds, deviceVars, Bridge!deviceVars
<1>4. \A type : Handles(type) => Bridge!Handles(type)
  BY DEF Handles, Bridge!Handles
<1>5. Handled => Bridge!Handled
  BY SameMessages DEF Handled, Bridge!Handled
<1>6. IoMmioReadResp => Bridge!IoMmioReadResp
  BY <1>4, <1>5 DEF IoMmioReadResp, Bridge!IoMmioReadResp
<1>7. IoMmioWriteResp => Bridge!IoMmioWriteResp
  BY <1>4, <1>5, SameMessages DEF IoMmioWriteResp, Bridge!IoMmioWriteResp, deviceVars, Bridge!deviceVars
<1>8. IoDmaRead => Bridge!IoDmaRead
  BY <1>4, SameMessages DEF IoDmaRead, Bridge!IoDmaRead, deviceVars, Bridge!deviceVars
<1>9. IoDmaWrite => Bridge!IoDmaWrite
  BY <1>4, SameMessages DEF IoDmaWrite, Bridge!IoDmaWrite, deviceVars, Bridge!deviceVars
<1>10. IoReply => Bridge!IoReply
  BY <1>5, SameMessages DEF IoReply, Bridge!IoReply, deviceVars, Bridge!deviceVars
<1>11. /\ IoMsi => Bridge!IoMsi
       /\ IoLost => Bridge!IoLost
  BY <1>4, <1>5, SameMessages DEF IoMsi, Bridge!IoMsi, IoLost, Bridge!IoLost, Destroyed,
     Bridge!Destroyed, deviceVars, Bridge!deviceVars
<1> QED
  BY <1>1, <1>2, <1>3, <1>6, <1>7, <1>8, <1>9, <1>10, <1>11 DEF IoThread, Bridge!IoThread

(* A step of QEMU's is one of the abstract bridge's.                       *)
LEMMA QemuRefines ==
    ASSUME Inv, LinkOK, QemuStep
    PROVE  Bridge!QemuNext /\ UNCHANGED <<link, sock.msg>>
<1>1. UNCHANGED <<link, sock.msg>>
  BY DEF QemuStep, nicVars
<1>2. CASE GuestAccess
  <2>1. ASSUME NEW w \in GuestWrites \cup {<<"TX_DOORBELL", 1>>}, MmioWrite(w[1], w[2])
        PROVE  Bridge!GuestWrite
    BY <2>1, WriteRefines DEF Bridge!GuestWrite
  <2>2. Bridge!GuestRead \/ Bridge!GuestWrite
    <3>1. CASE RingTx
      <4>1. <<"TX_DOORBELL", 1>>[1] = "TX_DOORBELL" /\ <<"TX_DOORBELL", 1>>[2] = 1
        OBVIOUS
      <4> QED
        BY <2>1, <3>1, <4>1 DEF RingTx, Written
    <3> QED
      BY <1>2, <2>1, <3>1, VcpuRefines DEF GuestAccess, Written
  <2> QED
    BY <1>1, <1>2, <2>2 DEF GuestAccess, Bridge!QemuNext
<1>3. CASE QemuRuns
  <2>2. \A v : TakeMsi(v) => Bridge!TakeMsi(v)
    BY DEF TakeMsi, Bridge!TakeMsi, deviceVars, Bridge!deviceVars
  <2> QED
    BY <1>1, <1>3, <2>2, VcpuRefines, IoRefines DEF QemuRuns, Bridge!QemuNext
<1> QED
  BY <1>2, <1>3 DEF QemuStep

(* The guest's stores are the abstract guest's.                            *)
LEMMA PostRefines == ASSUME Inv, PostTx PROVE Bridge!GuestStores
<1>1. mem' \in [Addrs -> MemVals]
  BY PostStep DEF Inv, BridgeTypeOK, QemuTypeOK
<1> QED
  BY <1>1 DEF PostTx, Bridge!GuestStores, nicVars, wireVars, Bridge!wireVars, deviceVars,
     Bridge!deviceVars

-----------------------------------------------------------------------------
(* The NIC's steps are the abstract peer's. *)

(* What it asks for is what the abstract peer may ask for.                 *)
LEMMA SendRefines ==
    ASSUME Inv, LinkOK, link = "up", UNCHANGED <<q2s, link, sock.msg>>,
           NEW m \in DmaRequests, PutS2q(m)
    PROVE  Bridge!Peer
<1>1. Bridge!PeerSend(m)
  BY SameMessages DEF Bridge!PeerSend, Bridge!QemuOpen, Inv, StaysOK
<1>2. Bridge!PeerRequest
  BY <1>1, QuotaHolds DEF Bridge!PeerRequest
<1> QED
  BY <1>2 DEF Bridge!Peer

(* The NIC sends nothing before it is connected.                           *)
LEMMA QuietSends ==
    ASSUME Inv, RefInv, NicAction, link = "none"
    PROVE  UNCHANGED s2q
<1> USE DEF Inv, NicInv
<1>1. /\ m_regs["IRQ_STS"] = 0 /\ sock.pc = "connect" /\ ~m_dma_start /\ ~m_tx_event
      /\ g_reg_mtx = "none"
      /\ pc["process_dma"] \in {"never", "wait"} /\ pc["process_tx"] \in {"never", "wait"}
  BY RegInitType DEF RefInv, QuietBefore, LinkOK, RegNames
<1>2. /\ net.pc \notin {"desc", "data", "wb", "irq"} /\ pc["poll_irq"] # "irq"
      /\ dma.st = "idle"
  BY <1>1 DEF MutexOK, CallerOK
<1>3. CASE SockThread
  BY <1>1, <1>3 DEF SockThread, SockConnect, SockRecv, OnMmioRead, OnMmioWrite, OnMmioWriteIrq,
                    SockAnswer, HandleDmaReadResp, HandleDmaWriteResp, Serves
<1>4. CASE NetThread \/ \E p \in Packets : NetRecv(p)
  BY <1>2, <1>4 DEF NetThread, RxDrop, RxReadDesc, RxFailed, RxGotDesc, RxWriteData, RxWriteBack,
                    RxIrq, NetRecv, wireVars
<1>5. CASE DmaReadSend \/ DmaReadDone \/ DmaReadTimeout
  BY <1>2, <1>5 DEF DmaReadSend, DmaReadDone, DmaReadTimeout
<1>6. CASE PollIrq
  BY <1>2, <1>6 DEF PollIrq, PollResume, PollQuiet, PollPending, PollSendIrq, wireVars
<1>7. CASE ProcessDma \/ ProcessTx
  BY <1>1, <1>7 DEF ProcessDma, DmaResume, DmaEngineStart, DmaEngineWrite, DmaEngineRead, DmaFinish,
     DmaSendIrq, DmaRelease, ProcessTx, TxResume, TxEventLost, TxIdle, TxReadDesc, TxReadFailed,
     TxGotDesc, TxTransmit, TxWriteBack, TxRelease, TxDoneQuiet, TxDone, TxSendIrq, wireVars
<1> QED
  BY <1>3, <1>4, <1>5, <1>6, <1>7 DEF NicAction, Kernel

(* A step of the NIC's is one of the abstract peer's, or leaves the wire   *)
(* and the request it serves alone.                                        *)
LEMMA NicRefines ==
    ASSUME Inv, RefInv, RegVals = Nat, NicAction, UNCHANGED qemuVars
    PROVE  Bridge!Peer \/ UNCHANGED <<wireVars, sock.msg>>
<1>0. sock \in [pc : {"connect", "recv", "handle", "irq", "answer"},
                msg : QemuMsgs \cup {NoMsg}, ans : ScMsgs \cup {NoMsg}]
  BY DEF Inv, NicInv, SockOK
<1> USE DEF RefInv
<1>1. CASE SockConnect
  <2>1. Bridge!PeerConnect
    BY <1>0, <1>1 DEF SockConnect, Bridge!PeerConnect
  <2> QED
    BY <2>1 DEF Bridge!Peer
<1>2. CASE SockRecv
  <2>1. /\ sock.msg = NoMsg /\ q2s # <<>> /\ q2s' = Tail(q2s) /\ sock'.msg = Head(q2s)
        /\ link = "up" /\ UNCHANGED <<s2q, link>>
    BY <1>0, <1>2 DEF SockRecv, LinkOK, Inv, NicInv, SockOK, StaysOK
  <2>2. Bridge!PeerRecv
    BY <2>1, SameMessages DEF Bridge!PeerRecv
  <2> QED
    BY <2>2 DEF Bridge!Peer
<1>3. CASE SockAnswer
  <2>1. /\ PutS2q(sock.ans) /\ sock'.msg = NoMsg /\ Answered
        /\ link = "up" /\ UNCHANGED <<q2s, link>>
    BY <1>0, <1>3 DEF SockAnswer, Served, LinkOK, Inv, NicInv, SockOK, StaysOK
  <2>2. Bridge!PeerSend(sock.ans)
    BY <2>1, SameMessages DEF Bridge!PeerSend, Bridge!QemuOpen, Inv, StaysOK
  <2>3. CASE sock.msg.type = "MMIO_WRITE" /\ sock.ans = WriteResp
    <3>1. Bridge!PeerAnswerWrite
      BY <2>1, <2>2, <2>3, SameMessages DEF Bridge!PeerAnswerWrite
    <3> QED
      BY <3>1 DEF Bridge!Peer
  <2>4. ASSUME sock.msg.type = "MMIO_READ",
               NEW v \in Nat, sock.ans = ReadResp(sock.msg.reg, v, "OK")
        PROVE  Bridge!Peer
    <3>1. <<v, "OK">> \in RegVals \X {"OK"} /\ <<v, "OK">>[1] = v /\ <<v, "OK">>[2] = "OK"
      OBVIOUS
    <3>2. Bridge!PeerSend(Bridge!ReadResp(sock.msg.reg, <<v, "OK">>[1], <<v, "OK">>[2]))
      BY <2>2, <2>4, <3>1, SameMessages
    <3>3. Bridge!PeerAnswerRead
      BY <2>1, <2>4, <3>1, <3>2, SameMessages DEF Bridge!PeerAnswerRead
    <3> QED
      BY <3>3 DEF Bridge!Peer
  <2> QED
    BY <2>1, <2>3, <2>4 DEF Answered
<1>4. CASE HandleDmaReadResp \/ HandleDmaWriteResp
  <2>1. /\ sock.msg.type \in {"DMA_READ", "DMA_WRITE"} /\ sock'.msg = NoMsg /\ link = "up"
        /\ UNCHANGED wireVars
    BY <1>4 DEF HandleDmaReadResp, HandleDmaWriteResp, Serves, Served, LinkOK, Inv, StaysOK
  <2>2. Bridge!PeerTakeDma
    BY <2>1, SameMessages DEF Bridge!PeerTakeDma, wireVars
  <2> QED
    BY <2>2 DEF Bridge!Peer
<1>5. CASE OnMmioRead \/ OnMmioWrite
  <2>1. /\ UNCHANGED wireVars
        /\ \/ \E m : sock' = [sock EXCEPT !.pc = "answer", !.ans = m]
           \/ sock' = [sock EXCEPT !.pc = "irq"]
    BY <1>5 DEF OnMmioRead, OnMmioWrite, Answering
  <2> QED
    BY <1>0, <2>1
<1>6. CASE ~SockThread \/ OnMmioWriteIrq
  <2>1. UNCHANGED <<q2s, link, sock.msg>>
    BY <1>0, <1>6, OthersKeepSock DEF OnMmioWriteIrq, Answering
  <2>2. UNCHANGED s2q \/ \E m \in DmaRequests : PutS2q(m)
    <3>1. \A v \in {0, 1} : MsiIrq(v) \in DmaRequests
      BY CoSimAssumption DEF DmaRequests, MsiIrq
    <3>2. \A a \in Addrs, d \in MemVals : DmaWriteReq(a, d) \in DmaRequests
      BY DEF DmaRequests, DmaWriteReq
    <3>3. DmaReadReq(dma.addr) \in DmaRequests
      BY DEF DmaRequests, DmaReadReq, Inv, NicInv, DmaOK
    <3>4. CASE OnMmioWriteIrq
      BY <3>1, <3>4 DEF OnMmioWriteIrq
    <3>5. CASE ~SockThread
      BY <3>1, <3>2, <3>3, <3>5, NicSends DEF Sends, DmaReadSend, SockThread
    <3> QED
      BY <1>6, <3>4, <3>5
  <2>3. CASE UNCHANGED s2q
    BY <2>1, <2>3 DEF wireVars
  <2>4. ASSUME NEW m \in DmaRequests, PutS2q(m) PROVE Bridge!Peer \/ UNCHANGED s2q
    <3>1. CASE link = "up"
      BY <2>1, <2>4, <3>1, SendRefines
    <3>2. CASE link # "up"
      BY <3>2, QuietSends DEF Inv, StaysOK
    <3> QED
      BY <3>1, <3>2
  <2> QED
    BY <2>2, <2>3, <2>4
<1> QED
  BY <1>1, <1>2, <1>3, <1>4, <1>5, <1>6 DEF SockThread

-----------------------------------------------------------------------------
(* RefInv is an invariant, while the device is not removed. *)

(* How long a queue is after a write and after a read.                     *)
LEMMA QueueLengths ==
    ASSUME NEW S, NEW s \in Seq(S)
    PROVE  /\ Len(s) \in Nat
           /\ \A m \in S : Len(Append(s, m)) = Len(s) + 1
           /\ s # <<>> => Len(Tail(s)) < Len(s)
OBVIOUS

\* A step of QEMU keeps the socket within its capacity and the link as it is.
LEMMA QemuLink ==
    ASSUME Inv, LinkOK, QemuStep
    PROVE  LinkOK'
<1>0. q2s \in Seq(QemuMsgs) /\ s2q \in Seq(ScMsgs) /\ SockCap \in Nat
  BY SockCapAssumption DEF Inv, BridgeTypeOK, WireTypeOK
<1>1. UNCHANGED <<link, sock>>
  BY DEF QemuStep, nicVars
<1>2. Len(q2s') <= SockCap
  <2>1. CASE GuestAccess
    <3>1. UNCHANGED q2s
      BY <2>1 DEF GuestAccess, GuestRead, MmioReadCached, MmioReadStart, RingTx, Written, MmioWrite
    <3> QED
      BY <3>1 DEF LinkOK
  <2>2. CASE QemuRuns
    <3>1. UNCHANGED q2s \/ \E m \in QemuMsgs : PutQ2s(m)
      BY <2>2, QemuSends DEF QemuRuns
    <3> QED
      BY <1>0, <3>1, QueueLengths DEF LinkOK, PutQ2s
  <2> QED
    BY <2>1, <2>2 DEF QemuStep
<1>3. Len(s2q') <= SockCap
  <2>1. UNCHANGED s2q \/ (s2q # <<>> /\ s2q' = Tail(s2q))
    <3>1. CASE GuestAccess
      BY <3>1 DEF GuestAccess
    <3>2. CASE QemuRuns
      BY <3>2 DEF QemuRuns, IoThread, IoAccept, IoAcceptFails, IoRecv, IoLoopEnds, IoCleanup,
         IoMmioReadResp, IoMmioWriteResp, IoDmaRead, IoDmaWrite, IoReply, IoMsi, IoLost
    <3> QED
      BY <3>1, <3>2 DEF QemuStep
  <2> QED
    BY <1>0, <2>1, QueueLengths DEF LinkOK
<1> QED
  BY <1>1, <1>2, <1>3 DEF LinkOK

\* So does a step of the NIC, which takes what it reads and sends where there is room.
LEMMA NicLink ==
    ASSUME Inv, LinkOK, NicAction, UNCHANGED qemuVars
    PROVE  LinkOK'
<1>0. q2s \in Seq(QemuMsgs) /\ s2q \in Seq(ScMsgs) /\ SockCap \in Nat
  BY SockCapAssumption DEF Inv, BridgeTypeOK, WireTypeOK
<1>1. Len(q2s') <= SockCap
  BY <1>0, NicTakes, QueueLengths DEF LinkOK
<1>2. Len(s2q') <= SockCap
  <2>1. UNCHANGED s2q \/ (Len(s2q) < SockCap /\ \E m : s2q' = Append(s2q, m))
    BY NicSends DEF Sends, SockAnswer, DmaReadSend, PutS2q
  <2>2. s2q' \in Seq(ScMsgs)
    BY NicBridgeType DEF BridgeTypeOK, WireTypeOK
  <2>3. ASSUME NEW m, s2q' = Append(s2q, m) PROVE Len(s2q') = Len(s2q) + 1
    BY <1>0, <2>3
  <2> QED
    BY <1>0, <2>1, <2>3, QueueLengths DEF LinkOK
<1>3. sock'.pc = "connect" <=> link' = "none"
  <2>1. CASE SockThread
    <3>1. CASE SockConnect
      BY <3>1 DEF SockConnect, LinkOK, Inv, NicInv, SockOK
    <3>2. CASE ~SockConnect
      <4>1. sock.pc # "connect" /\ UNCHANGED link
        BY <2>1, <3>2 DEF SockThread, SockRecv, OnMmioRead, OnMmioWrite, OnMmioWriteIrq, SockAnswer,
           HandleDmaReadResp, HandleDmaWriteResp, Serves, wireVars
      <4>2. sock'.pc # "connect"
        <5>1. \/ \E m : sock' = [sock EXCEPT !.pc = "handle", !.msg = m]
              \/ \E m : sock' = [sock EXCEPT !.pc = "answer", !.ans = m]
              \/ sock' = [sock EXCEPT !.pc = "irq"]
              \/ sock' = [pc |-> "recv", msg |-> NoMsg, ans |-> NoMsg]
          BY <2>1, <3>2 DEF SockThread, SockRecv, OnMmioRead, OnMmioWrite, OnMmioWriteIrq, SockAnswer,
             HandleDmaReadResp, HandleDmaWriteResp, Answering, Served
        <5>2. sock \in [pc : {"connect", "recv", "handle", "irq", "answer"},
                        msg : QemuMsgs \cup {NoMsg}, ans : ScMsgs \cup {NoMsg}]
          BY DEF Inv, NicInv, SockOK
        <5>3. ASSUME NEW m, sock' = [sock EXCEPT !.pc = "handle", !.msg = m]
              PROVE  sock'.pc # "connect"
          BY <5>2, <5>3
        <5>4. ASSUME NEW m, sock' = [sock EXCEPT !.pc = "answer", !.ans = m]
              PROVE  sock'.pc # "connect"
          BY <5>2, <5>4
        <5>5. ASSUME sock' = [sock EXCEPT !.pc = "irq"] PROVE sock'.pc # "connect"
          BY <5>2, <5>5
        <5>6. ASSUME sock' = [pc |-> "recv", msg |-> NoMsg, ans |-> NoMsg]
              PROVE  sock'.pc # "connect"
          BY <5>6
        <5> QED
          BY <5>1, <5>3, <5>4, <5>5, <5>6, Zenon
      <4> QED
        BY <4>1, <4>2 DEF LinkOK
    <3> QED
      BY <3>1, <3>2
  <2>2. CASE ~SockThread
    BY <2>2, OthersKeepSock DEF LinkOK
  <2> QED
    BY <2>1, <2>2
<1> QED
  BY <1>1, <1>2, <1>3 DEF LinkOK, qemuVars

\* Before the NIC connects it has sent nothing and taken nothing.
LEMMA NicQuiet ==
    ASSUME Inv, RefInv, NicAction, UNCHANGED qemuVars
    PROVE  QuietBefore'
<1> SUFFICES ASSUME link' = "none"
             PROVE  QuietBefore'
  BY DEF QuietBefore
<1> USE DEF Inv, NicInv
<1>0. link = "none"
  BY NicTakes
<1>1. /\ m_regs = RegInit /\ m_regs["IRQ_STS"] = 0 /\ m_regs["RX_RING_SIZE"] = 0
      /\ sock.pc = "connect" /\ ~m_dma_start /\ ~m_tx_event /\ g_reg_mtx = "none"
      /\ pc["process_dma"] \in {"never", "wait"} /\ pc["process_tx"] \in {"never", "wait"}
      /\ pc \in [Procs -> Places]
  BY <1>0, RegInitType DEF RefInv, QuietBefore, LinkOK, RegNames, ProcsOK, ProcsTypeOK, Places
<1>2. /\ net.pc \notin {"desc", "data", "wb", "irq"} /\ pc["poll_irq"] # "irq"
      /\ dma.st = "idle"
  BY <1>1 DEF MutexOK, CallerOK
<1>3. ASSUME UNCHANGED <<m_regs, g_reg_mtx, m_dma_start, m_tx_event>>,
             \/ UNCHANGED pc
             \/ \E l \in {"wait", "lock"} : pc' = [pc EXCEPT !["poll_irq"] = l]
      PROVE  QuietBefore'
  <2>1. /\ pc'["process_dma"] = pc["process_dma"]
        /\ pc'["process_tx"] = pc["process_tx"]
    BY <1>1, <1>3 DEF Procs
  <2> QED
    BY <1>1, <1>3, <2>1 DEF QuietBefore
<1>4. CASE SockThread
  <2>1. SockConnect
    BY <1>1, <1>4 DEF SockThread, SockRecv, OnMmioRead, OnMmioWrite, OnMmioWriteIrq, SockAnswer,
                      HandleDmaReadResp, HandleDmaWriteResp, Serves
  <2> QED
    BY <2>1 DEF SockConnect
<1>5. CASE (NetThread \/ \E p \in Packets : NetRecv(p)) /\ UNCHANGED kernelVars
  <2>1. UNCHANGED <<m_regs, g_reg_mtx, m_dma_start, m_tx_event>>
    BY <1>1, <1>2, <1>5 DEF NetThread, RxDrop, RxReadDesc, RxFailed, RxGotDesc, RxWriteData,
                            RxWriteBack, RxIrq, NetRecv, procVars
  <2> QED
    BY <1>3, <1>5, <2>1 DEF kernelVars
<1>6. CASE DmaReadSend \/ DmaReadDone \/ DmaReadTimeout
  BY <1>2, <1>6 DEF DmaReadSend, DmaReadDone, DmaReadTimeout
<1>7. CASE PollIrq
  <2>1. PollResume \/ PollQuiet
    BY <1>1, <1>2, <1>7 DEF PollIrq, PollPending, PollSendIrq
  <2> QED
    BY <1>3, <2>1 DEF PollResume, PollQuiet, Resumes, Waits, nicVars, procVars
<1>8. CASE ProcessDma \/ ProcessTx
  BY <1>1, <1>8 DEF ProcessDma, DmaResume, DmaEngineStart, DmaEngineWrite, DmaEngineRead, DmaFinish,
     DmaSendIrq, DmaRelease, Resumes, ProcessTx, TxResume, TxEventLost, TxIdle, TxReadDesc,
     TxReadFailed, TxGotDesc, TxTransmit, TxWriteBack, TxRelease, TxDoneQuiet, TxDone, TxSendIrq
<1> QED
  BY <1>4, <1>5, <1>6, <1>7, <1>8 DEF NicAction, Kernel

\* What the refinement rests on holds throughout.
LEMMA RefInvariant == Spec => []RefInv
<1>1. Init => RefInv
  BY RegInitType, SockCapAssumption
     DEF Init, WireInit, QemuInit, NicInit, ProcsInit, Procs, RefInv, LinkOK, QuietBefore
<1>2. ASSUME Inv, RefInv, [Next]_vars PROVE RefInv'
  <2>1. CASE QemuStep
    <3>1. QuietBefore'
      BY <1>2, <2>1 DEF QemuStep, RefInv, QuietBefore, nicVars, procVars, kernelVars
    <3> QED
      BY <1>2, <2>1, <3>1, QemuLink DEF RefInv
  <2>2. CASE NicStep \/ KernelStep \/ Inject
    <3>1. NicAction /\ UNCHANGED qemuVars
      BY <2>2 DEF NicStep, OtherNicThread, KernelStep, Inject, NicAction
    <3> QED
      BY <1>2, <3>1, NicLink, NicQuiet DEF RefInv
  <2>3. CASE PostTx \/ UNCHANGED vars
    <3>1. /\ UNCHANGED <<link, sock, q2s, s2q>>
          /\ UNCHANGED <<m_regs, g_reg_mtx, m_dma_start, m_tx_event, pc>>
      BY <2>3 DEF PostTx, vars, wireVars, qemuVars, deviceVars, nicVars, procVars, kernelVars
    <3> QED
      BY <1>2, <3>1 DEF RefInv, LinkOK, QuietBefore
  <2> QED
    BY <1>2, <2>1, <2>2, <2>3 DEF Next
<1> QED
  BY <1>1, <1>2, Invariant, PTL DEF Spec

-----------------------------------------------------------------------------
(***************************************************************************)
(* The co-simulation implements QEMU's bridge with its abstract peer: the  *)
(* socket thread takes requests in order and answers each once before the  *)
(* next (socket_thread, handle_message), and whatever the NIC's other      *)
(* threads write in between are DMA requests and interrupts.  The register *)
(* values are all the naturals here.                                       *)
(***************************************************************************)
THEOREM NicIsPeer == ASSUME RegVals = Nat PROVE Spec => BridgeSpec
<1>1. Init => Bridge!Init
  <2>1. Init => Bridge!WireInit /\ Bridge!QemuInit /\ sock.msg = Bridge!NoMsg
    BY SameCache, SameMessages DEF Init, WireInit, QemuInit, NicInit, Bridge!WireInit, Bridge!QemuInit
  <2> QED
    BY <2>1, InitMem DEF Bridge!Init
<1>2. ASSUME Inv, RefInv, [Next]_vars
      PROVE  [Bridge!Next]_(Bridge!vars)
  <2>1. CASE QemuStep
    BY <1>2, <2>1, QemuRefines DEF RefInv, Bridge!Next
  <2>2. CASE NicStep \/ KernelStep \/ Inject
    <3>1. NicAction /\ UNCHANGED qemuVars
      BY <2>2 DEF NicStep, OtherNicThread, KernelStep, Inject, NicAction
    <3>2. CASE Bridge!Peer
      BY <3>1, <3>2 DEF Bridge!Next, qemuVars, Bridge!qemuVars
    <3>3. CASE UNCHANGED <<wireVars, sock.msg>>
      BY <3>1, <3>3 DEF Bridge!vars, qemuVars, Bridge!qemuVars, wireVars, Bridge!wireVars
    <3> QED
      BY <1>2, <3>1, <3>2, <3>3, NicRefines
  <2>3. CASE PostTx
    BY <1>2, <2>3, PostRefines DEF Bridge!Next
  <2>4. CASE UNCHANGED vars
    BY <2>4 DEF vars, wireVars, qemuVars, nicVars, Bridge!vars, Bridge!wireVars, Bridge!qemuVars
  <2> QED
    BY <1>2, <2>1, <2>2, <2>3, <2>4 DEF Next
<1> QED
  BY <1>1, <1>2, Invariant, RefInvariant, PTL DEF Spec, BridgeSpec, Bridge!Spec

-----------------------------------------------------------------------------
(* What is proved of the bridge and its abstract peer, of this bridge and  *)
(* the NIC.                                                                *)
Proofs == INSTANCE BridgePeer_proofs WITH
    peer <- sock.msg, MayClose <- FALSE, PeerRequests <- DmaRequests,
    Answers <- RegVals \X {"OK"}, Stores <- MemVals, MaxQueued <- 2 * SockCap + 1,
    GuestWrites <- GuestWrites \cup {<<"TX_DOORBELL", 1>>}

(* The two instances of BridgePeer are one and the same.                   *)
LEMMA SameCacheThere ==
    /\ \A f, r : Proofs!CacheRead(f, r) = CacheRead(f, r)
    /\ \A f, r, v : Proofs!CacheWrite(f, r, v) = CacheWrite(f, r, v)
    /\ Proofs!CacheInit = CacheInit
BY DEF Proofs!CacheRead, CacheRead, Proofs!CacheWrite, CacheWrite, Proofs!CacheInit, CacheInit,
   Proofs!Zeros, Zeros, Proofs!RegNames, RegNames, Proofs!Has, Has, Proofs!ClearBits, ClearBits,
   Proofs!Keep, Keep, Proofs!SC_DEV_ID, SC_DEV_ID, Proofs!SC_STATUS_READY, SC_STATUS_READY,
   Proofs!SC_MAC_DEFAULT_LO, SC_MAC_DEFAULT_LO, Proofs!SC_MAC_DEFAULT_HI, SC_MAC_DEFAULT_HI,
   Proofs!SC_CTRL_RESET, SC_CTRL_RESET, Proofs!SC_DMA_START, SC_DMA_START,
   Proofs!SC_STATUS_DMA_BSY, SC_STATUS_DMA_BSY

\* The instance the bridge's theorems come from builds the same messages.
LEMMA SameMessagesThere ==
    /\ \A r : Proofs!ReadReq(r) = ReadReq(r)
    /\ \A r, v : Proofs!WriteReq(r, v) = WriteReq(r, v)
    /\ \A r, v, st : Proofs!ReadResp(r, v, st) = ReadResp(r, v, st)
    /\ \A d : Proofs!DmaReadResp(d) = DmaReadResp(d)
    /\ \A d : Proofs!Capped(d) = Capped(d)
    /\ Proofs!WriteResp = WriteResp /\ Proofs!DmaWriteResp = DmaWriteResp
    /\ Proofs!NoMsg = NoMsg
    /\ \A m : Proofs!Send(m) <=> Send(m)
    /\ \A m : Proofs!PutS2q(m) <=> PutS2q(m)
BY DEF Proofs!ReadReq, ReadReq, Proofs!WriteReq, WriteReq, Proofs!ReadResp, ReadResp,
   Proofs!DmaReadResp, DmaReadResp, Proofs!WriteResp, WriteResp, Proofs!DmaWriteResp, DmaWriteResp,
   Proofs!NoMsg, NoMsg, Proofs!Send, Send, Proofs!PutQ2s, PutQ2s, Proofs!PutS2q, PutS2q,
   Proofs!Capped, Capped, Proofs!First, First, Proofs!Descs, Descs, Proofs!Smaller, Smaller,
   Proofs!DMA_BUF_SIZE, DMA_BUF_SIZE

\* It starts in the same states.
LEMMA SameInit == Bridge!Init => Proofs!Init
BY SameCache, SameCacheThere, SameMessages, SameMessagesThere
   DEF Bridge!Init, Proofs!Init, Bridge!WireInit, Proofs!WireInit, Bridge!QemuInit,
       Proofs!QemuInit

\* It takes the same steps.
LEMMA SameNext == [Bridge!Next]_(Bridge!vars) => [Proofs!Next]_(Proofs!vars)
<1> USE SameCache, SameCacheThere, SameMessages, SameMessagesThere
<1> USE DEF Bridge!deviceVars, Proofs!deviceVars, Bridge!wireVars, Proofs!wireVars,
          Bridge!qemuVars, Proofs!qemuVars
<1>1. Bridge!VcpuGoesOn => Proofs!VcpuGoesOn
  BY DEF Bridge!VcpuGoesOn, Proofs!VcpuGoesOn, Bridge!MmioReadSend, Proofs!MmioReadSend,
         Bridge!MmioReadWake, Proofs!MmioReadWake, Bridge!MmioReadLost, Proofs!MmioReadLost,
         Bridge!MmioReadReturn, Proofs!MmioReadReturn, Bridge!MmioWriteSend,
         Proofs!MmioWriteSend, Bridge!Destroyed, Proofs!Destroyed
<1>2. Bridge!GuestRead => Proofs!GuestRead
  BY DEF Bridge!GuestRead, Proofs!GuestRead, Bridge!MmioReadCached, Proofs!MmioReadCached,
         Bridge!MmioReadStart, Proofs!MmioReadStart, Bridge!MayAccess, Proofs!MayAccess,
         Bridge!Quota, Proofs!Quota
<1>3. Bridge!GuestWrite => Proofs!GuestWrite
  BY DEF Bridge!GuestWrite, Proofs!GuestWrite, Bridge!MmioWrite, Proofs!MmioWrite,
         Bridge!MayAccess, Proofs!MayAccess, Bridge!Quota, Proofs!Quota, Bridge!Has,
         Proofs!Has, Bridge!SC_CTRL_RESET, Proofs!SC_CTRL_RESET
<1>4. Bridge!Exit \/ Bridge!ExitDestroys \/ (\E v \in Vectors : Bridge!TakeMsi(v))
         => Proofs!Exit \/ Proofs!ExitDestroys \/ \E v \in Vectors : Proofs!TakeMsi(v)
  BY DEF Bridge!Exit, Proofs!Exit, Bridge!ExitDestroys, Proofs!ExitDestroys, Bridge!TakeMsi,
         Proofs!TakeMsi
<1>5. /\ Bridge!IoAccept \/ Bridge!IoAcceptFails => Proofs!IoAccept \/ Proofs!IoAcceptFails
      /\ Bridge!IoRecv \/ Bridge!IoLoopEnds => Proofs!IoRecv \/ Proofs!IoLoopEnds
      /\ Bridge!IoCleanup \/ Bridge!IoReply => Proofs!IoCleanup \/ Proofs!IoReply
  BY DEF Bridge!IoAccept, Proofs!IoAccept, Bridge!IoAcceptFails, Proofs!IoAcceptFails,
         Bridge!IoRecv, Proofs!IoRecv, Bridge!IoLoopEnds, Proofs!IoLoopEnds, Bridge!IoCleanup,
         Proofs!IoCleanup, Bridge!IoReply, Proofs!IoReply, Bridge!Handled, Proofs!Handled
<1>6. /\ Bridge!IoMmioReadResp => Proofs!IoMmioReadResp
      /\ Bridge!IoMmioWriteResp => Proofs!IoMmioWriteResp
      /\ Bridge!IoDmaRead => Proofs!IoDmaRead
      /\ Bridge!IoDmaWrite => Proofs!IoDmaWrite
      /\ Bridge!IoMsi => Proofs!IoMsi
      /\ Bridge!IoLost => Proofs!IoLost
  BY DEF Bridge!IoMmioReadResp, Proofs!IoMmioReadResp, Bridge!IoMmioWriteResp,
         Proofs!IoMmioWriteResp, Bridge!IoDmaRead, Proofs!IoDmaRead, Bridge!IoDmaWrite,
         Proofs!IoDmaWrite, Bridge!IoMsi, Proofs!IoMsi, Bridge!IoLost, Proofs!IoLost,
         Bridge!Destroyed, Proofs!Destroyed, Bridge!Handles, Proofs!Handles,
         Bridge!Handled, Proofs!Handled
<1>7. Bridge!IoThread => Proofs!IoThread
  BY <1>5, <1>6 DEF Bridge!IoThread, Proofs!IoThread
<1>8. Bridge!Peer => Proofs!Peer
  BY DEF Bridge!Peer, Proofs!Peer, Bridge!PeerConnect, Proofs!PeerConnect, Bridge!PeerRecv,
         Proofs!PeerRecv, Bridge!PeerSend, Proofs!PeerSend, Bridge!PeerAnswerRead,
         Proofs!PeerAnswerRead, Bridge!PeerAnswerWrite, Proofs!PeerAnswerWrite,
         Bridge!PeerTakeDma, Proofs!PeerTakeDma, Bridge!PeerRequest, Proofs!PeerRequest,
         Bridge!PeerClose, Proofs!PeerClose, Bridge!QemuOpen, Proofs!QemuOpen, Bridge!Quota,
         Proofs!Quota
<1>9. Bridge!GuestStores => Proofs!GuestStores
  BY DEF Bridge!GuestStores, Proofs!GuestStores
<1> QED
  BY <1>1, <1>2, <1>3, <1>4, <1>7, <1>8, <1>9
     DEF Bridge!Next, Proofs!Next, Bridge!QemuNext, Proofs!QemuNext, Bridge!vars, Proofs!vars

\* It is about the same data.
LEMMA SameData == Proofs!MemVals = MemVals /\ Proofs!DMA_BUF_SIZE = DMA_BUF_SIZE
BY DEF Proofs!MemVals, MemVals, Proofs!Descs, Descs, Proofs!Bytes, Bytes, Proofs!DMA_BUF_SIZE,
       DMA_BUF_SIZE

(* What the abstract peer is given, it may be given.                       *)
LEMMA PeerGiven ==
    ASSUME RegVals = Nat
    PROVE  /\ GuestWrites \cup {<<"TX_DOORBELL", 1>>} \subseteq RegNames \X Nat
           /\ RegVals \X {"OK"} \subseteq Nat \X Status
BY GuestAssumption DEF RegNames, Status

(***************************************************************************)
(* In the co-simulation too, a read of the guest's takes its own answer    *)
(* and at most one is under way, although the NIC's threads write to the   *)
(* same stream (sc_bridge_mmio_read; pcie_bridge.cpp, send_all).           *)
(***************************************************************************)
THEOREM OwnAnswers ==
    ASSUME RegVals = Nat
    PROVE  Spec => [](Bridge!OwnAnswer /\ Bridge!OneReadInFlight)
<1>1. Proofs!Spec => []Proofs!OwnAnswer
  BY PeerGiven, GuestAssumption, SockCapAssumption, LengthsAssumption, SameData, Proofs!AnswersMatch
     DEF DmaRequests, Proofs!Status, Status, Proofs!RegNames, RegNames
<1>2. Proofs!Spec => []Proofs!OneReadInFlight
  BY PeerGiven, GuestAssumption, SockCapAssumption, LengthsAssumption, SameData, Proofs!ReadsDoNotOverlap
     DEF DmaRequests, Proofs!Status, Status, Proofs!RegNames, RegNames
<1>3. Proofs!OwnAnswer => Bridge!OwnAnswer
  BY DEF Proofs!OwnAnswer, Bridge!OwnAnswer
<1>4. Proofs!OneReadInFlight => Bridge!OneReadInFlight
  BY DEF Bridge!OneReadInFlight, Proofs!OneReadInFlight, Bridge!RequestIsPending,
         Proofs!RequestIsPending, Bridge!ReadIsQueued, Proofs!ReadIsQueued,
         Bridge!ReadIsServed, Proofs!ReadIsServed, Bridge!AnswerIsQueued,
         Proofs!AnswerIsQueued, Bridge!AnswerIsTaken, Proofs!AnswerIsTaken,
         Bridge!AwaitsAnswer, Proofs!AwaitsAnswer, Bridge!ReadInS2q, Proofs!ReadInS2q,
         Bridge!ReadAtIo, Proofs!ReadAtIo, Bridge!IsRead, Proofs!IsRead
<1> QED
  BY <1>1, <1>2, <1>3, <1>4, SameInit, SameNext, NicIsPeer, PTL
     DEF BridgeSpec, Bridge!Spec, Proofs!Spec

(***************************************************************************)
(* The register file the guest is promised (RegFile).  A guest that reads  *)
(* only registers the NIC leaves to it finds there what its own writes     *)
(* made of them.                                                           *)
(***************************************************************************)

\* The registers the NIC writes of its own accord: with no frames and no
\* processes, only those of a DMA.
Calm == DontInitialize = Procs /\ MaxPackets = 0
NicWritten ==
    IF Calm THEN {"DMA_STS"}
    ELSE {"DMA_STS", "IRQ_STS", "TX_DOORBELL", "TX_TAIL", "RX_TAIL"}
GuestOnly == RegNames \ NicWritten

PlainGuest == ~EarlyGuest /\ GuestReads \subseteq GuestOnly

\* Two files a guest that reads only those registers cannot tell apart.
Agree(f, g) == \A r \in GuestOnly : f[r] = g[r]

\* What serving message m makes of the file f.
IsWrite(m) == m.type = "MMIO_WRITE"
Made(f, m) == IF IsWrite(m) THEN RegWrite(f, m.reg, m.val) ELSE f

(***************************************************************************)
(* The files h that serving the messages of q makes, one after another,    *)
(* and: serving q makes g of f, as far as the guest can tell.              *)
(***************************************************************************)
Files(h, q) ==
    /\ h \in [1 .. Len(q) + 1 -> RegFiles]
    /\ \A i \in DOMAIN q : h[i + 1] = Made(h[i], q[i])
    /\ \A i \in 1 .. Len(q) + 1 :
          (\A j \in DOMAIN q : j >= i => ~IsWrite(q[j])) => h[i] = h[Len(q) + 1]
Leads(f, q, g) == \E h : Files(h, q) /\ Agree(f, h[1]) /\ g = h[Len(q) + 1]

-----------------------------------------------------------------------------
(* The operators of the two register files. *)

(* The abstract registers are the NIC's.                                   *)
LEMMA SameRegisters ==
    /\ \A f, r : Registers!RegRead(f, r) = RegRead(f, r)
    /\ \A f, r, v : Registers!RegWrite(f, r, v) = RegWrite(f, r, v)
    /\ Registers!RegInit = RegInit /\ Registers!RegNames = RegNames
<1>1. /\ \A f, r : Registers!RegRead(f, r) = RegRead(f, r)
      /\ Registers!RegInit = RegInit /\ Registers!RegReset = RegReset
      /\ Registers!RegNames = RegNames
  BY DEF Registers!RegRead, RegRead, Registers!RegInit, RegInit, Registers!RegReset, RegReset,
     Registers!RegNames, RegNames, Registers!set_mac, set_mac, Registers!Zeros, Zeros,
     Registers!MacLo, MacLo, Registers!MacHi, MacHi, Registers!DefaultMac, DefaultMac,
     Registers!SC_DEV_ID, SC_DEV_ID, Registers!SC_STATUS_READY, SC_STATUS_READY
<1>2. /\ \A v, b : Registers!Has(v, b) = Has(v, b)
      /\ \A v, w : Registers!ClearBits(v, w) = ClearBits(v, w)
      /\ \A v, b : Registers!SetBit(v, b) = SetBit(v, b)
      /\ Registers!SC_CTRL_RESET = SC_CTRL_RESET /\ Registers!SC_IRQ_TEST = SC_IRQ_TEST
  BY DEF Registers!Has, Has, Registers!ClearBits, ClearBits, Registers!Keep, Keep,
     Registers!SetBit, SetBit, Registers!SC_CTRL_RESET, SC_CTRL_RESET, Registers!SC_IRQ_TEST,
     SC_IRQ_TEST
<1>3. \A f, r, v : Registers!RegWrite(f, r, v) = RegWrite(f, r, v)
  BY <1>1, <1>2 DEF Registers!RegWrite, RegWrite
<1> QED
  BY <1>1, <1>3

(* A write leaves alike what was alike: what it makes of a register        *)
(* depends on that register alone (reg_block.cpp:60-117).                  *)
LEMMA WriteAgrees ==
    ASSUME NEW f \in RegFiles, NEW g \in RegFiles, Agree(f, g), NEW r \in RegNames, NEW v
    PROVE  Agree(RegWrite(f, r, v), RegWrite(g, r, v))
<1> SUFFICES ASSUME NEW x \in GuestOnly PROVE RegWrite(f, r, v)[x] = RegWrite(g, r, v)[x]
  BY DEF Agree
<1>0. x \in RegNames /\ f[x] = g[x] /\ DOMAIN f = RegNames /\ DOMAIN g = RegNames
  BY DEF Agree, GuestOnly, RegFiles
<1>1. CASE r = "CTRL" /\ Has(v, SC_CTRL_RESET)
  BY <1>1 DEF RegWrite
<1>2. CASE r = "IRQ_STS"
  <2>1. \A k \in {f, g} : RegWrite(k, r, v) = [k EXCEPT !["IRQ_STS"] = ClearBits(k["IRQ_STS"], v)]
    BY <1>2 DEF RegWrite
  <2>2. CASE x = "IRQ_STS"
    BY <1>0, <2>1, <2>2
  <2>3. CASE x # "IRQ_STS"
    BY <1>0, <2>1, <2>3
  <2> QED
    BY <2>2, <2>3
<1>3. CASE r = "IRQ_TEST"
  <2>1. \A k \in {f, g} : RegWrite(k, r, v) =
           IF v = 0 THEN k ELSE [k EXCEPT !["IRQ_STS"] = SetBit(k["IRQ_STS"], SC_IRQ_TEST)]
    BY <1>3 DEF RegWrite
  <2>2. CASE v = 0
    BY <1>0, <2>1, <2>2
  <2>3. CASE v # 0 /\ x = "IRQ_STS"
    BY <1>0, <2>1, <2>3
  <2>4. CASE v # 0 /\ x # "IRQ_STS"
    BY <1>0, <2>1, <2>4
  <2> QED
    BY <2>2, <2>3, <2>4
<1>4. CASE r \in {"STATUS", "DEV_ID"}
  BY <1>0, <1>4 DEF RegWrite
<1>5. CASE /\ ~(r = "CTRL" /\ Has(v, SC_CTRL_RESET))
           /\ r \notin {"IRQ_STS", "IRQ_TEST", "STATUS", "DEV_ID"}
  <2>1. \A k \in {f, g} : RegWrite(k, r, v) = [k EXCEPT ![r] = v]
    BY <1>5 DEF RegWrite
  <2>2. CASE x = r
    BY <1>0, <2>1, <2>2
  <2>3. CASE x # r
    BY <1>0, <2>1, <2>3
  <2> QED
    BY <2>2, <2>3
<1> QED
  BY <1>1, <1>2, <1>3, <1>4, <1>5

(* A register the guest reads is the same in both.                         *)
LEMMA ReadAgrees ==
    ASSUME NEW f, NEW g, Agree(f, g), NEW r \in GuestOnly
    PROVE  RegRead(f, r) = RegRead(g, r)
BY DEF RegRead, Agree

(* What the NIC makes of its file serving what the guest may send.         *)
LEMMA MadeType ==
    ASSUME NEW f \in RegFiles, NEW m \in QemuMsgs \cup {NoMsg}, AllowedMsg(m)
    PROVE  Made(f, m) \in RegFiles
<1>1. CASE IsWrite(m)
  <2>1. m.reg \in RegNames /\ m.val \in Nat /\ DriverWrites(m.reg, m.val)
    BY <1>1, GuestDrives DEF AllowedMsg, IsWrite
  <2> QED
    BY <1>1, <2>1, RegWriteOK DEF Made
<1>2. CASE ~IsWrite(m)
  BY <1>2 DEF Made
<1> QED
  BY <1>1, <1>2

\* And of two files that are alike to the guest.
LEMMA MadeAgrees ==
    ASSUME NEW f \in RegFiles, NEW g \in RegFiles, Agree(f, g),
           NEW m, AllowedMsg(m)
    PROVE  Agree(Made(f, m), Made(g, m))
<1>1. CASE IsWrite(m)
  <2>1. m.reg \in RegNames
    BY <1>1, GuestDrives DEF AllowedMsg, IsWrite
  <2> QED
    BY <1>1, <2>1, WriteAgrees DEF Made
<1>2. CASE ~IsWrite(m)
  BY <1>2 DEF Made
<1> QED
  BY <1>1, <1>2

-----------------------------------------------------------------------------
(* Files made by a queue, as the queue grows and shrinks. *)

(* An empty queue makes of a file itself.                                  *)
LEMMA LeadsNone == ASSUME NEW f \in RegFiles PROVE Leads(f, <<>>, f)
<1> DEFINE h == [i \in {1} |-> f]
<1>1. Files(h, <<>>) /\ h[1] = f
  BY DEF Files
<1> HIDE DEF h
<1>2. Agree(f, h[1]) /\ f = h[Len(<<>>) + 1]
  BY <1>1 DEF Agree
<1> QED
  BY <1>1, <1>2 DEF Leads

(* Where a file leads is where any file like it does.                      *)
LEMMA LeadsSame ==
    ASSUME NEW f, NEW f2, NEW g, NEW q, Leads(f, q, g), Agree(f2, f)
    PROVE  Leads(f2, q, g)
<1>1. PICK h : Files(h, q) /\ Agree(f, h[1]) /\ g = h[Len(q) + 1]
  BY DEF Leads
<1>2. Agree(f2, h[1])
  BY <1>1 DEF Agree
<1> QED
  BY <1>1, <1>2 DEF Leads

(* A message put in the queue is served last.                              *)
LEMMA LeadsPut ==
    ASSUME NEW f, NEW g, NEW q \in Seq(QemuMsgs), Leads(f, q, g),
           NEW m \in QemuMsgs, AllowedMsg(m)
    PROVE  Leads(f, Append(q, m), Made(g, m)) /\ Made(g, m) \in RegFiles
<1>1. PICK h : Files(h, q) /\ Agree(f, h[1]) /\ g = h[Len(q) + 1]
  BY DEF Leads
<1> DEFINE n == Len(q)
           q2 == Append(q, m)
           h2 == [i \in 1 .. n + 2 |-> IF i = n + 2 THEN Made(g, m) ELSE h[i]]
<1>2. /\ n \in Nat /\ DOMAIN q = 1 .. n /\ DOMAIN q2 = 1 .. n + 1 /\ Len(q2) = n + 1
      /\ q2[n + 1] = m /\ \A i \in 1 .. n : q2[i] = q[i]
  BY AppendElements
<1>3. /\ h \in [1 .. n + 1 -> RegFiles] /\ g = h[n + 1] /\ g \in RegFiles
      /\ \A i \in 1 .. n : h[i + 1] = Made(h[i], q[i])
      /\ \A i \in 1 .. n + 1 : (\A j \in 1 .. n : j >= i => ~IsWrite(q[j])) => h[i] = g
  BY <1>1, <1>2 DEF Files
<1>4. Made(g, m) \in RegFiles
  BY <1>3, MadeType
<1> HIDE DEF n, q2
<1>5. /\ h2 \in [1 .. n + 2 -> RegFiles] /\ h2[n + 2] = Made(g, m)
      /\ \A i \in 1 .. n + 1 : h2[i] = h[i]
  BY <1>2, <1>3, <1>4
<1> HIDE DEF h2
<1>6. \A i \in DOMAIN q2 : h2[i + 1] = Made(h2[i], q2[i])
  <2> TAKE i \in DOMAIN q2
  <2>1. CASE i = n + 1
    BY <1>2, <1>3, <1>5, <2>1
  <2>2. CASE i \in 1 .. n
    BY <1>2, <1>3, <1>5, <2>2
  <2> QED
    BY <1>2, <2>1, <2>2
<1>7. ASSUME NEW i \in 1 .. n + 2, \A j \in DOMAIN q2 : j >= i => ~IsWrite(q2[j])
      PROVE  h2[i] = Made(g, m)
  <2>1. CASE i = n + 2
    BY <1>5, <2>1
  <2>2. CASE i \in 1 .. n + 1
    <3>1. Made(g, m) = g
      BY <1>2, <1>7, <2>2 DEF Made
    <3>2. \A j \in 1 .. n : j >= i => ~IsWrite(q[j])
      BY <1>2, <1>7
    <3> QED
      BY <1>3, <1>5, <2>2, <3>1, <3>2
  <2> QED
    BY <1>2, <2>1, <2>2
<1>8. Files(h2, q2)
  <2>1. Len(q2) + 1 = n + 2
    BY <1>2
  <2> QED
    BY <1>5, <1>6, <1>7, <2>1 DEF Files
<1>9. h2[1] = h[1] /\ h2[Len(q2) + 1] = Made(g, m)
  BY <1>2, <1>5
<1> QED
  BY <1>1, <1>4, <1>8, <1>9 DEF Leads, q2

(* The message taken is the first that is served.                          *)
LEMMA LeadsTake ==
    ASSUME NEW f \in RegFiles, NEW g, NEW q \in Seq(QemuMsgs), Leads(f, q, g), q # <<>>,
           AllowedMsg(Head(q))
    PROVE  Leads(Made(f, Head(q)), Tail(q), g)
<1>1. PICK h : Files(h, q) /\ Agree(f, h[1]) /\ g = h[Len(q) + 1]
  BY DEF Leads
<1> DEFINE n == Len(q)
           q2 == Tail(q)
           h2 == [i \in 1 .. n |-> h[i + 1]]
<1>2. /\ n \in Nat \ {0} /\ DOMAIN q = 1 .. n /\ DOMAIN q2 = 1 .. n - 1 /\ Len(q2) = n - 1
      /\ Head(q) = q[1] /\ \A i \in 1 .. n - 1 : q2[i] = q[i + 1]
  OBVIOUS
<1>3. /\ h \in [1 .. n + 1 -> RegFiles] /\ g = h[n + 1] /\ h[1] \in RegFiles
      /\ \A i \in 1 .. n : h[i + 1] = Made(h[i], q[i])
      /\ \A i \in 1 .. n + 1 : (\A j \in 1 .. n : j >= i => ~IsWrite(q[j])) => h[i] = g
  BY <1>1, <1>2 DEF Files
<1>4. Agree(Made(f, Head(q)), h[2])
  <2>1. h[2] = Made(h[1], Head(q))
    BY <1>2, <1>3
  <2> QED
    BY <1>1, <1>3, <2>1, MadeAgrees
<1> HIDE DEF n, q2
<1>5. h2 \in [1 .. n -> RegFiles] /\ \A i \in 1 .. n : h2[i] = h[i + 1]
  BY <1>2, <1>3
<1> HIDE DEF h2
<1>6. \A i \in DOMAIN q2 : h2[i + 1] = Made(h2[i], q2[i])
  BY <1>2, <1>3, <1>5
<1>7. ASSUME NEW i \in 1 .. n, \A j \in DOMAIN q2 : j >= i => ~IsWrite(q2[j])
      PROVE  h2[i] = g
  <2>1. ASSUME NEW j \in 1 .. n, j >= i + 1 PROVE ~IsWrite(q[j])
    <3>1. j - 1 \in DOMAIN q2 /\ j - 1 >= i /\ q2[j - 1] = q[j]
      BY <1>2, <2>1
    <3> QED
      BY <1>7, <3>1
  <2> QED
    BY <1>2, <1>3, <1>5, <2>1
<1>8. h2[n] = g /\ h2[1] = h[2]
  BY <1>2, <1>3, <1>5
<1>9. Files(h2, q2) /\ h2[Len(q2) + 1] = g
  <2>1. Len(q2) + 1 = n
    BY <1>2
  <2> QED
    BY <1>5, <1>6, <1>7, <1>8, <2>1 DEF Files
<1> QED
  BY <1>4, <1>8, <1>9 DEF Leads, q2

(* With no write in the queue the file stays as it is.                     *)
LEMMA LeadsRead ==
    ASSUME NEW f, NEW g, NEW q \in Seq(QemuMsgs), Leads(f, q, g),
           \A j \in DOMAIN q : ~IsWrite(q[j])
    PROVE  Agree(f, g)
<1>1. PICK h : Files(h, q) /\ Agree(f, h[1]) /\ g = h[Len(q) + 1]
  BY DEF Leads
<1>2. 1 \in 1 .. Len(q) + 1
  OBVIOUS
<1> QED
  BY <1>1, <1>2 DEF Files

-----------------------------------------------------------------------------
(* The invariant. *)

(***************************************************************************)
(* The file promised is the one that serving the message in the socket     *)
(* thread's hands, then the queue, then the write in the guest's hands     *)
(* makes of the NIC's.                                                     *)
(***************************************************************************)
Applied == IF sock.pc = "handle" THEN Made(m_regs, sock.msg) ELSE m_regs
Pend(g) == IF vcpu.pc = "wsend" THEN RegWrite(g, vcpu.reg, vcpu.val) ELSE g
Sync == \E g \in RegFiles : Leads(Applied, q2s, g) /\ promised = Pend(g)

\* The guest uses the device once SystemC has connected.
Open ==
    /\ connected => io.pc # "accept"
    /\ io.pc # "accept" => link # "none"
    /\ vcpu.pc = "wsend" => connected
    /\ vcpu.pc \in {"rsend", "rwait", "rlock"} => connected /\ vcpu.reg \in GuestReads

\* Where no frames arrive and no process runs, nothing happens but accesses.
CalmInv == Calm => injected = <<>> /\ net.pc = "idle" /\ \A p \in Procs : pc[p] = "never"

\* No write follows a read: the guest waits for the answer.
IsRead(m) == m.type = "MMIO_READ"
ReadLast ==
    /\ \A i \in DOMAIN q2s : IsRead(q2s[i]) => \A j \in DOMAIN q2s : j > i => ~IsWrite(q2s[j])
    /\ IsRead(sock.msg) => \A j \in DOMAIN q2s : ~IsWrite(q2s[j])

\* Every answer, wherever it is, is what the promised file holds.
Right(m) == IsRead(m) => m.val = RegRead(promised, m.for)
RightAnswers ==
    /\ sock.pc = "answer" => Right(sock.ans)
    /\ \A i \in DOMAIN s2q : Right(s2q[i])
    /\ io.pc = "handle" => Right(io.msg)
    /\ vcpu.pc = "rwait" /\ ~mmio_pending => mmio_resp.val = RegRead(promised, vcpu.reg)

FileInv == Open /\ CalmInv /\ Sync /\ ReadLast /\ RightAnswers

\* What is known of the guest's reads (OwnAnswers), wherever they are.
Asks(r) == vcpu.pc = "rwait" /\ mmio_pending /\ vcpu.reg = r
ReadsAsked ==
    /\ vcpu.pc = "rsend" => mmio_pending
    /\ \A i \in DOMAIN q2s : IsRead(q2s[i]) => Asks(q2s[i].reg)
    /\ IsRead(sock.msg) => Asks(sock.msg.reg)
    /\ \A i \in DOMAIN s2q : IsRead(s2q[i]) => Asks(s2q[i].for)
    /\ io.pc = "handle" /\ IsRead(io.msg) => Asks(io.msg.for)

(* A read under way is the one the guest waits for.                        *)
LEMMA ReadsWaited == ASSUME StaysOK, Bridge!OneReadInFlight PROVE ReadsAsked
<1>1. /\ Bridge!RequestIsPending /\ Bridge!ReadIsQueued /\ Bridge!ReadIsServed
      /\ Bridge!AnswerIsQueued /\ Bridge!AnswerIsTaken
  BY DEF StaysOK, Bridge!OneReadInFlight
<1> QED
  BY <1>1 DEF ReadsAsked, Asks, IsRead, Bridge!RequestIsPending, Bridge!ReadIsQueued,
     Bridge!ReadIsServed, Bridge!AnswerIsQueued, Bridge!AnswerIsTaken, Bridge!AwaitsAnswer,
     Bridge!IsRead, Bridge!ReadAtIo

-----------------------------------------------------------------------------
(* The steps of QEMU and of the guest. *)

\* The guest is about to send a write neither before the step nor after it.
NoWriteInHand == UNCHANGED vcpu \/ (vcpu.pc # "wsend" /\ vcpu'.pc # "wsend")

(* What a step of QEMU's does to the requests on their way: the guest      *)
(* starts a write, sends it, or something else is sent or nothing is.      *)
LEMMA QemuRequests ==
    ASSUME Inv, LinkOK, PlainGuest, Open, QemuStep
    PROVE  /\ UNCHANGED <<m_regs, sock>>
           /\ \/ UNCHANGED <<q2s, promised>> /\ NoWriteInHand
              \/ /\ UNCHANGED <<q2s, io, s2q>> /\ vcpu.pc = "guest" /\ vcpu'.pc = "wsend"
                 /\ OfGuest(vcpu'.reg, vcpu'.val)
                 /\ promised' = RegWrite(promised, vcpu'.reg, vcpu'.val)
              \/ /\ \E m \in QemuMsgs : ~IsWrite(m) /\ q2s' = Append(q2s, m)
                 /\ UNCHANGED promised /\ NoWriteInHand
              \/ /\ vcpu.pc = "wsend" /\ vcpu'.pc = "guest" /\ UNCHANGED promised
                 /\ q2s' = Append(q2s, WriteReq(vcpu.reg, vcpu.val))
<1>0. vcpu \in [pc : {"guest", "rsend", "rwait", "rlock", "wsend", "lost"}, reg : RegNames,
                val : Nat, status : Status]
  BY DEF Inv, BridgeTypeOK, QemuTypeOK, MmioTypeOK
<1>1. UNCHANGED <<m_regs, sock>>
  BY DEF QemuStep, nicVars
<1>2. ASSUME NEW r, NEW v, OfGuest(r, v), Written(r, v), UNCHANGED s2q
      PROVE  /\ UNCHANGED <<q2s, io, s2q>> /\ vcpu.pc = "guest" /\ vcpu'.pc = "wsend"
             /\ OfGuest(vcpu'.reg, vcpu'.val)
             /\ promised' = RegWrite(promised, vcpu'.reg, vcpu'.val)
  <2>1. /\ UNCHANGED <<q2s, io>> /\ vcpu.pc = "guest" /\ connected
        /\ promised' = RegWrite(promised, r, v)
        /\ vcpu' = [vcpu EXCEPT !.pc = "wsend", !.reg = r, !.val = v]
    BY <1>2 DEF Written, MmioWrite, MayAccess, PlainGuest
  <2>2. vcpu'.pc = "wsend" /\ vcpu'.reg = r /\ vcpu'.val = v
    BY <1>0, <2>1
  <2> QED
    BY <1>2, <2>1, <2>2
<1>3. CASE GuestAccess
  <2>1. CASE RingTx
    <3>1. OfGuest("TX_DOORBELL", 1)
      BY DEF OfGuest
    <3> QED
      BY <1>1, <1>2, <1>3, <2>1, <3>1 DEF RingTx, GuestAccess
  <2>2. ASSUME NEW w \in GuestWrites, Written(w[1], w[2])
        PROVE  OfGuest(w[1], w[2])
    BY <2>2, GuestAssumption DEF OfGuest
  <2>3. CASE GuestRead /\ UNCHANGED promised
    <3>1. /\ UNCHANGED q2s /\ vcpu.pc = "guest"
          /\ \E r : \/ vcpu' = [vcpu EXCEPT !.pc = "rsend", !.reg = r]
                   \/ \E v : vcpu' = [vcpu EXCEPT !.reg = r, !.val = v]
      BY <2>3 DEF GuestRead, MmioReadCached, MmioReadStart, MayAccess
    <3>2. vcpu'.pc # "wsend"
      BY <1>0, <3>1
    <3> QED
      BY <1>1, <2>3, <3>1, <3>2 DEF NoWriteInHand
  <2> QED
    BY <1>1, <1>2, <1>3, <2>1, <2>2, <2>3 DEF GuestAccess
<1>4. CASE QemuRuns /\ UNCHANGED guestVars
  <2>0. UNCHANGED promised
    BY <1>4 DEF guestVars
  <2>1. CASE MmioReadSend
    <3>1. ReadReq(vcpu.reg) \in QemuMsgs /\ ~IsWrite(ReadReq(vcpu.reg))
      BY <1>0, QemuMessages DEF IsWrite, ReadReq
    <3>2. vcpu.pc = "rsend" /\ vcpu'.pc = "rwait"
      BY <1>0, <2>1 DEF MmioReadSend
    <3>3. UNCHANGED q2s \/ q2s' = Append(q2s, ReadReq(vcpu.reg))
      BY <2>1 DEF MmioReadSend, Send, PutQ2s
    <3> QED
      BY <1>1, <2>0, <3>1, <3>2, <3>3 DEF NoWriteInHand
  <2>2. CASE MmioWriteSend
    <3>1. sock_fd /\ link = "up"
      BY <2>2 DEF MmioWriteSend, Open, Inv, StaysOK
    <3>2. /\ vcpu.pc = "wsend" /\ vcpu'.pc = "guest"
          /\ q2s' = Append(q2s, WriteReq(vcpu.reg, vcpu.val))
      BY <1>0, <2>2, <3>1 DEF MmioWriteSend, Send, PutQ2s
    <3> QED
      BY <1>1, <2>0, <3>2
  <2>3. CASE MmioReadWake \/ MmioReadReturn
    <3>1. UNCHANGED q2s /\ vcpu.pc # "wsend" /\ vcpu'.pc # "wsend"
      BY <1>0, <2>3 DEF MmioReadWake, MmioReadReturn
    <3> QED
      BY <1>1, <2>0, <3>1 DEF NoWriteInHand
  <2>4. CASE IoReply
    <3>1. io.msg \in QemuMsgs /\ ~IsWrite(io.msg)
      BY <2>4 DEF IoReply, Inv, BridgeTypeOK, QemuTypeOK, IsWrite
    <3>2. UNCHANGED vcpu /\ (UNCHANGED q2s \/ q2s' = Append(q2s, io.msg))
      BY <2>4 DEF IoReply, Send, PutQ2s
    <3> QED
      BY <1>1, <2>0, <3>1, <3>2 DEF NoWriteInHand
  <2>5. CASE IoThread /\ ~IoReply
    <3>1. UNCHANGED <<q2s, vcpu>>
      BY <2>5 DEF IoThread, IoAccept, IoAcceptFails, IoRecv, IoLoopEnds, IoCleanup, IoMmioReadResp,
         IoMmioWriteResp, IoDmaRead, IoDmaWrite, IoMsi, IoLost
    <3> QED
      BY <1>1, <2>0, <3>1 DEF NoWriteInHand
  <2>6. CASE \E v \in Vectors : TakeMsi(v)
    <3>1. UNCHANGED <<q2s, vcpu>>
      BY <2>6 DEF TakeMsi
    <3> QED
      BY <1>1, <2>0, <3>1 DEF NoWriteInHand
  <2> QED
    BY <1>4, <2>1, <2>2, <2>3, <2>4, <2>5, <2>6, Remains DEF Inv, QemuRuns, VcpuGoesOn
<1> QED
  BY <1>3, <1>4 DEF QemuStep

(* They keep the files in step.                                            *)
LEMMA QemuSync ==
    ASSUME Inv, LinkOK, PlainGuest, Open, Sync, QemuStep
    PROVE  Sync'
<1>0. UNCHANGED Applied /\ q2s \in Seq(QemuMsgs)
  BY QemuRequests DEF Applied, Inv, BridgeTypeOK, WireTypeOK
<1>1. PICK g \in RegFiles : Leads(Applied, q2s, g) /\ promised = Pend(g)
  BY DEF Sync
<1> HIDE DEF Applied
<1>2. CASE UNCHANGED <<q2s, promised>> /\ NoWriteInHand
  <2>1. Pend(g)' = Pend(g)
    BY <1>2 DEF Pend, NoWriteInHand
  <2> QED
    BY <1>0, <1>1, <1>2, <2>1 DEF Sync
<1>3. CASE /\ UNCHANGED q2s /\ vcpu.pc = "guest" /\ vcpu'.pc = "wsend"
           /\ promised' = RegWrite(promised, vcpu'.reg, vcpu'.val)
  <2>1. promised = g /\ promised' = Pend(g)'
    BY <1>1, <1>3 DEF Pend
  <2> QED
    BY <1>0, <1>1, <1>3, <2>1 DEF Sync
<1>4. ASSUME NEW m \in QemuMsgs, ~IsWrite(m), q2s' = Append(q2s, m),
             UNCHANGED promised, NoWriteInHand
      PROVE  Sync'
  <2>1. Made(g, m) = g /\ AllowedMsg(m)
    BY <1>4 DEF Made, IsWrite, AllowedMsg
  <2>2. Leads(Applied, q2s, g)'
    BY <1>0, <1>1, <1>4, <2>1, LeadsPut
  <2>3. Pend(g)' = Pend(g)
    BY <1>4 DEF Pend, NoWriteInHand
  <2> QED
    BY <1>1, <1>4, <2>2, <2>3 DEF Sync
<1>5. ASSUME NEW m \in QemuMsgs, m = WriteReq(vcpu.reg, vcpu.val), q2s' = Append(q2s, m),
             vcpu.pc = "wsend", vcpu'.pc = "guest", UNCHANGED promised
      PROVE  Sync'
  <2>1. AllowedMsg(m)
    BY <1>5 DEF Inv, WritesOK, AllowedMsg, WriteReq
  <2>2. Made(g, m) = RegWrite(g, vcpu.reg, vcpu.val)
    BY <1>5 DEF Made, IsWrite, WriteReq
  <2>3. ASSUME NEW g2 \in RegFiles, g2 = Made(g, m), Leads(Applied, Append(q2s, m), g2)
        PROVE  Sync'
    <3>1. promised' = g2 /\ Pend(g2)' = g2
      BY <1>1, <1>5, <2>2, <2>3 DEF Pend
    <3>2. Leads(Applied, q2s, g2)'
      BY <1>0, <1>5, <2>3
    <3> QED
      BY <3>1, <3>2 DEF Sync
  <2> QED
    BY <1>0, <1>1, <2>1, <2>3, LeadsPut
<1>6. WriteReq(vcpu.reg, vcpu.val) \in QemuMsgs
  BY QemuMessages DEF Inv, BridgeTypeOK, QemuTypeOK, MmioTypeOK
<1> QED
  BY <1>2, <1>3, <1>4, <1>5, <1>6, QemuRequests

(* The guest sends a write only when it waits for no answer.               *)
LEMMA QemuReadLast ==
    ASSUME Inv, LinkOK, PlainGuest, Open, ReadsAsked, ReadLast, QemuStep
    PROVE  ReadLast'
<1>0. UNCHANGED sock /\ q2s \in Seq(QemuMsgs)
  BY QemuRequests DEF Inv, BridgeTypeOK, WireTypeOK
<1>1. CASE UNCHANGED q2s
  BY <1>0, <1>1 DEF ReadLast
<1>2. ASSUME NEW m \in QemuMsgs, q2s' = Append(q2s, m),
             IsWrite(m) => /\ ~IsRead(sock.msg) /\ \A i \in DOMAIN q2s : ~IsRead(q2s[i])
      PROVE  ReadLast'
  <2>1. \A i \in DOMAIN q2s' : q2s'[i] = m \/ (i \in DOMAIN q2s /\ q2s'[i] = q2s[i])
    BY <1>0, <1>2, AppendElements
  <2>2. IsRead(sock'.msg) => \A j \in DOMAIN q2s' : ~IsWrite(q2s'[j])
    BY <1>0, <1>2, <2>1 DEF ReadLast
  <2>3. ASSUME NEW i \in DOMAIN q2s', IsRead(q2s'[i]), NEW j \in DOMAIN q2s', j > i
        PROVE  ~IsWrite(q2s'[j])
    <3>1. DOMAIN q2s' = 1 .. Len(q2s) + 1 /\ DOMAIN q2s = 1 .. Len(q2s) /\ Len(q2s) \in Nat
      BY <1>0, <1>2, AppendElements
    <3>2. i \in DOMAIN q2s /\ q2s'[i] = q2s[i]
      BY <1>0, <1>2, <2>3, <3>1, AppendElements
    <3>3. CASE j \in DOMAIN q2s /\ q2s'[j] = q2s[j]
      BY <2>3, <3>2, <3>3 DEF ReadLast
    <3>4. CASE q2s'[j] = m
      BY <1>2, <2>3, <3>2, <3>4
    <3> QED
      BY <2>1, <3>3, <3>4
  <2> QED
    BY <2>2, <2>3 DEF ReadLast
<1>3. CASE vcpu.pc = "wsend" /\ q2s' = Append(q2s, WriteReq(vcpu.reg, vcpu.val))
  <2>1. WriteReq(vcpu.reg, vcpu.val) \in QemuMsgs
    BY QemuMessages DEF Inv, BridgeTypeOK, QemuTypeOK, MmioTypeOK
  <2>2. ~IsRead(sock.msg) /\ \A i \in DOMAIN q2s : ~IsRead(q2s[i])
    BY <1>3 DEF ReadsAsked, Asks
  <2> QED
    BY <1>2, <1>3, <2>1, <2>2
<1> QED
  BY <1>1, <1>2, <1>3, QemuRequests

(* The guest stays connected, and reads what it may.                       *)
LEMMA QemuKeepsOpen ==
    ASSUME Inv, LinkOK, PlainGuest, Open, QemuStep
    PROVE  Open'
<1>0. /\ vcpu \in [pc : {"guest", "rsend", "rwait", "rlock", "wsend", "lost"}, reg : RegNames,
                   val : Nat, status : Status]
      /\ io \in [pc : {"accept", "recv", "handle", "reply", "cleanup", "dead", "lost"},
                 msg : ScMsgs \cup QemuMsgs \cup {NoMsg}]
      /\ UNCHANGED link
  BY DEF Inv, BridgeTypeOK, QemuTypeOK, MmioTypeOK, QemuStep
<1>1. CASE IoThread
  <2>1. UNCHANGED vcpu
    BY <1>1 DEF IoThread, IoAccept, IoAcceptFails, IoRecv, IoLoopEnds, IoCleanup, IoMmioReadResp,
       IoMmioWriteResp, IoDmaRead, IoDmaWrite, IoReply, IoMsi, IoLost
  <2>2. CASE IoAccept
    BY <1>0, <2>1, <2>2 DEF IoAccept, Open
  <2>3. CASE ~IoAccept
    <3>1. io.pc # "accept" /\ UNCHANGED connected
      BY <1>1, <2>3, Remains DEF Inv, IoThread, IoRecv, IoMmioReadResp, IoMmioWriteResp,
         IoDmaRead, IoDmaWrite, IoReply, IoMsi, Handles, deviceVars
    <3>2. io'.pc \in {"handle", "recv", "reply"}
      <4>1. CASE IoRecv \/ IoDmaRead \/ IoDmaWrite
        BY <4>1 DEF IoRecv, IoDmaRead, IoDmaWrite
      <4>2. CASE IoMmioReadResp \/ IoMmioWriteResp \/ IoReply \/ IoMsi
        BY <4>2 DEF IoMmioReadResp, IoMmioWriteResp, IoReply, IoMsi, Handled
      <4>3. ~IoAcceptFails /\ ~IoLoopEnds /\ ~IoCleanup /\ ~IoLost
        BY Remains DEF Inv
      <4> QED
        BY <1>1, <2>3, <4>1, <4>2, <4>3 DEF IoThread
    <3> QED
      BY <1>0, <2>1, <3>1, <3>2 DEF Open
  <2> QED
    BY <2>2, <2>3
<1>2. ASSUME UNCHANGED <<io, connected>>,
             vcpu'.pc = "wsend" => connected,
             vcpu'.pc \in {"rsend", "rwait", "rlock"} => connected /\ vcpu'.reg \in GuestReads
      PROVE  Open'
  BY <1>0, <1>2 DEF Open
<1>3. CASE GuestAccess
  <2>1. CASE GuestRead
    <3>1. PICK r \in GuestReads : MmioReadCached(r) \/ MmioReadStart(r)
      BY <2>1 DEF GuestRead
    <3>2. /\ UNCHANGED <<io, connected>> /\ connected
          /\ vcpu' = [vcpu EXCEPT !.pc = "rsend", !.reg = r]
      BY <3>1 DEF MmioReadCached, MmioReadStart, MayAccess, PlainGuest
    <3>3. vcpu'.pc = "rsend" /\ vcpu'.reg = r
      BY <1>0, <3>2
    <3> QED
      BY <1>2, <3>2, <3>3
  <2>2. ASSUME NEW r, NEW v, MmioWrite(r, v) PROVE Open'
    <3>1. /\ UNCHANGED <<io, connected>> /\ connected
          /\ vcpu' = [vcpu EXCEPT !.pc = "wsend", !.reg = r, !.val = v]
      BY <2>2 DEF MmioWrite, MayAccess, PlainGuest
    <3>2. vcpu'.pc = "wsend"
      BY <1>0, <3>1
    <3> QED
      BY <1>2, <3>1, <3>2
  <2> QED
    BY <1>3, <2>1, <2>2 DEF GuestAccess, RingTx, Written
<1>4. CASE VcpuGoesOn
  <2>1. UNCHANGED <<io, connected>>
    BY <1>4, Remains
       DEF Inv, VcpuGoesOn, MmioReadSend, MmioReadWake, MmioReadReturn, MmioWriteSend, deviceVars
  <2>2. /\ vcpu'.pc \in {"guest", "rwait", "rlock"}
        /\ vcpu'.pc # "guest" => vcpu.pc \in {"rsend", "rwait"} /\ vcpu'.reg = vcpu.reg
    BY <1>0, <1>4, Remains
       DEF Inv, VcpuGoesOn, MmioReadSend, MmioReadWake, MmioReadReturn, MmioWriteSend
  <2> QED
    BY <1>2, <2>1, <2>2 DEF Open
<1>5. CASE \E v \in Vectors : TakeMsi(v)
  BY <1>2, <1>5 DEF TakeMsi, deviceVars, Open
<1> QED
  BY <1>1, <1>3, <1>4, <1>5 DEF QemuStep, QemuRuns

(* The answers on their way stay right, and are handed on: what is         *)
(* promised changes only while none is (sc_bridge_mmio_read, io_thread).   *)
LEMMA QemuRight ==
    ASSUME Inv, LinkOK, PlainGuest, Open, ReadsAsked, RightAnswers, QemuStep
    PROVE  RightAnswers'
<1>0. /\ vcpu \in [pc : {"guest", "rsend", "rwait", "rlock", "wsend", "lost"}, reg : RegNames,
                   val : Nat, status : Status]
      /\ s2q \in Seq(ScMsgs) /\ UNCHANGED sock
  BY QemuRequests DEF Inv, BridgeTypeOK, WireTypeOK, QemuTypeOK, MmioTypeOK
<1>1. ASSUME vcpu.pc = "guest", vcpu'.pc = "wsend", UNCHANGED <<io, s2q>>
      PROVE  RightAnswers'
  <2>1. /\ ~IsRead(sock.msg) /\ \A i \in DOMAIN s2q : ~IsRead(s2q[i])
        /\ io.pc = "handle" => ~IsRead(io.msg)
    BY <1>1 DEF ReadsAsked, Asks
  <2>2. sock.pc = "answer" => ~IsRead(sock.ans)
    BY <2>1 DEF Inv, NicInv, SockOK, Answered, IsRead, WriteResp
  <2> QED
    BY <1>0, <1>1, <2>1, <2>2 DEF RightAnswers, Right
<1>2. ASSUME UNCHANGED <<promised, io, s2q>>,
             vcpu'.pc = "rwait" /\ ~mmio_pending' =>
                 mmio_resp'.val = RegRead(promised, vcpu'.reg)
      PROVE  RightAnswers'
  BY <1>0, <1>2 DEF RightAnswers, Right
<1>3. CASE GuestAccess
  <2>1. CASE GuestRead /\ UNCHANGED <<promised, s2q>>
    <3>1. PICK r \in GuestReads : MmioReadCached(r) \/ MmioReadStart(r)
      BY <2>1 DEF GuestRead
    <3>2. UNCHANGED io /\ vcpu' = [vcpu EXCEPT !.pc = "rsend", !.reg = r]
      BY <3>1 DEF MmioReadCached, MmioReadStart, MayAccess, PlainGuest
    <3>3. vcpu'.pc = "rsend"
      BY <1>0, <3>2
    <3> QED
      BY <1>2, <2>1, <3>2, <3>3
  <2>2. ASSUME NEW r, NEW v, Written(r, v), UNCHANGED s2q PROVE RightAnswers'
    <3>1. /\ UNCHANGED io /\ vcpu.pc = "guest"
          /\ vcpu' = [vcpu EXCEPT !.pc = "wsend", !.reg = r, !.val = v]
      BY <2>2 DEF Written, MmioWrite, MayAccess, PlainGuest
    <3>2. vcpu'.pc = "wsend"
      BY <1>0, <3>1
    <3> QED
      BY <1>1, <2>2, <3>1, <3>2
  <2> QED
    BY <1>3, <2>1, <2>2 DEF GuestAccess, RingTx
<1>4. CASE QemuRuns /\ UNCHANGED guestVars
  <2>0. UNCHANGED promised
    BY <1>4 DEF guestVars
  <2>1. CASE VcpuGoesOn /\ UNCHANGED s2q
    <3>1. CASE MmioReadSend
      <4>1. UNCHANGED <<io, mmio_pending>> /\ mmio_pending
        BY <3>1 DEF MmioReadSend, ReadsAsked, deviceVars
      <4> QED
        BY <1>2, <2>0, <2>1, <4>1
    <3>2. CASE MmioReadWake \/ MmioReadReturn \/ MmioWriteSend
      <4>1. UNCHANGED io /\ vcpu'.pc # "rwait"
        BY <1>0, <3>2 DEF MmioReadWake, MmioReadReturn, MmioWriteSend
      <4> QED
        BY <1>2, <2>0, <2>1, <4>1
    <3> QED
      BY <2>1, <3>1, <3>2, Remains DEF Inv, VcpuGoesOn
  <2>2. CASE (\E v \in Vectors : TakeMsi(v)) /\ UNCHANGED s2q
    <3>1. UNCHANGED <<io, vcpu, mmio_pending, mmio_resp>>
      BY <2>2 DEF TakeMsi, deviceVars
    <3> QED
      BY <1>2, <2>0, <2>2, <3>1 DEF RightAnswers
  <2>3. CASE IoThread
    <3>1. CASE IoRecv
      <4>1. /\ s2q # <<>> /\ s2q' = Tail(s2q) /\ io'.msg = Head(s2q)
            /\ UNCHANGED <<vcpu, mmio_pending, mmio_resp>>
        BY <3>1 DEF IoRecv, deviceVars
      <4>2. Right(Head(s2q)) /\ \A i \in DOMAIN Tail(s2q) : Right(Tail(s2q)[i])
        BY <1>0, <4>1, TailElements DEF RightAnswers
      <4> QED
        BY <1>0, <2>0, <4>1, <4>2 DEF RightAnswers, Right
    <3>2. CASE IoMmioReadResp
      <4>1. /\ io.pc = "handle" /\ IsRead(io.msg) /\ io'.pc = "recv"
            /\ mmio_resp'.val = io.msg.val /\ UNCHANGED <<s2q, vcpu>>
        BY <3>2 DEF IoMmioReadResp, Handles, Handled, IsRead
      <4>2. vcpu.reg = io.msg.for /\ io.msg.val = RegRead(promised, io.msg.for)
        BY <4>1 DEF ReadsAsked, Asks, RightAnswers, Right
      <4> QED
        BY <1>0, <2>0, <4>1, <4>2 DEF RightAnswers, Right
    <3>3. CASE ~IoRecv /\ ~IoMmioReadResp
      <4>1. UNCHANGED <<s2q, vcpu, mmio_pending, mmio_resp>>
        BY <2>3, <3>3 DEF IoThread, IoAccept, IoAcceptFails, IoLoopEnds, IoCleanup,
           IoMmioWriteResp, IoDmaRead, IoDmaWrite, IoReply, IoMsi, IoLost, deviceVars
      <4>2. io'.pc # "handle"
        <5>1. CASE IoAccept
          BY <5>1 DEF IoAccept, Inv, BridgeTypeOK, QemuTypeOK
        <5>2. CASE IoMmioWriteResp \/ IoReply \/ IoMsi \/ IoDmaRead \/ IoDmaWrite
          BY <5>2 DEF IoMmioWriteResp, IoReply, IoMsi, IoDmaRead, IoDmaWrite, Handled
        <5>3. ~IoAcceptFails /\ ~IoLoopEnds /\ ~IoCleanup /\ ~IoLost
          BY Remains DEF Inv
        <5> QED
          BY <2>3, <3>3, <5>1, <5>2, <5>3 DEF IoThread
      <4> QED
        BY <1>0, <2>0, <4>1, <4>2 DEF RightAnswers, Right
    <3> QED
      BY <3>1, <3>2, <3>3
  <2> QED
    BY <1>4, <2>1, <2>2, <2>3 DEF QemuRuns
<1> QED
  BY <1>3, <1>4 DEF QemuStep

-----------------------------------------------------------------------------
(* The steps of the NIC. *)

(* Where no frames arrive and no process runs, nobody uses dma_read, and   *)
(* only the socket thread touches the registers.                           *)
LEMMA CalmNic ==
    ASSUME Inv, Calm, CalmInv, NicAction, ~\E p \in Packets : NetRecv(p)
    PROVE  UNCHANGED <<net, pc>> /\ (SockThread \/ UNCHANGED m_regs)
<1>1. /\ net.pc = "idle" /\ pc["poll_irq"] = "never" /\ pc["process_dma"] = "never"
      /\ pc["process_tx"] = "never"
  BY DEF CalmInv, Procs
<1>2. dma.st = "idle"
  BY <1>1 DEF Inv, NicInv, CallerOK
<1>3. ~NetThread /\ ~DmaReadSend /\ ~DmaReadDone /\ ~DmaReadTimeout
  BY <1>1, <1>2 DEF NetThread, RxDrop, RxReadDesc, RxFailed, RxGotDesc, RxWriteData,
     RxWriteBack, RxIrq, DmaReadSend, DmaReadDone, DmaReadTimeout
<1>4. ~PollIrq
  BY <1>1 DEF PollIrq, PollResume, PollQuiet, PollPending, PollSendIrq, Resumes
<1>5. ~ProcessDma
  BY <1>1 DEF ProcessDma, DmaResume, DmaEngineStart, DmaEngineWrite, DmaEngineRead, DmaFinish,
     DmaSendIrq, DmaRelease, Resumes
<1>6. CASE ProcessTx
  <2>1. TxEventLost
    BY <1>1, <1>6 DEF ProcessTx, TxResume, TxIdle, TxReadDesc, TxReadFailed, TxGotDesc,
       TxTransmit, TxWriteBack, TxRelease, TxDoneQuiet, TxDone, TxSendIrq, Resumes
  <2> QED
    BY <2>1 DEF TxEventLost, kernelVars
<1>7. CASE SockThread /\ UNCHANGED kernelVars
  BY <1>7 DEF SockThread, SockConnect, SockRecv, OnMmioRead, OnMmioWrite, OnMmioWriteIrq,
     SockAnswer, HandleDmaReadResp, HandleDmaWriteResp, kernelVars
<1> QED
  BY <1>3, <1>4, <1>5, <1>6, <1>7 DEF NicAction, Kernel

(* Of its own accord the NIC writes no register that is the guest's alone. *)
LEMMA NicWrittenOnly ==
    ASSUME Inv, CalmInv, NicAction, Calm => ~\E p \in Packets : NetRecv(p)
    PROVE  OnMmioWrite \/ Agree(m_regs', m_regs)
<1>0. m_regs \in [RegNames -> Nat]
  BY DEF Inv, NicInv, RegsOK, RegFiles
<1>1. ASSUME UNCHANGED m_regs PROVE Agree(m_regs', m_regs)
  BY <1>1 DEF Agree
<1>2. CASE SockThread
  BY <1>1, <1>2 DEF SockThread, SockConnect, SockRecv, OnMmioRead, OnMmioWriteIrq,
     SockAnswer, HandleDmaReadResp, HandleDmaWriteResp
<1>3. CASE Calm /\ ~SockThread
  BY <1>1, <1>3, CalmNic
<1>4. CASE ~Calm /\ ~SockThread
  <2>0. GuestOnly = RegNames \ {"DMA_STS", "IRQ_STS", "TX_DOORBELL", "TX_TAIL", "RX_TAIL"}
    BY <1>4 DEF GuestOnly, NicWritten
  <2>1. ASSUME NEW a, m_regs' = [m_regs EXCEPT !["RX_TAIL"] = a] PROVE Agree(m_regs', m_regs)
    BY <1>0, <2>0, <2>1 DEF Agree
  <2>2. ASSUME NEW a, NEW b, m_regs' = [m_regs EXCEPT !["RX_TAIL"] = a, !["IRQ_STS"] = b]
        PROVE  Agree(m_regs', m_regs)
    BY <1>0, <2>0, <2>2 DEF Agree
  <2>3. ASSUME NEW a, NEW b, m_regs' = [m_regs EXCEPT !["DMA_STS"] = a, !["IRQ_STS"] = b]
        PROVE  Agree(m_regs', m_regs)
    BY <1>0, <2>0, <2>3 DEF Agree
  <2>4. ASSUME NEW a, m_regs' = [m_regs EXCEPT !["DMA_STS"] = a] PROVE Agree(m_regs', m_regs)
    BY <1>0, <2>0, <2>4 DEF Agree
  <2>5. ASSUME NEW a, NEW b, m_regs' = [m_regs EXCEPT !["TX_TAIL"] = a, !["TX_DOORBELL"] = b]
        PROVE  Agree(m_regs', m_regs)
    BY <1>0, <2>0, <2>5 DEF Agree
  <2>6. ASSUME NEW a, m_regs' = [m_regs EXCEPT !["IRQ_STS"] = a] PROVE Agree(m_regs', m_regs)
    BY <1>0, <2>0, <2>6 DEF Agree
  <2>7. CASE RxWriteBack
    BY <2>1, <2>2, <2>7 DEF RxWriteBack
  <2>8. CASE DmaFinish
    BY <2>3, <2>4, <2>8 DEF DmaFinish
  <2>9. CASE TxWriteBack
    BY <2>5, <2>9 DEF TxWriteBack
  <2>10. CASE TxDone
    BY <2>6, <2>10 DEF TxDone
  <2>11. CASE ~RxWriteBack /\ ~DmaFinish /\ ~TxWriteBack /\ ~TxDone
    <3>1. CASE NetThread \/ \E p \in Packets : NetRecv(p)
      BY <1>1, <2>11, <3>1 DEF NetThread, RxDrop, RxReadDesc, RxFailed, RxGotDesc, RxWriteData,
         RxIrq, NetRecv
    <3>2. CASE DmaReadSend \/ DmaReadDone \/ DmaReadTimeout
      BY <1>1, <3>2 DEF DmaReadSend, DmaReadDone, DmaReadTimeout
    <3>3. CASE PollIrq
      BY <1>1, <3>3 DEF PollIrq, PollResume, PollQuiet, PollPending, PollSendIrq, nicVars
    <3>4. CASE ProcessDma
      BY <1>1, <2>11, <3>4 DEF ProcessDma, DmaResume, DmaEngineStart, DmaEngineWrite,
         DmaEngineRead, DmaSendIrq, DmaRelease, nicVars
    <3>5. CASE ProcessTx
      BY <1>1, <2>11, <3>5 DEF ProcessTx, TxResume, TxEventLost, TxIdle, TxReadDesc,
         TxReadFailed, TxGotDesc, TxTransmit, TxRelease, TxDoneQuiet, TxSendIrq, nicVars
    <3> QED
      BY <1>4, <3>1, <3>2, <3>3, <3>4, <3>5 DEF NicAction, Kernel
  <2> QED
    BY <2>7, <2>8, <2>9, <2>10, <2>11
<1> QED
  BY <1>2, <1>3, <1>4

(* The socket thread takes a message, carries it out, or is done with it.  *)
LEMMA SockServes ==
    ASSUME Inv, SockThread
    PROVE  \/ SockRecv /\ sock'.pc = "handle" /\ sock'.msg = Head(q2s)
           \/ OnMmioWrite /\ sock'.pc # "handle" /\ UNCHANGED q2s
           \/ /\ UNCHANGED <<m_regs, q2s>> /\ sock'.pc # "handle"
              /\ sock.pc = "handle" => ~IsWrite(sock.msg)
<1>0. sock \in [pc : {"connect", "recv", "handle", "irq", "answer"},
                msg : QemuMsgs \cup {NoMsg}, ans : ScMsgs \cup {NoMsg}]
  BY DEF Inv, NicInv, SockOK
<1>1. CASE SockRecv
  BY <1>0, <1>1 DEF SockRecv
<1>2. CASE OnMmioWrite
  <2>1. /\ UNCHANGED q2s
        /\ \/ sock' = [sock EXCEPT !.pc = "irq"]
           \/ sock' = [sock EXCEPT !.pc = "answer", !.ans = WriteResp]
    BY <1>2 DEF OnMmioWrite, Answering, wireVars
  <2> QED
    BY <1>0, <1>2, <2>1
<1>3. CASE OnMmioRead \/ OnMmioWriteIrq
  <2>1. /\ UNCHANGED <<m_regs, q2s>> /\ (sock.pc = "handle" => ~IsWrite(sock.msg))
        /\ \E m : sock' = [sock EXCEPT !.pc = "answer", !.ans = m]
    BY <1>3 DEF OnMmioRead, OnMmioWriteIrq, Answering, Serves, wireVars, IsWrite
  <2> QED
    BY <1>0, <2>1
<1>4. CASE SockConnect \/ SockAnswer \/ HandleDmaReadResp \/ HandleDmaWriteResp
  <2>1. UNCHANGED <<m_regs, q2s>> /\ (sock.pc = "handle" => ~IsWrite(sock.msg))
    BY <1>4 DEF SockConnect, SockAnswer, HandleDmaReadResp, HandleDmaWriteResp, Serves, wireVars,
       IsWrite
  <2>2. sock'.pc = "recv"
    BY <1>0, <1>4 DEF SockConnect, SockAnswer, HandleDmaReadResp, HandleDmaWriteResp, Served
  <2> QED
    BY <2>1, <2>2
<1> QED
  BY <1>1, <1>2, <1>3, <1>4 DEF SockThread

(* The NIC keeps the files in step: it serves the queue in order, and what *)
(* it writes besides is not the guest's (socket_thread, on_mmio_write).    *)
LEMMA NicSync ==
    ASSUME Inv, CalmInv, Sync, NicAction, Calm => ~\E p \in Packets : NetRecv(p),
           UNCHANGED <<vcpu, promised>>
    PROVE  Sync'
<1>0. /\ m_regs \in RegFiles /\ q2s \in Seq(QemuMsgs) /\ AllowedMsg(sock.msg)
      /\ sock.msg \in QemuMsgs \cup {NoMsg}
  BY DEF Inv, NicInv, SockOK, RegsOK, BridgeTypeOK, WireTypeOK, WritesOK
<1>1. PICK g \in RegFiles : Leads(Applied, q2s, g) /\ promised = Pend(g)
  BY DEF Sync
<1>2. promised' = Pend(g)'
  BY <1>1 DEF Pend
<1>3. ASSUME Leads(Applied', q2s', g) PROVE Sync'
  BY <1>2, <1>3 DEF Sync
<1>4. CASE SockRecv /\ sock'.pc = "handle" /\ sock'.msg = Head(q2s)
  <2>1. /\ q2s # <<>> /\ q2s' = Tail(q2s) /\ UNCHANGED m_regs /\ sock.pc = "recv"
    BY <1>4 DEF SockRecv
  <2>2. Applied = m_regs /\ Applied' = Made(m_regs, Head(q2s))
    BY <1>4, <2>1 DEF Applied
  <2>3. AllowedMsg(Head(q2s))
    BY <1>0, <2>1, TailElements DEF Inv, WritesOK
  <2>4. Leads(Made(m_regs, Head(q2s)), Tail(q2s), g)
    BY <1>0, <1>1, <2>1, <2>2, <2>3, LeadsTake
  <2> QED
    BY <1>3, <2>1, <2>2, <2>4
<1>5. CASE OnMmioWrite /\ sock'.pc # "handle" /\ UNCHANGED q2s
  <2>1. sock.pc = "handle" /\ IsWrite(sock.msg)
    BY <1>5 DEF OnMmioWrite, Serves, IsWrite
  <2> DEFINE made == Made(m_regs, sock.msg)
  <2>2. Applied = made /\ Applied' = m_regs' /\ made \in RegFiles
    BY <1>0, <1>5, <2>1, MadeType DEF Applied
  <2>3. \/ m_regs' = made
        \/ m_regs' = [made EXCEPT !["DMA_STS"] = SC_STATUS_DMA_BSY]
    BY <1>5, <2>1 DEF OnMmioWrite, Made
  <2> HIDE DEF made
  <2>4. Agree(m_regs', made)
    BY <2>2, <2>3 DEF Agree, GuestOnly, NicWritten, RegFiles
  <2>5. Leads(m_regs', q2s, g)
    BY <1>1, <2>2, <2>4, LeadsSame
  <2> QED
    BY <1>3, <1>5, <2>2, <2>5
<1>6. CASE /\ UNCHANGED <<m_regs, q2s>> /\ sock'.pc # "handle"
           /\ sock.pc = "handle" => ~IsWrite(sock.msg)
  <2>1. Applied = m_regs /\ Applied' = m_regs'
    BY <1>6 DEF Applied, Made
  <2> QED
    BY <1>1, <1>3, <1>6, <2>1
<1>7. CASE ~SockThread
  <2>1. UNCHANGED <<q2s, sock>> /\ Agree(m_regs', m_regs)
    BY <1>7, OthersKeepSock, NicWrittenOnly DEF SockThread
  <2>2. m_regs' \in RegFiles
    BY NicActionInv DEF NicInv, RegsOK
  <2>3. Agree(Applied', Applied)
    BY <1>0, <2>1, <2>2, MadeAgrees DEF Applied
  <2>4. Leads(Applied', q2s, g)
    BY <1>1, <2>3, LeadsSame
  <2> QED
    BY <1>3, <2>1, <2>4
<1> QED
  BY <1>4, <1>5, <1>6, <1>7, SockServes

\* Nor does it put anything behind a read.
LEMMA NicReadLast ==
    ASSUME Inv, ReadLast, NicAction
    PROVE  ReadLast'
<1>0. q2s \in Seq(QemuMsgs) /\ ~IsRead(NoMsg)
  BY DEF Inv, BridgeTypeOK, WireTypeOK, IsRead, NoMsg
<1>1. CASE UNCHANGED q2s /\ sock'.msg \in {sock.msg, NoMsg}
  BY <1>0, <1>1 DEF ReadLast
<1>2. CASE q2s # <<>> /\ q2s' = Tail(q2s) /\ sock'.msg = Head(q2s)
  <2>1. /\ \A i \in DOMAIN q2s' : i \in Nat /\ i + 1 \in DOMAIN q2s /\ q2s'[i] = q2s[i + 1]
        /\ 1 \in DOMAIN q2s /\ sock'.msg = q2s[1]
    BY <1>0, <1>2, TailElements
  <2>2. \A i \in DOMAIN q2s' : i + 1 > 1
    BY <1>0, <1>2
  <2>3. IsRead(sock'.msg) => \A j \in DOMAIN q2s' : ~IsWrite(q2s'[j])
    BY <2>1, <2>2 DEF ReadLast
  <2>4. ASSUME NEW i \in DOMAIN q2s', IsRead(q2s'[i]), NEW j \in DOMAIN q2s', j > i
        PROVE  ~IsWrite(q2s'[j])
    <3>1. j + 1 > i + 1
      BY <2>1, <2>4
    <3> QED
      BY <2>1, <2>4, <3>1 DEF ReadLast
  <2> QED
    BY <2>3, <2>4 DEF ReadLast
<1> QED
  BY <1>1, <1>2, NicTakes

(* The NIC answers a read with what the promised file holds: no write is   *)
(* left to serve then (on_mmio_read, nic.cpp:66-76).                       *)
LEMMA ReadIsRight ==
    ASSUME Inv, PlainGuest, Open, Sync, ReadLast, ReadsAsked, OnMmioRead, UNCHANGED promised
    PROVE  sock'.pc = "answer" /\ Right(sock.ans)'
<1>0. /\ sock \in [pc : {"connect", "recv", "handle", "irq", "answer"},
                   msg : QemuMsgs \cup {NoMsg}, ans : ScMsgs \cup {NoMsg}]
      /\ q2s \in Seq(QemuMsgs)
  BY DEF Inv, NicInv, SockOK, BridgeTypeOK, WireTypeOK
<1>1. sock.pc = "handle" /\ IsRead(sock.msg)
  BY DEF OnMmioRead, Serves, IsRead
<1> DEFINE r == sock.msg.reg
<1>2. vcpu.pc = "rwait" /\ vcpu.reg = r /\ r \in GuestOnly
  BY <1>1 DEF ReadsAsked, Asks, Open, PlainGuest
<1>3. PICK g \in RegFiles : Leads(Applied, q2s, g) /\ promised = Pend(g)
  BY DEF Sync
<1>4. Applied = m_regs /\ promised = g
  BY <1>1, <1>2, <1>3 DEF Applied, Made, IsRead, IsWrite, Pend
<1>5. RegRead(m_regs, r) = RegRead(promised, r)
  <2>1. Agree(m_regs, g)
    BY <1>0, <1>1, <1>3, <1>4, LeadsRead DEF ReadLast
  <2> QED
    BY <1>2, <1>4, <2>1, ReadAgrees
<1>6. r # "DMA_STS"
  BY <1>2 DEF GuestOnly, NicWritten
<1>7. sock' = [sock EXCEPT !.pc = "answer", !.ans = ReadResp(r, RegRead(m_regs, r), "OK")]
  BY <1>6 DEF OnMmioRead, Answering
<1> HIDE DEF r
<1>8. sock'.pc = "answer" /\ sock'.ans = ReadResp(r, RegRead(m_regs, r), "OK")
  BY <1>0, <1>7
<1> QED
  BY <1>5, <1>8 DEF Right, ReadResp

\* So its answers are right, and what else it sends is none.
LEMMA NicRight ==
    ASSUME Inv, PlainGuest, Open, Sync, ReadLast, ReadsAsked, RightAnswers, NicAction,
           UNCHANGED qemuVars, UNCHANGED promised
    PROVE  RightAnswers'
<1>0. /\ sock \in [pc : {"connect", "recv", "handle", "irq", "answer"},
                   msg : QemuMsgs \cup {NoMsg}, ans : ScMsgs \cup {NoMsg}]
      /\ s2q \in Seq(ScMsgs) /\ UNCHANGED <<io, vcpu, mmio_pending, mmio_resp>>
  BY DEF Inv, NicInv, SockOK, BridgeTypeOK, WireTypeOK, qemuVars
<1>1. sock'.pc = "answer" => Right(sock.ans)'
  <2>1. CASE OnMmioRead
    BY <2>1, ReadIsRight
  <2>2. CASE OnMmioWrite \/ OnMmioWriteIrq
    <3>1. \/ sock' = [sock EXCEPT !.pc = "irq"]
          \/ sock' = [sock EXCEPT !.pc = "answer", !.ans = WriteResp]
      BY <2>2 DEF OnMmioWrite, OnMmioWriteIrq, Answering
    <3>2. sock'.pc = "answer" => sock'.ans = WriteResp
      BY <1>0, <3>1
    <3> QED
      BY <3>2 DEF Right, IsRead, WriteResp
  <2>3. CASE SockConnect \/ SockRecv \/ SockAnswer \/ HandleDmaReadResp \/ HandleDmaWriteResp
    <3>1. CASE SockConnect \/ SockRecv
      BY <1>0, <3>1 DEF SockConnect, SockRecv
    <3>2. CASE SockAnswer \/ HandleDmaReadResp \/ HandleDmaWriteResp
      BY <3>2 DEF SockAnswer, HandleDmaReadResp, HandleDmaWriteResp, Served
    <3> QED
      BY <2>3, <3>1, <3>2
  <2>4. CASE ~SockThread
    BY <2>4, OthersKeepSock DEF RightAnswers, Right
  <2> QED
    BY <2>1, <2>2, <2>3, <2>4 DEF SockThread
<1>2. ASSUME NEW m \in ScMsgs, Right(m), PutS2q(m)
      PROVE  \A i \in DOMAIN s2q' : Right(s2q[i])'
  <2>1. \A i \in DOMAIN s2q' : s2q'[i] = m \/ (i \in DOMAIN s2q /\ s2q'[i] = s2q[i])
    BY <1>0, <1>2, AppendElements DEF PutS2q
  <2> QED
    BY <1>2, <2>1 DEF RightAnswers, Right
<1>3. \A i \in DOMAIN s2q' : Right(s2q[i])'
  <2>1. CASE UNCHANGED s2q
    BY <2>1 DEF RightAnswers, Right
  <2>2. CASE SockAnswer
    <3>1. sock.ans \in ScMsgs
      <4>1. "OK" \in Status
        BY DEF Status
      <4> QED
        BY <2>2, <4>1, ScMessages DEF SockAnswer, Inv, NicInv, SockOK, Answered
    <3>2. Right(sock.ans) /\ PutS2q(sock.ans)
      BY <2>2 DEF SockAnswer, RightAnswers
    <3> QED
      BY <1>2, <3>1, <3>2
  <2>3. ASSUME NEW v \in {0, 1}, PutS2q(MsiIrq(v)) PROVE \A i \in DOMAIN s2q' : Right(s2q[i])'
    <3>1. MsiIrq(v) \in ScMsgs /\ Right(MsiIrq(v))
      BY CoSimAssumption, ScMessages DEF MsiIrq, Right, IsRead
    <3> QED
      BY <1>2, <2>3, <3>1
  <2>4. CASE DmaReadSend
    <3>1. DmaReadReq(dma.addr) \in ScMsgs /\ Right(DmaReadReq(dma.addr))
      BY DEF Inv, NicInv, DmaOK, DmaReadReq, ScMsgs, Right, IsRead
    <3> QED
      BY <1>2, <2>4, <3>1 DEF DmaReadSend
  <2>5. ASSUME NEW a \in Addrs, NEW d \in MemVals, PutS2q(DmaWriteReq(a, d))
        PROVE  \A i \in DOMAIN s2q' : Right(s2q[i])'
    <3>1. DmaWriteReq(a, d) \in ScMsgs /\ Right(DmaWriteReq(a, d))
      BY ScMessages DEF DmaWriteReq, Right, IsRead
    <3> QED
      BY <1>2, <2>5, <3>1
  <2> QED
    BY <2>1, <2>2, <2>3, <2>4, <2>5, NicSends DEF Sends
<1> QED
  BY <1>0, <1>1, <1>3 DEF RightAnswers, Right

-----------------------------------------------------------------------------
(* The invariant holds throughout. *)

\* At the start nothing is under way and the file is the constructor's.
LEMMA FileInit == ASSUME Init PROVE FileInv
<1>1. /\ vcpu.pc = "guest" /\ ~connected /\ io.pc = "accept" /\ q2s = <<>> /\ s2q = <<>>
      /\ m_regs = RegInit /\ promised = RegInit /\ sock.pc = "connect" /\ sock.msg = NoMsg
      /\ injected = <<>> /\ net.pc = "idle"
      /\ pc = [p \in Procs |-> IF p \in DontInitialize THEN "never" ELSE "wait"]
  BY DEF Init, WireInit, QemuInit, NicInit, ProcsInit
<1>2. Open /\ CalmInv
  BY <1>1 DEF Open, CalmInv, Calm
<1>3. Sync
  <2>1. Leads(Applied, q2s, RegInit) /\ promised = Pend(RegInit)
    BY <1>1, LeadsNone, RegInitType DEF Applied, Pend
  <2> QED
    BY <2>1, RegInitType DEF Sync
<1>4. ReadLast /\ RightAnswers
  BY <1>1 DEF ReadLast, RightAnswers, NoMsg, IsRead
<1> QED
  BY <1>2, <1>3, <1>4 DEF FileInv

\* Every step of the co-simulation keeps it.
LEMMA FileStep ==
    ASSUME PlainGuest, Inv, LinkOK, ReadsAsked, FileInv, [Next]_vars
    PROVE  FileInv'
<1> USE DEF FileInv
<1>1. CASE QemuStep
  <2>1. CalmInv'
    BY <1>1 DEF QemuStep, nicVars, kernelVars, CalmInv
  <2> QED
    BY <1>1, <2>1, QemuKeepsOpen, QemuSync, QemuReadLast, QemuRight
<1>2. CASE NicStep \/ KernelStep \/ Inject
  <2>1. /\ NicAction /\ UNCHANGED qemuVars
        /\ UNCHANGED <<vcpu, io, connected, promised>>
    BY <1>2 DEF NicStep, OtherNicThread, KernelStep, Inject, NicAction, ghostVars, guestVars,
       qemuVars, deviceVars
  <2>2. Calm => NicStep \/ KernelStep
    <3> SUFFICES ASSUME Calm, Inject PROVE FALSE
      BY <1>2
    <3> QED
      BY DEF Calm, CalmInv, Inject
  <2>3. Calm => ~(\E p \in Packets : NetRecv(p)) /\ UNCHANGED injected
    BY <2>2, NoArrival DEF NicStep, KernelStep, ghostVars
  <2>4. CalmInv'
    BY <2>1, <2>3, CalmNic DEF CalmInv
  <2>5. Open'
    BY <2>1, NicTakes DEF Open
  <2> QED
    BY <2>1, <2>3, <2>4, <2>5, NicSync, NicReadLast, NicRight
<1>3. CASE PostTx \/ UNCHANGED vars
  <2>1. /\ UNCHANGED <<q2s, s2q, link, vcpu, io, mmio_pending, mmio_resp, connected>>
        /\ UNCHANGED <<m_regs, sock, net, pc, injected, promised>>
    BY <1>3 DEF PostTx, vars, wireVars, qemuVars, deviceVars, nicVars, kernelVars, ghostVars,
       guestVars
  <2>2. Open' /\ CalmInv'
    BY <2>1 DEF Open, CalmInv
  <2>3. ReadLast' /\ RightAnswers'
    BY <2>1 DEF ReadLast, RightAnswers, Right
  <2>4. Sync'
    <3>1. UNCHANGED Applied
      BY <2>1 DEF Applied
    <3>2. \A g : Pend(g)' = Pend(g)
      BY <2>1 DEF Pend
    <3> QED
      BY <2>1, <3>1, <3>2 DEF Sync
  <2> QED
    BY <2>2, <2>3, <2>4
<1> QED
  BY <1>1, <1>2, <1>3 DEF Next

-----------------------------------------------------------------------------
(* A step of the co-simulation is a step of the register file, or none of  *)
(* the guest's business.                                                   *)
LEMMA FileRefines ==
    ASSUME PlainGuest, RegVals = Nat, Inv, LinkOK, FileInv, [Next]_vars
    PROVE  [Registers!Next]_(Registers!vars)
<1>0. vcpu \in [pc : {"guest", "rsend", "rwait", "rlock", "wsend", "lost"}, reg : RegNames,
                val : Nat, status : Status]
  BY DEF Inv, BridgeTypeOK, QemuTypeOK, MmioTypeOK
<1>1. ASSUME UNCHANGED <<promised, vcpu>> PROVE UNCHANGED Registers!vars
  BY <1>1 DEF Registers!vars, Cpu
<1>2. ASSUME NEW r \in RegNames, NEW v \in Nat, Written(r, v)
      PROVE  Registers!Next
  <2>1. /\ vcpu.pc = "guest" /\ promised' = RegWrite(promised, r, v)
        /\ vcpu' = [vcpu EXCEPT !.pc = "wsend", !.reg = r, !.val = v]
    BY <1>2 DEF Written, MmioWrite, MayAccess, PlainGuest
  <2>2. vcpu'.pc = "wsend"
    BY <1>0, <2>1
  <2>3. Cpu = Registers!Idle /\ Cpu' = Cpu
    BY <2>1, <2>2 DEF Cpu, Registers!Idle
  <2>4. Registers!Write
    BY <2>1, <2>3, SameRegisters DEF Registers!Write
  <2> QED
    BY <2>4 DEF Registers!Next
<1>3. CASE GuestAccess
  <2>1. CASE RingTx
    <3>1. "TX_DOORBELL" \in RegNames
      BY DEF RegNames
    <3> QED
      BY <1>2, <2>1, <3>1 DEF RingTx
  <2>2. ASSUME NEW w \in GuestWrites, Written(w[1], w[2]) PROVE Registers!Next
    <3>1. w[1] \in RegNames /\ w[2] \in Nat
      BY GuestAssumption
    <3> QED
      BY <1>2, <2>2, <3>1
  <2>3. CASE GuestRead /\ UNCHANGED promised
    <3>1. PICK r \in GuestReads : MmioReadCached(r) \/ MmioReadStart(r)
      BY <2>3 DEF GuestRead
    <3>2. vcpu.pc = "guest" /\ vcpu' = [vcpu EXCEPT !.pc = "rsend", !.reg = r]
      BY <3>1 DEF MmioReadCached, MmioReadStart, MayAccess, PlainGuest
    <3>3. vcpu'.pc = "rsend" /\ vcpu'.reg = r
      BY <1>0, <3>2
    <3>4. Cpu = Registers!Idle /\ Cpu' = Registers!Asked(r) /\ r \in RegNames
      BY <3>2, <3>3, GuestAssumption DEF Cpu, Registers!Idle, Registers!Asked
    <3>5. Registers!Ask
      BY <2>3, <3>4, SameRegisters DEF Registers!Ask
    <3> QED
      BY <3>5 DEF Registers!Next
  <2> QED
    BY <1>3, <2>1, <2>2, <2>3 DEF GuestAccess
<1>4. CASE QemuRuns /\ UNCHANGED guestVars
  <2>0. UNCHANGED promised
    BY <1>4 DEF guestVars
  <2>1. CASE MmioReadSend \/ MmioWriteSend
    <3>1. \/ vcpu.pc = "rsend" /\ vcpu'.pc = "rwait" /\ vcpu'.reg = vcpu.reg
          \/ vcpu.pc = "wsend" /\ vcpu'.pc = "guest"
      BY <1>0, <2>1 DEF MmioReadSend, MmioWriteSend
    <3>2. Cpu' = Cpu
      BY <3>1 DEF Cpu
    <3> QED
      BY <2>0, <3>2 DEF Registers!vars
  <2>2. CASE MmioReadWake
    <3>1. /\ vcpu.pc = "rwait" /\ vcpu'.pc = "rlock" /\ vcpu'.reg = vcpu.reg
          /\ vcpu'.val = RegRead(promised, vcpu.reg)
      BY <1>0, <2>2 DEF MmioReadWake, FileInv, RightAnswers
    <3>2. /\ Cpu.pc = "asked" /\ Cpu.reg = vcpu.reg
          /\ Cpu' = Registers!Answered(vcpu.reg, RegRead(promised, vcpu.reg))
      BY <3>1 DEF Cpu, Registers!Answered
    <3>3. Registers!Answer
      BY <2>0, <3>2, SameRegisters DEF Registers!Answer
    <3> QED
      BY <3>3 DEF Registers!Next
  <2>3. CASE MmioReadReturn
    <3>1. vcpu.pc = "rlock" /\ vcpu'.pc = "guest"
      BY <1>0, <2>3 DEF MmioReadReturn
    <3>2. Cpu.pc = "answered" /\ Cpu' = Registers!Idle
      BY <3>1 DEF Cpu, Registers!Idle
    <3>3. Registers!Return
      BY <2>0, <3>2 DEF Registers!Return
    <3> QED
      BY <3>3 DEF Registers!Next
  <2>4. CASE IoThread \/ \E v \in Vectors : TakeMsi(v)
    <3>1. UNCHANGED vcpu
      BY <2>4 DEF TakeMsi, IoThread, IoAccept, IoAcceptFails, IoRecv, IoLoopEnds, IoCleanup,
         IoMmioReadResp, IoMmioWriteResp, IoDmaRead, IoDmaWrite, IoReply, IoMsi, IoLost
    <3> QED
      BY <1>1, <2>0, <3>1
  <2> QED
    BY <1>4, <2>1, <2>2, <2>3, <2>4, Remains DEF Inv, QemuRuns, VcpuGoesOn
<1>5. CASE NicStep \/ KernelStep \/ Inject \/ PostTx \/ UNCHANGED vars
  <2>1. UNCHANGED <<promised, vcpu>>
    BY <1>5 DEF NicStep, KernelStep, Inject, PostTx, vars, qemuVars, ghostVars, guestVars
  <2> QED
    BY <1>1, <2>1
<1> QED
  BY <1>3, <1>4, <1>5 DEF Next, QemuStep

(***************************************************************************)
(* The guest that reads registers the NIC leaves to it sees one register   *)
(* file, where a write takes effect at once: posted writes cross a socket  *)
(* and wait for the socket thread, but no read overtakes one, and every    *)
(* answer is the reader's own (sc_bridge_mmio_read, sc_bridge_mmio_write;  *)
(* handle_message, pcie_bridge.cpp; RegBlock, reg_block.cpp:35-117).  With *)
(* no frames and no processes, as the code stands, that is every register  *)
(* but DMA_STS.                                                            *)
(***************************************************************************)
THEOREM OneRegisterFile == ASSUME PlainGuest, RegVals = Nat PROVE Spec => RegFileSpec
<1>1. Init => FileInv /\ Registers!Init
  <2>1. ASSUME Init PROVE Registers!Init
    BY <2>1, SameRegisters DEF Init, QemuInit, Registers!Init, Registers!Idle, Cpu
  <2> QED
    BY <2>1, FileInit
<1>2. ASSUME Inv, RefInv, Bridge!OneReadInFlight, FileInv, [Next]_vars
      PROVE  FileInv' /\ [Registers!Next]_(Registers!vars)
  <2>1. LinkOK /\ ReadsAsked
    BY <1>2, ReadsWaited DEF RefInv, Inv
  <2> QED
    BY <1>2, <2>1, FileStep, FileRefines
<1> QED
  BY <1>1, <1>2, RefInvariant, OwnAnswers, Invariant, PTL DEF Spec, RegFileSpec, Registers!Spec
=============================================================================
