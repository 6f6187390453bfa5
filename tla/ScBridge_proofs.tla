--------------------------- MODULE ScBridge_proofs ---------------------------
(***************************************************************************)
(* What the proofs about QEMU's bridge share, whoever is at the other end  *)
(* of the socket: the register cache, queues, messages, and that the       *)
(* bridge's own steps keep its types.                                      *)
(***************************************************************************)
EXTENDS ScBridge, TLAPS

RegFiles == [RegNames -> Nat]

-----------------------------------------------------------------------------
(* What the register operators return. *)

(* Clearing bits of a register leaves a natural number (reg_block.cpp:78). *)
LEMMA ClearBitsNat == ASSUME NEW v \in Nat, NEW w \in Nat PROVE ClearBits(v, w) \in Nat
<1>1. \A b \in {1, 2, 4, 8} : Keep(v, w, b) \in Nat
  BY DEF Keep
<1>2. v - (v % 16) \in Nat
  OBVIOUS
<1> QED
  BY <1>1, <1>2 DEF ClearBits

(* The cache starts as a register file (smarteth_sc_bridge.c:533-539).     *)
LEMMA CacheInitType == CacheInit \in RegFiles
BY DEF CacheInit, Zeros, RegFiles, RegNames, SC_DEV_ID, SC_STATUS_READY,
       SC_MAC_DEFAULT_LO, SC_MAC_DEFAULT_HI

(* A write leaves a register file (smarteth_sc_bridge.c:232-265).          *)
LEMMA CacheWriteType ==
    ASSUME NEW f \in RegFiles, NEW r \in RegNames, NEW v \in Nat
    PROVE  CacheWrite(f, r, v) \in RegFiles
<1>1. f["IRQ_STS"] \in Nat
  BY DEF RegFiles, RegNames
<1>2. ClearBits(f["IRQ_STS"], v) \in Nat
  BY <1>1, ClearBitsNat
<1> QED
  BY <1>2, CacheInitType DEF CacheWrite, RegFiles, SC_STATUS_DMA_BSY

(* A read is answered from a register file with a natural number.          *)
LEMMA CacheReadType ==
    ASSUME NEW f \in RegFiles, NEW r \in RegNames
    PROVE  CacheRead(f, r) \in Nat
BY DEF CacheRead, RegFiles, SC_DEV_ID, SC_STATUS_READY

-----------------------------------------------------------------------------
(* Sequences of messages under Append, Head and Tail. *)

(* What is in a queue after a write: what was there, and the message.      *)
LEMMA AppendElements ==
    ASSUME NEW S, NEW s \in Seq(S), NEW m \in S
    PROVE  /\ Append(s, m) \in Seq(S)
           /\ DOMAIN Append(s, m) = 1 .. Len(s) + 1
           /\ \A i \in DOMAIN s : Append(s, m)[i] = s[i]
           /\ Append(s, m)[Len(s) + 1] = m
OBVIOUS

(* What is in a queue after a read: everything but its head, moved up.     *)
LEMMA TailElements ==
    ASSUME NEW S, NEW s \in Seq(S), s # <<>>
    PROVE  /\ Tail(s) \in Seq(S) /\ Head(s) \in S
           /\ 1 \in DOMAIN s /\ Head(s) = s[1]
           /\ \A i \in DOMAIN Tail(s) : i + 1 \in DOMAIN s /\ Tail(s)[i] = s[i + 1]
OBVIOUS
-----------------------------------------------------------------------------
(* Messages. *)

(* A cut location holds what a location may (smarteth_sc_bridge.c:295).    *)
LEMMA FirstType ==
    ASSUME NEW v \in MemVals, NEW n \in Lengths
    PROVE  First(v, n) \in MemVals
<1>1. CASE v \in Descs
  BY <1>1 DEF First
<1>2. CASE v \notin Descs
  <2>1. v \in Bytes /\ Smaller(v.len, n) \in Lengths
    BY <1>2 DEF MemVals, Bytes, Smaller
  <2> QED
    BY <1>2, <2>1 DEF First, MemVals, Bytes
<1> QED
  BY <1>1, <1>2

\* What QEMU's DMA handlers pass on.
LEMMA CappedType == \A v \in MemVals : Capped(v) \in MemVals
BY FirstType, LengthsAssumption DEF Capped

(* The messages of the two sides are what the wire carries.                *)
LEMMA QemuMessages ==
    /\ \A r \in RegNames : ReadReq(r) \in QemuMsgs
    /\ \A r \in RegNames, v \in Nat : WriteReq(r, v) \in QemuMsgs
    /\ \A d \in MemVals : DmaReadResp(d) \in QemuMsgs
    /\ DmaWriteResp \in QemuMsgs
BY DEF ReadReq, WriteReq, DmaReadResp, DmaWriteResp, QemuMsgs

\* What the NIC can build are messages of the protocol.
LEMMA ScMessages ==
    /\ \A r \in RegNames, v \in Nat, st \in Status : ReadResp(r, v, st) \in ScMsgs
    /\ WriteResp \in ScMsgs
    /\ \A a \in Addrs, d \in MemVals : DmaReadReq(a) \in ScMsgs /\ DmaWriteReq(a, d) \in ScMsgs
    /\ \A v \in Vectors : MsiIrq(v) \in ScMsgs
BY DEF ReadResp, WriteResp, DmaReadReq, DmaWriteReq, MsiIrq, ScMsgs

(* What a received message holds follows from its type.                    *)
LEMMA ScFields ==
    ASSUME NEW m \in ScMsgs
    PROVE  /\ m.type = "MMIO_READ" => m.for \in RegNames /\ m.val \in Nat /\ m.status \in Status
           /\ m.type = "DMA_READ" => m.addr \in Addrs
           /\ m.type = "DMA_WRITE" => m.addr \in Addrs /\ m.data \in MemVals
           /\ m.type = "MSI_IRQ" => m.vector \in Vectors
BY DEF ScMsgs, WriteResp

\* A read request that has been received names a register.
LEMMA QemuFields ==
    ASSUME NEW m \in QemuMsgs \cup {NoMsg}
    PROVE  m.type = "MMIO_READ" => m.reg \in RegNames
BY DEF QemuMsgs, NoMsg, DmaWriteResp
-----------------------------------------------------------------------------
(* Type correctness of the wire and of QEMU's side of it. *)

BridgeTypeOK == WireTypeOK /\ QemuTypeOK

(* The device is realized with variables of their types.                   *)
LEMMA BridgeInitType ==
    ASSUME WireInit, QemuInit, mem \in [Addrs -> MemVals]
    PROVE  BridgeTypeOK
<1>1. WireTypeOK
  BY DEF WireInit, WireTypeOK
<1>2. "DEV_ID" \in RegNames /\ "OK" \in Status
  BY DEF RegNames, Status
<1>3. MmioTypeOK
  BY <1>2, CacheInitType DEF QemuInit, MmioTypeOK, RegFiles
<1> QED
  BY <1>1, <1>3 DEF BridgeTypeOK, QemuInit, QemuTypeOK

(* A write to the socket leaves a queue of QEMU's messages.                *)
LEMMA SendType ==
    ASSUME NEW m \in QemuMsgs, q2s \in Seq(QemuMsgs), Send(m)
    PROVE  q2s' \in Seq(QemuMsgs)
BY AppendElements DEF Send, PutQ2s

(* A write of the guest's keeps the types.                                 *)
LEMMA WriteType ==
    ASSUME BridgeTypeOK, NEW r \in RegNames, NEW v \in Nat, MmioWrite(r, v),
           UNCHANGED <<s2q, link>>
    PROVE  BridgeTypeOK'
<1> USE DEF BridgeTypeOK, WireTypeOK, QemuTypeOK, MmioTypeOK
<1>1. CacheWrite(regs, r, v) \in [RegNames -> Nat]
  BY CacheWriteType DEF RegFiles
<1> QED
  BY <1>1 DEF MmioWrite

(* The steps of a vCPU keep the types.                                     *)
LEMMA VcpuType ==
    ASSUME BridgeTypeOK, VcpuGoesOn \/ GuestRead \/ GuestWrite, UNCHANGED <<s2q, link>>
    PROVE  BridgeTypeOK'
<1> USE DEF BridgeTypeOK, WireTypeOK, QemuTypeOK, MmioTypeOK
<1>1. CASE MmioReadSend
  <2>1. q2s' \in Seq(QemuMsgs)
    BY <1>1, SendType, QemuMessages DEF MmioReadSend
  <2> QED
    BY <1>1, <2>1 DEF MmioReadSend, deviceVars
<1>2. CASE MmioReadWake
  BY <1>2 DEF MmioReadWake, deviceVars
<1>3. CASE MmioReadReturn
  <2>1. vcpu.reg \in RegNames /\ vcpu.val \in Nat /\ regs[vcpu.reg] \in Nat
    OBVIOUS
  <2>2. vcpu' \in [pc : {"guest", "rsend", "rwait", "rlock", "wsend", "lost"}, reg : RegNames,
                  val : Nat, status : Status]
    BY <1>3, <2>1 DEF MmioReadReturn
  <2>3. regs' \in [RegNames -> Nat]
    BY <1>3, <2>1 DEF MmioReadReturn
  <2> QED
    BY <1>3, <2>2, <2>3 DEF MmioReadReturn
<1>4. CASE MmioWriteSend
  <2>1. q2s' \in Seq(QemuMsgs)
    BY <1>4, SendType, QemuMessages DEF MmioWriteSend
  <2> QED
    BY <1>4, <2>1 DEF MmioWriteSend, deviceVars
<1>5. ASSUME NEW r \in GuestReads, MmioReadCached(r) PROVE BridgeTypeOK'
  <2>1. r \in RegNames /\ CacheRead(regs, r) \in Nat
    BY GuestAssumption, CacheReadType DEF RegFiles
  <2> QED
    BY <1>5, <2>1 DEF MmioReadCached, deviceVars
<1>6. ASSUME NEW r \in GuestReads, MmioReadStart(r) PROVE BridgeTypeOK'
  BY <1>6, GuestAssumption DEF MmioReadStart
<1>7. ASSUME NEW w \in GuestWrites, MmioWrite(w[1], w[2]) PROVE BridgeTypeOK'
  BY <1>7, WriteType, GuestAssumption
<1>8. CASE MmioReadLost
  BY <1>8 DEF MmioReadLost, deviceVars
<1> QED
  BY <1>1, <1>2, <1>3, <1>4, <1>5, <1>6, <1>7, <1>8 DEF VcpuGoesOn, GuestRead, GuestWrite

(* The steps of the I/O thread keep the types.                             *)
LEMMA IoType ==
    ASSUME BridgeTypeOK, IoThread, UNCHANGED link
    PROVE  BridgeTypeOK'
<1> USE DEF BridgeTypeOK, WireTypeOK, QemuTypeOK, MmioTypeOK
<1>1. CASE IoAccept
  BY <1>1 DEF IoAccept
<1>2. CASE IoAcceptFails
  BY <1>2 DEF IoAcceptFails
<1>3. CASE IoRecv
  <2>1. Head(s2q) \in ScMsgs /\ Tail(s2q) \in Seq(ScMsgs)
    BY <1>3, TailElements DEF IoRecv
  <2> QED
    BY <1>3, <2>1 DEF IoRecv, deviceVars
<1>4. CASE IoLoopEnds
  BY <1>4 DEF IoLoopEnds, deviceVars
<1>5. CASE IoCleanup
  BY <1>5 DEF IoCleanup
<1>6. CASE IoMmioReadResp
  <2>1. io.msg.for \in RegNames /\ io.msg.val \in Nat /\ io.msg.status \in Status
    BY <1>6, ScFields DEF IoMmioReadResp, Handles
  <2> QED
    BY <1>6, <2>1 DEF IoMmioReadResp, Handles, Handled
<1>7. CASE IoMmioWriteResp
  BY <1>7 DEF IoMmioWriteResp, Handles, Handled, deviceVars
<1>8. CASE IoDmaRead
  <2>1. io.msg.addr \in Addrs
    BY <1>8, ScFields DEF IoDmaRead, Handles
  <2>2. DmaReadResp(Capped(mem[io.msg.addr])) \in QemuMsgs
    BY <2>1, QemuMessages, CappedType
  <2> QED
    BY <1>8, <2>2 DEF IoDmaRead, Handles, deviceVars, DmaReadResp
<1>9. CASE IoDmaWrite
  <2>1. io.msg.addr \in Addrs /\ Capped(io.msg.data) \in MemVals
    BY <1>9, ScFields, CappedType DEF IoDmaWrite, Handles
  <2> QED
    BY <1>9, <2>1, QemuMessages DEF IoDmaWrite, Handles, deviceVars, DmaWriteResp
<1>10. CASE IoReply
  <2>1. q2s' \in Seq(QemuMsgs)
    BY <1>10, SendType DEF IoReply
  <2> QED
    BY <1>10, <2>1 DEF IoReply, Handled, deviceVars
<1>11. CASE IoMsi
  <2>1. io.msg.vector \in Vectors
    BY <1>11, ScFields DEF IoMsi, Handles
  <2> QED
    BY <1>11, <2>1 DEF IoMsi, Handles, Handled, deviceVars
<1>12. CASE IoLost
  BY <1>12 DEF IoLost, deviceVars
<1> QED
  BY <1>1, <1>2, <1>3, <1>4, <1>5, <1>6, <1>7, <1>8, <1>9, <1>10, <1>11, <1>12 DEF IoThread

(* Device exit and the delivery of a vector keep the types.                *)
LEMMA ExitType ==
    ASSUME BridgeTypeOK, Exit \/ ExitDestroys \/ \E v \in Vectors : TakeMsi(v),
           UNCHANGED <<s2q, link>>
    PROVE  BridgeTypeOK'
BY DEF BridgeTypeOK, WireTypeOK, QemuTypeOK, MmioTypeOK, Exit, ExitDestroys, TakeMsi, deviceVars
=============================================================================
