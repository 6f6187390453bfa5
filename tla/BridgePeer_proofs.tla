-------------------------- MODULE BridgePeer_proofs --------------------------
(***************************************************************************)
(* Proofs about QEMU's bridge and the abstract SystemC end it talks to, for *)
(* all registers' values, socket sizes, guests and peers.                  *)
(***************************************************************************)
EXTENDS BridgePeer, ScBridge_proofs

-----------------------------------------------------------------------------
(* Type correctness. *)

(* What the peer asks for is what the wire carries.                        *)
LEMMA PeerMessages == PeerRequests \subseteq ScMsgs
BY PeerAssumption DEF ScMsgs

(* The device is realized with variables of their types.                   *)
LEMMA InitType == Init => TypeOK
<1> SUFFICES ASSUME Init PROVE TypeOK
  OBVIOUS
<1>1. mem \in [Addrs -> MemVals]
  BY PeerAssumption DEF Init
<1> QED
  BY <1>1, BridgeInitType DEF Init, TypeOK, BridgeTypeOK

(* The peer's steps keep the types.                                        *)
LEMMA PeerType ==
    ASSUME TypeOK, Peer, UNCHANGED qemuVars
    PROVE  TypeOK'
<1>1. QemuTypeOK'
  BY DEF TypeOK, QemuTypeOK, MmioTypeOK, qemuVars
<1>2. ASSUME NEW m \in ScMsgs, PeerSend(m) PROVE s2q' \in Seq(ScMsgs)
  BY <1>2, AppendElements DEF PeerSend, PutS2q, TypeOK, WireTypeOK
<1> USE DEF TypeOK, WireTypeOK
<1>3. CASE PeerConnect
  BY <1>1, <1>3 DEF PeerConnect
<1>4. CASE PeerRecv
  <2>1. Head(q2s) \in QemuMsgs /\ Tail(q2s) \in Seq(QemuMsgs)
    BY <1>4, TailElements DEF PeerRecv
  <2> QED
    BY <1>1, <1>4, <2>1 DEF PeerRecv
<1>5. CASE PeerAnswerRead
  <2>1. peer.reg \in RegNames
    BY <1>5, QemuFields DEF PeerAnswerRead
  <2>2. \A a \in Answers : a[1] \in Nat /\ a[2] \in Status
    BY PeerAssumption
  <2>3. s2q' \in Seq(ScMsgs)
    BY <1>2, <1>5, <2>1, <2>2, ScMessages DEF PeerAnswerRead
  <2> QED
    BY <1>1, <1>5, <2>3 DEF PeerAnswerRead
<1>6. CASE PeerAnswerWrite
  BY <1>1, <1>2, <1>6, ScMessages DEF PeerAnswerWrite
<1>7. CASE PeerTakeDma
  BY <1>1, <1>7 DEF PeerTakeDma
<1>8. CASE PeerRequest
  <2>1. s2q' \in Seq(ScMsgs)
    BY <1>2, <1>8, PeerMessages DEF PeerRequest
  <2> QED
    BY <1>1, <1>8, <2>1 DEF PeerRequest
<1>9. CASE PeerClose
  BY <1>1, <1>9 DEF PeerClose
<1> QED
  BY <1>3, <1>4, <1>5, <1>6, <1>7, <1>8, <1>9 DEF Peer

(* Every step keeps the types.                                             *)
LEMMA NextType == TypeOK /\ [Next]_vars => TypeOK'
<1> SUFFICES ASSUME TypeOK, [Next]_vars PROVE TypeOK'
  OBVIOUS
<1>1. CASE QemuNext /\ UNCHANGED <<link, peer>>
  BY <1>1, VcpuType, IoType, ExitType DEF QemuNext, TypeOK, BridgeTypeOK
<1>2. CASE Peer /\ UNCHANGED qemuVars
  BY <1>2, PeerType
<1>3. CASE UNCHANGED vars
  BY <1>3 DEF vars, wireVars, qemuVars, TypeOK, WireTypeOK, QemuTypeOK, MmioTypeOK
<1>4. CASE GuestStores
  BY <1>4, PeerAssumption DEF GuestStores, wireVars, deviceVars, TypeOK, WireTypeOK, QemuTypeOK, MmioTypeOK
<1> QED
  BY <1>1, <1>2, <1>3, <1>4 DEF Next

(***************************************************************************)
(* The bridge keeps its types whatever the guest, the peer and the socket  *)
(* sizes are; in particular the I/O thread takes apart only messages that  *)
(* have the fields it looks at (sc_bridge_handle_msg).                     *)
(***************************************************************************)
THEOREM TypeCorrect == Spec => []TypeOK
BY InitType, NextType, PTL DEF Spec

-----------------------------------------------------------------------------
(***************************************************************************)
(* One read in flight.  The invariant is inductive together with TypeOK:   *)
(* a read enters q2s only from "rsend", where nothing is in flight, moves  *)
(* on from place to place, and leaves at IoMmioReadResp, which ends the    *)
(* wait the invariant ties it to.                                          *)
(***************************************************************************)
NoRead ==
    /\ \A i \in DOMAIN q2s : ~IsRead(q2s[i])
    /\ ~IsRead(peer) /\ ~ReadInS2q /\ ~ReadAtIo

Inv == TypeOK /\ OneReadInFlight /\ OwnAnswer

(* With no guest read waiting, nothing of a read is in flight.             *)
LEMMA QuietNoRead ==
    ASSUME OneReadInFlight, io_thread_running, ~(vcpu.pc = "rwait" /\ mmio_pending)
    PROVE  NoRead
BY DEF OneReadInFlight, ReadIsQueued, ReadIsServed, AnswerIsQueued, AnswerIsTaken,
   AwaitsAnswer, NoRead, ReadInS2q, ReadAtIo

(* A message that is not a read adds none to q2s.                          *)
LEMMA SendOther ==
    ASSUME TypeOK, NEW m \in QemuMsgs, ~IsRead(m), Send(m)
    PROVE  \A i \in DOMAIN q2s' : IsRead(q2s'[i]) => i \in DOMAIN q2s /\ q2s'[i] = q2s[i]
BY AppendElements DEF Send, PutQ2s, TypeOK, WireTypeOK

(* The vCPU's steps keep the invariant.                                    *)
LEMMA VcpuInv ==
    ASSUME Inv, VcpuGoesOn \/ GuestRead \/ GuestWrite, UNCHANGED <<s2q, link, peer>>
    PROVE  OneReadInFlight' /\ OwnAnswer'
<1>1. CASE MmioReadSend
  <2> SUFFICES ASSUME io_thread_running PROVE OneReadInFlight' /\ OwnAnswer'
    BY <1>1 DEF MmioReadSend, deviceVars, OneReadInFlight, OwnAnswer
  <2>1. NoRead /\ mmio_pending
    BY <1>1, QuietNoRead DEF MmioReadSend, Inv, OneReadInFlight, RequestIsPending
  <2>2. vcpu' = [vcpu EXCEPT !.pc = "rwait"] /\ UNCHANGED <<s2q, peer, io, mmio_pending>>
    BY <1>1 DEF MmioReadSend, deviceVars
  <2>3. vcpu'.pc = "rwait" /\ vcpu'.reg = vcpu.reg
    BY <2>2 DEF Inv, TypeOK, QemuTypeOK, MmioTypeOK
  <2>4. ReadReq(vcpu.reg) \in QemuMsgs /\ q2s \in Seq(QemuMsgs)
    BY QemuMessages DEF Inv, TypeOK, WireTypeOK, QemuTypeOK, MmioTypeOK
  <2>5. \A i \in DOMAIN q2s' : IsRead(q2s'[i]) =>
            q2s' = Append(q2s, ReadReq(vcpu.reg)) /\ i = Len(q2s) + 1 /\ q2s'[i] = ReadReq(vcpu.reg)
    BY <1>1, <2>1, <2>4, AppendElements DEF MmioReadSend, Send, PutQ2s, NoRead
  <2>6. ReadIsQueued'
    BY <2>1, <2>2, <2>3, <2>5
       DEF ReadIsQueued, AwaitsAnswer, NoRead, ReadReq, ReadInS2q, ReadAtIo
  <2>7. ~ReadInS2q' /\ ~ReadAtIo' /\ ~IsRead(peer')
    BY <2>1, <2>2 DEF NoRead, ReadInS2q, ReadAtIo
  <2>8. ReadIsServed' /\ AnswerIsQueued' /\ AnswerIsTaken'
    BY <2>7 DEF ReadIsServed, AnswerIsQueued, AnswerIsTaken, ReadInS2q
  <2>9. RequestIsPending' /\ OwnAnswer'
    BY <2>1, <2>2, <2>3 DEF RequestIsPending, OwnAnswer
  <2> QED
    BY <2>6, <2>8, <2>9 DEF OneReadInFlight
<1>2. CASE ~MmioReadSend
  <2>0. UNCHANGED io_thread_running
    <3>1. CASE VcpuGoesOn
      BY <1>2, <3>1 DEF VcpuGoesOn, MmioReadWake, MmioReadLost, MmioReadReturn,
                       MmioWriteSend, deviceVars
    <3>2. CASE GuestRead \/ GuestWrite
      BY <3>2 DEF GuestRead, GuestWrite, MmioReadCached, MmioReadStart, MmioWrite, deviceVars
    <3> QED
      BY <3>1, <3>2
  <2> SUFFICES ASSUME io_thread_running PROVE OneReadInFlight' /\ OwnAnswer'
    BY <2>0 DEF OneReadInFlight, OwnAnswer
  <2>1. /\ ~(vcpu.pc = "rwait" /\ mmio_pending)
        /\ UNCHANGED <<io, peer, s2q>>
        /\ vcpu'.pc # "rwait" /\ (vcpu'.pc = "rsend" => mmio_pending')
    BY <1>2 DEF VcpuGoesOn, GuestRead, GuestWrite, MmioReadWake, MmioReadLost, MmioReadReturn,
                MmioWriteSend, MmioReadCached, MmioReadStart, MmioWrite, MayAccess, deviceVars,
                Inv, TypeOK, QemuTypeOK, MmioTypeOK
  <2>2. NoRead
    BY <2>1, QuietNoRead DEF Inv
  <2>3. \A i \in DOMAIN q2s' : IsRead(q2s'[i]) => i \in DOMAIN q2s /\ q2s'[i] = q2s[i]
    <3>1. CASE MmioWriteSend
      <4>1. WriteReq(vcpu.reg, vcpu.val) \in QemuMsgs
        BY QemuMessages DEF Inv, TypeOK, QemuTypeOK, MmioTypeOK
      <4> QED
        BY <3>1, <4>1, SendOther DEF MmioWriteSend, WriteReq, IsRead, Inv
    <3>2. CASE UNCHANGED q2s
      BY <3>2
    <3> QED
      BY <1>2, <3>1, <3>2 DEF VcpuGoesOn, GuestRead, GuestWrite, MmioReadWake, MmioReadLost,
                              MmioReadReturn, MmioReadCached, MmioReadStart, MmioWrite
  <2>4. NoRead'
    BY <2>1, <2>2, <2>3 DEF NoRead, ReadInS2q, ReadAtIo
  <2>5. ReadIsQueued' /\ ReadIsServed' /\ AnswerIsQueued' /\ AnswerIsTaken'
    BY <2>4 DEF NoRead, ReadIsQueued, ReadIsServed, AnswerIsQueued, AnswerIsTaken, ReadInS2q
  <2> QED
    BY <2>1, <2>5 DEF OneReadInFlight, RequestIsPending, OwnAnswer
<1> QED
  BY <1>1, <1>2

(* A queued response is the only one: with it gone, s2q holds no other.    *)
LEMMA TakeResponse ==
    ASSUME TypeOK, AnswerIsQueued, s2q # <<>>, s2q' = Tail(s2q)
    PROVE  /\ IsRead(Head(s2q)) => ~ReadInS2q'
           /\ \A i \in DOMAIN s2q' : i + 1 \in DOMAIN s2q /\ s2q'[i] = s2q[i + 1]
<1>1. \A i \in DOMAIN s2q' : i + 1 \in DOMAIN s2q /\ i + 1 # 1 /\ s2q'[i] = s2q[i + 1]
  BY DEF TypeOK, WireTypeOK
<1>2. 1 \in DOMAIN s2q /\ Head(s2q) = s2q[1]
  BY DEF TypeOK, WireTypeOK
<1> QED
  BY <1>1, <1>2 DEF AnswerIsQueued, ReadInS2q

(* The I/O thread's steps keep the invariant.                              *)
LEMMA IoInv ==
    ASSUME Inv, IoThread, UNCHANGED <<link, peer>>
    PROVE  OneReadInFlight' /\ OwnAnswer'
<1> SUFFICES ASSUME io_thread_running PROVE OneReadInFlight' /\ OwnAnswer'
  BY DEF IoThread, IoAccept, IoAcceptFails, IoRecv, IoLoopEnds, IoCleanup, IoMmioReadResp,
         IoMmioWriteResp, IoDmaRead, IoDmaWrite, IoReply, IoMsi, IoLost, deviceVars,
         OneReadInFlight, OwnAnswer
<1> USE DEF Inv, OneReadInFlight
<1>1. CASE IoRecv
  <2>1. /\ s2q # <<>> /\ s2q' = Tail(s2q) /\ io' = [pc |-> "handle", msg |-> Head(s2q)]
        /\ io.pc = "recv"
        /\ UNCHANGED <<q2s, peer, vcpu, mmio_pending, mmio_resp, io_thread_running>>
    BY <1>1 DEF IoRecv, deviceVars
  <2>2. /\ 1 \in DOMAIN s2q /\ Head(s2q) = s2q[1]
        /\ IsRead(Head(s2q)) => ~ReadInS2q'
        /\ \A i \in DOMAIN s2q' : i + 1 \in DOMAIN s2q /\ s2q'[i] = s2q[i + 1]
    BY <2>1, TakeResponse DEF TypeOK, WireTypeOK
  <2>3. ReadInS2q' \/ ReadAtIo' => ReadInS2q
    BY <2>1, <2>2 DEF ReadInS2q, ReadAtIo
  <2>4. ReadIsQueued' /\ ReadIsServed'
    BY <2>1, <2>3 DEF ReadIsQueued, ReadIsServed, AwaitsAnswer
  <2>5. AnswerIsQueued'
    <3>1. \A i \in DOMAIN s2q' : IsRead(s2q'[i]) =>
              /\ AwaitsAnswer(s2q'[i].for)
              /\ \A j \in DOMAIN s2q' : IsRead(s2q'[j]) => j + 1 = i + 1
      BY <2>2 DEF AnswerIsQueued
    <3>2. ReadInS2q' => ~ReadAtIo'
      BY <2>1, <2>2 DEF ReadAtIo
    <3>3. DOMAIN s2q' \subseteq Int
      BY <2>1 DEF TypeOK, WireTypeOK
    <3>4. \A i \in DOMAIN s2q' : \A j \in DOMAIN s2q' : j + 1 = i + 1 => j = i
      BY <3>3
    <3> QED
      BY <2>1, <3>1, <3>2, <3>4 DEF AnswerIsQueued, AwaitsAnswer, ReadInS2q
  <2>6. AnswerIsTaken'
    BY <2>1, <2>2 DEF AnswerIsTaken, AnswerIsQueued, ReadAtIo, AwaitsAnswer
  <2> QED
    BY <2>1, <2>4, <2>5, <2>6 DEF RequestIsPending, OwnAnswer
<1>2. CASE IoMmioReadResp
  <2>1. /\ ReadAtIo /\ io' = [pc |-> "recv", msg |-> NoMsg] /\ ~mmio_pending'
        /\ mmio_resp' = [for |-> io.msg.for, val |-> io.msg.val, status |-> io.msg.status]
        /\ UNCHANGED <<q2s, s2q, peer, vcpu>>
    BY <1>2 DEF IoMmioReadResp, Handles, Handled, ReadAtIo, IsRead
  <2>2. AwaitsAnswer(io.msg.for) /\ ~ReadAtIo'
    BY <2>1 DEF AnswerIsTaken, ReadAtIo
  <2>3. \A i \in DOMAIN q2s : ~IsRead(q2s[i])
    BY <2>1 DEF ReadIsQueued
  <2>4. ~IsRead(peer) /\ \A i \in DOMAIN s2q : ~IsRead(s2q[i])
    BY <2>1 DEF ReadIsServed, AnswerIsQueued
  <2> QED
    BY <2>1, <2>2, <2>3, <2>4
       DEF RequestIsPending, ReadIsQueued, ReadIsServed, AnswerIsQueued, AnswerIsTaken,
           AwaitsAnswer, OwnAnswer
<1>3. CASE IoReply
  <2>1. io.msg \in QemuMsgs /\ ~IsRead(io.msg) /\ Send(io.msg)
    BY <1>3 DEF IoReply, TypeOK, QemuTypeOK, IsRead
  <2>2. \A i \in DOMAIN q2s' : IsRead(q2s'[i]) => i \in DOMAIN q2s /\ q2s'[i] = q2s[i]
    BY <2>1, SendOther
  <2>3. /\ io'.pc = "recv"
        /\ UNCHANGED <<s2q, peer, vcpu, mmio_pending, mmio_resp, io_thread_running>>
    BY <1>3 DEF IoReply, Handled, deviceVars
  <2>4. ~ReadAtIo' /\ (ReadInS2q' => ReadInS2q)
    BY <2>3 DEF ReadAtIo, ReadInS2q
  <2>5. ReadIsQueued'
    BY <2>2, <2>3, <2>4 DEF ReadIsQueued, AwaitsAnswer
  <2> QED
    BY <2>3, <2>4, <2>5 DEF RequestIsPending, ReadIsServed, AnswerIsQueued,
                            AnswerIsTaken, AwaitsAnswer, OwnAnswer
<1>4. CASE ~IoRecv /\ ~IoMmioReadResp /\ ~IoReply
  <2>1. /\ io'.pc # "handle"
        /\ UNCHANGED <<q2s, s2q, peer, vcpu, mmio_pending, mmio_resp, io_thread_running>>
    <3>1. CASE IoAccept \/ IoLoopEnds \/ IoCleanup
      <4>1. /\ \E pc \in {"recv", "cleanup", "dead"} : io' = [io EXCEPT !.pc = pc]
            /\ UNCHANGED <<q2s, s2q, vcpu, mmio_pending, mmio_resp, io_thread_running>>
        BY <3>1 DEF IoAccept, IoLoopEnds, IoCleanup, deviceVars
      <4>2. io'.pc # "handle"
        BY <4>1 DEF TypeOK, QemuTypeOK
      <4> QED
        BY <4>1, <4>2
    <3>2. CASE IoMmioWriteResp \/ IoDmaRead \/ IoDmaWrite \/ IoMsi
      <4>1. CASE IoMmioWriteResp \/ IoMsi
        <5>1. /\ io' = [pc |-> "recv", msg |-> NoMsg]
              /\ UNCHANGED <<q2s, s2q, vcpu, mmio_pending, mmio_resp, io_thread_running>>
          BY <4>1 DEF IoMmioWriteResp, IoMsi, Handled, deviceVars
        <5> QED
          BY <5>1
      <4>2. CASE IoDmaRead
        BY <4>2 DEF IoDmaRead, deviceVars
      <4>3. CASE IoDmaWrite
        BY <4>3 DEF IoDmaWrite, deviceVars
      <4> QED
        BY <3>2, <4>1, <4>2, <4>3
    <3>3. ~IoAcceptFails /\ ~IoLost
      BY DEF IoAcceptFails, IoLost, Destroyed
    <3>4. \/ IoAccept \/ IoLoopEnds \/ IoCleanup
          \/ IoMmioWriteResp \/ IoDmaRead \/ IoDmaWrite \/ IoMsi
      BY <1>4, <3>3 DEF IoThread
    <3> QED
      BY <3>1, <3>2, <3>4
  <2>2. ~ReadAtIo' /\ (ReadInS2q' <=> ReadInS2q)
    BY <2>1 DEF ReadAtIo, ReadInS2q
  <2> QED
    BY <2>1, <2>2 DEF RequestIsPending, ReadIsQueued, ReadIsServed, AnswerIsQueued,
                      AnswerIsTaken, AwaitsAnswer, OwnAnswer
<1> QED
  BY <1>1, <1>2, <1>3, <1>4

(* Removing the device ends what the invariant speaks of; interrupts do not touch it. *)
LEMMA ExitInv ==
    ASSUME Inv, Exit \/ ExitDestroys \/ \E v \in Vectors : TakeMsi(v),
           UNCHANGED <<s2q, link, peer>>
    PROVE  OneReadInFlight' /\ OwnAnswer'
<1>1. CASE Exit
  BY <1>1 DEF Exit, OneReadInFlight, OwnAnswer
<1>2. CASE ExitDestroys \/ \E v \in Vectors : TakeMsi(v)
  <2>1. UNCHANGED <<q2s, s2q, peer, io, vcpu, mmio_pending, mmio_resp, io_thread_running>>
    BY <1>2 DEF ExitDestroys, TakeMsi, deviceVars
  <2> QED
    BY <2>1 DEF Inv, OneReadInFlight, RequestIsPending, ReadIsQueued, ReadIsServed, AnswerIsQueued,
                AnswerIsTaken, AwaitsAnswer, ReadInS2q, ReadAtIo, OwnAnswer
<1> QED
  BY <1>1, <1>2

(* What SystemC writes that answers no read adds none to s2q.              *)
LEMMA PeerSendOther ==
    ASSUME TypeOK, NEW m \in ScMsgs, ~IsRead(m), PeerSend(m)
    PROVE  \A i \in DOMAIN s2q' : IsRead(s2q'[i]) => i \in DOMAIN s2q /\ s2q'[i] = s2q[i]
BY AppendElements DEF PeerSend, PutS2q, TypeOK, WireTypeOK

(* SystemC's steps keep the invariant.                                     *)
LEMMA PeerInv ==
    ASSUME Inv, Peer, UNCHANGED qemuVars
    PROVE  OneReadInFlight' /\ OwnAnswer'
<1>1. UNCHANGED <<io, vcpu, mmio_pending, mmio_resp, io_thread_running>>
  BY DEF qemuVars
<1>2. OwnAnswer' /\ (RequestIsPending' <=> RequestIsPending) /\ (ReadAtIo' <=> ReadAtIo)
  BY <1>1 DEF Inv, OwnAnswer, RequestIsPending, ReadAtIo
<1> SUFFICES ASSUME io_thread_running
             PROVE  ReadIsQueued' /\ ReadIsServed' /\ AnswerIsQueued' /\ AnswerIsTaken'
  BY <1>1, <1>2 DEF Inv, OneReadInFlight
<1> USE DEF Inv, OneReadInFlight
<1>3. AnswerIsTaken'
  BY <1>1, <1>2 DEF AnswerIsTaken, AwaitsAnswer
<1>4. ASSUME UNCHANGED q2s, IsRead(peer') => peer' = peer,
             \A i \in DOMAIN s2q' : IsRead(s2q'[i]) => i \in DOMAIN s2q /\ s2q'[i] = s2q[i]
      PROVE  ReadIsQueued' /\ ReadIsServed' /\ AnswerIsQueued'
  <2>1. ReadInS2q' => ReadInS2q
    BY <1>4 DEF ReadInS2q
  <2>2. ReadIsQueued'
    BY <1>1, <1>2, <1>4, <2>1 DEF ReadIsQueued, AwaitsAnswer
  <2>3. ReadIsServed'
    BY <1>1, <1>2, <1>4, <2>1 DEF ReadIsServed, AwaitsAnswer
  <2>4. AnswerIsQueued'
    BY <1>1, <1>2, <1>4 DEF AnswerIsQueued, AwaitsAnswer
  <2> QED
    BY <2>2, <2>3, <2>4
<1>5. ~IsRead(NoMsg)
  BY DEF IsRead, NoMsg
<1>6. CASE PeerRecv
  <2>1. /\ q2s # <<>> /\ q2s' = Tail(q2s) /\ peer' = Head(q2s)
        /\ UNCHANGED s2q
    BY <1>6 DEF PeerRecv
  <2>2. /\ 1 \in DOMAIN q2s /\ Head(q2s) = q2s[1]
        /\ \A i \in DOMAIN q2s' : i + 1 \in DOMAIN q2s /\ i + 1 # 1 /\ q2s'[i] = q2s[i + 1]
        /\ DOMAIN q2s' \subseteq Int
    BY <2>1 DEF TypeOK, WireTypeOK
  <2>3. ReadInS2q' <=> ReadInS2q
    BY <2>1 DEF ReadInS2q
  <2>4. ReadIsServed'
    BY <1>1, <1>2, <2>1, <2>2, <2>3 DEF ReadIsServed, ReadIsQueued, AwaitsAnswer
  <2>5. \A i \in DOMAIN q2s' : IsRead(q2s'[i]) =>
            /\ AwaitsAnswer(q2s'[i].reg) /\ ~IsRead(peer') /\ ~ReadInS2q /\ ~ReadAtIo
            /\ \A j \in DOMAIN q2s' : IsRead(q2s'[j]) => j + 1 = i + 1
    BY <2>1, <2>2 DEF ReadIsQueued
  <2>6. \A i \in DOMAIN q2s' : \A j \in DOMAIN q2s' : j + 1 = i + 1 => j = i
    BY <2>2
  <2>7. ReadIsQueued'
    BY <1>1, <1>2, <2>3, <2>5, <2>6 DEF ReadIsQueued, AwaitsAnswer
  <2>8. AnswerIsQueued'
    BY <1>1, <1>2, <2>1 DEF AnswerIsQueued, AwaitsAnswer
  <2> QED
    BY <1>3, <2>4, <2>7, <2>8
<1>7. CASE PeerAnswerRead
  <2>1. PICK a \in Answers : PeerSend(ReadResp(peer.reg, a[1], a[2]))
    BY <1>7 DEF PeerAnswerRead
  <2> DEFINE m == ReadResp(peer.reg, a[1], a[2])
  <2>2. IsRead(peer) /\ peer' = NoMsg /\ UNCHANGED q2s
    BY <1>7 DEF PeerAnswerRead, IsRead
  <2>3. /\ AwaitsAnswer(peer.reg) /\ ~ReadInS2q /\ ~ReadAtIo
        /\ \A i \in DOMAIN q2s : ~IsRead(q2s[i])
    BY <2>2 DEF ReadIsServed, ReadIsQueued
  <2>4. m.for = peer.reg
    BY DEF ReadResp
  <2>5. \A i \in DOMAIN s2q' : IsRead(s2q'[i]) => i = Len(s2q) + 1 /\ s2q'[i] = m
    <3>1. s2q' = s2q \/ s2q' = Append(s2q, m)
      BY <2>1 DEF PeerSend, PutS2q
    <3> HIDE DEF m
    <3> QED
      BY <2>3, <3>1, AppendElements DEF ReadInS2q, TypeOK, WireTypeOK
  <2>6. ReadIsQueued' /\ ReadIsServed'
    BY <1>5, <2>2, <2>3 DEF ReadIsQueued, ReadIsServed
  <2>7. AnswerIsQueued'
    <3> HIDE DEF m
    <3> QED
      BY <1>1, <1>2, <2>3, <2>4, <2>5 DEF AnswerIsQueued, AwaitsAnswer
  <2> QED
    BY <1>3, <2>6, <2>7
<1>8. CASE PeerAnswerWrite
  <2>1. WriteResp \in ScMsgs /\ ~IsRead(WriteResp)
    BY ScMessages DEF WriteResp, IsRead
  <2> QED
    BY <1>3, <1>4, <1>5, <1>8, <2>1, PeerSendOther DEF PeerAnswerWrite
<1>9. CASE PeerRequest
  <2>1. PICK m \in PeerRequests : PeerSend(m)
    BY <1>9 DEF PeerRequest
  <2>2. m \in ScMsgs /\ ~IsRead(m)
    BY PeerMessages, PeerAssumption DEF IsRead
  <2> QED
    BY <1>3, <1>4, <1>9, <2>1, <2>2, PeerSendOther DEF PeerRequest
<1>10. CASE PeerConnect \/ PeerTakeDma \/ PeerClose
  BY <1>3, <1>4, <1>5, <1>10 DEF PeerConnect, PeerTakeDma, PeerClose
<1> QED
  BY <1>6, <1>7, <1>8, <1>9, <1>10 DEF Peer

(* Nothing is in flight at the start.                                      *)
LEMMA InitInv == Init => Inv
<1> SUFFICES ASSUME Init PROVE OneReadInFlight /\ OwnAnswer
  BY InitType DEF Inv
<1>1. q2s = <<>> /\ s2q = <<>> /\ peer = NoMsg /\ vcpu.pc = "guest" /\ io.pc = "accept"
  BY DEF Init, WireInit, QemuInit
<1> QED
  BY <1>1 DEF OneReadInFlight, RequestIsPending, ReadIsQueued, ReadIsServed, AnswerIsQueued,
              AnswerIsTaken, ReadAtIo, IsRead, NoMsg, OwnAnswer

(* Every step keeps the invariant.                                         *)
LEMMA NextInv == Inv /\ [Next]_vars => Inv'
<1> SUFFICES ASSUME Inv, [Next]_vars PROVE OneReadInFlight' /\ OwnAnswer'
  BY NextType DEF Inv
<1>1. CASE QemuNext /\ UNCHANGED <<link, peer>>
  BY <1>1, VcpuInv, IoInv, ExitInv DEF QemuNext
<1>2. CASE Peer /\ UNCHANGED qemuVars
  BY <1>2, PeerInv
<1>3. CASE GuestStores \/ UNCHANGED vars
  <2>1. UNCHANGED <<wireVars, vcpu, io, deviceVars, peer>>
    BY <1>3 DEF GuestStores, vars, qemuVars, deviceVars
  <2> QED
    BY <2>1 DEF Inv, wireVars, deviceVars, OneReadInFlight, RequestIsPending, ReadIsQueued,
                ReadIsServed, AnswerIsQueued, AnswerIsTaken, AwaitsAnswer, ReadInS2q, ReadAtIo,
                OwnAnswer
<1> QED
  BY <1>1, <1>2, <1>3 DEF Next

(***************************************************************************)
(* A guest read takes the answer to its own request, for every set of      *)
(* registers, answers and requests of SystemC and every socket capacity:   *)
(* the single pending flag and the single response slot of ScBridgeState   *)
(* suffice (sc_bridge_mmio_read, lines 184-205).                           *)
(***************************************************************************)
THEOREM AnswersMatch == Spec => []OwnAnswer
<1>1. Inv => OwnAnswer
  BY DEF Inv
<1> QED
  BY <1>1, InitInv, NextInv, PTL DEF Spec

(***************************************************************************)
(* At most one read is under way, and the guest waits for it: no stale     *)
(* request or response is ever left on the wire while the device exists.   *)
(***************************************************************************)
THEOREM ReadsDoNotOverlap == Spec => []OneReadInFlight
<1>1. Inv => OneReadInFlight
  BY DEF Inv
<1> QED
  BY <1>1, InitInv, NextInv, PTL DEF Spec
=============================================================================
