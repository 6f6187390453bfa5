----------------------------- MODULE BridgePeer -----------------------------
(***************************************************************************)
(* ScBridge closed with what it needs of SystemC, the abstract             *)
(* specification of the other end: it takes the requests in the order they *)
(* were written, answers each MMIO request once before it takes the next,  *)
(* and sends DMA requests and interrupts when it likes.  CoSim shows that  *)
(* the NIC model implements it.                                            *)
(***************************************************************************)
EXTENDS ScBridge

CONSTANTS
    PeerRequests,   \* the DMA requests and interrupts SystemC sends
    Answers,        \* <<value, status>> pairs SystemC answers reads with
    Stores,         \* what guest software stores in its memory
    MayClose        \* whether SystemC may go away

ASSUME PeerAssumption ==
    /\ PeerRequests \subseteq [type : {"DMA_READ"}, addr : Addrs]
                             \cup [type : {"DMA_WRITE"}, addr : Addrs, data : MemVals]
                             \cup [type : {"MSI_IRQ"}, vector : Vectors]
    /\ Answers \subseteq Nat \X Status
    /\ Stores \subseteq MemVals

VARIABLE peer       \* the message SystemC is serving

vars == <<wireVars, qemuVars, peer>>

PeerConnect ==
    /\ link = "none" /\ link' = "up"
    /\ UNCHANGED <<q2s, s2q, peer>>

PeerRecv ==
    /\ link = "up" /\ peer = NoMsg /\ q2s # <<>>
    /\ peer' = Head(q2s) /\ q2s' = Tail(q2s)
    /\ UNCHANGED <<s2q, link>>

\* A write after QEMU has closed goes nowhere.
PeerSend(m) == IF QemuOpen THEN PutS2q(m) ELSE UNCHANGED s2q

PeerAnswerRead ==
    /\ link = "up" /\ peer.type = "MMIO_READ"
    /\ \E a \in Answers : PeerSend(ReadResp(peer.reg, a[1], a[2]))
    /\ peer' = NoMsg
    /\ UNCHANGED <<q2s, link>>

PeerAnswerWrite ==
    /\ link = "up" /\ peer.type = "MMIO_WRITE"
    /\ PeerSend(WriteResp)
    /\ peer' = NoMsg
    /\ UNCHANGED <<q2s, link>>

PeerTakeDma ==
    /\ link = "up" /\ peer.type \in {"DMA_READ", "DMA_WRITE"}
    /\ peer' = NoMsg
    /\ UNCHANGED <<q2s, s2q, link>>

PeerRequest ==
    /\ UNCHANGED <<q2s, link, peer>>
    /\ link = "up" /\ Quota
    /\ \E m \in PeerRequests : PeerSend(m)

\* SystemC's end closes: it exits, or it has read end of file.
PeerClose ==
    /\ link = "up"
    /\ MayClose \/ (~QemuOpen /\ q2s = <<>>)
    /\ link' = "closed" /\ peer' = NoMsg
    /\ UNCHANGED <<q2s, s2q>>

Peer == PeerConnect \/ PeerRecv \/ PeerAnswerRead \/ PeerAnswerWrite
        \/ PeerTakeDma \/ PeerRequest \/ PeerClose

\* Software on the guest's CPUs stores to its own memory, buffers included.
GuestStores ==
    /\ vcpu.pc = "guest"
    /\ mem' \in [Addrs -> Stores]
    /\ UNCHANGED <<wireVars, vcpu, bql, io, deviceVars, msi, peer>>

Init == WireInit /\ QemuInit /\ mem \in [Addrs -> Stores] /\ peer = NoMsg

Next ==
    \/ QemuNext /\ UNCHANGED <<link, peer>>
    \/ UNCHANGED qemuVars /\ Peer
    \/ GuestStores

Spec == Init /\ [][Next]_vars

(***************************************************************************)
(* Fairness: every thread that can run eventually does, mutexes and the    *)
(* socket included; the guest may stop, and SystemC may stay or go.        *)
(***************************************************************************)
ServeFairness ==
    /\ WF_vars(VcpuGoesOn /\ UNCHANGED <<s2q, link, peer>>)
    /\ WF_vars(IoThread /\ UNCHANGED <<link, peer>>)
    /\ WF_vars(ExitDestroys /\ UNCHANGED <<s2q, link, peer>>)
    /\ WF_vars((PeerConnect \/ PeerRecv \/ PeerAnswerRead \/ PeerAnswerWrite
                \/ PeerTakeDma) /\ UNCHANGED qemuVars)

FairSpec == Spec /\ ServeFairness

-----------------------------------------------------------------------------
(* Type invariant: what the variables of the QEMU bridge hold. *)
TypeOK ==
    /\ WireTypeOK /\ QemuTypeOK
    /\ peer \in QemuMsgs \cup {NoMsg}

(***************************************************************************)
(* A guest read that wakes in sc_bridge_mmio_read takes the answer to its  *)
(* own request (lines 198-203), although responses carry no identifier and *)
(* write acknowledgements, DMA and interrupts share the stream.  Removal   *)
(* of the device wakes it without an answer.                               *)
(***************************************************************************)
OwnAnswer ==
    vcpu.pc = "rwait" /\ ~mmio_pending /\ io_thread_running
        => mmio_resp.for = vcpu.reg

(***************************************************************************)
(* A read of the guest is in one place at most on its way to SystemC and   *)
(* back, and wherever it is the guest still waits for it: the requests and *)
(* responses of lines 184-204 and 377-393 are never two, and never of a    *)
(* read that has ended.                                                    *)
(***************************************************************************)
IsRead(m) == m.type = "MMIO_READ"
AwaitsAnswer(r) == vcpu.pc = "rwait" /\ mmio_pending /\ vcpu.reg = r

ReadAtIo == io.pc = "handle" /\ IsRead(io.msg)
ReadInS2q == \E i \in DOMAIN s2q : IsRead(s2q[i])

ReadIsQueued ==
    \A i \in DOMAIN q2s : IsRead(q2s[i]) =>
        /\ AwaitsAnswer(q2s[i].reg)
        /\ ~IsRead(peer) /\ ~ReadInS2q /\ ~ReadAtIo
        /\ \A j \in DOMAIN q2s : IsRead(q2s[j]) => j = i
ReadIsServed == IsRead(peer) => AwaitsAnswer(peer.reg) /\ ~ReadInS2q /\ ~ReadAtIo
AnswerIsQueued ==
    \A i \in DOMAIN s2q : IsRead(s2q[i]) =>
        /\ AwaitsAnswer(s2q[i].for) /\ ~ReadAtIo
        /\ \A j \in DOMAIN s2q : IsRead(s2q[j]) => j = i
AnswerIsTaken == ReadAtIo => AwaitsAnswer(io.msg.for)
RequestIsPending == vcpu.pc = "rsend" => mmio_pending
OneReadInFlight ==
    io_thread_running =>
        RequestIsPending /\ ReadIsQueued /\ ReadIsServed /\ AnswerIsQueued /\ AnswerIsTaken

(* Every read of a device register returns to the guest (lines 192-205). *)
ReadReturns == vcpu.pc = "rwait" ~> vcpu.pc = "guest"

(* The same while SystemC and the device stay: what else shares the stream *)
(* holds no answer back.                                                   *)
ConnectedReadReturns ==
    vcpu.pc = "rwait" ~> vcpu.pc = "guest" \/ link = "closed" \/ ~io_thread_running

(***************************************************************************)
(* Removing the device ends the wait of a guest read, whatever has become  *)
(* of the connection (sc_bridge_exit, lines 610-614): the read returns,    *)
(* unless the mutex it wakes into has been destroyed by then (lines        *)
(* 623-625), and never sleeps on.                                          *)
(***************************************************************************)
ExitWakesReader ==
    vcpu.pc = "rwait" /\ ~io_thread_running ~> vcpu.pc \in {"guest", "lost"}

(* Every read that waits while the device is removed returns: it does not, *)
(* for exit destroys the mutex under it (lines 623-625).                   *)
ExitFreesReader ==
    vcpu.pc = "rwait" /\ ~io_thread_running ~> vcpu.pc = "guest"

(***************************************************************************)
(* Line 240, "Don't forward reset to SystemC (it will be notified          *)
(* separately)": no reset of the guest's reaches SystemC as a write.       *)
(***************************************************************************)
ResetStaysLocal ==
    ~(peer.type = "MMIO_WRITE" /\ peer.reg = "CTRL" /\ Has(peer.val, SC_CTRL_RESET))
=============================================================================
