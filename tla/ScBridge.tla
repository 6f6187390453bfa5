------------------------------ MODULE ScBridge ------------------------------
(***************************************************************************)
(* The QEMU side of the co-simulation: the smarteth-sc device              *)
(* (firmware/qemu-dev/smarteth_sc_bridge.c).  Its MMIO handlers run on the *)
(* vCPU under the big QEMU lock, its I/O thread dispatches what SystemC    *)
(* sends, and device exit runs on the main thread.  BridgePeer closes this *)
(* component with an abstract SystemC, CoSim with the NIC model.           *)
(***************************************************************************)
EXTENDS Wire

CONSTANTS
    GuestReads,     \* registers the guest reads
    GuestWrites,    \* <<register, value>> pairs the guest writes
    MsixEnabled,    \* the guest has enabled MSI-X
    MaxQueued,      \* bound: the guest starts no access with more messages queued
    EarlyGuest,     \* whether the guest uses the device before SystemC connects
    MayUnplug       \* whether the device may be removed

ASSUME GuestAssumption ==
    GuestReads \subseteq RegNames /\ GuestWrites \subseteq RegNames \X Nat

VARIABLES
    vcpu,               \* the guest's CPU inside the MMIO handlers
    bql,                \* holder of the big QEMU lock over several steps: the vCPU, or
                        \* the main thread in sc_bridge_exit
    io,                 \* the I/O thread, with the message in its hands
    mmio_pending,       \* ScBridgeState, as in the code; sock_fd: "the socket is open"
    mmio_resp,
    regs,
    connected,
    sock_fd,
    io_thread_running,
    mem,                \* guest memory
    msi                 \* vectors notified and not yet taken by the guest

qemuVars == <<vcpu, bql, io, mmio_pending, mmio_resp, regs, connected, sock_fd,
              io_thread_running, mem, msi>>
deviceVars == <<mmio_pending, mmio_resp, regs, connected, sock_fd, io_thread_running>>

Quota == Len(q2s) + Len(s2q) < MaxQueued

-----------------------------------------------------------------------------
(* The register cache of the device. *)

SC_MAC_DEFAULT_LO == 5509684    \* 0x00541234
SC_MAC_DEFAULT_HI == 86         \* 0x0056

CacheInit == [Zeros EXCEPT !["DEV_ID"] = SC_DEV_ID, !["STATUS"] = SC_STATUS_READY,
                           !["MAC_LO"] = SC_MAC_DEFAULT_LO,
                           !["MAC_HI"] = SC_MAC_DEFAULT_HI]

CacheRead(f, r) ==
    CASE r = "DEV_ID" -> SC_DEV_ID
      [] r = "STATUS" -> SC_STATUS_READY
      [] OTHER        -> f[r]

CacheWrite(f, r, v) ==
    CASE r = "CTRL" /\ Has(v, SC_CTRL_RESET) -> CacheInit
      [] r = "IRQ_STS" -> [f EXCEPT !["IRQ_STS"] = ClearBits(f["IRQ_STS"], v)]
      [] r = "DMA_CTRL" /\ Has(v, SC_DMA_START) ->
            [f EXCEPT !["DMA_CTRL"] = v, !["DMA_STS"] = SC_STATUS_DMA_BSY]
      [] OTHER -> [f EXCEPT ![r] = v]

-----------------------------------------------------------------------------
QemuInit ==
    /\ vcpu = [pc |-> "guest", reg |-> "DEV_ID", val |-> 0, status |-> "OK"]
    /\ bql = "none"
    /\ io = [pc |-> "accept", msg |-> NoMsg]
    /\ mmio_pending = FALSE
    /\ mmio_resp = [for |-> "DEV_ID", val |-> 0, status |-> "OK"]
    /\ regs = CacheInit
    /\ connected = FALSE
    /\ sock_fd = FALSE
    /\ io_thread_running = TRUE
    /\ msi = {}

\* QEMU's end of the connection still takes what SystemC writes.
QemuOpen == io_thread_running /\ (io.pc = "accept" \/ sock_fd)

\* sc_bridge_send_all under sock_mtx; a write after SystemC has closed fails.
Send(m) ==
    IF sock_fd /\ link = "up" THEN PutQ2s(m) ELSE UNCHANGED q2s

-----------------------------------------------------------------------------
(* MMIO handlers, on the vCPU.  pc: "guest" outside the device; "rsend"    *)
(* and "wsend" about to send, holding the BQL; "rwait" on mmio_cv, without *)
(* it; "rlock" with the answer, taking the BQL back; "lost" in a mutex     *)
(* that has been destroyed.                                                *)

MayAccess ==
    /\ vcpu.pc = "guest" /\ bql = "none" /\ io_thread_running
    /\ EarlyGuest \/ connected

MmioReadCached(r) ==
    /\ MayAccess /\ ~connected
    /\ vcpu' = [vcpu EXCEPT !.reg = r, !.val = CacheRead(regs, r)]
    /\ UNCHANGED <<q2s, bql, io, deviceVars, mem, msi>>

MmioReadStart(r) ==
    /\ MayAccess /\ connected /\ Quota
    /\ bql' = "vcpu"
    /\ mmio_pending' = TRUE
    /\ vcpu' = [vcpu EXCEPT !.pc = "rsend", !.reg = r]
    /\ UNCHANGED <<q2s, io, mmio_resp, regs, connected, sock_fd, io_thread_running, mem, msi>>

MmioReadSend ==
    /\ vcpu.pc = "rsend"
    /\ Send(ReadReq(vcpu.reg))
    /\ bql' = "none"
    /\ vcpu' = [vcpu EXCEPT !.pc = "rwait"]
    /\ UNCHANGED <<io, deviceVars, mem, msi>>

\* Mutant: gives up before the answer is there.
MmioReadWakeEarly ==
    /\ vcpu.pc = "rwait"
    /\ vcpu' = [vcpu EXCEPT !.pc = "rlock", !.val = mmio_resp.val,
                            !.status = mmio_resp.status]
    /\ UNCHANGED <<q2s, bql, io, deviceVars, mem, msi>>

MmioReadWake ==
    /\ vcpu.pc = "rwait" /\ ~mmio_pending
    /\ vcpu' = [vcpu EXCEPT !.pc = "rlock", !.val = mmio_resp.val,
                            !.status = mmio_resp.status]
    /\ UNCHANGED <<q2s, bql, io, deviceVars, mem, msi>>

\* Using a mutex that has been destroyed may work all the same, or it aborts.
Destroyed == ~io_thread_running /\ bql # "exit"

\* The reader that exit has woken finds mmio_mtx gone.
MmioReadLost ==
    /\ vcpu.pc = "rwait" /\ ~mmio_pending /\ Destroyed
    /\ vcpu' = [vcpu EXCEPT !.pc = "lost"]
    /\ UNCHANGED <<q2s, bql, io, deviceVars, mem, msi>>

MmioReadReturn ==
    /\ vcpu.pc = "rlock" /\ bql = "none"
    /\ IF vcpu.status # "OK"
       THEN /\ vcpu' = [vcpu EXCEPT !.pc = "guest", !.val = regs[vcpu.reg]]
            /\ UNCHANGED regs
       ELSE /\ vcpu' = [vcpu EXCEPT !.pc = "guest"]
            /\ regs' = [regs EXCEPT ![vcpu.reg] = vcpu.val]
    /\ UNCHANGED <<q2s, bql, io, mmio_pending, mmio_resp, connected, sock_fd,
                   io_thread_running, mem, msi>>

\* Mutant: a reset is kept in the cache and not forwarded.
MmioWriteKeepsReset(r, v) ==
    /\ MayAccess /\ Quota
    /\ r \notin {"STATUS", "DEV_ID"}
    /\ regs' = CacheWrite(regs, r, v)
    /\ IF connected /\ ~(r = "CTRL" /\ Has(v, SC_CTRL_RESET))
       THEN bql' = "vcpu" /\ vcpu' = [vcpu EXCEPT !.pc = "wsend", !.reg = r, !.val = v]
       ELSE UNCHANGED <<bql, vcpu>>
    /\ UNCHANGED <<q2s, io, mmio_pending, mmio_resp, connected, sock_fd,
                   io_thread_running, mem, msi>>

\* Writes of the read-only registers return early and change nothing.
MmioWrite(r, v) ==
    /\ MayAccess /\ Quota
    /\ r \notin {"STATUS", "DEV_ID"}
    /\ regs' = CacheWrite(regs, r, v)
    /\ IF connected
       THEN bql' = "vcpu" /\ vcpu' = [vcpu EXCEPT !.pc = "wsend", !.reg = r, !.val = v]
       ELSE UNCHANGED <<bql, vcpu>>
    /\ UNCHANGED <<q2s, io, mmio_pending, mmio_resp, connected, sock_fd,
                   io_thread_running, mem, msi>>

MmioWriteSend ==
    /\ vcpu.pc = "wsend"
    /\ Send(WriteReq(vcpu.reg, vcpu.val))
    /\ bql' = "none"
    /\ vcpu' = [vcpu EXCEPT !.pc = "guest"]
    /\ UNCHANGED <<io, deviceVars, mem, msi>>

\* The guest's interrupt controller delivers a notified vector.
TakeMsi(v) ==
    /\ v \in msi
    /\ msi' = msi \ {v}
    /\ UNCHANGED <<q2s, vcpu, bql, io, deviceVars, mem>>

-----------------------------------------------------------------------------
(* The I/O thread.  pc: "accept", "recv" at the head of the loop, "handle" *)
(* with a message to dispatch, "reply" with an answer to send, "cleanup"   *)
(* after the loop, "dead"; "lost" as for the vCPU.                         *)

IoAccept ==
    /\ io.pc = "accept" /\ io_thread_running /\ link # "none"
    /\ io' = [io EXCEPT !.pc = "recv"]
    /\ sock_fd' = TRUE /\ connected' = TRUE
    /\ UNCHANGED <<q2s, s2q, vcpu, bql, mmio_pending, mmio_resp, regs,
                   io_thread_running, mem, msi>>

\* accept() fails once exit has closed listen_fd.
IoAcceptFails ==
    /\ io.pc = "accept" /\ ~io_thread_running
    /\ io' = [io EXCEPT !.pc = "dead"]
    /\ connected' = FALSE
    /\ UNCHANGED <<q2s, s2q, vcpu, bql, mmio_pending, mmio_resp, regs, sock_fd,
                   io_thread_running, mem, msi>>

IoRecv ==
    /\ io.pc = "recv" /\ io_thread_running /\ sock_fd /\ s2q # <<>>
    /\ io' = [pc |-> "handle", msg |-> Head(s2q)]
    /\ s2q' = Tail(s2q)
    /\ UNCHANGED <<q2s, vcpu, bql, deviceVars, mem, msi>>

\* End of the loop: end of file, a read error, or io_thread_running cleared.
IoLoopEnds ==
    /\ io.pc = "recv"
    /\ ~io_thread_running \/ ~sock_fd \/ (link = "closed" /\ s2q = <<>>)
    /\ io' = [io EXCEPT !.pc = "cleanup"]
    /\ UNCHANGED <<q2s, s2q, vcpu, bql, deviceVars, mem, msi>>

IoCleanup ==
    /\ io.pc = "cleanup"
    /\ io' = [io EXCEPT !.pc = "dead"]
    /\ sock_fd' = FALSE /\ connected' = FALSE
    /\ UNCHANGED <<q2s, s2q, vcpu, bql, mmio_pending, mmio_resp, regs,
                   io_thread_running, mem, msi>>

Handles(type) == io.pc = "handle" /\ io.msg.type = type
Handled == io' = [pc |-> "recv", msg |-> NoMsg]

\* Mutant: stores the answer and wakes nobody.
IoMmioReadRespSilent ==
    /\ Handles("MMIO_READ") /\ Handled
    /\ mmio_resp' = [for |-> io.msg.for, val |-> io.msg.val, status |-> io.msg.status]
    /\ UNCHANGED <<q2s, s2q, vcpu, bql, mmio_pending, regs, connected, sock_fd,
                   io_thread_running, mem, msi>>

IoMmioReadResp ==
    /\ Handles("MMIO_READ") /\ Handled
    /\ mmio_resp' = [for |-> io.msg.for, val |-> io.msg.val, status |-> io.msg.status]
    /\ mmio_pending' = FALSE
    /\ UNCHANGED <<q2s, s2q, vcpu, bql, regs, connected, sock_fd, io_thread_running, mem, msi>>

\* Mutant: an acknowledgement ends whatever request is pending.
IoMmioWriteRespWakes ==
    /\ Handles("MMIO_WRITE") /\ Handled
    /\ mmio_pending' = FALSE
    /\ UNCHANGED <<q2s, s2q, vcpu, bql, mmio_resp, regs, connected, sock_fd,
                   io_thread_running, mem, msi>>

IoMmioWriteResp ==
    /\ Handles("MMIO_WRITE") /\ Handled
    /\ UNCHANGED <<q2s, s2q, vcpu, bql, deviceVars, mem, msi>>

\* Mutant: sends the request back instead of a response.
IoDmaReadEchoes ==
    /\ Handles("DMA_READ") /\ bql = "none"
    /\ io' = [io EXCEPT !.pc = "reply"]
    /\ UNCHANGED <<q2s, s2q, vcpu, bql, deviceVars, mem, msi>>

\* The length of a DMA is cut to the buffer of the handler.
Capped(v) == First(v, DMA_BUF_SIZE)

\* pci_dma_read and pci_dma_write run with the BQL; the answer goes out
\* after its release.
IoDmaRead ==
    /\ Handles("DMA_READ") /\ bql = "none"
    /\ io' = [pc |-> "reply", msg |-> DmaReadResp(Capped(mem[io.msg.addr]))]
    /\ UNCHANGED <<q2s, s2q, vcpu, bql, deviceVars, mem, msi>>

IoDmaWrite ==
    /\ Handles("DMA_WRITE") /\ bql = "none"
    /\ mem' = [mem EXCEPT ![io.msg.addr] = Capped(io.msg.data)]
    /\ io' = [pc |-> "reply", msg |-> DmaWriteResp]
    /\ UNCHANGED <<q2s, s2q, vcpu, bql, deviceVars, msi>>

IoReply ==
    /\ io.pc = "reply"
    /\ Send(io.msg)
    /\ Handled
    /\ UNCHANGED <<s2q, vcpu, bql, deviceVars, mem, msi>>

IoMsi ==
    /\ Handles("MSI_IRQ") /\ bql = "none" /\ Handled
    /\ msi' = IF MsixEnabled THEN msi \cup {io.msg.vector} ELSE msi
    /\ UNCHANGED <<q2s, s2q, vcpu, bql, deviceVars, mem>>

\* The message in hand needs mmio_mtx, or its answer sock_mtx, and exit has
\* destroyed both.
IoLost ==
    /\ Handles("MMIO_READ") \/ io.pc = "reply"
    /\ Destroyed
    /\ io' = [io EXCEPT !.pc = "lost"]
    /\ UNCHANGED <<q2s, s2q, vcpu, bql, deviceVars, mem, msi>>

-----------------------------------------------------------------------------
\* Mutant: closes the device and forgets the reader.
ExitForgetsReader ==
    /\ MayUnplug /\ io_thread_running /\ bql = "none"
    /\ bql' = "exit"
    /\ io_thread_running' = FALSE /\ sock_fd' = FALSE
    /\ UNCHANGED <<q2s, vcpu, io, mmio_pending, mmio_resp, regs, connected, mem, msi>>

\* sc_bridge_exit, on the main thread with the BQL: first it closes the
\* socket and wakes a reader, which by then needs the BQL no more ...
Exit ==
    /\ MayUnplug /\ io_thread_running /\ bql = "none"
    /\ bql' = "exit"
    /\ io_thread_running' = FALSE /\ sock_fd' = FALSE
    /\ mmio_pending' = FALSE
    /\ UNCHANGED <<q2s, vcpu, io, mmio_resp, regs, connected, mem, msi>>

\* ... then it destroys the mutexes, waiting for nobody, and returns.
ExitDestroys ==
    /\ bql = "exit"
    /\ bql' = "none"
    /\ UNCHANGED <<q2s, vcpu, io, deviceVars, mem, msi>>

\* What a vCPU inside a handler has left to do, and what the guest may start.
VcpuGoesOn ==
    MmioReadSend \/ MmioReadWake \/ MmioReadLost \/ MmioReadReturn \/ MmioWriteSend
GuestRead == \E r \in GuestReads : MmioReadCached(r) \/ MmioReadStart(r)
GuestWrite == \E w \in GuestWrites : MmioWrite(w[1], w[2])

IoThread ==
    \/ IoAccept \/ IoAcceptFails \/ IoRecv \/ IoLoopEnds \/ IoCleanup
    \/ IoMmioReadResp \/ IoMmioWriteResp \/ IoDmaRead \/ IoDmaWrite \/ IoReply \/ IoMsi
    \/ IoLost

QemuNext ==
    \/ UNCHANGED s2q /\ (VcpuGoesOn \/ GuestRead \/ GuestWrite)
    \/ UNCHANGED s2q /\ (Exit \/ ExitDestroys \/ \E v \in Vectors : TakeMsi(v))
    \/ IoThread
-----------------------------------------------------------------------------
MmioTypeOK ==
    /\ vcpu \in [pc : {"guest", "rsend", "rwait", "rlock", "wsend", "lost"},
                 reg : RegNames, val : Nat, status : Status]
    /\ bql \in {"none", "vcpu", "exit"}
    /\ mmio_pending \in BOOLEAN
    /\ mmio_resp \in [for : RegNames, val : Nat, status : Status]
    /\ regs \in [RegNames -> Nat]

QemuTypeOK ==
    /\ MmioTypeOK
    /\ io \in [pc : {"accept", "recv", "handle", "reply", "cleanup", "dead", "lost"},
               msg : ScMsgs \cup QemuMsgs \cup {NoMsg}]
    /\ io.pc = "handle" => io.msg \in ScMsgs
    /\ io.pc = "reply" => io.msg \in QemuMsgs /\ io.msg.type \in {"DMA_READ", "DMA_WRITE"}
    /\ <<connected, sock_fd, io_thread_running>> \in BOOLEAN \X BOOLEAN \X BOOLEAN
    /\ mem \in [Addrs -> MemVals]
    /\ msi \subseteq Vectors
=============================================================================
