-------------------------------- MODULE Wire --------------------------------
(***************************************************************************)
(* The Unix-domain stream socket between QEMU and the SystemC model, and   *)
(* the messages of the bridge protocol (sim/systemc/src/protocol.h and its *)
(* C twin firmware/qemu-dev/sc_protocol.h).  The socket is one FIFO per    *)
(* direction; a write blocks while the kernel buffer is full.              *)
(***************************************************************************)
EXTENDS RegBlock, Sequences

CONSTANTS
    Addrs,      \* the guest-physical locations a DMA may touch
    Payloads,   \* what the bytes of a packet or a buffer may say
    Lengths,    \* how many bytes there may be
    Vectors,    \* MSI-X vectors
    SockCap     \* messages a socket buffer holds before write() blocks

DMA_BUF_SIZE == 4096

ASSUME SockCapAssumption == SockCap \in Nat \ {0}
ASSUME LengthsAssumption == Lengths \subseteq Nat /\ DMA_BUF_SIZE \in Lengths

VARIABLES
    q2s,    \* written by QEMU, not yet read by SystemC
    s2q,    \* written by SystemC, not yet read by QEMU
    link    \* "none": SystemC has not connected; "up"; "closed": its end is closed

wireVars == <<q2s, s2q, link>>

Status == {"OK", "ERR_BUSY", "ERR_TIMEOUT"}

(***************************************************************************)
(* A location of guest memory holds a ring descriptor (SmartEthDesc) or a  *)
(* run of bytes, of which the length matters: readers and writers cut it.  *)
(***************************************************************************)
Descs == [own : BOOLEAN, done : BOOLEAN, length : Lengths, buf : Addrs]
Bytes == [pkt : Payloads, len : Lengths]
MemVals == Descs \cup Bytes

Smaller(m, n) == IF m < n THEN m ELSE n

\* The first n bytes of what a location holds; n is never less than a descriptor.
First(v, n) == IF v \in Descs THEN v ELSE [v EXCEPT !.len = Smaller(@, n)]

(***************************************************************************)
(* A response carries neither the register nor the address it answers: the *)
(* field "for" is history, which no action reads.  A DMA asks for the      *)
(* whole of a location.                                                    *)
(***************************************************************************)
ReadReq(r)         == [type |-> "MMIO_READ", reg |-> r]
WriteReq(r, v)     == [type |-> "MMIO_WRITE", reg |-> r, val |-> v]
ReadResp(r, v, st) == [type |-> "MMIO_READ", for |-> r, val |-> v, status |-> st]
WriteResp          == [type |-> "MMIO_WRITE"]
DmaReadReq(a)      == [type |-> "DMA_READ", addr |-> a]
DmaReadResp(d)     == [type |-> "DMA_READ", data |-> d]
DmaWriteReq(a, d)  == [type |-> "DMA_WRITE", addr |-> a, data |-> d]
DmaWriteResp       == [type |-> "DMA_WRITE"]
MsiIrq(v)          == [type |-> "MSI_IRQ", vector |-> v]

\* No message in hand.
NoMsg == [type |-> "NONE"]

QemuMsgs ==
    [type : {"MMIO_READ"}, reg : RegNames]
    \cup [type : {"MMIO_WRITE"}, reg : RegNames, val : Nat]
    \cup [type : {"DMA_READ"}, data : MemVals]
    \cup {DmaWriteResp}

ScMsgs ==
    [type : {"MMIO_READ"}, for : RegNames, val : Nat, status : Status]
    \cup {WriteResp}
    \cup [type : {"DMA_READ"}, addr : Addrs]
    \cup [type : {"DMA_WRITE"}, addr : Addrs, data : MemVals]
    \cup [type : {"MSI_IRQ"}, vector : Vectors]

WireTypeOK ==
    /\ q2s \in Seq(QemuMsgs)
    /\ s2q \in Seq(ScMsgs)
    /\ link \in {"none", "up", "closed"}

WireInit == q2s = <<>> /\ s2q = <<>> /\ link = "none"

\* write() on a stream socket: waits for room.
PutQ2s(m) == Len(q2s) < SockCap /\ q2s' = Append(q2s, m)
PutS2q(m) == Len(s2q) < SockCap /\ s2q' = Append(s2q, m)
=============================================================================
