------------------------------ MODULE NicProcs ------------------------------
(***************************************************************************)
(* The SystemC processes of the NIC (sim/systemc/src/nic.cpp): poll_irq,   *)
(* process_dma and process_tx.  They are coroutines of one operating-      *)
(* system thread: a process runs until its next wait(), and one that       *)
(* blocks on g_reg_mtx blocks the simulation kernel with it.  process_rx   *)
(* only waits and changes nothing.                                         *)
(*                                                                         *)
(* A process registered with dont_initialize() is not made runnable at the *)
(* start of simulation, and these have no static sensitivity that would    *)
(* make them runnable later: those in DontInitialize never run.            *)
(***************************************************************************)
EXTENDS SmartNic

CONSTANTS
    DontInitialize, \* processes registered with dont_initialize(): in the code, all
    TxRing          \* number of TX descriptors

Procs == {"poll_irq", "process_dma", "process_tx"}

ASSUME ProcsAssumption == DontInitialize \subseteq Procs /\ TxRing \in Nat \ {0}

VARIABLES
    running,    \* the process the kernel executes, or "none"
    pc,         \* pc[p]: where process p is; "wait" and "hold" are calls of wait()
    m_buf,      \* DmaEngine::m_buf
    tx_desc     \* process_tx's copy of the descriptor

localVars == <<m_buf, tx_desc>>
kernelVars == <<running, pc, localVars>>

TxSlots == 0 .. TxRing - 1
TxDesc(i) == <<"tx", i>>
TxBuf(i) == <<"txbuf", i>>
DmaBuf == <<"dma", 0>>

\* A buffer nothing has been copied to.
Blank == [pkt |-> "zeros", len |-> DMA_BUF_SIZE]

ProcsInit ==
    /\ running = "none"
    /\ pc = [p \in Procs |-> IF p \in DontInitialize THEN "never" ELSE "wait"]
    /\ m_buf = Blank /\ tx_desc = NoData

\* Process p, executing, goes to l; or suspends itself there in wait().
Goes(p, l) == running = p /\ running' = p /\ pc' = [pc EXCEPT ![p] = l]
Waits(p, l) == running = p /\ running' = "none" /\ pc' = [pc EXCEPT ![p] = l]

\* The kernel resumes p, suspended at l, and p goes on to l2.
Resumes(p, l, l2) ==
    /\ running = "none" /\ pc[p] = l
    /\ running' = p /\ pc' = [pc EXCEPT ![p] = l2]

Acquire(p) == g_reg_mtx = "none" /\ g_reg_mtx' = p
Release == g_reg_mtx' = "none"
Free == g_reg_mtx = "none"

-----------------------------------------------------------------------------
(* poll_irq *)

PollResume ==
    /\ Resumes("poll_irq", "wait", "lock")
    /\ UNCHANGED <<wireVars, nicVars, localVars>>

PollQuiet ==
    /\ pc["poll_irq"] = "lock" /\ Free /\ m_regs["IRQ_STS"] = 0
    /\ Waits("poll_irq", "wait")
    /\ UNCHANGED <<wireVars, nicVars, localVars>>

PollPending ==
    /\ pc["poll_irq"] = "lock" /\ m_regs["IRQ_STS"] # 0
    /\ Acquire("poll_irq")
    /\ Goes("poll_irq", "irq")
    /\ UNCHANGED <<wireVars, m_regs, sock, dmaVars, net, procVars, localVars>>

PollSendIrq ==
    /\ pc["poll_irq"] = "irq"
    /\ PutS2q(MsiIrq(IF Has(m_regs["IRQ_STS"], SC_IRQ_DMA_DONE) THEN 0 ELSE 1))
    /\ Release
    /\ Waits("poll_irq", "wait")
    /\ UNCHANGED <<q2s, link, m_regs, sock, dmaVars, net, procVars, localVars>>

-----------------------------------------------------------------------------
(* process_dma, with DmaEngine::start.  "hold" is the wait(dma_delay) at    *)
(* the end of the loop body, where the lock_guard is still in scope.        *)

DmaResume ==
    /\ m_dma_start
    /\ Resumes("process_dma", "wait", "lock")
    /\ UNCHANGED <<wireVars, nicVars, localVars>>

DmaEngineStart ==
    /\ pc["process_dma"] = "lock" /\ Acquire("process_dma")
    /\ IF m_dma.len = 0 THEN Goes("process_dma", "finish") /\ UNCHANGED dmaVars
       ELSE IF m_dma.dir_write THEN Goes("process_dma", "write") /\ UNCHANGED dmaVars
       ELSE Goes("process_dma", "read") /\ DmaReadCall(DmaBuf)
    /\ UNCHANGED <<wireVars, m_regs, sock, net, procVars, localVars>>

DmaEngineWrite ==
    /\ pc["process_dma"] = "write"
    /\ PutS2q(DmaWriteReq(DmaBuf, m_buf))
    /\ Goes("process_dma", "finish")
    /\ UNCHANGED <<q2s, link, nicVars, localVars>>

\* Mutant: the bytes read stay in the bridge.
DmaEngineReadDropped ==
    /\ pc["process_dma"] = "read" /\ dma.st \in {"true", "false"}
    /\ DmaReadReturned
    /\ Goes("process_dma", "finish")
    /\ UNCHANGED <<wireVars, m_regs, g_reg_mtx, sock, m_dma_pending, m_dma_resp, net,
                   procVars, localVars>>

\* The result of the callback is not looked at.
DmaEngineRead ==
    /\ pc["process_dma"] = "read" /\ dma.st \in {"true", "false"}
    /\ m_buf' = IF dma.data = NoData THEN m_buf ELSE dma.data.data
    /\ DmaReadReturned
    /\ Goes("process_dma", "finish")
    /\ UNCHANGED <<wireVars, m_regs, g_reg_mtx, sock, m_dma_pending, m_dma_resp, net,
                   procVars, tx_desc>>

DmaFinish ==
    /\ pc["process_dma"] = "finish"
    /\ m_dma_start' = FALSE
    /\ LET idle == [m_regs EXCEPT !["DMA_STS"] = 0]
       IN IF Has(m_regs["DMA_CTRL"], SC_DMA_IRQ_EN)
          THEN /\ m_regs' = [idle EXCEPT !["IRQ_STS"] = SetBit(@, SC_IRQ_DMA_DONE)]
               /\ Goes("process_dma", "irq")
          ELSE m_regs' = idle /\ Waits("process_dma", "hold")
    /\ UNCHANGED <<wireVars, g_reg_mtx, sock, dmaVars, net, m_dma, m_tx_pending,
                   m_tx_event, localVars>>

DmaSendIrq ==
    /\ pc["process_dma"] = "irq"
    /\ PutS2q(MsiIrq(0))
    /\ Waits("process_dma", "hold")
    /\ UNCHANGED <<q2s, link, nicVars, localVars>>

\* End of the loop body, then the wait() at its head.
DmaRelease ==
    /\ running = "none" /\ pc["process_dma"] = "hold"
    /\ pc' = [pc EXCEPT !["process_dma"] = "wait"]
    /\ Release
    /\ UNCHANGED <<running, wireVars, m_regs, sock, dmaVars, net, procVars, localVars>>

-----------------------------------------------------------------------------
(* process_tx: one iteration per frame until no work is left, then the     *)
(* TX_DONE interrupt.  "hold" is the wait() at the end of the loop body,   *)
(* where the lock_guard is still in scope.                                 *)

TxResume ==
    /\ m_tx_event
    /\ Resumes("process_tx", "wait", "lock")
    /\ m_tx_event' = FALSE
    /\ UNCHANGED <<wireVars, m_regs, g_reg_mtx, sock, dmaVars, net, m_dma_start, m_dma,
                   m_tx_pending, localVars>>

\* A notification while process_tx waits for time is lost.
TxEventLost ==
    /\ m_tx_event /\ running = "none" /\ pc["process_tx"] # "wait"
    /\ m_tx_event' = FALSE
    /\ UNCHANGED <<wireVars, m_regs, g_reg_mtx, sock, dmaVars, net, m_dma_start, m_dma,
                   m_tx_pending, kernelVars>>

TxNoWork == m_regs["TX_RING_SIZE"] = 0 \/ m_regs["TX_DOORBELL"] = 0

TxIdle ==
    /\ pc["process_tx"] = "lock" /\ Free
    /\ ~m_tx_pending \/ TxNoWork
    /\ m_tx_pending' = FALSE
    /\ Goes("process_tx", "irqlock")
    /\ UNCHANGED <<wireVars, m_regs, g_reg_mtx, sock, dmaVars, net, m_dma_start, m_dma,
                   m_tx_event, localVars>>

TxReadDesc ==
    /\ pc["process_tx"] = "lock"
    /\ m_tx_pending /\ ~TxNoWork
    /\ Acquire("process_tx")
    /\ DmaReadCall(TxDesc(m_regs["TX_TAIL"]))
    /\ Goes("process_tx", "desc")
    /\ UNCHANGED <<wireVars, m_regs, sock, net, procVars, localVars>>

\* A failed read leaves the loop with m_tx_pending still set.
TxReadFailed ==
    /\ pc["process_tx"] \in {"desc", "data"} /\ dma.st = "false"
    /\ DmaReadReturned /\ Release
    /\ Goes("process_tx", "irqlock")
    /\ UNCHANGED <<wireVars, m_regs, sock, m_dma_pending, m_dma_resp, net, procVars, localVars>>

TxGotDesc ==
    /\ pc["process_tx"] = "desc" /\ dma.st = "true"
    /\ \E d \in AsDesc(dma.data) :
          IF d.own
          THEN /\ DmaReadCall(d.buf)
               /\ tx_desc' = d
               /\ Goes("process_tx", "data")
               /\ UNCHANGED <<g_reg_mtx, m_tx_pending>>
          ELSE /\ DmaReadReturned
               /\ m_tx_pending' = FALSE
               /\ Release
               /\ Goes("process_tx", "irqlock")
               /\ UNCHANGED <<m_dma_pending, m_dma_resp, tx_desc>>
    /\ UNCHANGED <<wireVars, m_regs, sock, net, m_dma_start, m_dma, m_tx_event, m_buf>>

\* NetIf::transmit: the frame leaves the model.
TxTransmit ==
    /\ pc["process_tx"] = "data" /\ dma.st = "true"
    /\ DmaReadReturned
    /\ Goes("process_tx", "wb")
    /\ UNCHANGED <<wireVars, m_regs, g_reg_mtx, sock, m_dma_pending, m_dma_resp, net,
                   procVars, localVars>>

TxWriteBack ==
    /\ pc["process_tx"] = "wb"
    /\ PutS2q(DmaWriteReq(TxDesc(m_regs["TX_TAIL"]),
                          [tx_desc EXCEPT !.own = FALSE, !.done = TRUE]))
    /\ m_regs' = [m_regs EXCEPT !["TX_TAIL"] = (@ + 1) % m_regs["TX_RING_SIZE"],
                                !["TX_DOORBELL"] = @ - 1]
    /\ Waits("process_tx", "hold")
    /\ UNCHANGED <<q2s, link, g_reg_mtx, sock, dmaVars, net, procVars, localVars>>

TxRelease ==
    /\ Resumes("process_tx", "hold", "lock")
    /\ Release
    /\ UNCHANGED <<wireVars, m_regs, sock, dmaVars, net, procVars, localVars>>

TxDoneQuiet ==
    /\ pc["process_tx"] = "irqlock" /\ Free
    /\ ~Has(m_regs["IRQ_EN"], SC_IRQ_TX_DONE)
    /\ Waits("process_tx", "wait")
    /\ UNCHANGED <<wireVars, nicVars, localVars>>

TxDone ==
    /\ pc["process_tx"] = "irqlock"
    /\ Has(m_regs["IRQ_EN"], SC_IRQ_TX_DONE)
    /\ Acquire("process_tx")
    /\ m_regs' = [m_regs EXCEPT !["IRQ_STS"] = SetBit(@, SC_IRQ_TX_DONE)]
    /\ Goes("process_tx", "irq")
    /\ UNCHANGED <<wireVars, sock, dmaVars, net, procVars, localVars>>

TxSendIrq ==
    /\ pc["process_tx"] = "irq"
    /\ PutS2q(MsiIrq(1))
    /\ Release
    /\ Waits("process_tx", "wait")
    /\ UNCHANGED <<q2s, link, m_regs, sock, dmaVars, net, procVars, localVars>>

-----------------------------------------------------------------------------
PollIrq == PollResume \/ PollQuiet \/ PollPending \/ PollSendIrq

ProcessDma ==
    \/ DmaResume \/ DmaEngineStart \/ DmaEngineWrite \/ DmaEngineRead
    \/ DmaFinish \/ DmaSendIrq \/ DmaRelease

ProcessTx ==
    \/ TxResume \/ TxEventLost \/ TxIdle \/ TxReadDesc \/ TxReadFailed \/ TxGotDesc
    \/ TxTransmit \/ TxWriteBack \/ TxRelease \/ TxDoneQuiet \/ TxDone \/ TxSendIrq

Kernel == PollIrq \/ ProcessDma \/ ProcessTx

ProcsTypeOK ==
    /\ running \in Procs \cup {"none"}
    /\ pc \in [Procs -> {"never", "wait", "lock", "read", "write", "finish", "desc", "data",
                         "wb", "hold", "irqlock", "irq"}]
    /\ m_buf \in MemVals
    /\ tx_desc = NoData \/ tx_desc \in Descs
=============================================================================
