------------------------------- MODULE MCCoSim -------------------------------
(* Small instances of CoSim for TLC. *)
EXTENDS CoSim, TLC

CONSTANTS fa, fb   \* what two frames hold

MCAddrs == {RxDesc(i) : i \in RxSlots} \cup {RxBuf(i) : i \in RxSlots}
           \cup {TxDesc(i) : i \in TxSlots} \cup {TxBuf(i) : i \in TxSlots}
           \cup {DmaBuf, Other}
MCPayloads == {"zeros", "pattern", "test"} \cup {p.data : p \in Packets}
MCLengths == {0, RxBufLen, DMA_BUF_SIZE, TxFrame.len} \cup {p.len : p \in Packets}

\* Frames: two ordinary ones, one for the NIC alone, one that no receive
\* buffer holds, and one shorter than an Ethernet header.
Broadcast == <<255, 255, 255, 255, 255, 255>>
FrameA == [dest |-> Broadcast, data |-> fa, len |-> 256]
FrameB == [dest |-> Broadcast, data |-> fb, len |-> 256]
Unicast == [dest |-> DefaultMac, data |-> fa, len |-> 256]
Jumbo == [dest |-> Broadcast, data |-> fb, len |-> 3000]
Runt == [dest |-> Broadcast, data |-> "zeros", len |-> 13]
OneFrame == {FrameA}
BroadcastFrames == {FrameA, FrameB}
UnicastFrame == {Unicast}
AllSizes == {FrameA, Jumbo, Runt}

MCGarbage == {[own |-> o, done |-> FALSE, length |-> RxBufLen, buf |-> Other] : o \in BOOLEAN}

\* Values with one or more of the four low bits.
MCRegVals == 0 .. 15

\* Guest programs.
NoReads == {}
RxSetup == {<<"RX_RING_SIZE", RxRing>>, <<"IRQ_EN", SC_IRQ_RX>>}

StatusRead == {"IRQ_STS"}
RingSetup == RxSetup \cup {<<"TX_RING_SIZE", TxRing>>}

PlainReads == {"SCRATCH0", "IRQ_STS"}
SharedWrites == {<<"SCRATCH0", 1>>, <<"CTRL", SC_CTRL_RESET>>, <<"IRQ_TEST", 1>>,
                 <<"IRQ_STS", SC_IRQ_TEST>>, <<"RX_RING_SIZE", RxRing>>}

DmaWrites == {<<"DMA_LEN", 4>>, <<"DMA_CTRL", SC_DMA_START + SC_DMA_IRQ_EN>>,
              <<"DMA_CTRL", SC_DMA_START + SC_DMA_DIR_WRITE + SC_DMA_IRQ_EN>>,
              <<"IRQ_STS", SC_IRQ_DMA_DONE>>}

\* A guest that polls DMA_STS for the end of a DMA.
PollReads == {"DMA_STS"}
PollWrites == {<<"DMA_LEN", 4>>, <<"DMA_CTRL", SC_DMA_START>>}
=============================================================================
