------------------------------ MODULE MCPciTest ------------------------------
(* Small instances of PciTest for TLC. *)
EXTENDS PciTest

\* Lengths below and above BufSize; every kind of write the device treats apart.
DmaGuest == {<<"DMA_LEN", 1>>, <<"DMA_LEN", 3>>,
             <<"DMA_CTRL", 0>>,
             <<"DMA_CTRL", SC_DMA_START>>,
             <<"DMA_CTRL", SC_DMA_START + SC_DMA_IRQ_EN>>,
             <<"DMA_CTRL", SC_DMA_START + SC_DMA_DIR_WRITE + SC_DMA_IRQ_EN>>,
             <<"CTRL", SC_CTRL_RESET>>, <<"IRQ_TEST", 1>>, <<"IRQ_STS", SC_IRQ_TEST>>}
=============================================================================
