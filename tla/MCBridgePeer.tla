---------------------------- MODULE MCBridgePeer ----------------------------
(* Small instance of BridgePeer for TLC. *)
EXTENDS BridgePeer

MCAddrs == {"buf"}
MCLengths == {60, DMA_BUF_SIZE}
MCStores == {[pkt |-> "old", len |-> 60]}
MCGuestReads == {"SCRATCH0", "IRQ_STS"}
MCGuestWrites == {<<"SCRATCH0", 1>>}
MCPeerRequests == {DmaReadReq("buf"), MsiIrq(1)}
MCAnswers == {<<0, "OK">>}

\* One register and one kind of request: what a hung read needs.
OneRead == {"SCRATCH0"}
OneRequest == {DmaReadReq("buf")}
=============================================================================
