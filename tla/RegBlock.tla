------------------------------ MODULE RegBlock ------------------------------
(***************************************************************************)
(* The register file of the NIC (sim/systemc/src/reg_block.cpp), as pure   *)
(* operators over a file f \in [RegNames -> Nat]: 32-bit values are        *)
(* naturals, bits are powers of two.  The 64-bit ring bases and the sizes  *)
(* next to them are one register each (0 = not configured), and the        *)
(* registers nothing tests are left out.                                   *)
(***************************************************************************)
EXTENDS Integers

\* Bits of CTRL, STATUS, IRQ_STS and DMA_CTRL.
SC_CTRL_RESET     == 1
SC_STATUS_READY   == 1
SC_STATUS_DMA_BSY == 2
SC_IRQ_DMA_DONE   == 1
SC_IRQ_TEST       == 2
SC_IRQ_TX_DONE    == 4
SC_IRQ_RX         == 8
SC_DMA_START      == 1
SC_DMA_DIR_WRITE  == 2
SC_DMA_IRQ_EN     == 4

SC_DEV_ID == 1380011347     \* 0x52414D53, "SMAR"

RegNames == {"CTRL", "STATUS", "IRQ_EN", "IRQ_STS", "MAC_LO", "MAC_HI",
             "SCRATCH0", "SCRATCH1", "DMA_LEN", "DMA_CTRL", "DMA_STS",
             "TX_RING_SIZE", "TX_DOORBELL", "TX_TAIL",
             "RX_RING_SIZE", "RX_DOORBELL", "RX_TAIL", "DEV_ID", "IRQ_TEST"}

\* v & bit, as a truth value.
Has(v, bit) == (v \div bit) % 2 = 1

\* v | bit and v & ~bits, over the four low bits the registers use.
SetBit(v, bit) == IF Has(v, bit) THEN v ELSE v + bit
Keep(v, w, bit) == IF Has(v, bit) /\ ~Has(w, bit) THEN bit ELSE 0
ClearBits(v, w) ==
    v - (v % 16) + Keep(v, w, 1) + Keep(v, w, 2) + Keep(v, w, 4) + Keep(v, w, 8)

-----------------------------------------------------------------------------
(* MAC address: six bytes; the registers hold it least significant byte first. *)

DefaultMac == <<82, 84, 0, 18, 52, 86>>     \* 52:54:00:12:34:56

Byte(v, n) == (v \div (256 ^ n)) % 256

MacLo(mac) == mac[1] + mac[2] * 256 + mac[3] * 65536 + mac[4] * 16777216
MacHi(mac) == mac[5] + mac[6] * 256

set_mac(f, mac) == [f EXCEPT !["MAC_LO"] = MacLo(mac), !["MAC_HI"] = MacHi(mac)]

get_mac(f) ==
    <<Byte(f["MAC_LO"], 0), Byte(f["MAC_LO"], 1), Byte(f["MAC_LO"], 2),
      Byte(f["MAC_LO"], 3), Byte(f["MAC_HI"], 0), Byte(f["MAC_HI"], 1)>>

-----------------------------------------------------------------------------
Zeros == [r \in RegNames |-> 0]

RegInit == set_mac(Zeros, DefaultMac)

RegRead(f, r) ==
    CASE r = "DEV_ID" -> SC_DEV_ID
      [] r = "STATUS" -> SC_STATUS_READY
      [] OTHER        -> f[r]

\* RegBlock::write with a value whose RESET bit is set: all registers to 0,
\* then the constructor's MAC again.
RegReset == set_mac(Zeros, DefaultMac)

RegWrite(f, r, v) ==
    CASE r = "CTRL" /\ Has(v, SC_CTRL_RESET) -> RegReset
      [] r = "IRQ_STS"  -> [f EXCEPT !["IRQ_STS"] = ClearBits(f["IRQ_STS"], v)]
      [] r = "IRQ_TEST" -> IF v = 0 THEN f
                           ELSE [f EXCEPT !["IRQ_STS"] = SetBit(f["IRQ_STS"], SC_IRQ_TEST)]
      [] r \in {"STATUS", "DEV_ID"} -> f
      [] OTHER -> [f EXCEPT ![r] = v]

\* What RegBlock::write returns: the caller sends an interrupt for it.
IrqChanged(r, v) == r = "IRQ_STS" \/ (r = "IRQ_TEST" /\ v # 0)
=============================================================================
