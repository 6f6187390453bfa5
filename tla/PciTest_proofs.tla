--------------------------- MODULE PciTest_proofs ---------------------------
(***************************************************************************)
(* Proofs about the Phase 2 device with its guests, the firmware's test or *)
(* an operating system: a busy device is about to be idle, a transfer is   *)
(* the one asked for, DMA is done by a bus master, and the tests' verdicts *)
(* are so.  For every buffer size, bus, tick rate, poll limit and guest    *)
(* program; but for busy, one that does not write DMA_STS itself, which    *)
(* the device lets it do.                                                  *)
(***************************************************************************)
EXTENDS PciTest, TLAPS

LeavesStatus == \A w \in GuestWrites : w[1] # "DMA_STS"

(* The shape of the device's state: what an access with EXCEPT rests on.   *)
Shaped ==
    /\ regs = [r \in RegNames |-> regs[r]]
    /\ dma = [start |-> dma.start, write |-> dma.write, irq |-> dma.irq, len |-> dma.len]
    /\ dma.start \in BOOLEAN

(* While a transfer is under way the device holds what was asked for.      *)
Latched == dma.start => asked = [write |-> dma.write, len |-> Capped(dma.len)]

DevInv == Shaped /\ Latched

(* Bus mastering: no DMA before the scan has ended, and from then on the   *)
(* device that is accessed is a master.                                    *)
Mastered ==
    /\ bus \in [Slots -> [kind : {"none", "other", "smarteth"}, bar : Bars,
                          cmd : SUBSET {"mem", "master"}]]
    /\ dev \in 0 .. NumSlots /\ n \in Nat \ {0}
    /\ pc = "scan" => ~dma.start
    /\ pc \in {"os", "test"} => "master" \in bus[dev].cmd
    /\ DmaMastered

-----------------------------------------------------------------------------
(* The device's steps. *)

(* A file keeps its shape in RegWrite, and DMA_STS its value or 0.         *)
LEMMA WriteKeepsStatus ==
    ASSUME NEW f, f = [r \in RegNames |-> f[r]], NEW r, NEW v
    PROVE  LET g == RegWrite(f, r, v)
           IN /\ g = [q \in RegNames |-> g[q]]
              /\ r # "DMA_STS" => g["DMA_STS"] \in {0, f["DMA_STS"]}
<1>1. CASE r = "CTRL" /\ Has(v, SC_CTRL_RESET)
  BY <1>1 DEF RegWrite, RegReset, set_mac, Zeros, RegNames
<1>2. CASE ~(r = "CTRL" /\ Has(v, SC_CTRL_RESET))
  <2>1. CASE r = "IRQ_STS"
    BY <2>1 DEF RegWrite, RegNames
  <2>2. CASE r = "IRQ_TEST"
    BY <2>2 DEF RegWrite, RegNames
  <2>3. CASE r \in {"STATUS", "DEV_ID"}
    BY <2>3 DEF RegWrite, RegNames
  <2>4. CASE r \notin {"IRQ_STS", "IRQ_TEST", "STATUS", "DEV_ID"}
    BY <1>2, <2>4 DEF RegWrite, RegNames
  <2> QED
    BY <2>1, <2>2, <2>3, <2>4
<1> QED
  BY <1>1, <1>2

(* A write to the device starts a transfer, which it latches, or leaves    *)
(* the engine alone (smarteth_pci.c:216-275).                              *)
LEMMA WriteStep ==
    ASSUME DevInv, NEW r, NEW v, MmioWrite(r, v)
    PROVE  /\ DevInv'
           /\ dma.start => dma'.start
           /\ BusyMeansArmed /\ r # "DMA_STS" => BusyMeansArmed'
<1> USE DEF DevInv, Shaped, Latched, BusyMeansArmed
<1>1. CASE r = "DMA_CTRL" /\ Has(v, SC_DMA_START)
  <2>1. /\ regs' = [regs EXCEPT !["DMA_CTRL"] = v, !["DMA_STS"] = SC_STATUS_DMA_BSY]
        /\ dma' = [start |-> TRUE, write |-> Has(v, SC_DMA_DIR_WRITE),
                   irq |-> Has(v, SC_DMA_IRQ_EN), len |-> regs["DMA_LEN"]]
        /\ asked' = [write |-> Has(v, SC_DMA_DIR_WRITE), len |-> Capped(regs["DMA_LEN"])]
    BY <1>1 DEF MmioWrite, StartDma
  <2>2. regs' = [q \in RegNames |-> regs'[q]]
    BY <2>1
  <2> QED
    BY <2>1, <2>2
<1>2. CASE ~(r = "DMA_CTRL" /\ Has(v, SC_DMA_START))
  <2>1. regs' = RegWrite(regs, r, v) /\ UNCHANGED <<dma, asked>>
    BY <1>2 DEF MmioWrite
  <2> QED
    BY <2>1, WriteKeepsStatus DEF Capped
<1> QED
  BY <1>1, <1>2

(* The timer's callback ends the transfer that was asked for               *)
(* (smarteth_pci.c:143-173).                                               *)
LEMMA TimerStep ==
    ASSUME DevInv, DmaTimer
    PROVE  DevInv' /\ ~dma'.start /\ moved' = asked /\ BusyMeansArmed'
<1>1. /\ dma'.start = FALSE
      /\ dma' = [start |-> FALSE, write |-> dma.write, irq |-> dma.irq,
                 len |-> Capped(dma.len)]
  BY DEF DmaTimer, DevInv, Shaped
<1>2. moved' = asked
  BY DEF DmaTimer, DevInv, Latched
<1>3. regs' = [r \in RegNames |-> regs'[r]] /\ regs'["DMA_STS"] = 0
  BY DEF DmaTimer, DmaIdle, DevInv, Shaped, RegNames
<1> QED
  BY <1>1, <1>2, <1>3 DEF DevInv, Shaped, Latched, BusyMeansArmed

(* The handler's read touches neither registers nor engine.                *)
LEMMA IsrReadStep ==
    ASSUME IsrRead PROVE UNCHANGED <<regs, dma, moved, asked>>
BY DEF IsrRead

-----------------------------------------------------------------------------
(* The script of the tests. *)

\* What the tests read, and accesses that leave DMA_STS alone.
Looks ==
    {Reads("id", "DEV_ID", {SC_DEV_ID}), Reads("status", "STATUS", WithBit(SC_STATUS_READY)),
     Reads("reset", "SCRATCH0", {0}), Reads("mac", "MAC_LO", Nat), Reads("mac", "MAC_HI", Nat),
     Reads("irq", "IRQ_STS", WithBit(SC_IRQ_TEST))}
        \cup {Reads("scratch", ScratchReg(i - 1), {Patterns[i]}) : i \in 1 .. 5}
Accesses ==
    {Writes(r, v) : r \in RegNames \ {"DMA_STS"}, v \in Nat} \cup Looks \cup {[op |-> "poll"]}

(* A tuple of accesses is a sequence of them.                              *)
LEMMA Tuples ==
    ASSUME NEW S, NEW a \in S, NEW b \in S, NEW c \in S, NEW d \in S
    PROVE  /\ <<a, b>> \in Seq(S)
           /\ <<a, b, c>> \in Seq(S)
           /\ <<a, b, c, d>> \in Seq(S)
OBVIOUS

Start == <<Reads("id", "DEV_ID", {SC_DEV_ID}), Reads("status", "STATUS", WithBit(SC_STATUS_READY))>>

(* Each test is a sequence of accesses.                                    *)
LEMMA ScriptPieces ==
    /\ Start \in Seq(Accesses)
    /\ \A i \in 1 .. 5 : TestScratch(i) \in Seq(Accesses)
    /\ TestReset \in Seq(Accesses) /\ TestMac \in Seq(Accesses)
    /\ TestDma \in Seq(Accesses) /\ TestInterrupt \in Seq(Accesses)
<1>1. ASSUME NEW r \in RegNames \ {"DMA_STS"}, NEW v \in Nat PROVE Writes(r, v) \in Accesses
  BY DEF Accesses
<1>2. Looks \subseteq Accesses /\ [op |-> "poll"] \in Accesses
  BY DEF Accesses
<1>3. ASSUME NEW i \in 1 .. 5 PROVE TestScratch(i) \in Seq(Accesses)
  <2>1. Patterns[i] \in Nat
    BY DEF Patterns
  <2>2. ScratchReg(i - 1) \in RegNames \ {"DMA_STS"}
    BY DEF ScratchReg, RegNames
  <2>3. Writes(ScratchReg(i - 1), Patterns[i]) \in Accesses
    BY <1>1, <2>1, <2>2
  <2>4. Reads("scratch", ScratchReg(i - 1), {Patterns[i]}) \in Accesses
    BY <1>2 DEF Looks
  <2> QED
    BY <2>3, <2>4, Tuples DEF TestScratch
<1>4. TestReset \in Seq(Accesses)
  <2>1. Writes("SCRATCH0", 13) \in Accesses /\ Writes("CTRL", SC_CTRL_RESET) \in Accesses
    BY <1>1 DEF RegNames, SC_CTRL_RESET
  <2>2. Reads("reset", "SCRATCH0", {0}) \in Accesses
    BY <1>2 DEF Looks
  <2> QED
    BY <2>1, <2>2, Tuples DEF TestReset
<1>5. TestMac \in Seq(Accesses)
  <2>1. Reads("mac", "MAC_LO", Nat) \in Accesses /\ Reads("mac", "MAC_HI", Nat) \in Accesses
    BY <1>2 DEF Looks
  <2> QED
    BY <2>1, Tuples DEF TestMac
<1>6. TestDma \in Seq(Accesses)
  <2>1. Writes("DMA_LEN", 1) \in Accesses /\ Writes("DMA_CTRL", SC_DMA_START) \in Accesses
    BY <1>1 DEF RegNames, SC_DMA_START
  <2> QED
    BY <2>1, <1>2, Tuples DEF TestDma
<1>7. TestInterrupt \in Seq(Accesses)
  <2>1. Writes("IRQ_STS", SC_IRQ_TEST) \in Accesses /\ Writes("IRQ_TEST", 1) \in Accesses
    BY <1>1 DEF RegNames, SC_IRQ_TEST
  <2>2. Reads("irq", "IRQ_STS", WithBit(SC_IRQ_TEST)) \in Accesses
    BY <1>2 DEF Looks
  <2> QED
    BY <2>1, <2>2, Tuples DEF TestInterrupt
<1>8. Start \in Seq(Accesses)
  <2>1. /\ Reads("id", "DEV_ID", {SC_DEV_ID}) \in Accesses
        /\ Reads("status", "STATUS", WithBit(SC_STATUS_READY)) \in Accesses
    BY <1>2 DEF Looks
  <2> QED
    BY <2>1, Tuples DEF Start
<1> QED
  BY <1>3, <1>4, <1>5, <1>6, <1>7, <1>8

(* The tests write other registers only (pci_test.c:155-330).              *)
LEMMA ScriptAccesses == Script \in Seq(Accesses)
<1>1. Script = Start \o TestScratch(1) \o TestScratch(2) \o TestScratch(3) \o TestScratch(4)
                 \o TestScratch(5) \o TestReset \o TestMac \o TestDma \o TestInterrupt
  BY DEF Script, Start
<1> QED
  BY <1>1, ScriptPieces

(* The accesses place by place (pci_test.c:155-334).                       *)
Place(i) ==
    CASE i = 1  -> Reads("id", "DEV_ID", {SC_DEV_ID})
      [] i = 2  -> Reads("status", "STATUS", WithBit(SC_STATUS_READY))
      [] i = 3  -> Writes("SCRATCH0", 0)
      [] i = 4  -> Reads("scratch", "SCRATCH0", {0})
      [] i = 5  -> Writes("SCRATCH1", 15)
      [] i = 6  -> Reads("scratch", "SCRATCH1", {15})
      [] i = 7  -> Writes("SCRATCH0", 10)
      [] i = 8  -> Reads("scratch", "SCRATCH0", {10})
      [] i = 9  -> Writes("SCRATCH1", 7)
      [] i = 10 -> Reads("scratch", "SCRATCH1", {7})
      [] i = 11 -> Writes("SCRATCH0", 14)
      [] i = 12 -> Reads("scratch", "SCRATCH0", {14})
      [] i = 13 -> Writes("SCRATCH0", 13)
      [] i = 14 -> Writes("CTRL", SC_CTRL_RESET)
      [] i = 15 -> Reads("reset", "SCRATCH0", {0})
      [] i = 16 -> Reads("mac", "MAC_LO", Nat)
      [] i = 17 -> Reads("mac", "MAC_HI", Nat)
      [] i = 18 -> Writes("DMA_LEN", 1)
      [] i = 19 -> Writes("DMA_CTRL", SC_DMA_START)
      [] i = 20 -> [op |-> "poll"]
      [] i = 21 -> Writes("IRQ_STS", SC_IRQ_TEST)
      [] i = 22 -> Writes("IRQ_TEST", 1)
      [] i = 23 -> Reads("irq", "IRQ_STS", WithBit(SC_IRQ_TEST))
      [] i = 24 -> Writes("IRQ_STS", SC_IRQ_TEST)

(* The list read place by place.                                           *)
LEMMA PlaceIs ==
    /\ Place(1) = Reads("id", "DEV_ID", {SC_DEV_ID})
    /\ Place(2) = Reads("status", "STATUS", WithBit(SC_STATUS_READY))
    /\ Place(3) = Writes("SCRATCH0", 0)
    /\ Place(4) = Reads("scratch", "SCRATCH0", {0})
    /\ Place(5) = Writes("SCRATCH1", 15)
    /\ Place(6) = Reads("scratch", "SCRATCH1", {15})
    /\ Place(7) = Writes("SCRATCH0", 10)
    /\ Place(8) = Reads("scratch", "SCRATCH0", {10})
    /\ Place(9) = Writes("SCRATCH1", 7)
    /\ Place(10) = Reads("scratch", "SCRATCH1", {7})
    /\ Place(11) = Writes("SCRATCH0", 14)
    /\ Place(12) = Reads("scratch", "SCRATCH0", {14})
    /\ Place(13) = Writes("SCRATCH0", 13)
    /\ Place(14) = Writes("CTRL", SC_CTRL_RESET)
    /\ Place(15) = Reads("reset", "SCRATCH0", {0})
    /\ Place(16) = Reads("mac", "MAC_LO", Nat)
    /\ Place(17) = Reads("mac", "MAC_HI", Nat)
    /\ Place(18) = Writes("DMA_LEN", 1)
    /\ Place(19) = Writes("DMA_CTRL", SC_DMA_START)
    /\ Place(20) = [op |-> "poll"]
    /\ Place(21) = Writes("IRQ_STS", SC_IRQ_TEST)
    /\ Place(22) = Writes("IRQ_TEST", 1)
    /\ Place(23) = Reads("irq", "IRQ_STS", WithBit(SC_IRQ_TEST))
    /\ Place(24) = Writes("IRQ_STS", SC_IRQ_TEST)
<1>1. /\ Place(1) = Reads("id", "DEV_ID", {SC_DEV_ID})
      /\ Place(2) = Reads("status", "STATUS", WithBit(SC_STATUS_READY))
      /\ Place(3) = Writes("SCRATCH0", 0)
      /\ Place(4) = Reads("scratch", "SCRATCH0", {0})
      /\ Place(5) = Writes("SCRATCH1", 15)
      /\ Place(6) = Reads("scratch", "SCRATCH1", {15})
      /\ Place(7) = Writes("SCRATCH0", 10)
      /\ Place(8) = Reads("scratch", "SCRATCH0", {10})
      /\ Place(9) = Writes("SCRATCH1", 7)
      /\ Place(10) = Reads("scratch", "SCRATCH1", {7})
      /\ Place(11) = Writes("SCRATCH0", 14)
      /\ Place(12) = Reads("scratch", "SCRATCH0", {14})
  BY DEF Place
<1>2. /\ Place(13) = Writes("SCRATCH0", 13)
      /\ Place(14) = Writes("CTRL", SC_CTRL_RESET)
      /\ Place(15) = Reads("reset", "SCRATCH0", {0})
      /\ Place(16) = Reads("mac", "MAC_LO", Nat)
      /\ Place(17) = Reads("mac", "MAC_HI", Nat)
      /\ Place(18) = Writes("DMA_LEN", 1)
      /\ Place(19) = Writes("DMA_CTRL", SC_DMA_START)
      /\ Place(20) = [op |-> "poll"]
      /\ Place(21) = Writes("IRQ_STS", SC_IRQ_TEST)
      /\ Place(22) = Writes("IRQ_TEST", 1)
      /\ Place(23) = Reads("irq", "IRQ_STS", WithBit(SC_IRQ_TEST))
      /\ Place(24) = Writes("IRQ_STS", SC_IRQ_TEST)
  BY DEF Place
<1> QED
  BY <1>1, <1>2

Cat(s, t) == s \o t
Follows(t, m) == \A i \in 1 .. Len(t) : t[i] = Place(m + i)
Places(s, m) == s \in Seq(Accesses) /\ Len(s) = m /\ Follows(s, 0)

(* A test that follows its predecessors in the list of places.             *)
LEMMA Extends ==
    ASSUME NEW m \in Nat, NEW s, Places(s, m), NEW t \in Seq(Accesses), Follows(t, m),
           NEW k \in Nat, Len(t) = k
    PROVE  Places(Cat(s, t), m + k)
<1> DEFINE u == s \o t
<1>1. u \in Seq(Accesses) /\ Len(u) = m + k
  BY DEF Places
<1>2. \A i \in 1 .. m : u[i] = Place(i)
  <2>1. \A i \in 1 .. m : u[i] = s[i]
    BY DEF Places
  <2>2. \A i \in 1 .. m : s[i] = Place(0 + i)
    BY DEF Places, Follows
  <2>3. \A i \in 1 .. m : 0 + i = i
    OBVIOUS
  <2> HIDE DEF u
  <2> QED
    BY <2>1, <2>2, <2>3
<1>3. \A i \in 1 .. m + k : i > m => u[i] = Place(i)
  <2>1. \A i \in 1 .. m + k : i > m => u[i] = t[i - m]
    BY DEF Places
  <2>2. \A i \in 1 .. m + k : i > m => i - m \in 1 .. k /\ m + (i - m) = i
    OBVIOUS
  <2> HIDE DEF u
  <2> QED
    BY <2>1, <2>2 DEF Follows
<1> HIDE DEF u
<1>4. \A i \in 1 .. m + k : u[i] = Place(0 + i)
  <2>1. \A i \in 1 .. m + k : 0 + i = i /\ (i > m \/ i \in 1 .. m)
    OBVIOUS
  <2> QED
    BY <2>1, <1>2, <1>3
<1> QED
  BY <1>1, <1>4 DEF Places, Follows, Cat, u

(* The whole script.                                                       *)
LEMMA ScriptPlaces == Len(Script) = 24 /\ \A i \in 1 .. 24 : Script[i] = Place(i)
<1> DEFINE s1 == Cat(Start, TestScratch(1))
           s2 == Cat(s1, TestScratch(2))
           s3 == Cat(s2, TestScratch(3))
           s4 == Cat(s3, TestScratch(4))
           s5 == Cat(s4, TestScratch(5))
           s6 == Cat(s5, TestReset)
           s7 == Cat(s6, TestMac)
           s8 == Cat(s7, TestDma)
           s9 == Cat(s8, TestInterrupt)
<1>0. \A i \in 1 .. 5 : TestScratch(i) \in Seq(Accesses) /\ Len(TestScratch(i)) = 2
  BY ScriptPieces DEF TestScratch
<1>1. Places(Start, 2)
  <2>1. Start \in Seq(Accesses) /\ Len(Start) = 2
    BY ScriptPieces DEF Start
  <2>2. Start[1] = Place(1) /\ Start[2] = Place(2)
    BY DEF Start, Place
  <2>3. \A i \in 1 .. 2 : (i = 1 \/ i = 2) /\ 0 + i = i
    OBVIOUS
  <2> QED
    BY <2>1, <2>2, <2>3 DEF Places, Follows
<1>2. Places(s1, 4)
  <2>1. Follows(TestScratch(1), 2)
    BY DEF Follows, TestScratch, ScratchReg, Patterns, Place
  <2>2. TestScratch(1) \in Seq(Accesses) /\ Len(TestScratch(1)) = 2
    BY <1>0
  <2>3. Places(s1, 2 + 2)
    BY <1>1, <2>1, <2>2, Extends
  <2> QED
    BY <2>3
<1> HIDE DEF s1
<1>3. Places(s2, 6)
  <2>1. Follows(TestScratch(2), 4)
    BY DEF Follows, TestScratch, ScratchReg, Patterns, Place
  <2>2. TestScratch(2) \in Seq(Accesses) /\ Len(TestScratch(2)) = 2
    BY <1>0
  <2>3. Places(s2, 4 + 2)
    BY <1>2, <2>1, <2>2, Extends
  <2> QED
    BY <2>3
<1> HIDE DEF s2
<1>4. Places(s3, 8)
  <2>1. Follows(TestScratch(3), 6)
    BY DEF Follows, TestScratch, ScratchReg, Patterns, Place
  <2>2. TestScratch(3) \in Seq(Accesses) /\ Len(TestScratch(3)) = 2
    BY <1>0
  <2>3. Places(s3, 6 + 2)
    BY <1>3, <2>1, <2>2, Extends
  <2> QED
    BY <2>3
<1> HIDE DEF s3
<1>5. Places(s4, 10)
  <2>1. Follows(TestScratch(4), 8)
    BY DEF Follows, TestScratch, ScratchReg, Patterns, Place
  <2>2. TestScratch(4) \in Seq(Accesses) /\ Len(TestScratch(4)) = 2
    BY <1>0
  <2>3. Places(s4, 8 + 2)
    BY <1>4, <2>1, <2>2, Extends
  <2> QED
    BY <2>3
<1> HIDE DEF s4
<1>6. Places(s5, 12)
  <2>1. Follows(TestScratch(5), 10)
    BY DEF Follows, TestScratch, ScratchReg, Patterns, Place
  <2>2. TestScratch(5) \in Seq(Accesses) /\ Len(TestScratch(5)) = 2
    BY <1>0
  <2>3. Places(s5, 10 + 2)
    BY <1>5, <2>1, <2>2, Extends
  <2> QED
    BY <2>3
<1> HIDE DEF s5
<1>7. Places(s6, 15)
  <2>1. Follows(TestReset, 12) /\ Len(TestReset) = 3
    BY DEF Follows, TestReset, Place
  <2>2. Places(s6, 12 + 3)
    BY <1>6, <2>1, ScriptPieces, Extends
  <2> QED
    BY <2>2
<1> HIDE DEF s6
<1>8. Places(s7, 17)
  <2>1. Follows(TestMac, 15) /\ Len(TestMac) = 2
    BY DEF Follows, TestMac, Place
  <2>2. Places(s7, 15 + 2)
    BY <1>7, <2>1, ScriptPieces, Extends
  <2> QED
    BY <2>2
<1> HIDE DEF s7
<1>9. Places(s8, 20)
  <2>1. Follows(TestDma, 17) /\ Len(TestDma) = 3
    BY DEF Follows, TestDma, Place
  <2>2. Places(s8, 17 + 3)
    BY <1>8, <2>1, ScriptPieces, Extends
  <2> QED
    BY <2>2
<1> HIDE DEF s8
<1>10. Places(s9, 24)
  <2>1. Follows(TestInterrupt, 20) /\ Len(TestInterrupt) = 4
    BY DEF Follows, TestInterrupt, Place
  <2>2. Places(s9, 20 + 4)
    BY <1>9, <2>1, ScriptPieces, Extends
  <2> QED
    BY <2>2
<1>11. Script = s9
  BY DEF Script, Start, Cat, s1, s2, s3, s4, s5, s6, s7, s8
<1> HIDE DEF s9
<1>12. \A i \in 1 .. 24 : Script[i] = Place(i)
  <2>1. \A i \in 1 .. 24 : s9[i] = Place(0 + i)
    BY <1>10 DEF Places, Follows
  <2>2. \A i \in 1 .. 24 : 0 + i = i
    OBVIOUS
  <2> QED
    BY <1>11, <2>1, <2>2
<1>13. Len(Script) = 24
  <2>1. Len(s9) = 24
    BY <1>10 DEF Places
  <2> QED
    BY <1>11, <2>1
<1> QED
  BY <1>12, <1>13

(* So does each write that the firmware is about to make.                  *)
LEMMA ScriptWrites ==
    ASSUME At("write"), n \in Nat \ {0} PROVE Script[n].reg # "DMA_STS"
<1>1. Script[n] \in Accesses
  BY ScriptAccesses DEF At
<1>2. \A a \in Looks : a.op = "read"
  BY DEF Looks, Reads
<1> QED
  BY <1>1, <1>2 DEF At, Accesses, Writes

-----------------------------------------------------------------------------
(* The invariants of the device and of bus mastering are kept. *)

(* Steps that leave the device alone.                                      *)
LEMMA DevSame ==
    ASSUME UNCHANGED <<regs, dma, asked>>
    PROVE  (DevInv => DevInv') /\ (BusyMeansArmed => BusyMeansArmed')
BY DEF DevInv, Shaped, Latched, Capped, BusyMeansArmed

(* Every step of the system, as far as the device goes.                    *)
LEMMA DevStep ==
    ASSUME DevInv, n \in Nat \ {0}, [PciNext]_allVars
    PROVE  /\ DevInv'
           /\ dma.start /\ ~dma'.start => moved' = asked
           /\ LeavesStatus /\ BusyMeansArmed => BusyMeansArmed'
<1>1. CASE TestWrites
  <2>1. CASE Decoded
    <3>1. MmioWrite(Script[n].reg, Script[n].val) /\ At("write")
      BY <1>1, <2>1 DEF TestWrites
    <3> QED
      BY <3>1, WriteStep, ScriptWrites
  <2>2. CASE ~Decoded
    BY <1>1, <2>2, DevSame DEF TestWrites, devVars
  <2> QED
    BY <2>1, <2>2
<1>2. CASE Firmware /\ ~TestWrites
  <2>1. UNCHANGED vars
    BY <1>2 DEF Firmware, ScanNext, ScanNotFound, ScanFound, TestReads, PollDma, PollTimeout,
                TestsEnd
  <2> QED
    BY <2>1, DevSame DEF vars, devVars
<1>3. CASE DmaTimer
  BY <1>3, TimerStep
<1>4. CASE IsrRead
  BY <1>4, IsrReadStep, DevSame
<1>5. CASE IsrAck
  BY <1>5, WriteStep DEF IsrAck
<1>6. CASE GuestWrite
  <2>1. PICK w \in GuestWrites : MmioWrite(w[1], w[2])
    BY <1>6 DEF GuestWrite
  <2> QED
    BY <2>1, WriteStep DEF LeavesStatus
<1>7. CASE UNCHANGED allVars
  BY <1>7, DevSame DEF allVars, vars, devVars
<1> QED
  BY <1>1, <1>2, <1>3, <1>4, <1>5, <1>6, <1>7 DEF PciNext, Handler

(* Who starts a transfer, and who touches the bus.                         *)
LEMMA MasterStep ==
    ASSUME DevInv, Mastered, [PciNext]_allVars
    PROVE  Mastered'
<1> USE PciTestAssumption DEF Mastered, DmaMastered, Slots
<1>1. CASE ScanNext \/ ScanNotFound
  BY <1>1 DEF ScanNext, ScanNotFound, vars, devVars
<1>2. CASE ScanFound
  <2>1. dev \in Slots /\ bus[dev].bar \in Bars /\ UNCHANGED <<dma, dev, n>> /\ pc' = "test"
    BY <1>2 DEF ScanFound, vars, devVars
  <2>2. PICK bar \in Bars :
            bus' = [bus EXCEPT ![dev].bar = bar, ![dev].cmd = @ \cup {"mem", "master"}]
    BY <1>2, <2>1 DEF ScanFound, Bars
  <2>3. bus[dev] \in [kind : {"none", "other", "smarteth"}, bar : Bars,
                     cmd : SUBSET {"mem", "master"}]
    BY <2>1
  <2>4. bus[dev].cmd \cup {"mem", "master"} = {"mem", "master"}
    BY <2>3
  <2>5. bus' = [bus EXCEPT ![dev].bar = bar, ![dev].cmd = {"mem", "master"}]
    BY <2>2, <2>4
  <2>6. bus' \in [Slots -> [kind : {"none", "other", "smarteth"}, bar : Bars,
                           cmd : SUBSET {"mem", "master"}]]
    BY <2>1, <2>5
  <2>7. bus'[dev].cmd = {"mem", "master"}
    BY <2>1, <2>3, <2>5
  <2> QED
    BY <2>1, <2>6, <2>7
<1>3. CASE TestWrites
  BY <1>3 DEF TestWrites, At
<1>4. CASE TestReads \/ PollDma \/ PollTimeout \/ TestsEnd
  BY <1>4 DEF TestReads, PollDma, PollTimeout, TestsEnd, At, vars, devVars
<1>5. CASE UNCHANGED fwVars /\ DmaTimer
  BY <1>5, TimerStep DEF fwVars
<1>6. CASE UNCHANGED fwVars /\ Handler
  BY <1>6 DEF fwVars, Handler
<1>7. CASE UNCHANGED fwVars /\ pc = "os"
  BY <1>7 DEF fwVars
<1>8. CASE UNCHANGED allVars
  BY <1>8 DEF allVars, fwVars, vars, devVars
<1> QED
  BY <1>1, <1>2, <1>3, <1>4, <1>5, <1>6, <1>7, <1>8 DEF PciNext, Firmware

(* The system starts with an idle device and a bus as it may be found.     *)
LEMMA PciStart ==
    ASSUME PciInit PROVE DevInv /\ Mastered /\ BusyMeansArmed
<1>1. /\ regs = RegInit
      /\ dma = [start |-> FALSE, write |-> FALSE, irq |-> FALSE, len |-> 0]
  BY DEF PciInit, Init
<1>2. DevInv /\ BusyMeansArmed
  BY <1>1 DEF DevInv, Shaped, Latched, BusyMeansArmed, RegInit, set_mac, Zeros, RegNames
<1>3. /\ bus \in [Slots -> [kind : {"none", "other", "smarteth"}, bar : Bars,
                          cmd : SUBSET {"mem", "master"}]]
      /\ dev = 0 /\ n = 1 /\ 0 \in Slots
  BY PciTestAssumption DEF PciInit, Slots
<1>4. pc \in {"os", "test"} => "master" \in bus[dev].cmd
  BY <1>3 DEF PciInit, Device
<1> QED
  BY <1>1, <1>2, <1>3, <1>4, PciTestAssumption DEF Mastered, DmaMastered

(* What holds of the device and of the bus, together.                      *)
LEMMA PciInvariant == PciSpec => [](DevInv /\ Mastered)
<1>1. DevInv /\ Mastered /\ [PciNext]_allVars => (DevInv /\ Mastered)'
  BY DevStep, MasterStep DEF Mastered
<1> QED
  BY PciStart, <1>1, PTL DEF PciSpec

-----------------------------------------------------------------------------
(* The device does DMA only after the scan, as a bus master, whatever sits *)
(* on the bus (pci_test.c:114-117, 266).                                   *)
THEOREM MastersOnly == PciSpec => []DmaMastered
<1>1. Mastered => DmaMastered
  BY DEF Mastered
<1> QED
  BY PciInvariant, <1>1, PTL

(* A transfer uses the parameters its start has latched, whatever the      *)
(* guest writes before the timer expires (smarteth_pci.c:143-188).         *)
THEOREM TransfersAsAsked == PciSpec => OwnTransfer
<1>1. DevInv /\ Mastered /\ [PciNext]_allVars
        => [dma.start /\ ~dma'.start => moved' = asked]_vars
  BY DevStep DEF Mastered, allVars
<1> QED
  BY PciInvariant, <1>1, PTL DEF PciSpec, OwnTransfer

(* Busy is shown only while a timer is armed that will clear it, to every  *)
(* guest that leaves DMA_STS to the device (smarteth_pci.c:143-188).       *)
THEOREM BusyEnds == ASSUME LeavesStatus PROVE PciSpec => []BusyMeansArmed
<1>1. DevInv /\ Mastered /\ BusyMeansArmed /\ [PciNext]_allVars => BusyMeansArmed'
  BY DevStep DEF Mastered
<1> QED
  BY PciStart, PciInvariant, <1>1, PTL DEF PciSpec

-----------------------------------------------------------------------------
(* Types. *)

(* Setting and clearing bits yields a register's value.                    *)
LEMMA BitsType ==
    ASSUME NEW v \in Nat, NEW w \in Nat
    PROVE  /\ \A bit \in Nat : SetBit(v, bit) \in Nat
           /\ ClearBits(v, w) \in Nat
<1>1. \A bit \in Nat : SetBit(v, bit) \in Nat
  BY DEF SetBit
<1>2. \A bit \in {1, 2, 4, 8} : Keep(v, w, bit) \in Nat
  BY DEF Keep
<1>3. v - (v % 16) \in Nat
  OBVIOUS
<1> QED
  BY <1>1, <1>2, <1>3 DEF ClearBits

(* The register file after reset and at the start.                         *)
LEMMA ResetType == RegReset \in [RegNames -> Nat] /\ RegInit \in [RegNames -> Nat]
<1>1. MacLo(DefaultMac) \in Nat /\ MacHi(DefaultMac) \in Nat
  BY DEF MacLo, MacHi, DefaultMac
<1>2. Zeros \in [RegNames -> Nat]
  BY DEF Zeros
<1> QED
  BY <1>1, <1>2 DEF RegReset, RegInit, set_mac

(* A register file stays one (reg_block.cpp, smarteth_pci.c:216-275).      *)
LEMMA RegWriteType ==
    ASSUME NEW f \in [RegNames -> Nat], NEW r \in RegNames, NEW v \in Nat
    PROVE  RegWrite(f, r, v) \in [RegNames -> Nat]
<1>1. f["IRQ_STS"] \in Nat /\ SC_IRQ_TEST \in Nat
  BY DEF RegNames, SC_IRQ_TEST
<1>2. ClearBits(f["IRQ_STS"], v) \in Nat /\ SetBit(f["IRQ_STS"], SC_IRQ_TEST) \in Nat
  BY <1>1, BitsType
<1> HIDE DEF RegNames
<1> QED
  BY <1>2, ResetType DEF RegWrite

(* Raising an interrupt keeps the line and the messages what they are.     *)
LEMMA RaiseType ==
    ASSUME TypeOK, NEW bit, RaiseIrq(bit)
    PROVE  intx' \in BOOLEAN /\ vecs' \subseteq {0, 1}
BY DEF TypeOK, RaiseIrq

(* A length is capped to the buffer (smarteth_pci.c:152-162).              *)
LEMMA CappedType ==
    ASSUME NEW len \in Nat PROVE Capped(len) \in 0 .. BufSize
BY QemuNicAssumption DEF Capped

(* A register write keeps the device's types (smarteth_pci.c:216-275).     *)
LEMMA MmioType ==
    ASSUME TypeOK, NEW r \in RegNames, NEW v \in Nat, MmioWrite(r, v),
           isr' \in [pc : {"idle", "ack"}, sts : Nat]
    PROVE  TypeOK'
<1>1. msix' = msix /\ moved' = moved
  BY DEF MmioWrite
<1>2. intx' \in BOOLEAN /\ vecs' \subseteq {0, 1}
  <2>1. CASE r = "IRQ_TEST" /\ v # 0
    BY <2>1, RaiseType DEF MmioWrite
  <2>2. CASE ~(r = "IRQ_TEST" /\ v # 0)
    BY <2>2 DEF MmioWrite, TypeOK
  <2> QED
    BY <2>1, <2>2
<1>3. /\ regs' \in [RegNames -> Nat]
      /\ dma' \in [start : BOOLEAN, write : BOOLEAN, irq : BOOLEAN, len : Nat]
      /\ asked' \in [write : BOOLEAN, len : 0 .. BufSize]
  <2>1. CASE r = "DMA_CTRL" /\ Has(v, SC_DMA_START)
    <3>1. StartDma(v)
      BY <2>1 DEF MmioWrite
    <3>2. regs["DMA_LEN"] \in Nat /\ Capped(regs["DMA_LEN"]) \in 0 .. BufSize
      BY CappedType DEF TypeOK, RegNames
    <3>3. Has(v, SC_DMA_DIR_WRITE) \in BOOLEAN /\ Has(v, SC_DMA_IRQ_EN) \in BOOLEAN
      BY DEF Has
    <3>4. SC_STATUS_DMA_BSY \in Nat
      BY DEF SC_STATUS_DMA_BSY
    <3> QED
      BY <3>1, <3>2, <3>3, <3>4 DEF StartDma, TypeOK
  <2>2. CASE ~(r = "DMA_CTRL" /\ Has(v, SC_DMA_START))
    BY <2>2, RegWriteType DEF MmioWrite, TypeOK
  <2> QED
    BY <2>1, <2>2
<1> QED
  BY <1>1, <1>2, <1>3 DEF TypeOK

(* So does the timer's callback (smarteth_pci.c:143-173).                  *)
LEMMA TimerType == ASSUME TypeOK, DmaTimer PROVE TypeOK'
<1>1. Capped(dma.len) \in 0 .. BufSize /\ Capped(dma.len) \in Nat
  BY CappedType, QemuNicAssumption DEF TypeOK
<1>2. /\ dma' \in [start : BOOLEAN, write : BOOLEAN, irq : BOOLEAN, len : Nat]
      /\ moved' \in [write : BOOLEAN, len : 0 .. BufSize]
      /\ UNCHANGED <<msix, asked, isr>>
  BY <1>1 DEF TypeOK, DmaTimer
<1>3. regs' \in [RegNames -> Nat] /\ intx' \in BOOLEAN /\ vecs' \subseteq {0, 1}
  <2> DEFINE f == [regs EXCEPT !["DMA_STS"] = 0]
  <2>1. f \in [RegNames -> Nat] /\ DmaIdle(f)
    BY DEF TypeOK, DmaTimer
  <2> HIDE DEF f
  <2>2. SetBit(f["IRQ_STS"], SC_IRQ_DMA_DONE) \in Nat
    BY <2>1, BitsType DEF RegNames, SC_IRQ_DMA_DONE
  <2>3. CASE dma.irq
    BY <2>1, <2>2, <2>3, RaiseType DEF DmaIdle
  <2>4. CASE ~dma.irq
    BY <2>1, <2>4 DEF DmaIdle, TypeOK
  <2> QED
    BY <2>3, <2>4
<1> QED
  BY <1>2, <1>3 DEF TypeOK

(* So does the handler's read.                                             *)
LEMMA IsrReadType == ASSUME TypeOK, IsrRead PROVE TypeOK'
<1>1. isr' \in [pc : {"idle", "ack"}, sts : Nat]
  BY DEF TypeOK, IsrRead, IsrIdle, RegNames
<1> QED
  BY <1>1 DEF TypeOK, IsrRead

(* Which of the accesses are reads, and for which test.                    *)
LEMMA PlaceOps ==
    /\ \A i \in {3, 5, 7, 9, 11, 13, 14, 18, 19, 21, 22, 24} : Place(i).op = "write"
    /\ \A i \in {1, 2, 4, 6, 8, 10, 12, 15, 16, 17} : Place(i).test # "irq"
    /\ Place(20).op = "poll"
<1>1. /\ Place(3).op = "write" /\ Place(5).op = "write" /\ Place(7).op = "write"
      /\ Place(9).op = "write" /\ Place(11).op = "write" /\ Place(13).op = "write"
  BY PlaceIs DEF Writes
<1>2. /\ Place(14).op = "write" /\ Place(18).op = "write" /\ Place(19).op = "write"
      /\ Place(21).op = "write" /\ Place(22).op = "write" /\ Place(24).op = "write"
  BY PlaceIs DEF Writes
<1>3. /\ Place(1).test = "id" /\ Place(2).test = "status"
      /\ Place(4).test = "scratch" /\ Place(6).test = "scratch"
  BY PlaceIs DEF Reads
<1>4. /\ Place(8).test = "scratch" /\ Place(10).test = "scratch"
      /\ Place(12).test = "scratch" /\ Place(15).test = "reset"
  BY PlaceIs DEF Reads
<1>5. Place(16).test = "mac" /\ Place(17).test = "mac"
  BY PlaceIs DEF Reads
<1>6. Place(20).op = "poll"
  BY PlaceIs
<1>7. \A i \in {3, 5, 7, 9, 11, 13, 14, 18, 19, 21, 22, 24} : Place(i).op = "write"
  BY <1>1, <1>2
<1>8. \A i \in {1, 2, 4, 6, 8, 10, 12, 15, 16, 17} : Place(i).test # "irq"
  BY <1>3, <1>4, <1>5
<1> QED
  BY <1>6, <1>7, <1>8

(* What the firmware accesses, and where its interrupt test reads.         *)
LEMMA AccessTypes ==
    ASSUME NEW i \in 1 .. Len(Script)
    PROVE  /\ Script[i].op = "write" => Script[i].reg \in RegNames /\ Script[i].val \in Nat
           /\ Script[i].op = "read" =>
                 /\ Script[i].test \in {"id", "status", "scratch", "reset", "mac", "irq"}
                 /\ Script[i].test = "irq" => i = 23
<1>1. i \in 1 .. 24 /\ Script[i] = Place(i)
  BY ScriptPlaces
<1>2. /\ Script[i].op = "write" => Script[i].reg \in RegNames /\ Script[i].val \in Nat
      /\ Script[i].op = "read" =>
            Script[i].test \in {"id", "status", "scratch", "reset", "mac", "irq"}
  <2>1. Script[i] \in Accesses
    BY ScriptAccesses
  <2>2. \A a \in Looks : a.op = "read"
                      /\ a.test \in {"id", "status", "scratch", "reset", "mac", "irq"}
    BY DEF Looks, Reads
  <2>3. \A r \in RegNames, v \in Nat : LET a == Writes(r, v) IN a.op = "write" /\ a.reg = r /\ a.val = v
    BY DEF Writes
  <2> HIDE DEF Looks
  <2> QED
    BY <2>1, <2>2, <2>3 DEF Accesses
<1>3. \/ i = 1 \/ i = 2 \/ i = 3 \/ i = 4 \/ i = 5 \/ i = 6 \/ i = 7 \/ i = 8
      \/ i = 9 \/ i = 10 \/ i = 11 \/ i = 12 \/ i = 13 \/ i = 14 \/ i = 15 \/ i = 16
      \/ i = 17 \/ i = 18 \/ i = 19 \/ i = 20 \/ i = 21 \/ i = 22 \/ i = 23 \/ i = 24
  BY <1>1
<1>4. Place(i).op = "read" /\ i # 23 => Place(i).test # "irq"
  BY <1>3, PlaceOps
<1>5. Script[i].op = "read" /\ Script[i].test = "irq" => i = 23
  BY <1>1, <1>4
<1> QED
  BY <1>2, <1>5

(* Steps of the firmware that leave the device alone.                      *)
LEMMA DeviceTypesSame == ASSUME TypeOK, UNCHANGED vars PROVE TypeOK'
BY DEF TypeOK, vars, devVars

(* Every step of the system keeps the types.                               *)
LEMMA TypeStep ==
    ASSUME PciTypeOK, Mastered, Mastered', [PciNext]_allVars
    PROVE  PciTypeOK'
<1> USE PciTestAssumption
<1> DEFINE FwType == /\ dev \in 0 .. NumSlots /\ bar0 \in Bars
                     /\ pc \in {"os", "scan", "test", "done"} /\ n \in 1 .. Len(Script) + 1
                     /\ timeout \in -1 .. PollLimit
                     /\ failed \subseteq {"id", "status", "scratch", "reset", "mac", "dma", "irq"}
<1>1. TypeOK /\ FwType
  BY DEF PciTypeOK
<1>2. Len(Script) = 24
  BY ScriptPlaces
<1>3. SUFFICES TypeOK' /\ FwType'
  BY DEF PciTypeOK, Mastered
<1>4. CASE ScanNext \/ ScanNotFound \/ TestsEnd
  <2>1. UNCHANGED vars
    BY <1>4 DEF ScanNext, ScanNotFound, TestsEnd
  <2>2. UNCHANGED <<bar0, n, timeout, failed>>
    BY <1>4 DEF ScanNext, ScanNotFound, TestsEnd
  <2>3. dev' \in 0 .. NumSlots /\ pc' \in {"os", "scan", "test", "done"}
    BY <1>1, <1>4 DEF ScanNext, ScanNotFound, TestsEnd
  <2> QED
    BY <1>1, <2>1, <2>2, <2>3, DeviceTypesSame
<1>5. CASE ScanFound
  <2>1. bus[dev].bar \in Bars
    BY <1>1, <1>5 DEF ScanFound, Mastered, Slots
  <2>2. bar0' \in Bars
    BY <1>5, <2>1 DEF ScanFound, Bars, PciMmioBase
  <2>3. UNCHANGED <<vars, dev, n, timeout, failed>> /\ pc' = "test"
    BY <1>5 DEF ScanFound
  <2> QED
    BY <1>1, <2>2, <2>3, DeviceTypesSame
<1>6. CASE TestWrites
  <2>1. n \in 1 .. Len(Script) /\ Script[n].op = "write"
    BY <1>1, <1>2, <1>6 DEF TestWrites, At
  <2>2. Script[n].reg \in RegNames /\ Script[n].val \in Nat
    BY <2>1, AccessTypes
  <2>3. isr' \in [pc : {"idle", "ack"}, sts : Nat]
    BY <1>1, <1>6 DEF TestWrites, TypeOK
  <2>4. TypeOK'
    <3>1. CASE Decoded
      BY <1>1, <1>6, <2>2, <2>3, <3>1, MmioType DEF TestWrites
    <3>2. CASE ~Decoded
      BY <1>1, <1>6, <3>2, DeviceTypesSame DEF TestWrites, vars
    <3> QED
      BY <3>1, <3>2
  <2>5. FwType'
    BY <1>1, <1>2, <1>6, <2>1 DEF TestWrites
  <2> QED
    BY <2>4, <2>5
<1>7. CASE TestReads
  <2>1. n \in 1 .. Len(Script) /\ Script[n].op = "read"
    BY <1>1, <1>2, <1>7 DEF TestReads, At
  <2>2. /\ Script[n].test \in {"id", "status", "scratch", "reset", "mac", "irq"}
        /\ Script[n].test = "irq" => n = 23
    BY <2>1, AccessTypes
  <2>3. /\ UNCHANGED <<vars, bus, dev, bar0, pc, timeout>>
        /\ failed' = failed \/ failed' = failed \cup {Script[n].test}
        /\ n' = n + 1 \/ (Script[n].test = "irq" /\ n' = n + 2)
    BY <1>7 DEF TestReads
  <2>4. n' \in 1 .. Len(Script) + 1
    BY <1>2, <2>1, <2>2, <2>3
  <2>5. failed' \subseteq {"id", "status", "scratch", "reset", "mac", "dma", "irq"}
    <3>1. failed' \subseteq failed \cup {Script[n].test}
      BY <2>3
    <3>2. failed \subseteq {"id", "status", "scratch", "reset", "mac", "dma", "irq"}
      BY <1>1
    <3>3. Script[n].test \in {"id", "status", "scratch", "reset", "mac", "dma", "irq"}
      BY <2>1, <2>2
    <3> HIDE DEF FwType
    <3> QED
      BY <3>1, <3>2, <3>3
  <2> QED
    BY <1>1, <2>3, <2>4, <2>5, DeviceTypesSame
<1>8. CASE PollDma \/ PollTimeout
  <2>1. n \in 1 .. Len(Script)
    BY <1>1, <1>2, <1>8 DEF PollDma, PollTimeout, At
  <2>2. /\ UNCHANGED <<vars, bus, dev, bar0, pc>>
        /\ failed' = failed \/ failed' = failed \cup {"dma"}
        /\ n' = n \/ n' = n + 1
    BY <1>8 DEF PollDma, PollTimeout
  <2>3. timeout' \in -1 .. PollLimit
    BY <1>1, <1>8 DEF PollDma, PollTimeout
  <2>4. n' \in 1 .. Len(Script) + 1
    BY <1>2, <2>1, <2>2
  <2>5. failed' \subseteq {"id", "status", "scratch", "reset", "mac", "dma", "irq"}
    <3>1. failed' = failed \/ failed' = failed \cup {"dma"}
      BY <2>2
    <3> QED
      BY <1>1, <3>1
  <2> QED
    BY <1>1, <2>2, <2>3, <2>4, <2>5, DeviceTypesSame
<1>9. CASE UNCHANGED fwVars /\ DmaTimer
  BY <1>1, <1>9, TimerType DEF fwVars
<1>10. CASE UNCHANGED fwVars /\ IsrRead
  BY <1>1, <1>10, IsrReadType DEF fwVars
<1>11. CASE UNCHANGED fwVars /\ IsrAck
  <2>1. isr.sts \in Nat /\ "IRQ_STS" \in RegNames /\ isr' \in [pc : {"idle", "ack"}, sts : Nat]
    BY <1>1, <1>11 DEF IsrAck, IsrIdle, TypeOK, RegNames
  <2> QED
    BY <1>1, <1>11, <2>1, MmioType DEF IsrAck, fwVars
<1>12. CASE UNCHANGED fwVars /\ GuestWrite
  <2>1. PICK w \in GuestWrites : MmioWrite(w[1], w[2])
    BY <1>12 DEF GuestWrite
  <2>2. w[1] \in RegNames /\ w[2] \in Nat
    BY QemuNicAssumption
  <2>3. isr' \in [pc : {"idle", "ack"}, sts : Nat]
    BY <1>1, <1>12 DEF GuestWrite, TypeOK
  <2> QED
    BY <1>1, <1>12, <2>1, <2>2, <2>3, MmioType DEF fwVars
<1>13. CASE UNCHANGED allVars
  BY <1>1, <1>13, DeviceTypesSame DEF allVars, fwVars
<1> QED
  BY <1>4, <1>5, <1>6, <1>7, <1>8, <1>9, <1>10, <1>11, <1>12, <1>13 DEF PciNext, Firmware, Handler

(* They hold at the start.                                                 *)
LEMMA TypeStart == ASSUME PciInit PROVE PciTypeOK
<1> USE PciTestAssumption, QemuNicAssumption
<1>1. TypeOK
  <2>1. Init
    BY DEF PciInit
  <2>2. regs \in [RegNames -> Nat]
    BY <2>1, ResetType DEF Init
  <2>3. dma \in [start : BOOLEAN, write : BOOLEAN, irq : BOOLEAN, len : Nat]
    BY <2>1 DEF Init
  <2>4. intx = FALSE /\ msix \in BOOLEAN /\ vecs = {}
    BY <2>1 DEF Init
  <2>5. moved = NoTransfer /\ asked = NoTransfer /\ NoTransfer \in [write : BOOLEAN, len : 0 .. BufSize]
    BY <2>1 DEF Init, NoTransfer
  <2>6. isr \in [pc : {"idle", "ack"}, sts : Nat]
    BY <2>1 DEF Init, IsrIdle
  <2> QED
    BY <2>2, <2>3, <2>4, <2>5, <2>6 DEF TypeOK
<1>2. Mastered
  BY PciStart
<1>3. pc \in {"os", "scan"}
  BY DEF PciInit
<1>4. n \in 1 .. Len(Script) + 1
  BY ScriptPlaces DEF PciInit
<1>5. timeout \in -1 .. PollLimit /\ bar0 \in Bars /\ failed = {} /\ dev \in 0 .. NumSlots
  BY DEF PciInit, Bars
<1> QED
  BY <1>1, <1>2, <1>3, <1>4, <1>5 DEF PciTypeOK, Mastered

(* The types, for every guest, bus and limit (smarteth_pci.c, pci_test.c). *)
THEOREM TypeCorrect == PciSpec => []PciTypeOK
<1>1. DevInv /\ Mastered /\ PciTypeOK /\ [PciNext]_allVars => PciTypeOK'
  BY MasterStep, TypeStep
<1> QED
  BY TypeStart, PciInvariant, <1>1, PTL DEF PciSpec

-----------------------------------------------------------------------------
(* The verdicts of the tests. *)

(* A device no test has touched.                                           *)
Untouched == ~msix /\ ~intx /\ ~dma.start /\ regs["IRQ_STS"] = 0 /\ regs["DMA_STS"] = 0

(* Busy is shown exactly while the timer is armed.                         *)
BusyExact == regs["DMA_STS"] = IF dma.start THEN SC_STATUS_DMA_BSY ELSE 0

(* The DMA test: it starts the only transfer, without an interrupt, and    *)
(* passes it only once it is over.                                         *)
DmaTested ==
    /\ n <= 19 => ~dma.start
    /\ n = 19 => regs["DMA_LEN"] = 1
    /\ n >= 20 => ~dma.irq /\ asked = [write |-> FALSE, len |-> 1] /\ (~dma.start => moved = asked)
    /\ n >= 21 => "dma" \in failed \/ ~dma.start

(* The interrupt test: its cause is there between its two accesses only.   *)
IrqTested ==
    /\ regs["IRQ_STS"] = IF n \in {23, 24} THEN SC_IRQ_TEST ELSE 0
    /\ intx <=> n \in {23, 24}

(* What a register test is about to read is what it has written.           *)
ScratchWritten ==
    /\ n \in {4, 15} => regs["SCRATCH0"] = 0
    /\ n = 6 => regs["SCRATCH1"] = 15
    /\ n = 8 => regs["SCRATCH0"] = 10
    /\ n = 10 => regs["SCRATCH1"] = 7
    /\ n = 12 => regs["SCRATCH0"] = 14

Tested == ~msix /\ failed \subseteq {"dma"} /\ BusyExact /\ DmaTested /\ IrqTested /\ ScratchWritten

OnScript ==
    /\ pc = "scan" => n = 1 /\ failed = {} /\ bar0 = 0 /\ Untouched
    /\ pc = "test" => bar0 # 0 /\ Decoded /\ Tested
    /\ pc = "done" => IF bar0 = 0 THEN Untouched ELSE n = 25 /\ Tested

(* The bits of the values that the tests write and read.                   *)
LEMMA BitValues ==
    /\ ClearBits(2, 2) = 0 /\ ClearBits(0, 2) = 0 /\ SetBit(0, 2) = 2
    /\ Has(1, 1) /\ ~Has(1, 2) /\ ~Has(1, 4) /\ Has(2, 2) /\ ~Has(0, 2)
<1>1. Has(1, 1) /\ ~Has(1, 2) /\ ~Has(1, 4) /\ Has(2, 2) /\ ~Has(0, 2)
  BY DEF Has
<1>2. SetBit(0, 2) = 2
  BY <1>1 DEF SetBit
<1>3. ClearBits(2, 2) = 0 /\ ClearBits(0, 2) = 0
  BY DEF ClearBits, Keep, Has
<1> QED
  BY <1>1, <1>2, <1>3

(* The tests' writes, by what they do (pci_test.c:181-334).                *)
LEMMA PlainWrite ==
    ASSUME NEW r \in {"SCRATCH0", "SCRATCH1", "DMA_LEN"}, NEW v, MmioWrite(r, v),
           intx \in BOOLEAN
    PROVE  regs' = [regs EXCEPT ![r] = v] /\ UNCHANGED <<dma, intx, msix, moved, asked>>
<1>1. r \notin {"CTRL", "IRQ_STS", "IRQ_TEST", "DMA_CTRL", "STATUS", "DEV_ID"}
  OBVIOUS
<1>2. RegWrite(regs, r, v) = [regs EXCEPT ![r] = v]
  BY <1>1 DEF RegWrite
<1> QED
  BY <1>1, <1>2 DEF MmioWrite, ClearsStatus

(* The reset test (pci_test.c:206-222).                                    *)
LEMMA ResetWrite ==
    ASSUME MmioWrite("CTRL", SC_CTRL_RESET), intx \in BOOLEAN
    PROVE  regs' = RegReset /\ UNCHANGED <<dma, intx, msix, moved, asked>>
<1>1. RegWrite(regs, "CTRL", SC_CTRL_RESET) = RegReset
  BY BitValues DEF RegWrite, SC_CTRL_RESET
<1> QED
  BY <1>1 DEF MmioWrite, ClearsStatus

(* The DMA test starts a transfer that raises no interrupt.                *)
LEMMA StartWrite ==
    ASSUME MmioWrite("DMA_CTRL", SC_DMA_START), intx \in BOOLEAN
    PROVE  /\ regs' = [regs EXCEPT !["DMA_CTRL"] = 1, !["DMA_STS"] = SC_STATUS_DMA_BSY]
           /\ dma' = [start |-> TRUE, write |-> FALSE, irq |-> FALSE, len |-> regs["DMA_LEN"]]
           /\ asked' = [write |-> FALSE, len |-> Capped(regs["DMA_LEN"])]
           /\ UNCHANGED <<intx, msix, moved>>
<1>1. StartDma(1)
  BY BitValues DEF MmioWrite, SC_DMA_START
<1>2. UNCHANGED <<intx, msix, moved>>
  BY DEF MmioWrite, ClearsStatus
<1>3. Has(1, SC_DMA_DIR_WRITE) = FALSE /\ Has(1, SC_DMA_IRQ_EN) = FALSE
  BY BitValues DEF SC_DMA_DIR_WRITE, SC_DMA_IRQ_EN, Has
<1> QED
  BY <1>1, <1>2, <1>3 DEF StartDma

(* The interrupt test acknowledges its cause, which lowers the line.       *)
LEMMA AckWrite ==
    ASSUME MmioWrite("IRQ_STS", SC_IRQ_TEST), regs \in [RegNames -> Nat],
           regs["IRQ_STS"] \in {0, SC_IRQ_TEST}, ~msix
    PROVE  /\ regs' = [regs EXCEPT !["IRQ_STS"] = 0] /\ intx' = FALSE
           /\ UNCHANGED <<dma, msix, moved, asked>>
<1>1. ClearBits(regs["IRQ_STS"], SC_IRQ_TEST) = 0
  BY BitValues DEF SC_IRQ_TEST
<1>2. RegWrite(regs, "IRQ_STS", SC_IRQ_TEST) = [regs EXCEPT !["IRQ_STS"] = 0]
  BY <1>1 DEF RegWrite
<1> QED
  BY <1>1, <1>2 DEF MmioWrite, ClearsStatus

(* It raises that cause, and with it the line.                             *)
LEMMA TestIrqWrite ==
    ASSUME MmioWrite("IRQ_TEST", 1), regs["IRQ_STS"] = 0, ~msix
    PROVE  /\ regs' = [regs EXCEPT !["IRQ_STS"] = SC_IRQ_TEST] /\ intx' = TRUE
           /\ UNCHANGED <<dma, msix, moved, asked>>
<1>1. SetBit(regs["IRQ_STS"], SC_IRQ_TEST) = SC_IRQ_TEST
  BY BitValues DEF SC_IRQ_TEST
<1>2. RegWrite(regs, "IRQ_TEST", 1)
        = [regs EXCEPT !["IRQ_STS"] = SetBit(regs["IRQ_STS"], SC_IRQ_TEST)]
  <2>1. \A f : RegWrite(f, "IRQ_TEST", 1)
                 = [f EXCEPT !["IRQ_STS"] = SetBit(f["IRQ_STS"], SC_IRQ_TEST)]
    BY DEF RegWrite
  <2> QED
    BY <2>1
<1> QED
  BY <1>1, <1>2 DEF MmioWrite, RaiseIrq

(* Each write of the tests leaves the device as its next place says.       *)
LEMMA WriteTested ==
    ASSUME BufSize # 0, regs \in [RegNames -> Nat], intx \in BOOLEAN, n \in 1 .. 24,
           Tested, Place(n).op = "write", MmioWrite(Place(n).reg, Place(n).val),
           n' = n + 1, UNCHANGED failed
    PROVE  Tested'
<1> USE DEF Tested, BusyExact, DmaTested, IrqTested, ScratchWritten
<1>1. \A r, v : LET a == Writes(r, v) IN a.op = "write" /\ a.reg = r /\ a.val = v
  BY DEF Writes
<1>2. CASE n \in {3, 5, 7, 9, 11, 13}
  <2>1. PICK r \in {"SCRATCH0", "SCRATCH1"}, v \in Nat :
            /\ Place(n) = Writes(r, v)
            /\ n = 3 => r = "SCRATCH0" /\ v = 0
            /\ n = 5 => r = "SCRATCH1" /\ v = 15
            /\ n = 7 => r = "SCRATCH0" /\ v = 10
            /\ n = 9 => r = "SCRATCH1" /\ v = 7
            /\ n = 11 => r = "SCRATCH0" /\ v = 14
    BY <1>2, PlaceIs
  <2>2. regs' = [regs EXCEPT ![r] = v] /\ UNCHANGED <<dma, intx, msix, moved, asked>>
    BY <1>1, <2>1, PlainWrite
  <2>3. regs'[r] = v /\ regs'["DMA_STS"] = regs["DMA_STS"] /\ regs'["IRQ_STS"] = regs["IRQ_STS"]
    BY <2>1, <2>2 DEF RegNames
  <2> QED
    BY <1>2, <2>1, <2>2, <2>3
<1>3. CASE n = 14
  <2>1. Place(n) = Writes("CTRL", SC_CTRL_RESET)
    BY <1>3, PlaceIs
  <2>2. regs' = RegReset /\ UNCHANGED <<dma, intx, msix, moved, asked>>
    BY <1>1, <2>1, ResetWrite
  <2>3. RegReset["SCRATCH0"] = 0 /\ RegReset["DMA_STS"] = 0 /\ RegReset["IRQ_STS"] = 0
    BY DEF RegReset, set_mac, Zeros, RegNames
  <2> QED
    BY <1>3, <2>2, <2>3
<1>4. CASE n = 18
  <2>1. Place(n) = Writes("DMA_LEN", 1)
    BY <1>4, PlaceIs
  <2>2. regs' = [regs EXCEPT !["DMA_LEN"] = 1] /\ UNCHANGED <<dma, intx, msix, moved, asked>>
    BY <1>1, <2>1, PlainWrite
  <2>3. /\ regs'["DMA_LEN"] = 1 /\ regs'["DMA_STS"] = regs["DMA_STS"]
        /\ regs'["IRQ_STS"] = regs["IRQ_STS"]
    BY <2>2 DEF RegNames
  <2> QED
    BY <1>4, <2>2, <2>3
<1>5. CASE n = 19
  <2>1. Place(n) = Writes("DMA_CTRL", SC_DMA_START)
    BY <1>5, PlaceIs
  <2>2. /\ regs' = [regs EXCEPT !["DMA_CTRL"] = 1, !["DMA_STS"] = SC_STATUS_DMA_BSY]
        /\ dma' = [start |-> TRUE, write |-> FALSE, irq |-> FALSE, len |-> regs["DMA_LEN"]]
        /\ asked' = [write |-> FALSE, len |-> Capped(regs["DMA_LEN"])]
        /\ UNCHANGED <<intx, msix, moved>>
    BY <1>1, <2>1, StartWrite
  <2>3. regs'["DMA_STS"] = SC_STATUS_DMA_BSY /\ regs'["IRQ_STS"] = regs["IRQ_STS"]
    BY <2>2 DEF RegNames
  <2>4. Capped(regs["DMA_LEN"]) = 1
    BY <1>5, QemuNicAssumption DEF Capped
  <2> QED
    BY <1>5, <2>2, <2>3, <2>4
<1>6. CASE n \in {21, 24}
  <2>1. Place(n) = Writes("IRQ_STS", SC_IRQ_TEST)
    BY <1>6, PlaceIs
  <2>2. /\ regs' = [regs EXCEPT !["IRQ_STS"] = 0] /\ intx' = FALSE
        /\ UNCHANGED <<dma, msix, moved, asked>>
    <3>1. MmioWrite("IRQ_STS", SC_IRQ_TEST)
      BY <1>1, <2>1
    <3>2. regs["IRQ_STS"] \in {0, SC_IRQ_TEST} /\ ~msix
      OBVIOUS
    <3> QED
      BY <3>1, <3>2, AckWrite
  <2>3. regs'["IRQ_STS"] = 0 /\ regs'["DMA_STS"] = regs["DMA_STS"]
    BY <2>2 DEF RegNames
  <2> QED
    BY <1>6, <2>2, <2>3
<1>7. CASE n = 22
  <2>1. Place(n) = Writes("IRQ_TEST", 1)
    BY <1>7, PlaceIs
  <2>2. /\ regs' = [regs EXCEPT !["IRQ_STS"] = SC_IRQ_TEST] /\ intx' = TRUE
        /\ UNCHANGED <<dma, msix, moved, asked>>
    <3>1. MmioWrite("IRQ_TEST", 1)
      BY <1>1, <2>1
    <3>2. regs["IRQ_STS"] = 0 /\ ~msix
      BY <1>7
    <3> QED
      BY <3>1, <3>2, TestIrqWrite
  <2>3. regs'["IRQ_STS"] = SC_IRQ_TEST /\ regs'["DMA_STS"] = regs["DMA_STS"]
    BY <2>2 DEF RegNames
  <2> QED
    BY <1>7, <2>2, <2>3
<1>8. n \in {3, 5, 7, 9, 11, 13, 14, 18, 19, 21, 22, 24}
  <2>1. \A s, r, w : Reads(s, r, w).op # "write"
    BY DEF Reads
  <2>2. n \notin {1, 2, 4, 6, 8, 10, 12, 15, 16, 17, 20, 23}
    BY <2>1, PlaceIs
  <2> QED
    BY <2>2
<1> QED
  BY <1>2, <1>3, <1>4, <1>5, <1>6, <1>7, <1>8

(* Each read of the tests finds what its test wants.                       *)
LEMMA ReadTested ==
    ASSUME regs \in [RegNames -> Nat], n \in 1 .. 24, Tested, Place(n).op = "read"
    PROVE  RegRead(regs, Place(n).reg) \in Place(n).want
<1> USE DEF Tested, IrqTested, ScratchWritten
<1>1. \A s, r, w : LET a == Reads(s, r, w) IN a.op = "read" /\ a.reg = r /\ a.want = w
  BY DEF Reads
<1>2. /\ RegRead(regs, "DEV_ID") = SC_DEV_ID /\ RegRead(regs, "STATUS") = SC_STATUS_READY
      /\ \A r \in {"SCRATCH0", "SCRATCH1", "MAC_LO", "MAC_HI", "IRQ_STS"} :
            RegRead(regs, r) = regs[r]
  BY DEF RegRead
<1>3. SC_STATUS_READY \in WithBit(SC_STATUS_READY) /\ SC_IRQ_TEST \in WithBit(SC_IRQ_TEST)
  BY BitValues DEF WithBit, SC_STATUS_READY, SC_IRQ_TEST
<1>4. CASE n \in {1, 2, 23}
  BY <1>1, <1>2, <1>3, <1>4, PlaceIs
<1>5. CASE n \in {4, 6, 8, 10, 12, 15}
  BY <1>1, <1>2, <1>5, PlaceIs
<1>6. CASE n \in {16, 17}
  <2>1. regs["MAC_LO"] \in Nat /\ regs["MAC_HI"] \in Nat
    BY DEF RegNames
  <2> QED
    BY <1>1, <1>2, <1>6, <2>1, PlaceIs
<1>7. n \in {1, 2, 4, 6, 8, 10, 12, 15, 16, 17, 23}
  <2>1. \A r, v : Writes(r, v).op # "read"
    BY DEF Writes
  <2>2. n \notin {3, 5, 7, 9, 11, 13, 14, 18, 19, 20, 21, 22, 24}
    BY <2>1, PlaceIs
  <2> QED
    BY <2>2
<1> QED
  BY <1>4, <1>5, <1>6, <1>7

(* Steps of the scan.                                                      *)
LEMMA ScanVerdict ==
    ASSUME OnScript, Mastered, ScanNext \/ ScanNotFound \/ ScanFound
    PROVE  OnScript'
<1>1. pc = "scan" /\ n = 1 /\ failed = {} /\ bar0 = 0 /\ Untouched /\ UNCHANGED <<vars, n, failed>>
  BY DEF ScanNext, ScanNotFound, ScanFound, OnScript
<1>2. Untouched'
  BY <1>1 DEF Untouched, vars, devVars
<1>3. CASE ScanNext \/ ScanNotFound
  BY <1>1, <1>2, <1>3 DEF OnScript, ScanNext, ScanNotFound
<1>4. CASE ScanFound
  <2>1. dev \in Slots /\ dev' = dev /\ pc' = "test"
    BY <1>4, PciTestAssumption DEF ScanFound, Mastered, Slots
  <2>2. PICK bar \in Bars :
            /\ bar # 0 /\ bar0' = bar
            /\ bus' = [bus EXCEPT ![dev].bar = bar, ![dev].cmd = @ \cup {"mem", "master"}]
    <3> DEFINE b == IF bus[dev].bar = 0 THEN PciMmioBase ELSE bus[dev].bar
    <3>1. bus[dev].bar \in Bars
      BY <2>1 DEF Mastered
    <3>2. b \in Bars /\ b # 0
      BY <3>1 DEF Bars, PciMmioBase
    <3>3. /\ bus' = [bus EXCEPT ![dev].bar = b, ![dev].cmd = @ \cup {"mem", "master"}]
          /\ bar0' = b
      BY <1>4 DEF ScanFound
    <3> HIDE DEF b
    <3> QED
      BY <3>2, <3>3
  <2>3. bus[dev] \in [kind : {"none", "other", "smarteth"}, bar : Bars,
                     cmd : SUBSET {"mem", "master"}]
    BY <2>1 DEF Mastered
  <2>4. bus'[dev].bar = bar /\ bus'[dev].cmd = bus[dev].cmd \cup {"mem", "master"}
    BY <2>1, <2>2, <2>3 DEF Mastered
  <2>5. Decoded' /\ bar0' # 0
    BY <2>1, <2>2, <2>4 DEF Decoded
  <2>6. Tested'
    BY <1>1 DEF Untouched, Tested, BusyExact, DmaTested, IrqTested, ScratchWritten, vars, devVars
  <2> QED
    BY <2>1, <2>5, <2>6 DEF OnScript
<1> QED
  BY <1>3, <1>4

(* Steps of the tests.                                                     *)
LEMMA TestVerdict ==
    ASSUME BufSize # 0, OnScript, PciTypeOK,
           TestWrites \/ TestReads \/ PollDma \/ PollTimeout \/ TestsEnd
    PROVE  OnScript'
<1>1. pc = "test" /\ bar0 # 0 /\ Decoded /\ Tested
  BY DEF OnScript, TestWrites, TestReads, PollDma, PollTimeout, TestsEnd, At
<1>2. UNCHANGED <<bus, dev, bar0>> /\ Decoded'
  BY <1>1 DEF Decoded, TestWrites, TestReads, PollDma, PollTimeout, TestsEnd
<1>3. Len(Script) = 24 /\ \A i \in 1 .. 24 : Script[i] = Place(i)
  BY ScriptPlaces
<1>4. n \in 1 .. 25 /\ regs \in [RegNames -> Nat] /\ intx \in BOOLEAN
  BY <1>3 DEF PciTypeOK, TypeOK
<1>5. CASE TestWrites
  <2>1. n \in 1 .. 24 /\ Place(n).op = "write" /\ UNCHANGED <<pc, failed>> /\ n' = n + 1
    BY <1>3, <1>4, <1>5 DEF TestWrites, At
  <2>2. MmioWrite(Place(n).reg, Place(n).val)
    BY <1>1, <1>3, <1>5, <2>1 DEF TestWrites
  <2>3. Tested'
    BY <1>1, <1>4, <2>1, <2>2, WriteTested
  <2> QED
    BY <1>1, <1>2, <2>1, <2>3 DEF OnScript
<1>6. CASE TestReads
  <2>1. n \in 1 .. 24 /\ Place(n).op = "read" /\ UNCHANGED <<vars, pc>>
    BY <1>3, <1>4, <1>6 DEF TestReads, At
  <2>2. MmioRead(Script[n].reg) \in Script[n].want
    BY <1>1, <1>3, <1>4, <2>1, ReadTested DEF MmioRead
  <2>3. n' = n + 1 /\ failed' = failed
    BY <1>6, <2>2 DEF TestReads
  <2>4. n \notin {3, 5, 7, 9, 11, 13, 14, 18, 19, 20, 21, 22, 24}
    <3>1. \A r, v : Writes(r, v).op # "read"
      BY DEF Writes
    <3> QED
      BY <2>1, <3>1, PlaceIs
  <2>5. Tested'
    BY <1>1, <2>1, <2>3, <2>4
    DEF Tested, BusyExact, DmaTested, IrqTested, ScratchWritten, vars, devVars
  <2> QED
    BY <1>1, <1>2, <2>1, <2>5 DEF OnScript
<1>7. CASE PollDma \/ PollTimeout
  <2>1. n \in 1 .. 24 /\ Place(n).op = "poll" /\ UNCHANGED <<vars, pc>>
    BY <1>3, <1>4, <1>7 DEF PollDma, PollTimeout, At
  <2>2. n = 20
    <3>1. (\A r, v : Writes(r, v).op # "poll") /\ (\A s, r, w : Reads(s, r, w).op # "poll")
      BY DEF Writes, Reads
    <3>2. n \notin {1, 2, 3, 4, 5, 6, 7, 8, 9, 10, 11, 12}
      BY <2>1, <3>1, PlaceIs
    <3>3. n \notin {13, 14, 15, 16, 17, 18, 19, 21, 22, 23, 24}
      BY <2>1, <3>1, PlaceIs
    <3> QED
      BY <2>1, <3>2, <3>3
  <2>3. dma.start => Busy
    <3>1. dma.start => regs["DMA_STS"] = SC_STATUS_DMA_BSY
      BY <1>1 DEF Tested, BusyExact
    <3>2. MmioRead("DMA_STS") = regs["DMA_STS"]
      BY <1>1 DEF MmioRead, RegRead
    <3> QED
      BY <3>1, <3>2, BitValues DEF Busy, SC_STATUS_DMA_BSY
  <2>4. /\ failed' \subseteq {"dma"} /\ n' \in {20, 21}
        /\ n' = 21 => "dma" \in failed' \/ ~dma.start
    <3>1. failed \subseteq {"dma"}
      BY <1>1 DEF Tested
    <3>2. CASE PollTimeout
      <4>1. n' = n + 1 /\ failed' = failed \cup {"dma"}
        BY <3>2 DEF PollTimeout
      <4> QED
        BY <2>2, <3>1, <4>1
    <3>3. CASE PollDma /\ Busy
      <4>1. n' = n /\ failed' = failed
        BY <3>3 DEF PollDma
      <4> QED
        BY <2>2, <3>1, <4>1
    <3>4. CASE PollDma /\ ~Busy
      <4>1. n' = 21 /\ (failed' = failed \/ failed' = failed \cup {"dma"})
        BY <2>2, <3>4 DEF PollDma
      <4> QED
        BY <2>3, <3>1, <3>4, <4>1
    <3> QED
      BY <1>7, <3>2, <3>3, <3>4
  <2>5. Tested'
    BY <1>1, <2>1, <2>2, <2>4
    DEF Tested, BusyExact, DmaTested, IrqTested, ScratchWritten, vars, devVars
  <2> QED
    BY <1>1, <1>2, <2>1, <2>5 DEF OnScript
<1>8. CASE TestsEnd
  <2>1. n = 25 /\ pc' = "done" /\ UNCHANGED <<vars, n, failed>>
    BY <1>3, <1>4, <1>8 DEF TestsEnd
  <2>2. Tested'
    BY <1>1, <2>1 DEF Tested, BusyExact, DmaTested, IrqTested, ScratchWritten, vars, devVars
  <2> QED
    BY <1>1, <1>2, <2>1, <2>2 DEF OnScript
<1> QED
  BY <1>5, <1>6, <1>7, <1>8

(* The timer ends the transfer of the tests and raises no interrupt.       *)
LEMMA TimerVerdict ==
    ASSUME DevInv, OnScript, PciTypeOK, UNCHANGED fwVars, DmaTimer
    PROVE  OnScript'
<1>1. UNCHANGED <<bus, dev, bar0, pc, n, failed>> /\ (Decoded => Decoded')
  BY DEF fwVars, Decoded
<1>2. dma.start /\ ~dma'.start /\ moved' = asked /\ UNCHANGED <<msix, asked>>
  BY TimerStep DEF DmaTimer
<1>3. ASSUME Tested PROVE Tested'
  <2>1. n >= 20 /\ n \in Nat /\ ~dma.irq
    BY <1>2, <1>3 DEF Tested, DmaTested, PciTypeOK
  <2>2. regs' = [regs EXCEPT !["DMA_STS"] = 0] /\ intx' = intx
    BY <2>1 DEF DmaTimer, DmaIdle
  <2>3. dma' = [dma EXCEPT !.start = FALSE, !.len = Capped(@)]
    BY DEF DmaTimer
  <2>4. dma'.irq = dma.irq
    BY <2>3 DEF PciTypeOK, TypeOK
  <2>5. regs'["DMA_STS"] = 0 /\ \A r \in RegNames \ {"DMA_STS"} : regs'[r] = regs[r]
    BY <2>2 DEF PciTypeOK, TypeOK, RegNames
  <2>6. regs'["IRQ_STS"] = regs["IRQ_STS"]
    BY <2>5 DEF RegNames
  <2> QED
    BY <1>1, <1>2, <1>3, <2>1, <2>2, <2>4, <2>5, <2>6
    DEF Tested, BusyExact, DmaTested, IrqTested, ScratchWritten
<1> QED
  BY <1>1, <1>2, <1>3 DEF OnScript, Untouched

(* Every step keeps the script's invariant.                                *)
LEMMA VerdictStep ==
    ASSUME BufSize # 0, DevInv, Mastered, PciTypeOK, OnScript, [PciNext]_allVars
    PROVE  OnScript'
<1>1. CASE ScanNext \/ ScanNotFound \/ ScanFound
  BY <1>1, ScanVerdict
<1>2. CASE TestWrites \/ TestReads \/ PollDma \/ PollTimeout \/ TestsEnd
  BY <1>2, TestVerdict
<1>3. CASE UNCHANGED fwVars /\ DmaTimer
  BY <1>3, TimerVerdict
<1>4. CASE UNCHANGED fwVars /\ pc = "os"
  BY <1>4 DEF fwVars, OnScript
<1>5. CASE UNCHANGED allVars
  BY <1>5 DEF allVars, fwVars, vars, devVars, OnScript, Untouched, Decoded, Tested, BusyExact,
              DmaTested, IrqTested, ScratchWritten
<1> QED
  BY <1>1, <1>2, <1>3, <1>4, <1>5 DEF PciNext, Firmware, Handler

(* It holds at the start.                                                  *)
LEMMA VerdictStart == ASSUME PciInit PROVE OnScript
<1>1. /\ regs = RegInit /\ intx = FALSE
      /\ dma = [start |-> FALSE, write |-> FALSE, irq |-> FALSE, len |-> 0]
      /\ pc = "os" \/ (pc = "scan" /\ ~msix)
      /\ n = 1 /\ failed = {} /\ bar0 = 0
  BY DEF PciInit, Init
<1>2. RegInit["IRQ_STS"] = 0 /\ RegInit["DMA_STS"] = 0
  BY DEF RegInit, set_mac, Zeros, RegNames
<1> QED
  BY <1>1, <1>2 DEF OnScript, Untouched

(* It implies that the verdicts are right.                                 *)
LEMMA VerdictsRight == ASSUME OnScript, PciTypeOK PROVE DoneRight
<1>1. SUFFICES ASSUME pc = "done" PROVE VerdictHonest /\ QuietAtEnd
  BY DEF DoneRight
<1>2. CASE bar0 = 0
  BY <1>1, <1>2 DEF OnScript, Untouched, VerdictHonest, QuietAtEnd
<1>3. CASE bar0 # 0
  <2>1. n = 25 /\ Tested
    BY <1>1, <1>3 DEF OnScript
  <2> QED
    BY <2>1 DEF Tested, DmaTested, IrqTested, VerdictHonest, QuietAtEnd
<1> QED
  BY <1>2, <1>3

(* What the tests report is so: a DMA test not reported as failed has      *)
(* moved its data, no other test fails on a bus with the device, and no    *)
(* interrupt is left behind, for every bus, poll limit and tick rate       *)
(* (pci_test.c:155-334).  The device's buffer has room.                    *)
THEOREM VerdictsHold == ASSUME BufSize # 0 PROVE PciSpec => []DoneRight
<1>1. DevInv /\ Mastered /\ PciTypeOK /\ OnScript /\ [PciNext]_allVars => OnScript'
  BY VerdictStep
<1>2. PciTypeOK /\ OnScript => DoneRight
  BY VerdictsRight
<1> QED
  BY VerdictStart, PciInvariant, TypeCorrect, <1>1, <1>2, PTL DEF PciSpec
=============================================================================
