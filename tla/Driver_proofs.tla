---------------------------- MODULE Driver_proofs ----------------------------
(***************************************************************************)
(* Proofs about the Linux driver, for every ring size, every set of        *)
(* writers and every environment: what it holds, wherever probe fails,     *)
(* remove stands, and the interrupt handler runs.                          *)
(***************************************************************************)
EXTENDS Driver, FiniteSetTheorems, TLAPS

(* What probe has obtained before its step n, and what the labels from n   *)
(* on release.                                                             *)
Got(n) == {ProbeSteps[i].get : i \in {j \in 1 .. 11 : j < n}}
Left(n) == UNION {Unwind[i] : i \in n .. 5}
Untracked == {"master", "mask"}

(* The places of the driver core.                                          *)
Placed ==
    core \in [pc : {"unbound", "probe", "bound", "drain", "remove", "unwind"}, n : 1 .. 13]

(***************************************************************************)
(* The inductive invariant: the resources held follow from the place in    *)
(* probe, remove or the labels, and the handler is active only while the   *)
(* interrupt is requested.                                                 *)
(***************************************************************************)
Possession ==
    /\ core.pc = "unbound" => held = {}
    /\ core.pc = "probe" => core.n \in 1 .. 13 /\ held = Got(core.n)
    /\ core.pc \in {"bound", "drain", "remove"} => held = Got(13)
    /\ core.pc = "unwind" =>
          /\ core.n \in 1 .. 6
          /\ held \ (Devm \cup Untracked) = Left(core.n) \ Untracked
          /\ core.n < 6 => "adapter" \in held
          /\ core.n = 6 => held \cap Untracked = {}
    /\ isr # IsrIdle => "irq" \in held

(* Receive buffers exist from their preparation to remove, or, if one of   *)
(* them cannot be prepared, until the adapter is gone.                     *)
BuffersKept ==
    /\ rx_buf # {} =>
          \/ core.pc = "probe" /\ core.n >= 12
          \/ core.pc \in {"bound", "drain", "remove"}
          \/ core.pc = "unwind" /\ bind \in short
    /\ lost \subseteq short

-----------------------------------------------------------------------------
(* The tables of probe and of its labels. *)

(* Each step of probe, with what it obtains and where its failure goes     *)
(* (smarteth_main.c:372-471).                                              *)
LEMMA StepAt ==
    /\ Len(ProbeSteps) = 11
    /\ ProbeSteps[1] = Step("adapter", 6) /\ ProbeSteps[2] = Step("enabled", 6)
    /\ ProbeSteps[3] = Step("mask", 5)    /\ ProbeSteps[4] = Step("region", 5)
    /\ ProbeSteps[5] = Step("iomap", 4)   /\ ProbeSteps[6] = Step("master", 3)
    /\ ProbeSteps[7] = Step("vectors", 3) /\ ProbeSteps[8] = Step("irq", 2)
    /\ ProbeSteps[9] = Step("tx_ring", 1) /\ ProbeSteps[10] = Step("rx_ring", 1)
    /\ ProbeSteps[11] = Step("arrays", 1)
BY DEF ProbeSteps

(* What each label releases (smarteth_main.c:504-514).                     *)
LEMMA LabelAt ==
    /\ Len(Unwind) = 5
    /\ Unwind[1] = {"irq"} /\ Unwind[2] = {"vectors"} /\ Unwind[3] = {"iomap"}
    /\ Unwind[4] = {"region"} /\ Unwind[5] = {"enabled", "master", "mask"}
BY DEF Unwind

(* A step that succeeds adds what it obtains.                              *)
LEMMA GotNext ==
    ASSUME NEW n \in 1 .. 11
    PROVE  Got(n + 1) = Got(n) \cup {ProbeSteps[n].get}
<1>1. {j \in 1 .. 11 : j < n + 1} = {j \in 1 .. 11 : j < n} \cup {n}
  OBVIOUS
<1> QED
  BY <1>1 DEF Got

(* What is held at each step, by name.                                     *)
LEMMA GotAt ==
    /\ Got(1) = {} /\ Got(2) = {"adapter"} /\ Got(3) = {"adapter", "enabled"}
    /\ Got(4) = Got(3) \cup {"mask"} /\ Got(5) = Got(4) \cup {"region"}
    /\ Got(6) = Got(5) \cup {"iomap"} /\ Got(7) = Got(6) \cup {"master"}
    /\ Got(8) = Got(7) \cup {"vectors"} /\ Got(9) = Got(8) \cup {"irq"}
    /\ Got(10) = Got(9) \cup {"tx_ring"} /\ Got(11) = Got(10) \cup {"rx_ring"}
    /\ Got(12) = Got(11) \cup {"arrays"} /\ Got(13) = Got(12)
<1>1. Got(1) = {}
  BY DEF Got
<1>2. Got(13) = Got(12)
  BY DEF Got
<1> QED
  BY <1>1, <1>2, GotNext, StepAt DEF Step

(* What is left at each label, by name.                                    *)
LEMMA LeftAt ==
    /\ Left(6) = {} /\ Left(5) = {"enabled", "master", "mask"}
    /\ Left(4) = Left(5) \cup {"region"} /\ Left(3) = Left(4) \cup {"iomap"}
    /\ Left(2) = Left(3) \cup {"vectors"} /\ Left(1) = Left(2) \cup {"irq"}
<1>1. \A n \in 1 .. 5 : Left(n) = Left(n + 1) \cup Unwind[n]
  <2> SUFFICES ASSUME NEW n \in 1 .. 5 PROVE Left(n) = Left(n + 1) \cup Unwind[n]
    OBVIOUS
  <2>1. n .. 5 = (n + 1 .. 5) \cup {n}
    OBVIOUS
  <2> QED
    BY <2>1 DEF Left
<1>2. Left(6) = {}
  BY DEF Left
<1> QED
  BY <1>1, <1>2, LabelAt

-----------------------------------------------------------------------------
(* Possession is kept. *)

(* A failure at step n of probe goes to the label that releases what was   *)
(* obtained before it (smarteth_main.c:372-471, 504-514).                  *)
LEMMA FailureReleases ==
    ASSUME NEW n \in 1 .. 11, NEW g, g = Got(n) \cup ({ProbeSteps[n].get} \cap {"master"})
    PROVE  LET k == ProbeSteps[n].label
           IN /\ k \in 1 .. 6
              /\ g \ (Devm \cup Untracked) = Left(k) \ Untracked
              /\ k < 6 => "adapter" \in g
              /\ k = 6 => g \cap Untracked = {}
<1> USE StepAt, GotAt, LeftAt DEF Step, Devm, Untracked
<1>1. CASE n \in {1, 2, 3, 4}
  BY <1>1
<1>2. CASE n \in {5, 6, 7, 8}
  BY <1>2
<1>3. CASE n \in {9, 10, 11}
  BY <1>3
<1> QED
  BY <1>1, <1>2, <1>3

(* A label releases its own and goes on to the next.                       *)
LEMMA LabelReleases ==
    ASSUME NEW k \in 1 .. 5, NEW h, h \ (Devm \cup Untracked) = Left(k) \ Untracked,
           "adapter" \in h
    PROVE  LET g == h \ Unwind[k]
           IN /\ g \ (Devm \cup Untracked) = Left(k + 1) \ Untracked
              /\ "adapter" \in g
              /\ k = 5 => g \cap Untracked = {}
<1> USE LabelAt, LeftAt DEF Devm, Untracked
<1>1. CASE k \in {1, 2}
  BY <1>1
<1>2. CASE k \in {3, 4, 5}
  BY <1>2
<1> QED
  BY <1>1, <1>2

(* All labels together release what is held once probe has succeeded.      *)
LEMMA AllReleased == Got(13) \ (Devm \cup Untracked) = Left(1) \ Untracked
BY GotAt, LeftAt DEF Devm, Untracked

(* Outside the driver core, the resources and its place are left alone.    *)
LEMMA OthersKeep ==
    ASSUME \/ Handler \/ NicDma \/ NicRx
           \/ \E w \in Writers :
                 Test(w) \/ \E k \in env.kinds : TestStart(w, k) \/ TestFails(w, k)
    PROVE  UNCHANGED <<env, probeVars>> /\ (isr' # IsrIdle => isr # IsrIdle \/ "irq" \in held)
<1> USE DEF probeVars, IsrIdle
<1>1. CASE Handler
  BY <1>1 DEF Handler, IsrRead, IsrAck
<1>2. CASE NicDma \/ NicRx
  BY <1>2 DEF NicDma, NicRx
<1>3. ASSUME NEW w \in Writers, Test(w) PROVE UNCHANGED <<env, probeVars, isr>>
  BY <1>3 DEF Test, DmaProgram, DmaStart, TxHead, TxFill, TxDoorbell, IrqTrigger, WaitDone,
     WaitTimeout,              TestEnd
<1>4. ASSUME NEW w \in Writers, NEW k \in env.kinds, TestStart(w, k) \/ TestFails(w, k)
      PROVE  UNCHANGED <<env, probeVars, isr>>
  BY <1>4 DEF TestStart, TestFails
<1> QED
  BY <1>1, <1>2, <1>3, <1>4

(* The driver core stays among its places.                                 *)
LEMMA CorePlaced == ASSUME Placed, Probe \/ Unbind \/ Core PROVE Placed'
<1>1. CASE ProbeStep
  <2>1. core.n \in 1 .. 11 /\ ProbeSteps[core.n].label \in 1 .. 6
    BY <1>1, StepAt DEF ProbeStep, Placed, Step
  <2> QED
    BY <1>1, <2>1 DEF ProbeStep, Placed, FailGoesTo
<1>2. CASE PrepareRx \/ ConfigureRings \/ EnableIrqs
  BY <1>2, StepAt DEF Placed, PrepareRx, ConfigureRings, EnableIrqs
<1>3. CASE UnwindStep \/ UnwindEnd
  BY <1>3, LabelAt DEF Placed, UnwindStep, UnwindEnd
<1>4. CASE Probe \/ Unbind \/ Remove \/ FreeRxBuffers
  BY <1>4 DEF Placed, Probe, Unbind, Remove, FreeRxBuffers
<1> QED
  BY <1>1, <1>2, <1>3, <1>4 DEF Core

(* The driver core keeps Possession.                                       *)
LEMMA CoreKeeps == ASSUME Placed, Possession, Probe \/ Unbind \/ Core PROVE Possession'
<1>1. CASE Probe
  <2>1. core'.pc = "probe" /\ core'.n = 1
    BY <1>1 DEF Probe
  <2>2. held' = {} /\ isr' = isr /\ isr = IsrIdle
    BY <1>1 DEF Probe, Possession
  <2>3. Got(1) = {}
    BY GotAt
  <2> QED
    BY <2>1, <2>2, <2>3 DEF Possession
<1>2. CASE Unbind \/ Remove \/ FreeRxBuffers
  BY <1>2, AllReleased, GotAt DEF Possession, Unbind, Remove, FreeRxBuffers, probeVars, Untracked
<1>3. CASE ProbeStep
  <2>1. core.pc = "probe" /\ core.n \in 1 .. 11 /\ held = Got(core.n)
    BY <1>3, StepAt DEF ProbeStep, Possession
  <2>2. CASE held' = held \cup {ProbeSteps[core.n].get} /\ core' = [core EXCEPT !.n = @ + 1]
    BY <1>3, <2>1, <2>2, GotNext, SMTT(30) DEF ProbeStep, Possession
  <2>3. CASE /\ FailGoesTo(core.n)
             /\ held' = held \cup ({ProbeSteps[core.n].get} \cap {"master"})
    <3>1. core'.pc = "unwind" /\ core'.n = ProbeSteps[core.n].label /\ isr' = isr
      BY <1>3, <2>3 DEF ProbeStep, FailGoesTo
    <3>2. isr = IsrIdle \/ ("irq" \in held' /\ "irq" \in held)
      BY <2>3 DEF Possession
    <3>3. /\ core'.n \in 1 .. 6
          /\ held' \ (Devm \cup Untracked) = Left(core'.n) \ Untracked
          /\ core'.n < 6 => "adapter" \in held'
          /\ core'.n = 6 => held' \cap Untracked = {}
      BY <2>1, <2>3, <3>1, FailureReleases
    <3> QED
      BY <3>1, <3>2, <3>3 DEF Possession
  <2> QED
    BY <1>3, <2>2, <2>3 DEF ProbeStep
<1>4. CASE PrepareRx \/ ConfigureRings \/ EnableIrqs
  <2>1. core.pc = "probe" /\ core.n \in 12 .. 13 /\ held = Got(13)
    BY <1>4, StepAt, GotAt DEF Possession, PrepareRx, ConfigureRings, EnableIrqs
  <2> QED
    <3>1. held' = held /\ isr' = isr /\ "adapter" \in held /\ Got(12) = Got(13)
      BY <1>4, <2>1, GotAt DEF PrepareRx, ConfigureRings, EnableIrqs
    <3>2. \/ core'.pc = "probe" /\ core'.n \in 12 .. 13
          \/ core'.pc = "bound"
          \/ core'.pc = "unwind" /\ core'.n = 1
      BY <1>4, <2>1, StepAt DEF PrepareRx, ConfigureRings, EnableIrqs, Placed
    <3>3. core'.pc = "probe" => core'.n \in 1 .. 13 /\ held' = Got(core'.n)
      BY <2>1, <3>1, <3>2
    <3> QED
      BY <2>1, <3>1, <3>2, <3>3, AllReleased DEF Possession
<1>5. CASE UnwindStep
  <2>1. core.pc = "unwind" /\ core.n \in 1 .. 5 /\ "adapter" \in held
    BY <1>5, LabelAt DEF UnwindStep, Possession
  <2>2. isr # IsrIdle => "irq" \in held'
    BY <1>5, <2>1, LabelAt DEF UnwindStep, Possession, HandlerDone
  <2> QED
    BY <1>5, <2>1, <2>2, LabelReleases DEF UnwindStep, Possession
<1>6. CASE UnwindEnd
  <2>1. core.pc = "unwind" /\ core.n = 6
    BY <1>6, LabelAt DEF UnwindEnd
  <2>2. held' = {} /\ "irq" \notin held
    BY <1>6, <2>1, LeftAt DEF UnwindEnd, Possession, Untracked, Devm
  <2> QED
    BY <1>6, <2>1, <2>2 DEF UnwindEnd, Possession
<1> QED
  BY <1>1, <1>2, <1>3, <1>4, <1>5, <1>6 DEF Core

(* Every step keeps Possession.                                            *)
LEMMA PossessionKept == Placed /\ Possession /\ [Next]_vars => (Placed /\ Possession)'
<1> SUFFICES ASSUME Placed, Possession, [Next]_vars PROVE Placed' /\ Possession'
  OBVIOUS
<1>1. CASE Probe \/ Unbind \/ Core
  BY <1>1, CoreKeeps, CorePlaced
<1>2. CASE \/ Handler \/ NicDma \/ NicRx
           \/ \E w \in Writers :
                 Test(w) \/ \E k \in env.kinds : TestStart(w, k) \/ TestFails(w, k)
  BY <1>2, OthersKeep DEF Possession, Placed, probeVars
<1>3. CASE UNCHANGED vars
  BY <1>3 DEF vars, probeVars, Possession, Placed
<1> QED
  BY <1>1, <1>2, <1>3 DEF Next

(* Every step keeps BuffersKept.                                           *)
LEMMA BuffersStay == Placed /\ BuffersKept /\ [Next]_vars => BuffersKept'
<1> SUFFICES ASSUME Placed, BuffersKept, [Next]_vars PROVE BuffersKept'
  OBVIOUS
<1>1. CASE Probe \/ Unbind \/ Remove \/ FreeRxBuffers
  BY <1>1 DEF BuffersKept, Probe, Unbind, Remove, FreeRxBuffers, probeVars
<1>2. CASE ProbeStep
  BY <1>2, StepAt DEF BuffersKept, Placed, ProbeStep, FailGoesTo
<1>3. CASE PrepareRx \/ ConfigureRings \/ EnableIrqs
  <2>1. core.pc = "probe" /\ core.n \in 12 .. 13 /\ bind' = bind /\ lost' = lost
        /\ short \subseteq short'
    BY <1>3, StepAt DEF PrepareRx, ConfigureRings, EnableIrqs
  <2>2. \/ core'.pc = "probe" /\ core'.n >= 12
        \/ core'.pc = "bound"
        \/ core'.pc = "unwind" /\ bind \in short'
    BY <1>3, <2>1, StepAt DEF PrepareRx, ConfigureRings, EnableIrqs, Placed
  <2> QED
    BY <2>1, <2>2 DEF BuffersKept
<1>4. CASE \/ Handler \/ NicDma \/ NicRx
           \/ \E w \in Writers :
                 Test(w) \/ \E k \in env.kinds : TestStart(w, k) \/ TestFails(w, k)
  BY <1>4, OthersKeep DEF BuffersKept, probeVars
<1>5. CASE UNCHANGED vars
  BY <1>5 DEF vars, probeVars, BuffersKept
<1>6. CASE UnwindStep
  BY <1>6 DEF BuffersKept, UnwindStep
<1>7. CASE UnwindEnd
  BY <1>7 DEF BuffersKept, UnwindEnd
<1> QED
  BY <1>1, <1>2, <1>3, <1>4, <1>5, <1>6, <1>7 DEF Next, Core

-----------------------------------------------------------------------------
(* The invariant holds throughout.                                         *)
LEMMA Invariant == Spec => [](Placed /\ Possession /\ BuffersKept)
<1>1. Init => Placed /\ Possession /\ BuffersKept
  BY DEF Init, Placed, Possession, BuffersKept
<1>2. (Placed /\ Possession /\ BuffersKept) /\ [Next]_vars
          => (Placed /\ Possession /\ BuffersKept)'
  BY PossessionKept, BuffersStay
<1> QED
  BY <1>1, <1>2, PTL DEF Spec

(***************************************************************************)
(* Wherever probe fails, and after remove, everything is released, but for *)
(* the receive buffers that were mapped when preparing another one failed  *)
(* (smarteth_main.c:95-103, 381-536).                                      *)
(***************************************************************************)
THEOREM ProbeUnwinds == Spec => []CleanUnwind
<1>1. Possession /\ BuffersKept => CleanUnwind
  <2> SUFFICES ASSUME Possession, BuffersKept PROVE CleanUnwind
    OBVIOUS
  <2>1. Len(Unwind) = 5
    BY LabelAt
  <2>2. ASSUME core.pc = "unwind"
        PROVE  held \ (Devm \cup Untracked)
                   = (UNION {Unwind[i] : i \in core.n .. Len(Unwind)}) \ Untracked
    BY <2>1, <2>2 DEF Possession, Left
  <2>3. ASSUME core.pc = "unbound" PROVE held = {} /\ rx_buf = {}
    BY <2>3 DEF Possession, BuffersKept
  <2> QED
    BY <2>2, <2>3 DEF CleanUnwind, Untracked, BuffersKept
<1> QED
  BY <1>1, Invariant, PTL

(***************************************************************************)
(* The interrupt handler never runs without the adapter, the registers it  *)
(* reads, and the interrupt it serves (smarteth_main.c:179-206).           *)
(***************************************************************************)
THEOREM HandlerHasDevice == Spec => []HandlerSafe
<1>1. Placed /\ Possession => HandlerSafe
  <2> SUFFICES ASSUME Placed, Possession, "irq" \in held PROVE {"adapter", "iomap"} \subseteq held
    BY DEF Possession, HandlerSafe
  <2>1. CASE core.pc = "probe"
    BY <2>1, GotAt DEF Possession
  <2>2. CASE core.pc = "unwind"
    BY <2>2, LeftAt DEF Possession, Devm, Untracked
  <2>3. CASE core.pc \in {"unbound", "bound", "drain", "remove"}
    BY <2>3, GotAt DEF Possession
  <2> QED
    BY <2>1, <2>2, <2>3 DEF Placed
<1> QED
  BY <1>1, Invariant, PTL

-----------------------------------------------------------------------------
(* Types. *)

(* Tests are numbered from 0 to what the environment allows.               *)
LEMMA IdsAre ==
    ASSUME env \in Envs
    PROVE  /\ 0 \in Ids /\ Ids \subseteq Nat
           /\ env \in Environment /\ env.tests \in Nat
           /\ \A n \in Ids : n < env.tests => n + 1 \in Ids
<1>1. \A e \in Envs : e \in Environment /\ e.tests \in Nat
  BY DriverAssumption DEF Environment
<1>2. Ids \subseteq Nat /\ 0 \in Ids
  BY <1>1 DEF Ids
<1>3. ASSUME NEW n \in Ids, n < env.tests PROVE n + 1 \in Ids
  <2>1. n + 1 \in 0 .. env.tests
    BY <1>1, <1>2, <1>3
  <2> QED
    BY <2>1 DEF Ids
<1> QED
  BY <1>1, <1>2, <1>3

(* The next slot of a ring, and the slot of the next buffer.               *)
LEMMA NextSlot == 0 \in Slots /\ \A i \in Slots : Next1(i) \in Slots
BY DriverAssumption DEF Slots, Next1

\* While a buffer is missing, the count of those allocated is a free slot.
LEMMA FreeSlot == ASSUME rx_buf \subseteq Slots, rx_buf # Slots PROVE Cardinality(rx_buf) \in Slots
<1>1. IsFiniteSet(Slots) /\ Cardinality(Slots) = RingSize
  BY FS_Interval, DriverAssumption DEF Slots
<1>2. Cardinality(rx_buf) \in Nat /\ Cardinality(rx_buf) <= RingSize
  BY <1>1, FS_Subset, FS_CardinalityType
<1>3. Cardinality(rx_buf) # RingSize
  BY <1>1, <1>2, FS_Subset
<1> QED
  BY <1>2, <1>3, DriverAssumption DEF Slots

(* A cause is counted once, and there are finitely many.                   *)
LEMMA CountsCauses == ASSUME NEW S \in SUBSET Causes PROVE Completions(S) \in Nat
<1>1. IsFiniteSet(Causes)
  <2>1. IsFiniteSet({"DMA_DONE"}) /\ IsFiniteSet({"RX"}) /\ IsFiniteSet({"TEST"})
    BY FS_Singleton
  <2>2. Causes = ({"DMA_DONE"} \cup {"RX"}) \cup {"TEST"}
    BY DEF Causes
  <2> QED
    BY <2>1, <2>2, FS_Union
<1> QED
  BY <1>1, FS_Subset, FS_CardinalityType DEF Completions

(* The initial state is typed.                                             *)
LEMMA InitTypes == Init => TypeOK
<1> SUFFICES ASSUME Init PROVE TypeOK
  OBVIOUS
<1>1. env \in Envs /\ 0 \in Ids /\ 0 \in Slots
  BY IdsAre, NextSlot DEF Init
<1>2. tester \in [Writers -> TesterRecord]
  BY <1>1 DEF Init, NoTest, TesterRecord
<1>3. nic \in NicRecord
  BY <1>1 DEF Init, NicRecord
<1>4. isr \in [pc : {"idle", "ack"}, sts : SUBSET Causes] /\ tx_desc \in [Slots -> Ids]
  BY <1>1 DEF Init, IsrIdle
<1>5. /\ core \in [pc : {"unbound", "probe", "bound", "drain", "remove", "unwind"}, n : 1 .. 13]
      /\ held \subseteq Resources /\ rx_buf \cup rx_own \subseteq Slots
      /\ mapped \cup served \subseteq Ids /\ short \cup lost \subseteq Nat
  BY DEF Init
<1>6. /\ bind \in Nat /\ frames \in Nat /\ tests \in Ids /\ test_done \in Nat
      /\ tx_head \in Slots /\ strayed \in BOOLEAN
  BY <1>1 DEF Init
<1> QED
  BY <1>1, <1>2, <1>3, <1>4, <1>5, <1>6 DEF TypeOK

(* The driver core keeps the types.                                        *)
LEMMA CoreTypes == ASSUME TypeOK, Probe \/ Unbind \/ Core PROVE TypeOK'
<1> USE DEF TypeOK, probeVars, testVars, ghostVars
<1>1. Placed'
  BY CorePlaced DEF Placed
<1>2. 0 \in Ids /\ 0 \in Slots
  BY IdsAre, NextSlot
<1>3. CASE Probe
  BY <1>1, <1>2, <1>3 DEF Probe, Placed
<1>4. CASE ProbeStep
  <2>1. core.n \in 1 .. 11 /\ ProbeSteps[core.n].get \in Resources
    <3>1. DOMAIN ProbeSteps = 1 .. 11 /\ core.n \in 1 .. 11
      BY <1>4, StepAt DEF ProbeStep, ProbeSteps
    <3> QED
      BY <3>1 DEF Resources
  <2> QED
    BY <1>1, <1>4, <2>1 DEF ProbeStep, Placed
<1>5. CASE PrepareRx
  BY <1>1, <1>5, FreeSlot DEF PrepareRx, Placed
<1>6. CASE ConfigureRings \/ EnableIrqs
  <2>1. nic' \in NicRecord
    <3>1. CASE ConfigureRings
      BY <3>1 DEF ConfigureRings, NicRecord
    <3>2. CASE EnableIrqs
      BY <3>2 DEF EnableIrqs, NicRecord
    <3> QED
      BY <1>6, <3>1, <3>2
  <2> QED
    BY <1>1, <1>6, <2>1 DEF ConfigureRings, EnableIrqs, Placed, NicRecord
<1>7. CASE UnwindStep \/ UnwindEnd
  <2>1. held' \subseteq Resources
    BY <1>7 DEF UnwindStep, UnwindEnd
  <2>2. nic' \in NicRecord
    BY <1>7 DEF UnwindStep, UnwindEnd, NicRecord
  <2> QED
    BY <1>1, <1>7, <2>1, <2>2 DEF UnwindStep, UnwindEnd, Placed, NicRecord
<1>8. CASE Unbind \/ FreeRxBuffers
  BY <1>1, <1>8 DEF Unbind, FreeRxBuffers, Placed
<1>9. CASE Remove
  <2>1. nic' \in NicRecord
    BY <1>9 DEF Remove, NicRecord
  <2> QED
    BY <1>1, <1>9, <2>1 DEF Remove, Placed
<1> QED
  BY <1>3, <1>4, <1>5, <1>6, <1>7, <1>8, <1>9 DEF Core

(* Raising an interrupt keeps the type of the NIC.                         *)
LEMMA RaiseTypes ==
    ASSUME NEW n \in NicRecord, NEW c \in Causes, NEW v
    PROVE  Raise(n, c, v) \in NicRecord
BY DEF Raise, NicRecord

(* The NIC and the handler keep the types.                                 *)
LEMMA NicTypes == ASSUME TypeOK, Handler \/ NicDma \/ NicRx PROVE TypeOK'
<1> USE DEF TypeOK, probeVars, testVars, ghostVars
<1>1. 0 \in Ids /\ \A i \in Slots : Next1(i) \in Slots
  BY IdsAre, NextSlot
<1>2. CASE NicDma
  <2>1. [nic EXCEPT !.dma = 0] \in NicRecord
    BY <1>1 DEF NicRecord
  <2>2. nic' \in NicRecord
    BY <1>2, <2>1, RaiseTypes DEF NicDma, Causes
  <2> QED
    BY <1>2, <2>2 DEF NicDma, Touches, NicRecord
<1>4. CASE NicRx
  <2>1. [nic EXCEPT !.rx_tail = Next1(@)] \in NicRecord /\ nic \in NicRecord
    BY <1>1 DEF NicRecord
  <2>2. nic' \in NicRecord
    BY <1>4, <2>1, RaiseTypes DEF NicRx, RaiseRx, Causes
  <2> QED
    <3>1. rx_own' \subseteq rx_own
      BY <1>4 DEF NicRx
    <3>2. frames' \in Nat
      BY <1>4 DEF NicRx
    <3>3. strayed' \in BOOLEAN
      BY <1>4 DEF NicRx, Touches
    <3> QED
      BY <1>4, <2>2, <3>1, <3>2, <3>3 DEF NicRx, NicRecord
<1>5. CASE IsrRead
  <2>1. nic' \in NicRecord
    BY <1>5 DEF IsrRead, NicRecord
  <2>2. isr' \in [pc : {"idle", "ack"}, sts : SUBSET Causes]
    <3>1. nic.sts \subseteq Causes
      BY DEF NicRecord
    <3> QED
      BY <1>5, <3>1 DEF IsrRead, IsrIdle
  <2> QED
    BY <1>5, <2>1, <2>2 DEF IsrRead
<1>6. CASE IsrAck
  <2>1. test_done' \in Nat
    BY <1>6, CountsCauses DEF IsrAck
  <2> QED
    <3>1. nic' \in NicRecord
      BY <1>6 DEF IsrAck, NicRecord
    <3>2. served' \subseteq Ids
      <4>1. nic.raised \subseteq Ids
        BY DEF NicRecord
      <4> QED
        BY <1>6, <4>1 DEF IsrAck
    <3> QED
      BY <1>6, <2>1, <3>1, <3>2 DEF IsrAck, IsrIdle
<1> QED
  BY <1>2, <1>4, <1>5, <1>6 DEF Handler

(* The tests keep the types.                                               *)
LEMMA TestTypes ==
    ASSUME TypeOK, NEW w \in Writers,
           Test(w) \/ \E k \in env.kinds : TestStart(w, k) \/ TestFails(w, k)
    PROVE  TypeOK'
<1> USE DEF TypeOK, probeVars, testVars, ghostVars, At, Goes, TesterRecord
<1>1. /\ env.kinds \subseteq {"dma", "tx", "irq"} /\ 0 \in Ids /\ 0 \in Slots
      /\ \A i \in Slots : Next1(i) \in Slots
      /\ \A n \in Ids : n < env.tests => n + 1 \in Ids
  BY IdsAre, NextSlot DEF Environment, Kinds
<1>8. ASSUME NEW k \in env.kinds, TestFails(w, k) PROVE TypeOK'
  BY <1>1, <1>8 DEF TestFails, MayTest
<1>2. ASSUME NEW k \in env.kinds, TestStart(w, k) PROVE TypeOK'
  <2>1. tests' \in Ids /\ mapped' \subseteq Ids
    BY <1>1, <1>2 DEF TestStart, MayTest
  <2>2. tester' \in [Writers -> TesterRecord]
    BY <1>1, <1>2, <2>1 DEF TestStart, NoTest
  <2>3. UNCHANGED <<env, core, held, bind, rx_buf, short, lost, rx_own, tx_desc, tx_head,
                    test_done, isr, nic, frames, served, strayed>>
    BY <1>2 DEF TestStart
  <2> QED
    BY <2>1, <2>2, <2>3
<1>3. CASE DmaProgram(w) \/ DmaStart(w)
  <2>1. nic' \in NicRecord
    BY <1>3 DEF DmaProgram, DmaStart, NicRecord
  <2> QED
    BY <1>3, <2>1 DEF DmaProgram, DmaStart
<1>4. CASE TxHead(w) \/ TxFill(w) \/ TxDoorbell(w)
  <2>1. tx_desc' \in [Slots -> Ids] /\ tx_head' \in Slots
    <3>1. tester[w] \in TesterRecord
      OBVIOUS
    <3>2. tester[w].head \in Slots /\ tester[w].id \in Ids
      BY <3>1
    <3>3. CASE TxHead(w)
      BY <3>3 DEF TxHead
    <3>4. CASE TxFill(w)
      BY <3>2, <3>4 DEF TxFill
    <3>5. CASE TxDoorbell(w)
      BY <1>1, <3>2, <3>5 DEF TxDoorbell
    <3> QED
      BY <1>4, <3>3, <3>4, <3>5
  <2>2. tester' \in [Writers -> TesterRecord]
    <3>1. PICK r \in TesterRecord : tester' = [tester EXCEPT ![w] = r]
      <4>1. CASE TxHead(w)
        <5>1. tester' = [tester EXCEPT ![w] = [@ EXCEPT !.pc = "fill", !.head = tx_head]]
          BY <4>1 DEF TxHead
        <5> QED
          BY <5>1
      <4>2. CASE TxFill(w) \/ TxDoorbell(w)
        BY <4>2 DEF TxFill, TxDoorbell
      <4> QED
        BY <1>4, <4>1, <4>2
    <3> QED
      BY <3>1
  <2>3. UNCHANGED <<env, core, held, bind, rx_buf, short, lost, rx_own, test_done, isr, tests,
                    mapped, nic, frames, served, strayed>>
    BY <1>4 DEF TxHead, TxFill, TxDoorbell
  <2> QED
    BY <2>1, <2>2, <2>3
<1>5. CASE IrqTrigger(w)
  <2>1. [nic EXCEPT !.raised = @ \cup {tester[w].id}] \in NicRecord
    BY DEF NicRecord
  <2>2. nic' \in NicRecord
    BY <1>5, <2>1, RaiseTypes DEF IrqTrigger, Causes
  <2> QED
    <3>1. tester' \in [Writers -> TesterRecord]
      BY <1>5 DEF IrqTrigger
    <3> QED
      BY <1>5, <2>2, <3>1 DEF IrqTrigger, NicRecord
<1>6. CASE WaitDone(w) \/ WaitTimeout(w)
  BY <1>6 DEF WaitDone, WaitTimeout
<1>7. CASE TestEnd(w)
  BY <1>1, <1>7 DEF TestEnd, NoTest
<1> QED
  BY <1>2, <1>3, <1>4, <1>5, <1>6, <1>7, <1>8 DEF Test

(* Every step keeps the types.                                             *)
LEMMA NextTypes == TypeOK /\ [Next]_vars => TypeOK'
<1> SUFFICES ASSUME TypeOK, [Next]_vars PROVE TypeOK'
  OBVIOUS
<1>1. CASE UNCHANGED vars
  BY <1>1 DEF vars, probeVars, testVars, ghostVars, TypeOK
<1> QED
  BY <1>1, CoreTypes, NicTypes, TestTypes DEF Next

(***************************************************************************)
(* The driver's bookkeeping and what it asks of the NIC keep their types:  *)
(* slots within the rings, tests within their number, causes that exist.   *)
(***************************************************************************)
THEOREM TypeCorrect == Spec => []TypeOK
<1> QED
  BY InitTypes, NextTypes, PTL DEF Spec

-----------------------------------------------------------------------------
(* The calm environment: one writer, and one test at a time, which is in   *)
(* exactly one place between the writer and its completion.                *)

(* The NIC and the handler have nothing under way, ...                     *)
Quiet ==
    /\ nic.dma = 0 /\ nic.sts = {} /\ ~nic.msg /\ nic.raised = {}
    /\ isr = IsrIdle /\ test_done = 0

(* ... or test i and nothing else: with the DMA engine, announced, in the  *)
(* handler, or completed.  From the announcement on it has been carried    *)
(* out, but for the trigger, which is carried out by its acknowledgement.  *)
Told(c, i) == IF c = "TEST" THEN nic.raised = {i} ELSE nic.raised = {} /\ i \in served

InEngine(i) ==
    /\ nic.dma = i /\ nic.sts = {} /\ ~nic.msg /\ nic.raised = {}
    /\ isr = IsrIdle /\ test_done = 0
Announced(i) ==
    /\ nic.dma = 0 /\ nic.msg /\ isr = IsrIdle /\ test_done = 0
    /\ \E c \in Causes : nic.sts = {c} /\ Told(c, i)
InHandler(i) ==
    /\ nic.dma = 0 /\ ~nic.msg /\ test_done = 0
    /\ \E c \in Causes : nic.sts = {c} /\ isr = [pc |-> "ack", sts |-> {c}] /\ Told(c, i)
Completed(i) ==
    /\ nic.dma = 0 /\ nic.sts = {} /\ ~nic.msg /\ nic.raised = {}
    /\ isr = IsrIdle /\ test_done = 1 /\ i \in served

UnderWay(i) == InEngine(i) \/ Announced(i) \/ InHandler(i) \/ Completed(i)

(* The place of the writer, and what is under way for it: nothing, if it   *)
(* waits for what the device never does.                                   *)
TestPlaced(w) ==
    LET t == tester[w]
    IN /\ Quiet \/ (t.pc = "wait" /\ UnderWay(t.id))
       /\ t.pc = "start" => nic.src = t.id
       /\ t.pc = "irq" => env.device = "systemc"
       /\ t.pc = "free" /\ t.pass => t.id \in served
       /\ t.pc \in {"dma", "start", "tx", "fill", "kick", "irq"} => ~t.pass
       /\ t.pc = "wait" => ~t.pass
       /\ t.pc # "idle" => t.id # 0 /\ t.id \in mapped

Alone(w) ==
    \A v \in Writers : tester[v] # NoTest => v = w /\ core.pc \in {"bound", "drain"}

CalmOK(w) == Alone(w) /\ TestPlaced(w) /\ MemoryKept
CalmInv == Calm => \A w \in Writers : env.writers = {w} => CalmOK(w)

(* What the steps below have in common.                                    *)
Base(w) == TypeOK /\ Placed /\ Possession /\ Calm /\ env.writers = {w} /\ CalmOK(w)

(* Where the writer is inside a test, the device is bound: its vectors and *)
(* rings are there.                                                        *)
LEMMA BoundHolds ==
    ASSUME NEW w \in Writers, Base(w), tester[w].pc # "idle"
    PROVE  core.pc \in {"bound", "drain"} /\ "vectors" \in held
<1>1. tester[w] # NoTest
  BY DEF NoTest
<1>2. core.pc \in {"bound", "drain"}
  BY <1>1 DEF Base, CalmOK, Alone
<1> QED
  BY <1>2, GotAt DEF Base, Possession

(* The driver core disturbs no test.                                       *)
LEMMA CalmCore ==
    ASSUME NEW w \in Writers, Base(w), Probe \/ Unbind \/ Core
    PROVE  CalmOK(w)'
<1> USE DEF Base, CalmOK, probeVars, testVars, ghostVars
<1>1. nic \in NicRecord
  BY DEF TypeOK
<1>2. UNCHANGED <<env, tester, isr, served, strayed, mapped>>
  BY DEF Probe, Unbind, Core, ProbeStep, PrepareRx, ConfigureRings, EnableIrqs, Remove,
         FreeRxBuffers, UnwindStep, UnwindEnd
<1>3. CASE Unbind
  BY <1>3 DEF Unbind, Alone, TestPlaced, UnderWay, Quiet, InEngine, Announced, InHandler,
              Completed, Told, MemoryKept
<1>4. CASE ~Unbind
  <2>1. \A v \in Writers : tester[v] = NoTest
    BY <1>4 DEF Alone, Probe, Core, ProbeStep, PrepareRx, ConfigureRings, EnableIrqs, Remove,
                FreeRxBuffers, UnwindStep, UnwindEnd
  <2>2. tester[w].pc = "idle" /\ Quiet
    BY <2>1 DEF NoTest, TestPlaced
  <2>3. nic'.dma = 0 /\ nic'.sts = {} /\ ~nic'.msg /\ nic'.raised = {} /\ test_done' = 0
    BY <1>1, <1>4, <2>2 DEF NicRecord, Quiet, Probe, Core, ProbeStep, PrepareRx, ConfigureRings,
       EnableIrqs, Remove, FreeRxBuffers, UnwindStep, UnwindEnd
  <2>4. TestPlaced(w)'
    BY <1>2, <2>2, <2>3 DEF TestPlaced, Quiet
  <2> QED
    BY <1>2, <2>1, <2>4 DEF Alone, MemoryKept
<1> QED
  BY <1>3, <1>4

(* The NIC carries a test on to its announcement, and the handler that to  *)
(* its one completion; neither meets memory that is not there.             *)
LEMMA CalmNic ==
    ASSUME NEW w \in Writers, Base(w), Handler \/ NicDma \/ NicRx
    PROVE  CalmOK(w)'
<1> USE DEF Base, CalmOK, probeVars, testVars, ghostVars
<1> DEFINE t == tester[w]
<1>0. strayed = FALSE
  BY DEF MemoryKept, TypeOK
<1>1. nic \in NicRecord /\ frames \in Nat /\ t.id \in Nat
  BY IdsAre DEF TypeOK, TesterRecord
<1>2. UNCHANGED <<env, tester, core, mapped>> /\ nic'.src = nic.src
  BY <1>1 DEF Handler, NicDma, NicRx, IsrRead, IsrAck, Raise, RaiseRx, NicRecord
<1>3. Alone(w)'
  BY <1>2 DEF Alone
<1>4. ~NicRx
  BY <1>1 DEF NicRx, Calm
<1>5. t.pc = "wait" /\ UnderWay(t.id)
  BY <1>4 DEF Handler, NicDma, IsrRead, IsrAck, TestPlaced, Quiet, IsrIdle
<1>6. "vectors" \in held
  BY <1>5, BoundHolds
<1>7. t.id # 0 /\ t.id \in mapped /\ ~t.pass
  BY <1>5 DEF TestPlaced
<1>8. SUFFICES strayed' = strayed /\ UnderWay(t.id)'
  BY <1>2, <1>3, <1>5, <1>7 DEF TestPlaced, MemoryKept
<1>9. CASE NicDma
  <2>1. InEngine(t.id)
    BY <1>5, <1>9 DEF NicDma, UnderWay, Announced, InHandler, Completed
  <2>2. nic'.dma = 0 /\ nic'.sts = {"DMA_DONE"} /\ nic'.msg /\ nic'.raised = {}
    BY <1>1, <1>6, <1>9, <2>1 DEF NicDma, InEngine, Raise, NicRecord
  <2>3. isr' = IsrIdle /\ test_done' = 0 /\ t.id \in served' /\ strayed' = strayed
    <3>1. strayed' = (strayed \/ ("master" \in held /\ t.id \notin mapped))
      BY <1>9, <2>1 DEF NicDma, InEngine, Touches
    <3> QED
      BY <1>0, <1>7, <1>9, <2>1, <3>1 DEF NicDma, InEngine
  <2>4. Announced(t.id)'
    BY <1>2, <2>2, <2>3 DEF Announced, Told, Causes
  <2> QED
    BY <1>2, <2>3, <2>4 DEF UnderWay
<1>11. CASE IsrRead
  <2>1. Announced(t.id)
    BY <1>5, <1>11 DEF IsrRead, UnderWay, InEngine, InHandler, Completed
  <2>2. PICK c \in Causes : nic.sts = {c} /\ Told(c, t.id)
    BY <2>1 DEF Announced
  <2>3. nic'.dma = 0 /\ nic'.sts = {c} /\ ~nic'.msg /\ nic'.raised = nic.raised
    BY <1>1, <1>11, <2>1, <2>2 DEF IsrRead, Announced, NicRecord
  <2>4. isr' = [pc |-> "ack", sts |-> {c}] /\ test_done' = 0 /\ UNCHANGED <<served, strayed>>
    BY <1>11, <2>1, <2>2 DEF IsrRead, Announced
  <2>5. InHandler(t.id)'
    BY <1>2, <2>2, <2>3, <2>4 DEF InHandler, Told
  <2> QED
    BY <1>2, <2>4, <2>5 DEF UnderWay
<1>12. CASE IsrAck
  <2>1. InHandler(t.id)
    BY <1>5, <1>12 DEF IsrAck, IsrIdle, UnderWay, InEngine, Announced, Completed
  <2>2. PICK c \in Causes : /\ nic.sts = {c} /\ Told(c, t.id)
                            /\ isr = [pc |-> "ack", sts |-> {c}]
    BY <2>1 DEF InHandler
  <2>3. nic'.dma = 0 /\ nic'.sts = {} /\ ~nic'.msg /\ nic'.raised = {}
    BY <1>1, <1>12, <2>1, <2>2 DEF IsrAck, InHandler, NicRecord, Told
  <2>4. test_done' = 1
    <3>1. Completions({c}) = 1
      BY FS_Singleton DEF Completions
    <3>2. test_done' = test_done + Completions(isr.sts) /\ isr.sts = {c} /\ test_done = 0
      BY <1>12, <2>1, <2>2 DEF IsrAck, InHandler
    <3> QED
      BY <3>1, <3>2
  <2>5. isr' = IsrIdle /\ t.id \in served' /\ strayed' = strayed
    BY <1>12, <2>2 DEF IsrAck, Told
  <2>6. Completed(t.id)'
    BY <1>2, <2>3, <2>4, <2>5 DEF Completed
  <2> QED
    BY <1>2, <2>5, <2>6 DEF UnderWay
<1> QED
  BY <1>4, <1>9, <1>11, <1>12 DEF Handler

(* A step of the writer: it has at most one test, which it starts with     *)
(* nothing under way and leaves with its own completion or with none.      *)
LEMMA CalmTest ==
    ASSUME NEW w \in Writers, Base(w), NEW v \in Writers,
           Test(v) \/ \E k \in env.kinds : TestStart(v, k) \/ TestFails(v, k)
    PROVE  CalmOK(w)'
<1> USE DEF Base, CalmOK, probeVars, testVars, ghostVars, At, Goes
<1> DEFINE t == tester[w]
<1>1. nic \in NicRecord /\ test_done \in Nat /\ tests \in Nat
  BY IdsAre DEF TypeOK
<1>2. tester \in [Writers -> TesterRecord] /\ t \in TesterRecord
  BY DEF TypeOK
<1>0. ASSUME NEW k \in env.kinds, TestFails(v, k) PROVE CalmOK(w)'
  BY <1>0 DEF TestFails, Alone, TestPlaced, MemoryKept, UnderWay, Quiet, InEngine, Announced,
              InHandler, Completed, Told
<1> SUFFICES ASSUME Test(v) \/ \E k \in env.kinds : TestStart(v, k) PROVE CalmOK(w)'
  BY <1>0
<1>3. v = w
  <2>1. CASE Test(v)
    <3>1. tester[v] # NoTest
      BY <2>1 DEF Test, DmaProgram, DmaStart, TxHead, TxFill, TxDoorbell, IrqTrigger, WaitDone,
                  WaitTimeout, TestEnd, NoTest
    <3> QED
      BY <3>1 DEF Alone
  <2>2. ASSUME NEW k \in env.kinds, TestStart(v, k) PROVE v = w
    BY <2>2 DEF TestStart, MayTest
  <2> QED
    BY <2>1, <2>2
<1>4. /\ UNCHANGED <<env, core, strayed, served>>
      /\ \A u \in Writers : u # w => tester'[u] = tester[u]
  BY <1>2, <1>3 DEF Test, DmaProgram, DmaStart, TxHead, TxFill, TxDoorbell, IrqTrigger, WaitDone,
     WaitTimeout, TestEnd, TestStart
<1>5. core.pc \in {"bound", "drain"}
  <2>1. CASE t.pc # "idle"
    BY <2>1, BoundHolds
  <2>2. CASE t.pc = "idle"
    BY <1>3, <2>2 DEF Test, DmaProgram, DmaStart, TxHead, TxFill, TxDoorbell, IrqTrigger,
       WaitDone, WaitTimeout, TestEnd, TestStart, MayTest
  <2> QED
    BY <2>1, <2>2
<1>6. Alone(w)' /\ MemoryKept'
  BY <1>4, <1>5 DEF Alone, MemoryKept
<1>7. SUFFICES TestPlaced(w)'
  BY <1>6
<1>8. ASSUME NEW k \in env.kinds, TestStart(w, k) PROVE TestPlaced(w)'
  <2>1. t.pc = "idle" /\ Quiet
    <3>1. t = NoTest
      BY <1>8 DEF TestStart, MayTest
    <3>2. t.pc = "idle"
      BY <3>1 DEF NoTest
    <3> QED
      BY <3>2 DEF TestPlaced
  <2>2. k \in {"dma", "tx", "irq"} /\ (k = "irq" => env.device = "systemc")
    <3>1. env.kinds \subseteq Kinds /\ env.device \in Devices
      BY IdsAre DEF TypeOK, Environment
    <3> QED
      BY <3>1 DEF Calm, Kinds, Devices
  <2>3. /\ tester'[w].pc = k /\ tester'[w].id = tests' /\ ~tester'[w].pass
        /\ tests' \in mapped' /\ tests' # 0
    <3>1. tester'[w] = [NoTest EXCEPT !.pc = k, !.id = tests']
      BY <1>2, <1>8 DEF TestStart
    <3>2. tests' = tests + 1 /\ mapped' = mapped \cup {tests'}
      BY <1>8 DEF TestStart
    <3> QED
      BY <1>1, <3>1, <3>2 DEF NoTest
  <2>4. UNCHANGED <<nic, isr, test_done>>
    BY <1>8 DEF TestStart
  <2> QED
    BY <1>4, <2>1, <2>2, <2>3, <2>4 DEF TestPlaced, Quiet
<1>9. ASSUME Test(w), t.pc # "wait", t.pc # "free" PROVE TestPlaced(w)'
  <2>1. Quiet /\ t.id # 0 /\ t.id \in mapped /\ ~t.pass
    BY <1>9 DEF Test, DmaProgram, DmaStart, TxHead, TxFill, TxDoorbell, IrqTrigger, WaitDone,
       WaitTimeout, TestEnd, TestPlaced
  <2>2. UNCHANGED <<isr, test_done, mapped>>
    BY <1>9 DEF Test, DmaProgram, DmaStart, TxHead, TxFill, TxDoorbell, IrqTrigger, WaitDone,
       WaitTimeout, TestEnd
  <2>3. ASSUME NEW l, Goes(w, l)
        PROVE  tester'[w].pc = l /\ tester'[w].id = t.id /\ tester'[w].pass = t.pass
    BY <1>2, <2>3 DEF TesterRecord
  <2>4. CASE DmaProgram(w)
    <3>1. nic' = [nic EXCEPT !.src = t.id] /\ tester'[w].pc = "start" /\ tester'[w].id = t.id
          /\ tester'[w].pass = t.pass
      BY <2>3, <2>4 DEF DmaProgram
    <3>2. Quiet' /\ nic'.src = t.id
      BY <1>1, <2>1, <2>2, <3>1 DEF Quiet, NicRecord
    <3> QED
      BY <2>1, <2>2, <3>1, <3>2 DEF TestPlaced
  <2>5. CASE DmaStart(w)
    <3>1. nic.src = t.id /\ tester'[w].pc = "wait" /\ tester'[w].id = t.id
          /\ tester'[w].pass = t.pass
      BY <2>3, <2>5 DEF DmaStart, TestPlaced
    <3>2. CASE env.device = "pci"
      <4>1. nic' = [nic EXCEPT !.dma = t.id]
        BY <2>5, <3>1, <3>2 DEF DmaStart
      <4>2. InEngine(t.id)'
        BY <1>1, <2>1, <2>2, <3>1, <4>1 DEF Quiet, NicRecord, InEngine
      <4> QED
        BY <2>1, <2>2, <3>1, <4>2 DEF TestPlaced, UnderWay
    <3>3. CASE env.device # "pci"
      <4>1. Quiet'
        BY <2>1, <2>2, <2>5, <3>3 DEF DmaStart, Quiet
      <4> QED
        BY <2>1, <2>2, <3>1, <4>1 DEF TestPlaced
    <3> QED
      BY <3>2, <3>3
  <2>6. CASE TxHead(w) \/ TxFill(w) \/ TxDoorbell(w)
    <3>1. /\ tester'[w].pc \in {"fill", "kick", "wait"} /\ tester'[w].id = t.id
          /\ tester'[w].pass = t.pass /\ nic' = nic
      BY <1>2, <2>3, <2>6 DEF TxHead, TxFill, TxDoorbell, TesterRecord
    <3>2. Quiet'
      BY <2>1, <2>2, <3>1 DEF Quiet
    <3> QED
      BY <2>1, <2>2, <3>1, <3>2 DEF TestPlaced
  <2>8. CASE IrqTrigger(w)
    <3>1. /\ tester'[w].pc = "wait" /\ tester'[w].id = t.id /\ tester'[w].pass = t.pass
          /\ "vectors" \in held /\ TestVector = 0
          /\ nic' = Raise([nic EXCEPT !.raised = @ \cup {t.id}], "TEST", TestVector)
      BY <1>9, <2>3, <2>8, BoundHolds DEF IrqTrigger, TestPlaced, TestVector
    <3>2. nic'.dma = 0 /\ nic'.sts = {"TEST"} /\ nic'.msg /\ nic'.raised = {t.id}
      BY <1>1, <2>1, <3>1 DEF Quiet, NicRecord, Raise
    <3>3. Announced(t.id)'
      BY <2>1, <2>2, <3>1, <3>2 DEF Quiet, Announced, Told, Causes
    <3> QED
      BY <2>1, <2>2, <3>1, <3>3 DEF TestPlaced, UnderWay
  <2> QED
    BY <1>9, <2>4, <2>5, <2>6, <2>8 DEF Test, WaitDone, WaitTimeout, TestEnd
<1>10. ASSUME Test(w), t.pc = "wait" PROVE TestPlaced(w)'
  <2>1. t.id # 0 /\ t.id \in mapped /\ (Quiet \/ UnderWay(t.id)) /\ ~t.pass
    BY <1>10 DEF TestPlaced
  <2>2. CASE WaitTimeout(w)
    <3>1. Quiet
      BY <2>1, <2>2 DEF WaitTimeout, NothingComes, Calm, UnderWay, InEngine, Announced,
         InHandler, Completed, IsrIdle
    <3>2. tester'[w].pc = "free" /\ tester'[w].id = t.id /\ ~tester'[w].pass
      BY <1>2, <2>1, <2>2 DEF WaitTimeout, TesterRecord
    <3> QED
      BY <2>1, <2>2, <3>1, <3>2 DEF TestPlaced, WaitTimeout, Quiet
  <2>3. CASE WaitDone(w)
    <3>1. Completed(t.id)
      BY <2>1, <2>3 DEF WaitDone, Quiet, UnderWay, InEngine, Announced, InHandler
    <3>2. Quiet'
      BY <1>1, <2>3, <3>1 DEF WaitDone, Completed, Quiet
    <3>3. tester'[w].pc = "free" /\ tester'[w].id = t.id /\ tester'[w].pass
      BY <1>2, <2>3 DEF WaitDone, TesterRecord
    <3> QED
      BY <1>4, <2>1, <2>3, <3>1, <3>2, <3>3 DEF TestPlaced, WaitDone, Completed
  <2> QED
    BY <1>10, <2>2, <2>3 DEF Test, DmaProgram, DmaStart, TxHead, TxFill, TxDoorbell,
       IrqTrigger, TestEnd
<1>11. ASSUME Test(w), t.pc = "free" PROVE TestPlaced(w)'
  <2>1. TestEnd(w) /\ Quiet
    BY <1>11 DEF Test, DmaProgram, DmaStart, TxHead, TxFill, TxDoorbell, IrqTrigger, WaitDone,
       WaitTimeout, TestPlaced
  <2>2. tester'[w].pc = "idle"
    BY <1>2, <2>1 DEF TestEnd, NoTest
  <2> QED
    BY <2>1, <2>2 DEF TestEnd, TestPlaced, Quiet
<1> QED
  BY <1>3, <1>8, <1>9, <1>10, <1>11

(* Every step keeps the calm.                                              *)
LEMMA CalmKeeps == TypeOK /\ Placed /\ Possession /\ CalmInv /\ [Next]_vars => CalmInv'
<1> SUFFICES ASSUME TypeOK, Placed, Possession, CalmInv, [Next]_vars,
                    Calm', NEW w \in Writers, env'.writers = {w}
             PROVE  CalmOK(w)'
  BY DEF CalmInv
<1>1. env' = env
  BY DEF Next, vars, Probe, Unbind, Core, ProbeStep, PrepareRx, ConfigureRings, EnableIrqs,
     Remove, FreeRxBuffers, UnwindStep, UnwindEnd, Handler, IsrRead, IsrAck, NicDma, NicRx,
     Test, DmaProgram, DmaStart, TxHead, TxFill, TxDoorbell, IrqTrigger, WaitDone, WaitTimeout,
     TestEnd, TestStart, TestFails
<1>2. Base(w)
  BY <1>1 DEF Base, CalmInv, Calm, OneWriter
<1>3. CASE UNCHANGED vars
  BY <1>2, <1>3 DEF vars, probeVars, testVars, ghostVars, Base, CalmOK, Alone, TestPlaced,
     UnderWay, Quiet, InEngine, Announced, InHandler, Completed, Told, MemoryKept
<1> QED
  BY <1>2, <1>3, CalmCore, CalmNic, CalmTest DEF Next

(* It begins with it.                                                      *)
LEMMA CalmInit == Init => CalmInv
<1> SUFFICES ASSUME Init, NEW w \in Writers PROVE CalmOK(w)
  BY DEF CalmInv
<1>1. tester[w] = NoTest
  BY DEF Init
<1>2. TestPlaced(w)
  BY <1>1 DEF Init, NoTest, TestPlaced, Quiet
<1> QED
  BY <1>2 DEF Init, CalmOK, Alone, MemoryKept

(***************************************************************************)
(* Bound once, with one writer, no frames received, a NIC in time and no   *)
(* message lost: a test that passes was carried out, and the NIC uses no   *)
(* memory that is not the driver's (smarteth_main.c:231-333).  So the      *)
(* completion, which is never reset, does no harm then.                    *)
(***************************************************************************)
THEOREM CalmDriver == Spec => []CalmKept
<1>1. TypeOK /\ CalmInv => CalmKept
  <2> SUFFICES ASSUME TypeOK, CalmInv, Calm PROVE PassMeansDone /\ MemoryKept
    BY DEF CalmKept
  <2>1. PICK w \in Writers : env.writers = {w} /\ CalmOK(w)
    BY DEF CalmInv, Calm, OneWriter
  <2>2. ASSUME NEW v \in Writers, At(v, "free"), tester[v].pass PROVE tester[v].id \in served
    <3>1. v = w
      BY <2>1, <2>2 DEF CalmOK, Alone, At, NoTest
    <3> QED
      BY <2>1, <2>2, <3>1 DEF CalmOK, TestPlaced, At
  <2> QED
    BY <2>1, <2>2 DEF PassMeansDone, CalmOK
<1>2. Init => TypeOK /\ Placed /\ Possession /\ CalmInv
  BY InitTypes, CalmInit DEF Init, Placed, Possession
<1>3. (TypeOK /\ Placed /\ Possession /\ CalmInv) /\ [Next]_vars
          => (TypeOK /\ Placed /\ Possession /\ CalmInv)'
  BY NextTypes, PossessionKept, CalmKeeps
<1> QED
  BY <1>1, <1>2, <1>3, PTL DEF Spec
=============================================================================
