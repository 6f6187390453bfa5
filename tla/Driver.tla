-------------------------------- MODULE Driver --------------------------------
(***************************************************************************)
(* The Linux driver (firmware/host-driver/driver/smarteth_main.c): probe   *)
(* with its unwinding, remove, the interrupt handler and the sysfs tests.  *)
(* Its PCI ID is that of both devices: the QEMU model with a DMA engine of *)
(* its own ("pci", smarteth_pci.c, see QemuNic) and the bridge to the      *)
(* SystemC NIC ("systemc", see CoSim), of which only reception runs, since *)
(* nothing ever starts its processes (nic.cpp:16-26).  The driver core     *)
(* binds and unbinds the device; the test file exists while it is bound    *)
(* and its removal waits for writers.                                      *)
(***************************************************************************)
EXTENDS Integers, Sequences, FiniteSets

CONSTANTS
    Writers,    \* processes that write the test file
    RingSize,   \* SMARTETH_RING_SIZE: 64 in the code
    Envs        \* the environments considered, see Environment

Kinds == {"dma", "tx", "irq"}
Devices == {"pci", "systemc"}
Environment ==
    [device : Devices,          \* what the driver drives
     writers : SUBSET Writers,  \* who writes the test file
     kinds : SUBSET Kinds,      \* the tests they ask for
     tests : Nat,               \* bound: tests begun
     binds : Nat,               \* bound: times the device is bound
     frames : Nat,              \* bound: frames the network sends
     timely : BOOLEAN]          \* no wait ends while the NIC is still at work for it

ASSUME DriverAssumption ==
    /\ RingSize \in Nat \ {0}
    /\ Envs \subseteq Environment

VARIABLES
    env,        \* the environment, chosen at the start
    core,       \* the driver core: what it runs, and the step of it
    held,       \* the resources the driver holds
    bind,       \* times the device has been bound
    rx_buf,     \* slots of rx_buf[] that hold a mapped buffer
    short,      \* bindings that could not prepare their receive buffers
    lost,       \* bindings whose adapter went with receive buffers still mapped
    rx_own,     \* receive descriptors with the OWN flag
    tx_desc,    \* test whose packet a transmit descriptor hands over, 0 if none
    tx_head,    \* adapter->tx_head
    test_done,  \* the count of the completion
    isr,        \* the interrupt handler
    tests,      \* tests begun
    tester,     \* tester[w]: where writer w is in its test
    mapped,     \* tests whose buffer is allocated and mapped
    nic,        \* the NIC
    frames,     \* frames received
    served,     \* tests the NIC has carried out
    strayed     \* the NIC has accessed memory the driver had not given it

probeVars == <<core, held, bind, rx_buf, short, lost>>
testVars == <<tests, tester, mapped, tx_head>>
ghostVars == <<served, strayed>>
vars == <<env, probeVars, rx_own, tx_desc, test_done, isr, testVars, nic, frames, ghostVars>>

Slots == 0 .. RingSize - 1
\* Mutant: forgets that the ring is round.
Next1NoWrap(i) == i + 1
Next1(i) == (i + 1) % RingSize

IsrIdle == [pc |-> "idle", sts |-> {}]
NoTest == [pc |-> "idle", id |-> 0, head |-> 0, pass |-> FALSE]

Init ==
    /\ env \in Envs
    /\ core = [pc |-> "unbound", n |-> 1]
    /\ held = {} /\ bind = 0 /\ rx_buf = {} /\ rx_own = {}
    /\ short = {} /\ lost = {}
    /\ tx_desc = [i \in Slots |-> 0] /\ tx_head = 0
    /\ test_done = 0 /\ isr = IsrIdle
    /\ tests = 0 /\ tester = [w \in Writers |-> NoTest] /\ mapped = {}
    /\ nic = [irq_en |-> FALSE, sts |-> {}, msg |-> FALSE, ring |-> 0, rx_tail |-> 0,
              src |-> 0, dma |-> 0, raised |-> {}]
    /\ frames = 0 /\ served = {} /\ strayed = FALSE

-----------------------------------------------------------------------------
(* smarteth_probe: what each step obtains, and the label it goes to when   *)
(* it fails (an index of Unwind; 6 returns at once).  "master" is        *)
(* pci_set_master and then the check of DEV_ID, and is on when that fails. *)

Step(get, label) == [get |-> get, label |-> label]
ProbeSteps ==
    <<Step("adapter", 6), Step("enabled", 6), Step("mask", 5), Step("region", 5),
      Step("iomap", 4), Step("master", 3), Step("vectors", 3), Step("irq", 2),
      Step("tx_ring", 1), Step("rx_ring", 1), Step("arrays", 1)>>

\* err_irq, err_vectors, err_iounmap, err_release, err_disable.
Unwind == <<{"irq"}, {"vectors"}, {"iomap"}, {"region"}, {"enabled", "master", "mask"}>>

\* Released by the driver core once probe has failed or remove has returned.
Devm == {"adapter", "tx_ring", "rx_ring", "arrays"}

Probe ==
    /\ core.pc = "unbound" /\ bind < env.binds
    /\ core' = [pc |-> "probe", n |-> 1]
    /\ bind' = bind + 1
    /\ tx_head' = 0 /\ test_done' = 0 /\ rx_own' = {} /\ tx_desc' = [i \in Slots |-> 0]
    /\ UNCHANGED <<env, held, rx_buf, short, lost, isr, tests, tester, mapped, nic, frames,
                   ghostVars>>

\* Mutant: a failure of request_irq leaves the vectors allocated.
FailGoesTooFar(n) == core' = [pc |-> "unwind", n |-> IF n = 8 THEN 3 ELSE ProbeSteps[n].label]
FailGoesTo(n) == core' = [pc |-> "unwind", n |-> ProbeSteps[n].label]

ProbeStep ==
    /\ core.pc = "probe" /\ core.n <= Len(ProbeSteps)
    /\ \/ /\ held' = held \cup {ProbeSteps[core.n].get}
          /\ core' = [core EXCEPT !.n = @ + 1]
       \/ /\ FailGoesTo(core.n)
          /\ held' = held \cup ({ProbeSteps[core.n].get} \cap {"master"})
    /\ UNCHANGED <<env, bind, rx_buf, short, lost, rx_own, tx_desc, test_done, isr, testVars, nic,
                   frames, ghostVars>>

\* smarteth_prepare_rx_buffers, a slot at a time; where one fails, those
\* before it stay.
PrepareRx ==
    /\ core.pc = "probe" /\ core.n = Len(ProbeSteps) + 1 /\ rx_buf # Slots
    /\ \/ LET i == Cardinality(rx_buf)
          IN rx_buf' = rx_buf \cup {i} /\ rx_own' = rx_own \cup {i} /\ UNCHANGED <<core, short>>
       \/ /\ short' = short \cup {bind}
          /\ core' = [pc |-> "unwind", n |-> 1] /\ UNCHANGED <<rx_buf, rx_own>>
    /\ UNCHANGED <<env, held, bind, lost, tx_desc, test_done, isr, testVars, nic, frames,
                   ghostVars>>

\* The ring registers, then IRQ_EN and the RX doorbell.
ConfigureRings ==
    /\ core.pc = "probe" /\ core.n = Len(ProbeSteps) + 1 /\ rx_buf = Slots
    /\ nic' = [nic EXCEPT !.ring = bind]
    /\ core' = [core EXCEPT !.n = @ + 1]
    /\ UNCHANGED <<env, held, bind, rx_buf, short, lost, rx_own, tx_desc, test_done, isr,
                   testVars, frames, ghostVars>>

EnableIrqs ==
    /\ core.pc = "probe" /\ core.n = Len(ProbeSteps) + 2
    /\ nic' = [nic EXCEPT !.irq_en = TRUE]
    /\ core' = [pc |-> "bound", n |-> 1]
    /\ UNCHANGED <<env, held, bind, rx_buf, short, lost, rx_own, tx_desc, test_done, isr,
                   testVars, frames, ghostVars>>

\* Mutant: free_irq does not wait for the handler.
HandlerMayRun == TRUE
HandlerDone == isr = IsrIdle

UnwindStep ==
    /\ core.pc = "unwind" /\ core.n <= Len(Unwind)
    /\ core.n = 1 => HandlerDone
    /\ held' = held \ Unwind[core.n]
    /\ nic' = [nic EXCEPT !.msg = @ /\ core.n # 2]
    /\ core' = [core EXCEPT !.n = @ + 1]
    /\ UNCHANGED <<env, bind, rx_buf, short, lost, rx_own, tx_desc, test_done, isr, testVars,
                   frames, ghostVars>>

\* With the adapter goes what knows of its buffers.
UnwindEnd ==
    /\ core.pc = "unwind" /\ core.n = Len(Unwind) + 1
    /\ held' = held \ Devm
    /\ rx_buf' = {} /\ lost' = IF rx_buf = {} THEN lost ELSE lost \cup {bind}
    /\ core' = [pc |-> "unbound", n |-> 1]
    /\ UNCHANGED <<env, bind, short, rx_own, tx_desc, test_done, isr, testVars, nic, frames,
                   ghostVars>>

\* The driver core takes the device away: the test file is closed to new
\* writers first, and those inside are waited for.
Unbind ==
    /\ core.pc = "bound"
    /\ core' = [pc |-> "drain", n |-> 1]
    /\ UNCHANGED <<env, held, bind, rx_buf, short, lost, rx_own, tx_desc, test_done, isr,
                   testVars, nic, frames, ghostVars>>

\* smarteth_remove: interrupts off, receive buffers freed, then what the
\* labels of probe do.
Remove ==
    /\ core.pc = "drain" /\ tester = [w \in Writers |-> NoTest]
    /\ nic' = [nic EXCEPT !.irq_en = FALSE]
    /\ core' = [pc |-> "remove", n |-> 1]
    /\ UNCHANGED <<env, held, bind, rx_buf, short, lost, rx_own, tx_desc, test_done, isr,
                   testVars, frames, ghostVars>>

FreeRxBuffers ==
    /\ core.pc = "remove"
    /\ rx_buf' = {}
    /\ core' = [pc |-> "unwind", n |-> 1]
    /\ UNCHANGED <<env, held, bind, short, lost, rx_own, tx_desc, test_done, isr, testVars, nic,
                   frames, ghostVars>>

-----------------------------------------------------------------------------
(* The NIC.  The driver has allocated vector 0 only: other messages go     *)
(* nowhere, while their causes stay in IRQ_STS.  A message is kept while   *)
(* vectors are allocated.                                                  *)

Raise(n, cause, vector) ==
    [n EXCEPT !.sts = @ \cup {cause}, !.msg = @ \/ ("vectors" \in held /\ vector = 0)]

\* The vector of the test interrupt.
TestVector == IF env.device = "pci" THEN 1 ELSE 0

\* Accesses to memory that may not be the driver's: without bus mastering
\* they go nowhere.
Touches(ok) == strayed' = (strayed \/ ("master" \in held /\ ~ok))

\* The timer of the QEMU device's DMA.
NicDma ==
    /\ nic.dma # 0
    /\ Touches(nic.dma \in mapped)
    /\ served' = served \cup {nic.dma}
    /\ nic' = Raise([nic EXCEPT !.dma = 0], "DMA_DONE", 0)
    /\ UNCHANGED <<env, probeVars, rx_own, tx_desc, test_done, isr, testVars, frames>>

RingLive(ring) == nic.ring = bind /\ ring \in held

\* on_packet_rx, with a ring configured.
RaiseRx(n) == IF n.irq_en THEN Raise(n, "RX", 1) ELSE n

NicRx ==
    /\ env.device = "systemc" /\ frames < env.frames /\ nic.ring # 0
    /\ frames' = frames + 1
    /\ IF RingLive("rx_ring") /\ nic.rx_tail \in rx_own
       THEN /\ Touches(nic.rx_tail \in rx_buf)
            /\ rx_own' = rx_own \ {nic.rx_tail}
            /\ nic' = RaiseRx([nic EXCEPT !.rx_tail = Next1(@)])
       ELSE Touches(RingLive("rx_ring")) /\ UNCHANGED <<rx_own, nic>>
    /\ UNCHANGED <<env, probeVars, tx_desc, test_done, isr, testVars, served>>

-----------------------------------------------------------------------------
(* smarteth_irq_handler: IRQ_STS is read, written back, and the completion *)
(* is signalled once for every cause that was set.                         *)

IsrRead ==
    /\ "irq" \in held /\ isr = IsrIdle /\ nic.msg
    /\ nic' = [nic EXCEPT !.msg = FALSE]
    /\ isr' = IF nic.sts = {} THEN IsrIdle ELSE [pc |-> "ack", sts |-> nic.sts]
    /\ UNCHANGED <<env, probeVars, rx_own, tx_desc, test_done, testVars, frames, ghostVars>>

\* Mutant: the bit of TEST is tested twice.
CompletionsTwice(sts) == Cardinality(sts) + Cardinality(sts \cap {"TEST"})
Completions(sts) == Cardinality(sts)

IsrAck ==
    /\ isr.pc = "ack"
    /\ test_done' = test_done + Completions(isr.sts)
    /\ nic' = [nic EXCEPT !.sts = @ \ isr.sts, !.raised = IF "TEST" \in isr.sts THEN {} ELSE @]
    /\ served' = IF "TEST" \in isr.sts THEN served \cup nic.raised ELSE served
    /\ isr' = IsrIdle
    /\ UNCHANGED <<env, probeVars, rx_own, tx_desc, testVars, frames, strayed>>

-----------------------------------------------------------------------------
(* The tests, each run by the writer that asked for it.                    *)

At(w, l) == tester[w].pc = l
Goes(w, l) == tester' = [tester EXCEPT ![w].pc = l]

\* A test with its buffer allocated and mapped ("irq" needs none and is
\* mapped for uniformity) ...
MayTest(w) ==
    core.pc = "bound" /\ w \in env.writers /\ tester[w] = NoTest /\ tests < env.tests

TestStart(w, kind) ==
    /\ MayTest(w)
    /\ tests' = tests + 1
    /\ mapped' = mapped \cup {tests'}
    /\ tester' = [tester EXCEPT ![w] = [NoTest EXCEPT !.pc = kind, !.id = tests']]
    /\ UNCHANGED <<env, probeVars, rx_own, tx_desc, tx_head, test_done, isr, nic, frames,
                   ghostVars>>

\* ... or one that returns because it cannot be.
TestFails(w, kind) ==
    /\ MayTest(w) /\ kind # "irq"
    /\ tests' = tests + 1
    /\ UNCHANGED <<env, probeVars, rx_own, tx_desc, tx_head, test_done, isr, tester, mapped, nic,
                   frames, ghostVars>>

\* smarteth_test_dma: the address registers, then START.
DmaProgram(w) ==
    /\ At(w, "dma") /\ Goes(w, "start")
    /\ nic' = [nic EXCEPT !.src = tester[w].id]
    /\ UNCHANGED <<env, probeVars, rx_own, tx_desc, test_done, isr, tests, mapped, tx_head,
                   frames, ghostVars>>

\* The SystemC NIC takes note of it and leaves it to process_dma.
DmaStart(w) ==
    /\ At(w, "start") /\ Goes(w, "wait")
    /\ nic' = IF env.device = "pci" THEN [nic EXCEPT !.dma = nic.src] ELSE nic
    /\ UNCHANGED <<env, probeVars, rx_own, tx_desc, test_done, isr, tests, mapped, tx_head,
                   frames, ghostVars>>

\* smarteth_test_tx: tx_head is read, its descriptor filled, and tx_head
\* advanced, each on its own and under no lock.
TxHead(w) ==
    /\ At(w, "tx")
    /\ tester' = [tester EXCEPT ![w].pc = "fill", ![w].head = tx_head]
    /\ UNCHANGED <<env, probeVars, rx_own, tx_desc, test_done, isr, tests, mapped, tx_head, nic,
                   frames, ghostVars>>

TxFill(w) ==
    /\ At(w, "fill") /\ Goes(w, "kick")
    /\ tx_desc' = [tx_desc EXCEPT ![tester[w].head] = tester[w].id]
    /\ UNCHANGED <<env, probeVars, rx_own, test_done, isr, tests, mapped, tx_head, nic, frames,
                   ghostVars>>

\* Then the doorbell: a plain register of the QEMU device; in the SystemC
\* NIC it notifies process_tx, which waits for nothing yet.
TxDoorbell(w) ==
    /\ At(w, "kick") /\ Goes(w, "wait")
    /\ tx_head' = Next1(tester[w].head)
    /\ UNCHANGED <<env, probeVars, rx_own, tx_desc, test_done, isr, tests, mapped, nic, frames,
                   ghostVars>>

\* smarteth_test_irq.
IrqTrigger(w) ==
    /\ At(w, "irq") /\ Goes(w, "wait")
    /\ nic' = Raise([nic EXCEPT !.raised = @ \cup {tester[w].id}], "TEST", TestVector)
    /\ UNCHANGED <<env, probeVars, rx_own, tx_desc, test_done, isr, tests, mapped, tx_head,
                   frames, ghostVars>>

\* wait_for_completion_timeout returns for the completion ...
WaitDone(w) ==
    /\ At(w, "wait") /\ test_done > 0
    /\ test_done' = test_done - 1
    /\ tester' = [tester EXCEPT ![w].pc = "free", ![w].pass = TRUE]
    /\ UNCHANGED <<env, probeVars, rx_own, tx_desc, isr, tests, mapped, tx_head, nic, frames,
                   ghostVars>>

\* ... or after HZ / 2 or HZ.
NothingComes == nic.dma = 0 /\ ~nic.msg /\ isr = IsrIdle

\* Mutant: a wait without a limit.
WaitTimeoutNever(w) == FALSE /\ UNCHANGED vars

WaitTimeout(w) ==
    /\ At(w, "wait") /\ test_done = 0
    /\ env.timely => NothingComes
    /\ Goes(w, "free")
    /\ UNCHANGED <<env, probeVars, rx_own, tx_desc, test_done, isr, tests, mapped, tx_head, nic,
                   frames, ghostVars>>

\* The verdict is printed, and the buffer unmapped and freed in either case.
TestEnd(w) ==
    /\ At(w, "free")
    /\ mapped' = mapped \ {tester[w].id}
    /\ tester' = [tester EXCEPT ![w] = NoTest]
    /\ UNCHANGED <<env, probeVars, rx_own, tx_desc, test_done, isr, tests, tx_head, nic, frames,
                   ghostVars>>

-----------------------------------------------------------------------------
Core ==
    \/ ProbeStep \/ PrepareRx \/ ConfigureRings \/ EnableIrqs
    \/ Remove \/ FreeRxBuffers \/ UnwindStep \/ UnwindEnd

Handler == IsrRead \/ IsrAck

Test(w) ==
    \/ DmaProgram(w) \/ DmaStart(w) \/ TxHead(w) \/ TxFill(w) \/ TxDoorbell(w) \/ IrqTrigger(w)
    \/ WaitDone(w) \/ WaitTimeout(w) \/ TestEnd(w)

Next ==
    \/ Probe \/ Unbind \/ Core \/ Handler \/ NicDma \/ NicRx
    \/ \E w \in Writers : Test(w) \/ \E k \in env.kinds : TestStart(w, k) \/ TestFails(w, k)

Spec == Init /\ [][Next]_vars

(***************************************************************************)
(* Probe and remove run on, a message that is delivered is handled, QEMU's *)
(* timer expires, and a writer in a test runs on.  Nobody has to bind,     *)
(* unbind or test, and no frame has to come.                               *)
(***************************************************************************)
FairSpec ==
    /\ Spec
    /\ WF_vars(Core) /\ WF_vars(Handler) /\ WF_vars(NicDma)
    /\ \A w \in Writers : WF_vars(Test(w))

-----------------------------------------------------------------------------
(* Type invariant. *)
Resources == {ProbeSteps[i].get : i \in DOMAIN ProbeSteps}
Causes == {"DMA_DONE", "RX", "TEST"}
Ids == UNION {0 .. e.tests : e \in Envs}
TesterRecord ==
    [pc : {"idle", "dma", "start", "tx", "fill", "kick", "irq", "wait", "free"},
     id : Ids, head : Slots, pass : BOOLEAN]
NicRecord ==
    [irq_en : BOOLEAN, sts : SUBSET Causes, msg : BOOLEAN, ring : Nat, rx_tail : Slots,
     src : Ids, dma : Ids, raised : SUBSET Ids]
TypeOK ==
    /\ env \in Envs /\ bind \in Nat /\ frames \in Nat /\ tests \in Ids
    /\ short \cup lost \subseteq Nat
    /\ core \in [pc : {"unbound", "probe", "bound", "drain", "remove", "unwind"}, n : 1 .. 13]
    /\ held \subseteq Resources
    /\ rx_buf \cup rx_own \subseteq Slots
    /\ tx_desc \in [Slots -> Ids] /\ tx_head \in Slots
    /\ test_done \in Nat
    /\ isr \in [pc : {"idle", "ack"}, sts : SUBSET Causes]
    /\ tester \in [Writers -> TesterRecord]
    /\ mapped \cup served \subseteq Ids
    /\ nic \in NicRecord
    /\ strayed \in BOOLEAN

(***************************************************************************)
(* Wherever probe fails, the labels release what has been obtained and     *)
(* nothing else, in the order that keeps the handler's device mapped       *)
(* (smarteth_main.c:381-515), and remove releases everything.  The receive *)
(* buffers are the exception: those prepared before one that cannot be     *)
(* (95-103, 473-478) stay mapped and are lost; none is in any other case.  *)
(***************************************************************************)
CleanUnwind ==
    /\ core.pc = "unwind" =>
          held \ (Devm \cup {"master", "mask"})
              = (UNION {Unwind[i] : i \in core.n .. Len(Unwind)}) \ {"master", "mask"}
    /\ core.pc = "unbound" => held = {} /\ rx_buf = {}
    /\ lost \subseteq short

(***************************************************************************)
(* The interrupt handler, which may be called from request_irq until       *)
(* free_irq returns, finds the registers mapped and the adapter and its    *)
(* completion allocated (smarteth_main.c:179-206, 431-437, 504-514, 529).  *)
(***************************************************************************)
HandlerSafe == isr # IsrIdle => {"adapter", "iomap", "irq"} \subseteq held

\* The environment in which the driver keeps its promises: bound once, one
\* writer, no received frames, a NIC that is in time and no test whose message
\* is lost.
OneWriter == \E w \in Writers : env.writers = {w}
Calm ==
    /\ env.binds = 1 /\ OneWriter /\ env.frames = 0
    /\ env.timely /\ (env.device = "pci" => "irq" \notin env.kinds)

(***************************************************************************)
(* A test reported as PASS has been carried out: the completion the writer *)
(* took was its own (smarteth_main.c:259-261, 304-311, 326-330).           *)
(***************************************************************************)
PassMeansDone ==
    \A w \in Writers : At(w, "free") /\ tester[w].pass => tester[w].id \in served

(***************************************************************************)
(* The NIC accesses no memory after the driver has freed it: neither a     *)
(* test buffer (266-267, 313-314), nor the receive buffers and rings of a  *)
(* device being removed (523-533).                                         *)
(***************************************************************************)
MemoryKept == ~strayed

(***************************************************************************)
(* In the calm environment the driver is right on both accounts.           *)
(***************************************************************************)
CalmKept == Calm => PassMeansDone /\ MemoryKept

(***************************************************************************)
(* Every write to the test file returns, interrupt or not; hence a removal,*)
(* which waits for the writers, comes to an end, as a failed probe does    *)
(* (smarteth_main.c:258-268, 305, 324, 504-536).                           *)
(***************************************************************************)
TestsReturn == \A w \in Writers : ~At(w, "idle") ~> At(w, "idle")
RemovesEnd == core.pc \in {"drain", "remove", "unwind"} ~> core.pc = "unbound"
AllReturn == TestsReturn /\ RemovesEnd
=============================================================================
