------------------------------- MODULE Console -------------------------------
(***************************************************************************)
(* The firmware's tasks (rtos/main.c) and the UART they share (bsp/uart.c).*)
(* Nothing guards the UART: uart_putc polls THRE and then stores, and the  *)
(* scheduler may run another task between the two.  The FreeRTOS kernel is *)
(* external: it runs a ready task of the highest priority, switches among  *)
(* equals, and wakes a delayed task at a later tick.                       *)
(*                                                                         *)
(* A character is a string; the literal text between two directives of a   *)
(* format is one, and the line feed that ends a line is left out except in *)
(* what the echo task answers.  Of the information the line on one of the  *)
(* three identifiers and the line on the heap are printed.                 *)
(***************************************************************************)
EXTENDS Integers, SequencesExt

CONSTANTS
    FifoSize,       \* the 16550A's FIFOs: 16
    TickRateHz,     \* configTICK_RATE_HZ: 100
    Nibbles,        \* hexadecimal digits of an unsigned int: 8 in the code
    Ids,            \* what an identification register (mhartid, ...) may hold
    Typed,          \* characters that may be received
    HeapSizes,      \* what xPortGetFreeHeapSize returns
    MaxBeats,       \* bound: heartbeats
    MaxWaiting      \* bound: characters received and not read

ASSUME ConsoleAssumption ==
    /\ {FifoSize, TickRateHz, Nibbles} \subseteq Nat \ {0}
    /\ MaxBeats \in Nat \ {0} /\ MaxWaiting \in 0 .. FifoSize
    /\ Ids \subseteq Nat /\ HeapSizes \subseteq Nat

VARIABLES
    task,       \* task[t]: what t is at, its stage, and what it has yet to print
    fifo,       \* characters in the transmit FIFO
    lost,       \* a character was stored in a full FIFO
    rx,         \* characters received and not read
    count,      \* vTaskHeartbeat's count
    beats,      \* heartbeats begun
    mimpid      \* the identifier, which vTaskInfo reads once

vars == <<task, fifo, lost, rx, count, beats, mimpid>>

Tasks == {"heartbeat", "info", "echo", "pci_test"}

\* xTaskCreate.  Mutant: all alike.
PriorityFlat(t) == 1
Priority(t) == IF t = "echo" THEN 2 ELSE 1

\* pdMS_TO_TICKS.
Ticks(ms) == (ms * TickRateHz) \div 1000

\* The FIFO is enabled by uart_init.  Mutant: it is not.
CapacityOff == 1
Capacity == FifoSize

-----------------------------------------------------------------------------
(* uart_printf. *)

Chars == <<"0", "1", "2", "3", "4", "5", "6", "7", "8", "9", "a", "b", "c", "d", "e", "f">>
Digit(n) == Chars[n + 1]

\* Whether nibble i, after the text done, is shown: the loop has started once
\* something is.  Mutant: it forgets that it has.
ShowsForgets(nibble, done, i) == nibble # 0 \/ i = 0
Shows(nibble, done, i) == nibble # 0 \/ done # <<>> \/ i = 0

\* %x and %lx, of n nibbles, the highest first; after[k] has passed k of them.
Hex(v, n) ==
    LET after[k \in 0 .. n] ==
            IF k = 0 THEN <<>>
            ELSE LET done == after[k - 1]
                     nibble == (v \div 16 ^ (n - k)) % 16
                 IN IF Shows(nibble, done, n - k) THEN Append(done, Digit(nibble)) ELSE done
    IN after[n]

\* %d of a number that is not negative: the digits are taken from the last and
\* put in the reverse order.
Dec(v) ==
    LET upto[u \in 0 .. v] ==
            IF u = 0 THEN <<>> ELSE Append(upto[u \div 10], Digit(u % 10))
    IN IF v = 0 THEN <<Digit(0)>> ELSE upto[v]

Format(d, v) ==
    CASE d = "%x" -> Hex(v, Nibbles)
      [] d = "%lx" -> Hex(v, 2 * Nibbles)
      [] d = "%d" -> Dec(v)

-----------------------------------------------------------------------------
(* What the tasks print. *)

BeatLine(n) == <<"[HB] count=0x">> \o Format("%x", n)
IdLine(id) == <<"id: 0x">> \o Format("%lx", id)
HeapLine(heap) == <<"Heap: ">> \o Format("%d", heap)
EchoBanner == <<"[ECHO]">>
Echoed(c) == IF c \in {"\r", "\n"} THEN <<c, ">", " ">> ELSE <<c>>
PciLines == <<"[PCI]">>

At(t, pc, stage) == task[t].pc = pc /\ task[t].stage = stage
Becomes(t, pc, stage, text) ==
    task' = [task EXCEPT ![t] = [pc |-> pc, stage |-> stage, text |-> text]]

\* vTaskDelay: no delay at all, for 0 ticks.
Delays(t, ms, stage) == Becomes(t, IF Ticks(ms) > 0 THEN "asleep" ELSE "run", stage, <<>>)
Prints(t, text, stage) == Becomes(t, "poll", stage, text)

Init ==
    /\ task = [t \in Tasks |-> [pc |-> "run", stage |-> 0, text |-> <<>>]]
    /\ fifo = 0 /\ lost = FALSE /\ rx = <<>>
    /\ count = 0 /\ beats = 0 /\ mimpid \in Ids

AfterBeat(n) == (n + 1) % (16 ^ Nibbles)

Heartbeat ==
    \/ /\ At("heartbeat", "run", 0)
       /\ Prints("heartbeat", BeatLine(count), 1)
       /\ count' = AfterBeat(count) /\ beats' = beats + 1
       /\ UNCHANGED <<fifo, lost, rx, mimpid>>
    \/ /\ At("heartbeat", "run", 1) /\ Delays("heartbeat", 2000, 0)
       /\ UNCHANGED <<fifo, lost, rx, count, beats, mimpid>>

Info ==
    /\ \/ At("info", "run", 0) /\ Delays("info", 500, 1)
       \/ At("info", "run", 1) /\ Prints("info", IdLine(mimpid), 2)
       \/ At("info", "run", 2) /\ \E h \in HeapSizes : Prints("info", HeapLine(h), 3)
       \/ At("info", "run", 3) /\ Delays("info", 10000, 1)
    /\ UNCHANGED <<fifo, lost, rx, count, beats, mimpid>>

\* Mutant: a delay that is no tick long.
EchoDelayShort == 5
EchoDelay == 10

\* uart_getc_nonblock, and what it returns is printed.
Echo ==
    /\ \/ At("echo", "run", 0) /\ Prints("echo", EchoBanner, 1) /\ UNCHANGED rx
       \/ /\ At("echo", "run", 1)
          /\ IF rx = <<>> THEN Becomes("echo", "run", 2, <<>>) /\ UNCHANGED rx
             ELSE Prints("echo", Echoed(Head(rx)), 2) /\ rx' = Tail(rx)
       \/ At("echo", "run", 2) /\ Delays("echo", EchoDelay, 1) /\ UNCHANGED rx
    /\ UNCHANGED <<fifo, lost, count, beats, mimpid>>

\* PciTest has what is between the banner and the verdict.
PciTask ==
    /\ \/ At("pci_test", "run", 0) /\ Delays("pci_test", 1000, 1)
       \/ At("pci_test", "run", 1) /\ Prints("pci_test", PciLines, 2)
       \/ At("pci_test", "run", 2) /\ Becomes("pci_test", "deleted", 2, <<>>)
    /\ UNCHANGED <<fifo, lost, rx, count, beats, mimpid>>

-----------------------------------------------------------------------------
\* uart_putc: THRE means that the transmit FIFO is empty ...
PollThre(t) ==
    /\ task[t].pc = "poll" /\ fifo = 0
    /\ task' = [task EXCEPT ![t].pc = "store"]
    /\ UNCHANGED <<fifo, lost, rx, count, beats, mimpid>>

\* ... and the character is stored, a line feed followed by a carriage return.
StoreThr(t) ==
    /\ task[t].pc = "store"
    /\ LET c == Head(task[t].text)
           rest == (IF c = "\n" THEN <<"\r">> ELSE <<>>) \o Tail(task[t].text)
       IN Becomes(t, IF rest = <<>> THEN "run" ELSE "poll", task[t].stage, rest)
    /\ fifo' = IF fifo < Capacity THEN fifo + 1 ELSE fifo
    /\ lost' = (lost \/ fifo >= Capacity)
    /\ UNCHANGED <<rx, count, beats, mimpid>>

Body(t) ==
    CASE t = "heartbeat" -> Heartbeat
      [] t = "info" -> Info
      [] t = "echo" -> Echo
      [] t = "pci_test" -> PciTask

\* A task that polls is ready, whatever it finds.
Ready(t) == task[t].pc \in {"run", "poll", "store"}
Run(t) ==
    /\ \A u \in Tasks : Ready(u) => Priority(u) <= Priority(t)
    /\ Body(t) \/ PollThre(t) \/ StoreThr(t)

Wake(t) ==
    /\ task[t].pc = "asleep" /\ (t = "heartbeat" => beats < MaxBeats)
    /\ task' = [task EXCEPT ![t].pc = "run"]
    /\ UNCHANGED <<fifo, lost, rx, count, beats, mimpid>>

UartSends ==
    /\ fifo > 0 /\ fifo' = fifo - 1
    /\ UNCHANGED <<task, lost, rx, count, beats, mimpid>>

\* QEMU offers a character only while there is room for it.
UartReceives ==
    /\ Len(rx) < MaxWaiting
    /\ \E c \in Typed : rx' = Append(rx, c)
    /\ UNCHANGED <<task, fifo, lost, count, beats, mimpid>>

Next == UartSends \/ UartReceives \/ \E t \in Tasks : Run(t) \/ Wake(t)

(***************************************************************************)
(* The UART sends, ticks come, and a tick is longer than a character and   *)
(* than a step of a task, so that both also happen while the echo task     *)
(* sleeps, if it ever does.  Nobody has to type.                           *)
(***************************************************************************)
Spec ==
    /\ Init /\ [][Next]_vars
    /\ WF_vars(UartSends) /\ SF_vars(UartSends /\ task["echo"].pc = "asleep")
    /\ WF_vars(Run("echo")) /\ \A t \in Tasks \ {"echo"} : SF_vars(Run(t))
    /\ \A t \in Tasks : WF_vars(Wake(t))

-----------------------------------------------------------------------------
(***************************************************************************)
(* No character is lost, although tasks that have all seen THRE store one  *)
(* after the other: the FIFO has room for one of each (uart.c:25-36).      *)
(***************************************************************************)
NoneLost == ~lost

(***************************************************************************)
(* What the echo task prints is not torn apart, a prompt stays with its    *)
(* line end: while it prints, no other task stores a character             *)
(* (main.c:81-87, 207-214).                                                *)
(***************************************************************************)
Stores(t) == task[t].pc = "store" /\ task'[t].pc # "store"
Printing(t) == task[t].pc \in {"poll", "store"}
EchoUnbroken == [][Printing("echo") => \A t \in Tasks \ {"echo"} : ~Stores(t)]_vars

(***************************************************************************)
(* The count, the identifier and the size of the heap are printed with the *)
(* digits they have: read back, these give the number, and the first is    *)
(* not 0 unless it is the only one, as in the first heartbeat              *)
(* (main.c:33, 38, 58-64; uart.c:100-147, 174-194).                        *)
(***************************************************************************)
ValueOf(digits, base) ==
    FoldLeft(LAMBDA v, c : base * v + (CHOOSE i \in 1 .. 16 : Chars[i] = c) - 1, 0, digits)
Spells(digits, v, base) ==
    /\ digits # <<>> /\ ValueOf(digits, base) = v
    /\ digits[1] = "0" => Len(digits) = 1
Starts(t, stage) == ~Printing(t) /\ Printing(t)' /\ task[t].stage = stage
NumbersSpelled ==
    /\ [][Starts("heartbeat", 0) => Spells(Tail(task'["heartbeat"].text), count, 16)]_vars
    /\ [][Starts("info", 1) => Spells(Tail(task'["info"].text), mimpid, 16)]_vars
    /\ [][Starts("info", 2) =>
            \E h \in HeapSizes : Spells(Tail(task'["info"].text), h, 10)]_vars

(***************************************************************************)
(* Every other task comes to where it sleeps or ends, although the echo    *)
(* task is above it and may have something to echo at every tick: the echo *)
(* task sleeps in between (main.c:80-89).                                  *)
(***************************************************************************)
TasksGoOn == \A t \in Tasks \ {"echo"} : Ready(t) ~> ~Ready(t)
=============================================================================
