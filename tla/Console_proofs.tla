---------------------------- MODULE Console_proofs ----------------------------
(***************************************************************************)
(* Proofs about the firmware's tasks on the UART they share, for every     *)
(* size of the FIFO that has room for one character of each task, and for  *)
(* every tick rate, width of a number and input.                           *)
(***************************************************************************)
EXTENDS Console, FiniteSetTheorems, TLAPS

Pcs == {"run", "asleep", "deleted", "poll", "store"}

\* The shape of the task table; what a task has left to print may be anything.
TasksOK ==
    /\ task = [t \in Tasks |-> task[t]]
    /\ \A t \in Tasks :
          /\ task[t] = [pc |-> task[t].pc, stage |-> task[t].stage, text |-> task[t].text]
          /\ task[t].pc \in Pcs

(***************************************************************************)
(* A task stores one character after it has seen an empty FIFO: what the   *)
(* FIFO holds and what the tasks at "store" are about to add to it are     *)
(* together one character of each task at most.                            *)
(***************************************************************************)
Storing == {t \in Tasks : task[t].pc = "store"}
RoomForAll == fifo \in Nat /\ fifo + Cardinality(Storing) <= Cardinality(Tasks)

Inv == TasksOK /\ RoomForAll /\ NoneLost

-----------------------------------------------------------------------------
(* The four tasks of main are a finite set.                                *)
LEMMA TasksFinite == IsFiniteSet(Tasks)
<1>1. \A S : IsFiniteSet(S) => \A x : IsFiniteSet(S \cup {x})
  BY FS_AddElement
<1>2. IsFiniteSet({} \cup {"heartbeat"} \cup {"info"} \cup {"echo"} \cup {"pci_test"})
  BY <1>1, FS_EmptySet
<1>3. Tasks = {} \cup {"heartbeat"} \cup {"info"} \cup {"echo"} \cup {"pci_test"}
  BY DEF Tasks
<1> QED
  BY <1>2, <1>3

(* So are those about to store, and there are no more of them than tasks.  *)
LEMMA SomeTasks ==
    ASSUME NEW S, S \subseteq Tasks
    PROVE  /\ IsFiniteSet(S) /\ Cardinality(S) \in Nat /\ Cardinality(Tasks) \in Nat
           /\ Cardinality(S) <= Cardinality(Tasks)
BY TasksFinite, FS_Subset, FS_CardinalityType

(* Becomes changes one entry of the table.                                 *)
LEMMA BecomesKeeps ==
    ASSUME TasksOK, NEW t \in Tasks, NEW pc \in Pcs, NEW stage, NEW text,
           Becomes(t, pc, stage, text)
    PROVE  /\ TasksOK' /\ task'[t].pc = pc
           /\ \A u \in Tasks \ {t} : task'[u] = task[u]
BY DEF TasksOK, Becomes

(* A task leaves a step of its body printing, asleep, running or deleted,  *)
(* and never about to store: it has yet to poll.                           *)
LEMMA BodyStep ==
    ASSUME TasksOK, NEW t \in Tasks, Body(t)
    PROVE  /\ TasksOK' /\ UNCHANGED <<fifo, lost>>
           /\ task[t].pc = "run" /\ task'[t].pc # "store"
           /\ \A u \in Tasks \ {t} : task'[u] = task[u]
<1>1. PICK pc, stage, text : pc \in Pcs \ {"store"} /\ Becomes(t, pc, stage, text)
  <2>1. CASE t = "heartbeat"
    BY <2>1 DEF Body, Heartbeat, Prints, Delays, Pcs
  <2>2. CASE t = "info"
    BY <2>2 DEF Body, Info, Prints, Delays, Pcs
  <2>3. CASE t = "echo"
    BY <2>3 DEF Body, Echo, Prints, Delays, Pcs
  <2>4. CASE t = "pci_test"
    BY <2>4 DEF Body, PciTask, Prints, Delays, Pcs
  <2> QED
    BY <2>1, <2>2, <2>3, <2>4 DEF Tasks
<1>2. UNCHANGED <<fifo, lost>> /\ task[t].pc = "run"
  <2>1. CASE t = "heartbeat"
    BY <2>1 DEF Body, Heartbeat, At
  <2>2. CASE t = "info"
    BY <2>2 DEF Body, Info, At
  <2>3. CASE t = "echo"
    BY <2>3 DEF Body, Echo, At
  <2>4. CASE t = "pci_test"
    BY <2>4 DEF Body, PciTask, At
  <2> QED
    BY <2>1, <2>2, <2>3, <2>4 DEF Tasks
<1> QED
  BY <1>1, <1>2, BecomesKeeps

(* A step that leaves the FIFO alone and moves one task, not to "store",   *)
(* adds nobody to those about to store.                                    *)
LEMMA StoringKept ==
    ASSUME RoomForAll, NEW t \in Tasks, task'[t].pc # "store", fifo' \in Nat, fifo' <= fifo,
           \A u \in Tasks \ {t} : task'[u] = task[u]
    PROVE  RoomForAll'
<1>1. Storing' \subseteq Storing
  BY DEF Storing
<1>2. Cardinality(Storing') \in Nat /\ Cardinality(Storing) \in Nat
      /\ Cardinality(Storing') <= Cardinality(Storing)
  BY <1>1, SomeTasks, FS_Subset DEF Storing
<1>3. Cardinality(Tasks) \in Nat
  BY SomeTasks
<1> QED
  BY <1>2, <1>3 DEF RoomForAll

-----------------------------------------------------------------------------

\* It holds when the console starts, its FIFOs empty.
LEMMA InitInv == Init => Inv
<1> SUFFICES ASSUME Init PROVE Inv
  OBVIOUS
<1>1. TasksOK /\ NoneLost
  BY DEF Init, TasksOK, NoneLost, Pcs
<1>2. Storing = {}
  BY DEF Init, Storing
<1>3. RoomForAll
  BY <1>2, FS_EmptySet, SomeTasks DEF Init, RoomForAll
<1> QED
  BY <1>1, <1>3 DEF Inv

(* Polling: the FIFO is empty, and the task joins those about to store.    *)
LEMMA PollInv == ASSUME Inv, NEW t \in Tasks, PollThre(t) PROVE Inv'
<1>1. TasksOK' /\ NoneLost'
  BY DEF Inv, PollThre, TasksOK, NoneLost, Pcs
<1>2. fifo' = 0 /\ Cardinality(Storing') \in Nat /\ Cardinality(Storing') <= Cardinality(Tasks)
  BY SomeTasks DEF PollThre, Storing
<1> QED
  BY <1>1, <1>2 DEF Inv, RoomForAll

(* Storing: the character the task was counted for is in the FIFO.         *)
LEMMA StoreInv ==
    ASSUME FifoSize >= Cardinality(Tasks), Inv, NEW t \in Tasks, StoreThr(t)
    PROVE  Inv'
<1>1. PICK pc, text : pc \in Pcs \ {"store"} /\ Becomes(t, pc, task[t].stage, text)
  BY DEF StoreThr, Pcs
<1>2. TasksOK' /\ task'[t].pc # "store" /\ \A u \in Tasks \ {t} : task'[u] = task[u]
  BY <1>1, BecomesKeeps DEF Inv
<1>3. t \in Storing /\ Storing' = Storing \ {t}
  BY <1>2 DEF StoreThr, Storing
<1>4. /\ Cardinality(Storing) \in Nat /\ Cardinality(Tasks) \in Nat
      /\ Cardinality(Storing') = Cardinality(Storing) - 1 /\ Cardinality(Storing') \in Nat
  <2>1. Storing \subseteq Tasks /\ Storing' \subseteq Tasks
    BY DEF Storing
  <2>2. IsFiniteSet(Storing)
    BY <2>1, SomeTasks
  <2> QED
    BY <1>3, <2>1, <2>2, SomeTasks, FS_RemoveElement
<1>5. fifo \in Nat /\ fifo + Cardinality(Storing) <= Cardinality(Tasks) /\ FifoSize \in Nat
  BY ConsoleAssumption DEF Inv, RoomForAll
<1>6. fifo < Capacity
  BY <1>4, <1>5 DEF Capacity
<1>7. fifo' = fifo + 1
  BY <1>6 DEF StoreThr
<1>8. ~(fifo >= Capacity)
  BY <1>5, <1>6 DEF Capacity
<1>9. NoneLost'
  BY <1>8, Zenon DEF StoreThr, Inv, NoneLost
<1> QED
  BY <1>2, <1>4, <1>5, <1>7, <1>9 DEF Inv, RoomForAll

(* Every step keeps the invariant.                                         *)
LEMMA NextInv ==
    ASSUME FifoSize >= Cardinality(Tasks), Inv, [Next]_vars
    PROVE  Inv'
<1>1. CASE UartSends
  <2>1. fifo \in Nat /\ fifo' = fifo - 1 /\ fifo' \in Nat /\ UNCHANGED <<task, lost>>
    BY <1>1 DEF UartSends, Inv, RoomForAll
  <2>2. Cardinality(Storing) \in Nat /\ Cardinality(Tasks) \in Nat /\ Storing' = Storing
    BY <2>1, SomeTasks DEF Storing
  <2> QED
    BY <2>1, <2>2 DEF Inv, RoomForAll, NoneLost, TasksOK
<1>2. CASE UartReceives
  BY <1>2 DEF UartReceives, Inv, RoomForAll, NoneLost, TasksOK, Storing
<1>3. ASSUME NEW t \in Tasks, Run(t) PROVE Inv'
  <2>1. CASE Body(t)
    BY <2>1, BodyStep, StoringKept DEF Inv, NoneLost, RoomForAll
  <2>2. CASE PollThre(t)
    BY <2>2, PollInv
  <2>3. CASE StoreThr(t)
    BY <2>3, StoreInv
  <2> QED
    BY <1>3, <2>1, <2>2, <2>3 DEF Run
<1>4. ASSUME NEW t \in Tasks, Wake(t) PROVE Inv'
  <2>1. TasksOK' /\ task'[t].pc # "store" /\ \A u \in Tasks \ {t} : task'[u] = task[u]
    BY <1>4 DEF Wake, Inv, TasksOK, Pcs
  <2> QED
    BY <1>4, <2>1, StoringKept DEF Wake, Inv, NoneLost, RoomForAll
<1>5. CASE UNCHANGED vars
  BY <1>5 DEF vars, Inv, RoomForAll, NoneLost, TasksOK, Storing
<1> QED
  BY <1>1, <1>2, <1>3, <1>4, <1>5 DEF Next

(***************************************************************************)
(* No character is lost on a FIFO with room for one of each task, however  *)
(* the scheduler switches between their polls and their stores             *)
(* (uart.c:25-36).                                                         *)
(***************************************************************************)
THEOREM FifoHolds ==
    ASSUME FifoSize >= Cardinality(Tasks)
    PROVE  Spec => []NoneLost
<1>1. Inv /\ [Next]_vars => Inv'
  BY NextInv
<1> QED
  BY <1>1, InitInv, PTL DEF Inv, Spec

-----------------------------------------------------------------------------
(* The table of tasks keeps its shape, whatever the FIFO's size.           *)
LEMMA NextTasks == TasksOK /\ [Next]_vars => TasksOK'
<1> SUFFICES ASSUME TasksOK, [Next]_vars PROVE TasksOK'
  OBVIOUS
<1>1. CASE UartSends \/ UartReceives \/ UNCHANGED vars
  BY <1>1 DEF UartSends, UartReceives, vars, TasksOK
<1>2. ASSUME NEW t \in Tasks, Run(t) PROVE TasksOK'
  <2>1. CASE Body(t)
    BY <2>1, BodyStep
  <2>2. CASE PollThre(t)
    BY <2>2 DEF PollThre, TasksOK, Pcs
  <2>3. CASE StoreThr(t)
    <3>1. PICK pc, text : pc \in Pcs /\ Becomes(t, pc, task[t].stage, text)
      BY <2>3 DEF StoreThr, Pcs
    <3> QED
      BY <3>1, BecomesKeeps
  <2> QED
    BY <1>2, <2>1, <2>2, <2>3 DEF Run
<1>3. ASSUME NEW t \in Tasks, Wake(t) PROVE TasksOK'
  BY <1>3 DEF Wake, TasksOK, Pcs
<1> QED
  BY <1>1, <1>2, <1>3 DEF Next

(* A task that stores is the one that runs, and no task that is ready has  *)
(* a higher priority.                                                      *)
LEMMA StoresRuns ==
    ASSUME TasksOK, Next, NEW t \in Tasks, Stores(t)
    PROVE  \A u \in Tasks : Ready(u) => Priority(u) <= Priority(t)
<1>1. task[t].pc = "store" /\ task'[t] # task[t]
  BY DEF Stores
<1>2. PICK u \in Tasks : Run(u) \/ Wake(u)
  BY <1>1 DEF Next, UartSends, UartReceives
<1>3. CASE Run(u)
  <2>1. \A w \in Tasks \ {u} : task'[w] = task[w]
    <3>1. CASE Body(u)
      BY <3>1, BodyStep
    <3>2. CASE PollThre(u)
      BY <3>2 DEF PollThre, TasksOK
    <3>3. CASE StoreThr(u)
      BY <3>3 DEF StoreThr, Becomes, TasksOK
    <3> QED
      BY <1>3, <3>1, <3>2, <3>3 DEF Run
  <2>2. u = t
    BY <1>1, <2>1
  <2> QED
    BY <1>3, <2>2 DEF Run
<1>4. CASE Wake(u)
  BY <1>1, <1>4 DEF Wake, TasksOK
<1> QED
  BY <1>2, <1>3, <1>4

(***************************************************************************)
(* While the echo task prints, no other task stores a character: it is     *)
(* ready, and alone at its priority (main.c:81-87, 207-214).               *)
(***************************************************************************)
THEOREM EchoAlone == Spec => EchoUnbroken
<1>1. TasksOK /\ [Next]_vars =>
        [Printing("echo") => \A t \in Tasks \ {"echo"} : ~Stores(t)]_vars
  <2> SUFFICES ASSUME TasksOK, Next, Printing("echo"),
                      NEW t \in Tasks \ {"echo"}, Stores(t)
               PROVE  FALSE
    OBVIOUS
  <2>1. "echo" \in Tasks /\ Ready("echo")
    BY DEF Tasks, Printing, Ready
  <2>2. Priority("echo") <= Priority(t)
    BY <2>1, StoresRuns
  <2> QED
    BY <2>2 DEF Priority
<1>2. Init => TasksOK
  BY DEF Init, TasksOK, Pcs
<1> QED
  BY <1>1, <1>2, NextTasks, PTL DEF Spec, EchoUnbroken
=============================================================================
