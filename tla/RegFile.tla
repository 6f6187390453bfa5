------------------------------- MODULE RegFile -------------------------------
(***************************************************************************)
(* What the guest is promised of BAR0 when only the guest writes it: one   *)
(* register file, where a write takes effect at once and a read returns    *)
(* the file as it is when the read is answered.  No cache, no socket, no   *)
(* threads.                                                                *)
(***************************************************************************)
EXTENDS RegBlock

CONSTANT Values     \* what the guest writes

VARIABLES
    file,   \* the registers
    cpu     \* the guest's read in progress

vars == <<file, cpu>>

Idle == [pc |-> "idle"]
Asked(r) == [pc |-> "asked", reg |-> r]
Answered(r, v) == [pc |-> "answered", reg |-> r, val |-> v]

Init == file = RegInit /\ cpu = Idle

Write ==
    /\ cpu = Idle
    /\ \E r \in RegNames, v \in Values : file' = RegWrite(file, r, v)
    /\ UNCHANGED cpu

Ask ==
    /\ cpu = Idle
    /\ \E r \in RegNames : cpu' = Asked(r)
    /\ UNCHANGED file

Answer ==
    /\ cpu.pc = "asked"
    /\ cpu' = Answered(cpu.reg, RegRead(file, cpu.reg))
    /\ UNCHANGED file

Return ==
    /\ cpu.pc = "answered"
    /\ cpu' = Idle
    /\ UNCHANGED file

Next == Write \/ Ask \/ Answer \/ Return

Spec == Init /\ [][Next]_vars
==============================================================================
