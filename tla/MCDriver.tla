------------------------------- MODULE MCDriver -------------------------------
(* Small instances of Driver for TLC. *)
EXTENDS Driver

CONSTANTS w1, w2

Env(device, who, kinds, most, binds, n, timely) ==
    [device |-> device, writers |-> who, kinds |-> kinds, tests |-> most, binds |-> binds,
     frames |-> n, timely |-> timely]

\* The environments of Calm, one for each device.
CalmEnvs ==
    {Env("pci", {w1}, {"dma", "tx"}, 4, 1, 0, TRUE), Env("systemc", {w1}, Kinds, 4, 1, 0, TRUE)}

\* And what makes it less calm: interrupts that are lost, a second writer and
\* late answers, frames, and a second binding.
HardEnvs ==
    {Env("pci", {w1}, Kinds, 4, 1, 0, TRUE), Env("pci", {w1, w2}, Kinds, 2, 1, 0, FALSE),
     Env("systemc", {w1, w2}, Kinds, 2, 1, 1, FALSE), Env("pci", {w1}, Kinds, 2, 2, 0, FALSE),
     Env("systemc", {w1}, Kinds, 2, 2, 1, FALSE)}

MCEnvs == CalmEnvs \cup HardEnvs

\* The QEMU device with one writer and a NIC in time.
PciEnvs == {Env("pci", {w1}, {"dma", "irq"}, 3, 1, 0, TRUE)}
=============================================================================
