---------------------------- MODULE MCSimulation ----------------------------
(* A small instance of Simulation for TLC. *)
EXTENDS Simulation

Env(netif, comes, n, oversize, cuts, transmits) ==
    [netif |-> netif, qemu |-> comes, frames |-> n, oversize |-> oversize, cuts |-> cuts,
     transmits |-> transmits]

\* Without the interface; with it and frames, cut in their data, in their
\* lengths and in excess, while the program gives up; and with everything.
MCEnvs ==
    {Env(FALSE, TRUE, 0, FALSE, FALSE, FALSE), Env(FALSE, TRUE, 0, FALSE, FALSE, TRUE),
     Env(TRUE, FALSE, 2, FALSE, TRUE, FALSE), Env(TRUE, FALSE, 1, TRUE, FALSE, FALSE),
     Env(TRUE, TRUE, 1, FALSE, FALSE, FALSE), Env(TRUE, TRUE, 1, FALSE, FALSE, TRUE)}
=============================================================================
