------------------------------ MODULE MCConsole ------------------------------
(* A small instance of Console for TLC: an identifier and a size with zeros   *)
(* inside and at the end (4112 is 1010 in hexadecimal).  The count begins     *)
(* with 0.                                                                    *)
EXTENDS Console

MCIds == {4112}
MCTyped == {"k", "\n"}
MCHeapSizes == {2050}
=============================================================================
