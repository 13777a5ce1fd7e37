----------------------------- MODULE MCConsole ------------------------------
(* Instances of Console for TLC: two writers, one caller of the firmware   *)
(* and a ring so small that it wraps around and overflows.                 *)
EXTENDS Console

CONSTANTS w1, w2, c1
=============================================================================
