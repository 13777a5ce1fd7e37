------------------------------- MODULE MCUart -------------------------------
(* Instances of Uart for TLC: one task, or two that share the port.        *)
EXTENDS Uart

CONSTANTS t1, t2
=============================================================================
