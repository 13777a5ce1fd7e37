------------------------------- MODULE MCI2c -------------------------------
(* An instance of I2c for TLC: two tasks share the instance.               *)
EXTENDS I2c

CONSTANTS c1, c2
=============================================================================
