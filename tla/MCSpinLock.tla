----------------------------- MODULE MCSpinLock -----------------------------
(* Instances of SpinLock for TLC: cores as model values, which are         *)
(* interchangeable in every action and property.                           *)
EXTENDS SpinLock, TLC

CoreSymmetry == Permutations(Cores)
=============================================================================
