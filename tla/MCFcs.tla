-------------------------------- MODULE MCFcs --------------------------------
(* Instances of Fcs for TLC.                                               *)
EXTENDS Fcs

=============================================================================
