---------------------------- MODULE MCMboxClient ----------------------------
(* Instances of MboxClient for TLC.                                        *)
EXTENDS MboxClient

CONSTANTS t1, t2

Everywhere == PollLocations
=============================================================================
