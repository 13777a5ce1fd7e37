----------------------------- MODULE MCNetwork -----------------------------
EXTENDS NetworkInterface
CONSTANTS s1, s2

(* Two callers fill the transmit ring; one sends and a frame arrives; one  *)
(* sends while the link changes; frames arrive and the link changes.       *)
MCListen == {[senders |-> {}, frames |-> MaxFrames, flaps |-> MaxFlaps]}
MCLoads == {[senders |-> {s1, s2}, frames |-> 0, flaps |-> 0],
            [senders |-> {s1}, frames |-> 1, flaps |-> 0],
            [senders |-> {s1}, frames |-> 0, flaps |-> MaxFlaps]} \cup MCListen
=============================================================================
