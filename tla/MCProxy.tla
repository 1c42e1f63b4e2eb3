------------------------------ MODULE MCProxy ------------------------------
(* Instances of Proxy for TLC; the cfg files choose the bounds, the faults    *)
(* and which timers are taken to be longer than an exchange on the line.      *)
EXTENDS Proxy
=============================================================================
