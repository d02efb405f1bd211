---------------------------- MODULE MCCyclicSend ----------------------------
(* Instances of CyclicSend for TLC. *)
EXTENDS CyclicSend

Plain == {FALSE}
WithScripts == BOOLEAN
=============================================================================
