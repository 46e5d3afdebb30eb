---------------------------- MODULE MCExecution ----------------------------
(* A finite instance of Execution for TLC: two texts, and two languages of *)
(* which one has no pool of its own.                                       *)
EXTENDS Execution
=============================================================================
