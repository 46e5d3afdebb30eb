------------------------- MODULE MCControlService -------------------------
(* Finite instances of ControlService and of its refinement for TLC.       *)
EXTENDS ControlContract, ControlInvariant, TLC

(* Requests are alike, and so are the uuids of workers.                    *)
Symmetry == Permutations(Requests) \cup Permutations(WorkerIds)
=============================================================================
