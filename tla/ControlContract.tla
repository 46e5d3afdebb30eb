-------------------------- MODULE ControlContract --------------------------
(* The control service keeps the contract of a run: its handlers, seen     *)
(* with their workers as the sandboxes of RunContract.                     *)
EXTENDS ControlService

StatusOf(r) == CASE pc[r] = "idle" -> "new"
                 [] pc[r] \in InFlight -> "pending"
                 [] pc[r] = "answered" -> "answered"
                 [] OTHER -> "over"

Contract == INSTANCE RunContract WITH
              Sandbox <- WorkerIds,
              status <- [r \in Requests |-> StatusOf(r)],
              given <- worker,
              ran <- job,
              gone <- {w \in WorkerIds : agent[w] = "deleted"}

(* The control service implements RunContract: through crashes, restarts,  *)
(* failed calls, late replies and a shutdown, no sandbox runs the code of  *)
(* two requests, none is thrown away under a pending request, and an       *)
(* answer is the outcome of the run of that very request.                  *)
KeepsContract == Contract!Spec
=============================================================================
