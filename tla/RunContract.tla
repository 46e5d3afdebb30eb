---------------------------- MODULE RunContract ----------------------------
(***************************************************************************)
(* What POST /service/control/run promises, without pods, queues, pools or *)
(* crashes: the code of a request runs in a sandbox given to that request  *)
(* and to no other, before or after; the request is answered with what     *)
(* that run produced or is given up; and the sandbox is not thrown away    *)
(* while its request is pending.                                           *)
(***************************************************************************)
CONSTANTS Requests, Sandbox, None

VARIABLES status,  \* status[r]: "new", "pending", "answered" or "over"
          given,   \* given[r]: the sandbox given to r
          ran,     \* ran[s]: the request whose code ran in s
          result,  \* result[r]: the request whose outcome r was answered
          gone     \* the sandboxes thrown away

vars == <<status, given, ran, result, gone>>

Init ==
  /\ status = [r \in Requests |-> "new"]
  /\ given = [r \in Requests |-> None]
  /\ ran = [s \in Sandbox |-> None]
  /\ result = [r \in Requests |-> None]
  /\ gone = {}

Submit(r) ==
  /\ status[r] = "new"
  /\ \E next \in {"pending", "over"} : status' = [status EXCEPT ![r] = next]
  /\ UNCHANGED <<given, ran, result, gone>>

Give(r, s) ==
  /\ status[r] = "pending"
  /\ given[r] = None
  /\ s \notin gone
  /\ ran[s] = None
  /\ \A q \in Requests : given[q] # s
  /\ given' = [given EXCEPT ![r] = s]
  /\ UNCHANGED <<status, ran, result, gone>>

(* The code may start late, when its request was given up already.         *)
Run(r, s) ==
  /\ given[r] = s
  /\ s \notin gone
  /\ ran[s] = None
  /\ ran' = [ran EXCEPT ![s] = r]
  /\ UNCHANGED <<status, given, result, gone>>

Answer(r) ==
  /\ status[r] = "pending"
  /\ given[r] # None
  /\ ran[given[r]] = r
  /\ status' = [status EXCEPT ![r] = "answered"]
  /\ result' = [result EXCEPT ![r] = r]
  /\ UNCHANGED <<given, ran, gone>>

(* A timeout or a failure ends one request, the end of the process many.   *)
GiveUp(R) ==
  /\ \A r \in R : status[r] = "pending"
  /\ status' = [r \in Requests |-> IF r \in R THEN "over" ELSE status[r]]
  /\ UNCHANGED <<given, ran, result, gone>>

ThrowAway(s) ==
  /\ \A r \in Requests : given[r] = s => status[r] # "pending"
  /\ gone' = gone \cup {s}
  /\ UNCHANGED <<status, given, ran, result>>

Next ==
  \/ \E r \in Requests : Submit(r) \/ Answer(r)
  \/ \E r \in Requests, s \in Sandbox : Give(r, s) \/ Run(r, s)
  \/ \E R \in SUBSET Requests : GiveUp(R)
  \/ \E s \in Sandbox : ThrowAway(s)

Spec == Init /\ [][Next]_vars
=============================================================================
