----------------------------- MODULE Sandboxes -----------------------------
(***************************************************************************)
(* What the control service acts on and does not own: the worker pods, the *)
(* agent process in each of them (internal/worker) and the RabbitMQ queues *)
(* between an agent and the control service.                               *)
(*                                                                         *)
(* A worker is created for one request: its id names its rpc queue and is  *)
(* the correlation id of its one reply.  Kubernetes and RabbitMQ are       *)
(* external; what they do is taken from the options the code passes them.  *)
(***************************************************************************)
EXTENDS Integers, FiniteSets, Sequences

CONSTANTS Requests,    \* the POST /service/control/run requests
          WorkerIds,   \* the uuids given to workers
          None         \* "no request" and "no worker"

ASSUME NoneAssumption == None \notin Requests /\ None \notin WorkerIds

VARIABLES agent,       \* agent[w]: what the pod of worker w is doing
          job,         \* job[w]: the request whose code the agent received
          declared,    \* the workers whose rpc queue exists
          rpcQueue,    \* rpcQueue[w]: requests published, not delivered
          replyQueue   \* replies <<worker, request>> waiting for the service

sandboxVars == <<agent, job, declared, rpcQueue, replyQueue>>

(* "absent": no pod yet; "exited": the pod is there, its process is gone   *)
(* (RestartPolicyNever); "deleted": the pod object is gone.                *)
AgentStates == {"absent", "starting", "consuming", "executing", "published",
                "exited", "deleted"}

PodStates == AgentStates \ {"absent", "deleted"}

HasPod(w) == agent[w] \in PodStates

SandboxTypeOK ==
  /\ agent \in [WorkerIds -> AgentStates]
  /\ job \in [WorkerIds -> Requests \cup {None}]
  /\ declared \subseteq WorkerIds
  /\ rpcQueue \in [WorkerIds -> SUBSET Requests]
  /\ replyQueue \subseteq WorkerIds \X Requests

SandboxInit ==
  /\ agent = [w \in WorkerIds |-> "absent"]
  /\ job = [w \in WorkerIds |-> None]
  /\ declared = {}
  /\ rpcQueue = [w \in WorkerIds |-> {}]
  /\ replyQueue = {}

-----------------------------------------------------------------------------
(* The process in the pod ends in state s.  Its queue was declared "delete *)
(* when unused": once it has had its consumer, it goes with it, and with   *)
(* it go the messages that were not acknowledged.  A queue that never had  *)
(* a consumer stays.                                                       *)
AgentEnds(w, s) ==
  /\ agent' = [agent EXCEPT ![w] = s]
  /\ IF agent[w] \in {"consuming", "executing", "published"}
     THEN /\ declared' = declared \ {w}
          /\ rpcQueue' = [rpcQueue EXCEPT ![w] = {}]
     ELSE UNCHANGED <<declared, rpcQueue>>

(* A job published to the rpc queue of w; without the queue it is dropped. *)
EnqueueJob(w, r) ==
  rpcQueue' = IF w \in declared THEN [rpcQueue EXCEPT ![w] = @ \cup {r}]
              ELSE rpcQueue

(* The agent has dialled, opened a channel and registered its consumer.    *)
AgentConsume(w) ==
  /\ agent[w] = "starting"
  /\ w \in declared
  /\ agent' = [agent EXCEPT ![w] = "consuming"]
  /\ UNCHANGED <<job, declared, rpcQueue, replyQueue>>

(* The one delivery the agent waits for; the user's code starts.           *)
AgentReceive(w) ==
  /\ agent[w] = "consuming"
  /\ \E r \in rpcQueue[w] :
       /\ rpcQueue' = [rpcQueue EXCEPT ![w] = @ \ {r}]
       /\ job' = [job EXCEPT ![w] = r]
  /\ agent' = [agent EXCEPT ![w] = "executing"]
  /\ UNCHANGED <<declared, replyQueue>>

(* The code ended, its files are uploaded, the reply is published.  The    *)
(* publish is not mandatory: without a reply queue the reply is dropped.   *)
AgentPublish(w, replyQueueExists) ==
  /\ agent[w] = "executing"
  /\ agent' = [agent EXCEPT ![w] = "published"]
  /\ replyQueue' = IF replyQueueExists THEN replyQueue \cup {<<w, job[w]>>}
                   ELSE replyQueue
  /\ UNCHANGED <<job, declared, rpcQueue>>

(* The delivery is acknowledged after the publish, and the agent returns.  *)
AgentAck(w) ==
  /\ agent[w] = "published"
  /\ AgentEnds(w, "exited")
  /\ UNCHANGED <<job, replyQueue>>

(* Mutant: the container restarts and its queue outlives its consumer: the *)
(* unacknowledged delivery comes again.                                    *)
AgentRestarts(w) ==
  /\ agent[w] \in {"executing", "published"}
  /\ agent' = [agent EXCEPT ![w] = "starting"]
  /\ rpcQueue' = [rpcQueue EXCEPT ![w] = @ \cup {job[w]}]
  /\ UNCHANGED <<job, declared, replyQueue>>

(* log.Fatalf in the agent (no broker, no queue, a failed upload, ...), or *)
(* its container is killed.                                                *)
AgentDies(w) ==
  /\ agent[w] \in PodStates \ {"exited"}
  /\ AgentEnds(w, "exited")
  /\ UNCHANGED <<job, replyQueue>>
=============================================================================
