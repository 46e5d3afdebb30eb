--------------------------- MODULE ControlService ---------------------------
(***************************************************************************)
(* The control service (control-service/main.go, workers.go): the handlers *)
(* of POST /service/control/run, the pool of prepared workers they take    *)
(* from, the goroutine that replaces each used worker, the goroutine that  *)
(* hands replies out, start-up, shutdown, crash and restart.               *)
(*                                                                         *)
(* One pool is modelled, the one of one language: the pools of the         *)
(* languages share nothing but the process and its AMQP connection.        *)
(***************************************************************************)
EXTENDS Sandboxes

CONSTANTS WorkerCount, \* WORKER_COUNT, the capacity of the pool's channel
          Boot,        \* start-up, which adds the first workers
          MaxFaults,   \* bound: failed remote calls, deaths and crashes
          MaxEpochs    \* bound: starts of the process

ASSUME CountAssumption == /\ WorkerCount \in Nat \ {0}
                          /\ MaxFaults \in Nat
                          /\ MaxEpochs \in Nat \ {0}
ASSUME BootAssumption == Boot \notin Requests

VARIABLES phase,    \* what main() is doing
          ended,    \* how the last process ended
          epoch,    \* how many times the process was started
          conn,     \* the AMQP connection and the one channel on it
          faults,   \* faults so far
          born,     \* born[w]: the epoch that drew the id w, 0 if none did
          pool,     \* Workers.workers, a buffered channel
          replies,  \* the keys of Workers.replies
          replyCh,  \* replyCh[w]: what the reply channel of w holds
          holding,  \* the message the reply goroutine is sending on
          pc,       \* pc[r]: where the handler of r is
          worker,   \* worker[r]: the worker the handler of r took
          result,   \* result[r]: the request whose outcome r was answered
          adder,    \* adder[a]: where an AddWorkers call and its cleanup are
          new,      \* new[a]: the worker that call is creating
          left,     \* the workers start-up still has to add
          lost      \* history: workers whose place no adder will fill again

procVars  == <<phase, ended, epoch, conn>>
tableVars == <<replies, replyCh, holding>>
runVars   == <<pc, worker, result>>
addVars   == <<adder, new, left, lost>>

vars == <<sandboxVars, procVars, faults, born, pool, tableVars, runVars,
          addVars>>

-----------------------------------------------------------------------------
Adders == Requests \cup {Boot}

Phases == {"boot", "serving", "draining", "stopping", "closing", "exited"}

InFlight == {"waitWorker", "publish", "waitReply"}

Ended == {"rejected", "noWorker", "failed", "answered", "timedOut", "dropped"}

Message == [worker : WorkerIds, request : Requests]

NoMessage == [worker |-> None, request |-> None]

TypeOK ==
  /\ SandboxTypeOK
  /\ phase \in Phases
  /\ ended \in {"none", "graceful", "fatal", "panic", "killed"}
  /\ epoch \in Nat
  /\ conn \in {"open", "noChannel", "closed"}
  /\ faults \in Nat
  /\ born \in [WorkerIds -> Nat]
  /\ pool \in Seq(WorkerIds)
  /\ replies \subseteq WorkerIds
  /\ replyCh \in [WorkerIds -> Requests \cup {None}]
  /\ holding \in Message \cup {NoMessage}
  /\ pc \in [Requests -> {"idle"} \cup InFlight \cup Ended]
  /\ worker \in [Requests -> WorkerIds \cup {None}]
  /\ result \in [Requests -> Requests \cup {None}]
  /\ adder \in [Adders -> {"off", "delete", "declare", "create", "send"}]
  /\ new \in [Adders -> WorkerIds \cup {None}]
  /\ left \in Nat
  /\ lost \subseteq WorkerIds

Init ==
  /\ SandboxInit
  /\ phase = "boot" /\ ended = "none" /\ epoch = 1 /\ conn = "open"
  /\ faults = 0
  /\ born = [w \in WorkerIds |-> 0]
  /\ pool = <<>>
  /\ replies = {}
  /\ replyCh = [w \in WorkerIds |-> None]
  /\ holding = NoMessage
  /\ pc = [r \in Requests |-> "idle"]
  /\ worker = [r \in Requests |-> None]
  /\ result = [r \in Requests |-> None]
  /\ adder = [a \in Adders |-> IF a = Boot THEN "declare" ELSE "off"]
  /\ new = [a \in Adders |-> None]
  /\ left = WorkerCount
  /\ lost = {}

-----------------------------------------------------------------------------
(* A remote call can fail while the bound on faults allows it.             *)
Fault ==
  /\ faults < MaxFaults
  /\ faults' = faults + 1

(* An AMQP call on a closed channel always fails, and fails at no cost.    *)
AmqpFault == IF conn = "open" THEN Fault ELSE UNCHANGED faults

(* The process is gone, with everything it kept in memory, its connection  *)
(* and the exclusive reply queue; the pods and the rpc queues stay.        *)
ProcessExit(how) ==
  /\ phase' = "exited"
  /\ ended' = how
  /\ conn' = "closed"
  /\ replyQueue' = {}
  /\ pool' = <<>>
  /\ replies' = {}
  /\ replyCh' = [w \in WorkerIds |-> None]
  /\ holding' = NoMessage
  /\ pc' = [r \in Requests |-> IF pc[r] \in InFlight THEN "dropped" ELSE pc[r]]
  /\ adder' = [a \in Adders |-> "off"]
  /\ new' = [a \in Adders |-> None]
  /\ left' = 0
  /\ lost' = {}
  /\ UNCHANGED <<epoch, born, worker, result>>

-----------------------------------------------------------------------------
(* handleRun                                                               *)

(* The request passes validation and the handler waits for a worker, or it *)
(* is answered 400 or 401.                                                 *)
Arrive(r) ==
  /\ phase = "serving"
  /\ pc[r] = "idle"
  /\ \E next \in {"waitWorker", "rejected"} : pc' = [pc EXCEPT ![r] = next]
  /\ UNCHANGED <<sandboxVars, procVars, faults, born, pool, tableVars, worker,
                 result, addVars>>

ObtainWorker(r) ==
  /\ pc[r] = "waitWorker"
  /\ pool # <<>>
  /\ worker' = [worker EXCEPT ![r] = Head(pool)]
  /\ pool' = Tail(pool)
  /\ pc' = [pc EXCEPT ![r] = "publish"]
  /\ UNCHANGED <<sandboxVars, procVars, faults, born, tableVars, result,
                 addVars>>

(* WORKER_TIMEOUT passes.  When the goroutine was not scheduled in time a  *)
(* worker may be there too: Go then takes either arm of the select.        *)
WorkerTimeout(r) ==
  /\ pc[r] = "waitWorker"
  /\ pc' = [pc EXCEPT ![r] = "noWorker"]
  /\ UNCHANGED <<sandboxVars, procVars, faults, born, pool, tableVars, worker,
                 result, addVars>>

(* Mutant: the cleanup goroutine is started before the reply is awaited.   *)
PublishThenCleanUp(r) ==
  /\ pc[r] = "publish"
  /\ conn = "open"
  /\ EnqueueJob(worker[r], r)
  /\ pc' = [pc EXCEPT ![r] = "waitReply"]
  /\ adder' = [adder EXCEPT ![r] = "delete"]
  /\ UNCHANGED <<agent, job, declared, replyQueue, procVars, faults, born,
                 pool, tableVars, worker, result, new, left, lost>>

(* Publish is not mandatory: if the queue is gone the job is lost silently.*)
(* The handler then subscribes to the reply channel of its worker.         *)
Publish(r) ==
  /\ pc[r] = "publish"
  /\ conn = "open"
  /\ EnqueueJob(worker[r], r)
  /\ pc' = [pc EXCEPT ![r] = "waitReply"]
  /\ UNCHANGED <<agent, job, declared, replyQueue, procVars, faults, born,
                 pool, tableVars, worker, result, addVars>>

(* The handler returns at once: no goroutine cleans its worker up.  The    *)
(* failed call may have been carried out.                                  *)
PublishFails(r) ==
  /\ pc[r] = "publish"
  /\ AmqpFault
  /\ \/ UNCHANGED rpcQueue
     \/ conn = "open" /\ EnqueueJob(worker[r], r)
  /\ pc' = [pc EXCEPT ![r] = "failed"]
  /\ lost' = lost \cup {worker[r]}
  /\ UNCHANGED <<agent, job, declared, replyQueue, procVars, born, pool,
                 tableVars, worker, result, adder, new, left>>

(* Either arm of the select starts the cleanup goroutine.                  *)
ReceiveReply(r) ==
  /\ pc[r] = "waitReply"
  /\ replyCh[worker[r]] # None
  /\ result' = [result EXCEPT ![r] = replyCh[worker[r]]]
  /\ replyCh' = [replyCh EXCEPT ![worker[r]] = None]
  /\ pc' = [pc EXCEPT ![r] = "answered"]
  /\ adder' = [adder EXCEPT ![r] = "delete"]
  /\ UNCHANGED <<sandboxVars, procVars, faults, born, pool, replies, holding,
                 worker, new, left, lost>>

(* Mutant: the timeout is answered before the cleanup goroutine is started.*)
TimeoutForgetsWorker(r) ==
  /\ pc[r] = "waitReply"
  /\ pc' = [pc EXCEPT ![r] = "timedOut"]
  /\ UNCHANGED <<sandboxVars, procVars, faults, born, pool, tableVars, worker,
                 result, addVars>>

(* EXECUTION_TIMEOUT passes, and the reply may be there as well.           *)
ExecutionTimeout(r) ==
  /\ pc[r] = "waitReply"
  /\ pc' = [pc EXCEPT ![r] = "timedOut"]
  /\ adder' = [adder EXCEPT ![r] = "delete"]
  /\ UNCHANGED <<sandboxVars, procVars, faults, born, pool, tableVars, worker,
                 result, new, left, lost>>

(* Mutant: the reply is awaited without a timeout.                         *)
HandlerWithoutTimeout(r) == \/ ObtainWorker(r) \/ WorkerTimeout(r)
                            \/ Publish(r) \/ PublishFails(r)
                            \/ ReceiveReply(r)

Handler(r) == \/ ObtainWorker(r) \/ WorkerTimeout(r)
              \/ Publish(r) \/ PublishFails(r)
              \/ ReceiveReply(r) \/ ExecutionTimeout(r)

-----------------------------------------------------------------------------
(* Worker.Cleanup and Workers.AddWorkers                                   *)

(* The pod is deleted without grace, then the reply channel is forgotten.  *)
DeleteSandbox(w) ==
  /\ AgentEnds(w, "deleted")
  /\ replies' = replies \ {w}
  /\ UNCHANGED <<job, replyQueue, replyCh, holding>>

(* Mutant: a worker whose request timed out goes back to the pool.         *)
CleanupReusesWorker(r) ==
  /\ adder[r] = "delete"
  /\ \/ /\ pc[r] = "timedOut"
        /\ pool' = Append(pool, worker[r])
        /\ adder' = [adder EXCEPT ![r] = "off"]
        /\ UNCHANGED <<sandboxVars, tableVars>>
     \/ /\ pc[r] = "answered"
        /\ DeleteSandbox(worker[r])
        /\ adder' = [adder EXCEPT ![r] = "declare"]
        /\ UNCHANGED pool
  /\ UNCHANGED <<procVars, faults, born, runVars, new, left, lost>>

CleanupWorker(r) ==
  /\ adder[r] = "delete"
  /\ DeleteSandbox(worker[r])
  /\ adder' = [adder EXCEPT ![r] = "declare"]
  /\ UNCHANGED <<procVars, faults, born, pool, runVars, new, left, lost>>

(* Mutant: the goroutine logs the error and goes on to add a worker.       *)
CleanupFailsGoesOn(r) ==
  /\ adder[r] = "delete"
  /\ Fault
  /\ adder' = [adder EXCEPT ![r] = "declare"]
  /\ lost' = lost \cup {worker[r]}
  /\ UNCHANGED <<sandboxVars, procVars, born, pool, tableVars, runVars, new,
                 left>>

(* The goroutine logs the error and returns: its worker is not replaced.   *)
(* A failed call may have been carried out.                                *)
CleanupFails(r) ==
  /\ adder[r] = "delete"
  /\ Fault
  /\ \/ /\ AgentEnds(worker[r], "deleted")
        /\ UNCHANGED <<job, replyQueue>>
     \/ UNCHANGED sandboxVars
  /\ adder' = [adder EXCEPT ![r] = "off"]
  /\ lost' = lost \cup {worker[r]}
  /\ UNCHANGED <<procVars, born, pool, tableVars, runVars, new, left>>

(* Mutant: the agent is expected to declare its queue.                     *)
DeclareNothing(a) ==
  /\ adder[a] = "declare"
  /\ conn = "open"
  /\ \E w \in WorkerIds :
       /\ born[w] = 0
       /\ born' = [born EXCEPT ![w] = epoch]
       /\ replies' = replies \cup {w}
       /\ new' = [new EXCEPT ![a] = w]
  /\ adder' = [adder EXCEPT ![a] = "create"]
  /\ UNCHANGED <<sandboxVars, procVars, faults, pool, replyCh, holding,
                 runVars, left, lost>>

(* newWorker: a new uuid, its reply channel, then its rpc queue.           *)
DeclareQueue(a) ==
  /\ adder[a] = "declare"
  /\ conn = "open"
  /\ \E w \in WorkerIds :
       /\ born[w] = 0
       /\ born' = [born EXCEPT ![w] = epoch]
       /\ replies' = replies \cup {w}
       /\ declared' = declared \cup {w}
       /\ new' = [new EXCEPT ![a] = w]
  /\ adder' = [adder EXCEPT ![a] = "create"]
  /\ UNCHANGED <<agent, job, rpcQueue, replyQueue, procVars, faults, pool,
                 replyCh, holding, runVars, left, lost>>

(* A goroutine logs the error and returns; start-up is fatal (BootFails).  *)
DeclareFails(r) ==
  /\ adder[r] = "declare"
  /\ AmqpFault
  /\ \E w \in WorkerIds :
       /\ born[w] = 0
       /\ born' = [born EXCEPT ![w] = epoch]
       /\ replies' = replies \cup {w}
       /\ lost' = lost \cup {w}
       /\ \/ UNCHANGED declared
          \/ conn = "open" /\ declared' = declared \cup {w}
  /\ adder' = [adder EXCEPT ![r] = "off"]
  /\ UNCHANGED <<agent, job, rpcQueue, replyQueue, procVars, pool, replyCh,
                 holding, runVars, new, left>>

CreatePod(a) ==
  /\ adder[a] = "create"
  /\ agent' = [agent EXCEPT ![new[a]] = "starting"]
  /\ adder' = [adder EXCEPT ![a] = "send"]
  /\ UNCHANGED <<job, declared, rpcQueue, replyQueue, procVars, faults, born,
                 pool, tableVars, runVars, new, left, lost>>

(* Mutant: newWorker returns no worker, and AddWorkers sends it.           *)
CreatePodFailureIgnored(r) ==
  /\ adder[r] = "create"
  /\ Fault
  /\ adder' = [adder EXCEPT ![r] = "send"]
  /\ new' = [new EXCEPT ![r] = None]
  /\ UNCHANGED <<sandboxVars, procVars, born, pool, tableVars, runVars, left,
                 lost>>

CreatePodFails(r) ==
  /\ adder[r] = "create"
  /\ Fault
  /\ \/ agent' = [agent EXCEPT ![new[r]] = "starting"]
     \/ UNCHANGED agent
  /\ adder' = [adder EXCEPT ![r] = "off"]
  /\ new' = [new EXCEPT ![r] = None]
  /\ lost' = lost \cup {new[r]}
  /\ UNCHANGED <<job, declared, rpcQueue, replyQueue, procVars, born, pool,
                 tableVars, runVars, left>>

ChannelClosed == phase \in {"stopping", "closing"}

(* The send on the pool's channel, which blocks while the channel is full. *)
SendWorker(a) ==
  /\ adder[a] = "send"
  /\ ~ChannelClosed
  /\ Len(pool) < WorkerCount
  /\ pool' = Append(pool, new[a])
  /\ new' = [new EXCEPT ![a] = None]
  /\ IF a = Boot
     THEN /\ left' = left - 1
          /\ adder' = [adder EXCEPT ![a] = IF left = 1 THEN "off" ELSE "declare"]
          /\ phase' = IF left = 1 THEN "serving" ELSE phase
     ELSE /\ adder' = [adder EXCEPT ![a] = "off"]
          /\ UNCHANGED <<left, phase>>
  /\ UNCHANGED <<sandboxVars, ended, epoch, conn, faults, born, tableVars,
                 runVars, lost>>

(* A send on a closed channel panics, and no goroutine recovers.           *)
SendPanics(r) ==
  /\ adder[r] = "send"
  /\ ChannelClosed
  /\ ProcessExit("panic")
  /\ UNCHANGED <<agent, job, declared, rpcQueue, faults>>

(* newServer returns an error and main exits: a queue cannot be declared,  *)
(* or another call of start-up failed (and may have created the pod).      *)
BootRefused ==
  /\ adder[Boot] = "declare"
  /\ conn # "open"
  /\ ProcessExit("fatal")
  /\ UNCHANGED <<agent, job, declared, rpcQueue, faults>>

BootFails ==
  /\ phase = "boot"
  /\ Fault
  /\ \/ UNCHANGED agent
     \/ /\ adder[Boot] = "create"
        /\ agent' = [agent EXCEPT ![new[Boot]] = "starting"]
  /\ ProcessExit("fatal")
  /\ UNCHANGED <<job, declared, rpcQueue>>

Adder(a) ==
  \/ DeclareQueue(a) \/ CreatePod(a) \/ SendWorker(a)
  \/ a = Boot /\ BootRefused
  \/ /\ a # Boot
     /\ \/ CleanupWorker(a) \/ CleanupFails(a) \/ DeclareFails(a)
        \/ CreatePodFails(a) \/ SendPanics(a)

-----------------------------------------------------------------------------
(* Mutant: the reply goroutine forgets the channel it found (LoadAndDelete).*)
ConsumerTakeAndForget ==
  /\ holding = NoMessage
  /\ \E m \in replyQueue :
       /\ replyQueue' = replyQueue \ {m}
       /\ IF m[1] \in replies
          THEN /\ holding' = [worker |-> m[1], request |-> m[2]]
               /\ replies' = replies \ {m[1]}
          ELSE UNCHANGED <<holding, replies>>
  /\ UNCHANGED <<agent, job, declared, rpcQueue, procVars, faults, born, pool,
                 replyCh, runVars, addVars>>

(* Mutant: replies go to whoever waits, whatever their correlation id.     *)
ConsumerSendToAny ==
  /\ holding # NoMessage
  /\ \E w \in replies :
       /\ replyCh[w] = None
       /\ replyCh' = [replyCh EXCEPT ![w] = holding.request]
  /\ holding' = NoMessage
  /\ UNCHANGED <<sandboxVars, procVars, faults, born, pool, replies, runVars,
                 addVars>>

(* The goroutine of consumeReplies: it looks the correlation id up, drops  *)
(* the message if nobody waits, and otherwise sends it on a channel of     *)
(* capacity one, which blocks while that channel is full.  It drops a      *)
(* message that is no JSON, too; the agents send no such reply.            *)
ConsumerTake ==
  /\ holding = NoMessage
  /\ \E m \in replyQueue :
       /\ replyQueue' = replyQueue \ {m}
       /\ holding' = IF m[1] \in replies
                     THEN [worker |-> m[1], request |-> m[2]] ELSE NoMessage
  /\ UNCHANGED <<agent, job, declared, rpcQueue, procVars, faults, born, pool,
                 replies, replyCh, runVars, addVars>>

ConsumerSend ==
  /\ holding # NoMessage
  /\ replyCh[holding.worker] = None
  /\ replyCh' = [replyCh EXCEPT ![holding.worker] = holding.request]
  /\ holding' = NoMessage
  /\ UNCHANGED <<sandboxVars, procVars, faults, born, pool, replies, runVars,
                 addVars>>

Consumer == ConsumerTake \/ ConsumerSend

-----------------------------------------------------------------------------
(* main and Stop                                                           *)

(* The channel or the whole connection is lost, and the replies with it,   *)
(* but for those already on this side.                                     *)
AmqpCloses ==
  /\ phase # "exited"
  /\ conn # "closed"
  /\ Fault
  /\ conn' \in {"noChannel", "closed"} \ {conn}
  /\ replyQueue' \in SUBSET replyQueue
  /\ UNCHANGED <<agent, job, declared, rpcQueue, phase, ended, epoch, born,
                 pool, tableVars, runVars, addVars>>

Drain ==
  /\ phase = "serving"
  /\ phase' = "draining"
  /\ UNCHANGED <<sandboxVars, ended, epoch, conn, faults, born, pool, tableVars,
                 runVars, addVars>>

(* SIGINT or SIGTERM; or the notification of the lost connection.  Nobody  *)
(* is notified of a lost channel.                                          *)
StopSignal == Drain

AmqpNotified == conn = "closed" /\ Drain

(* Shutdown waits for the handlers (not for the goroutines they started);  *)
(* then Workers.Cleanup closes the pool's channel.                         *)
HandlersDone ==
  /\ phase = "draining"
  /\ \A r \in Requests : pc[r] \notin InFlight
  /\ phase' = "stopping"
  /\ UNCHANGED <<sandboxVars, ended, epoch, conn, faults, born, pool, tableVars,
                 runVars, addVars>>

StopCleanup ==
  /\ phase = "stopping"
  /\ pool # <<>>
  /\ DeleteSandbox(Head(pool))
  /\ pool' = Tail(pool)
  /\ UNCHANGED <<procVars, faults, born, runVars, addVars>>

(* Workers.Cleanup stops at the first error, and main exits on it.         *)
StopCleanupFails ==
  /\ phase = "stopping"
  /\ pool # <<>>
  /\ Fault
  /\ \/ AgentEnds(Head(pool), "deleted")
     \/ UNCHANGED <<agent, declared, rpcQueue>>
  /\ ProcessExit("fatal")
  /\ UNCHANGED job

(* Mutant: the connection is closed before the pool has been emptied.      *)
StopAmqpAtOnce ==
  /\ phase = "stopping"
  /\ conn # "closed"
  /\ phase' = "closing"
  /\ conn' = "closed"
  /\ replyQueue' = {}
  /\ UNCHANGED <<agent, job, declared, rpcQueue, ended, epoch, faults, born,
                 pool, tableVars, runVars, addVars>>

(* Closing an AMQP connection that is already closed is an error.          *)
StopAmqp ==
  /\ phase = "stopping"
  /\ pool = <<>>
  /\ IF conn # "closed"
     THEN /\ phase' = "closing"
          /\ conn' = "closed"
          /\ replyQueue' = {}
          /\ UNCHANGED <<agent, job, declared, rpcQueue, ended, epoch, faults,
                         born, pool, tableVars, runVars, addVars>>
     ELSE /\ ProcessExit("fatal")
          /\ UNCHANGED <<agent, job, declared, rpcQueue, faults>>

StopReturns ==
  /\ phase = "closing"
  /\ ProcessExit("graceful")
  /\ UNCHANGED <<agent, job, declared, rpcQueue, faults>>

(* Mutant: the notification of the lost connection is not listened to.     *)
StopBySignalOnly == \/ HandlersDone \/ StopCleanup \/ StopCleanupFails
                    \/ StopAmqp \/ StopReturns

Stop == \/ AmqpNotified \/ HandlersDone \/ StopCleanup \/ StopCleanupFails
        \/ StopAmqp \/ StopReturns

Crash ==
  /\ phase # "exited"
  /\ Fault
  /\ ProcessExit("killed")
  /\ UNCHANGED <<agent, job, declared, rpcQueue>>

(* The pod of the control service has restart policy Always.               *)
Restart ==
  /\ phase = "exited"
  /\ epoch < MaxEpochs
  /\ phase' = "boot"
  /\ epoch' = epoch + 1
  /\ conn' = "open"
  /\ adder' = [adder EXCEPT ![Boot] = "declare"]
  /\ left' = WorkerCount
  /\ UNCHANGED <<sandboxVars, ended, faults, born, pool, tableVars, runVars,
                 new, lost>>

-----------------------------------------------------------------------------
(* The reply queue an agent answers to is the one of the process that      *)
(* published its job; without its channel nobody reads it any more.        *)
ReplyQueueExists(w) == born[w] = epoch /\ conn = "open"

serviceVars == <<procVars, born, pool, tableVars, runVars, addVars>>

Agent(w) ==
  /\ \/ AgentConsume(w) \/ AgentReceive(w) \/ AgentAck(w)
     \/ AgentPublish(w, ReplyQueueExists(w))
  /\ UNCHANGED <<serviceVars, faults>>

AgentFails(w) ==
  /\ AgentDies(w)
  /\ Fault
  /\ UNCHANGED serviceVars

Next ==
  \/ \E r \in Requests : Arrive(r) \/ Handler(r)
  \/ \E a \in Adders : Adder(a)
  \/ \E w \in WorkerIds : Agent(w) \/ AgentFails(w)
  \/ Consumer
  \/ BootFails \/ StopSignal \/ AmqpCloses \/ Stop \/ Crash \/ Restart

(* Go schedules every goroutine, its timers fire and the calls it makes    *)
(* return.  Nothing is assumed of the user's code, of the agents, of the   *)
(* clients, of signals and of faults.                                      *)
Fairness ==
  /\ \A r \in Requests : WF_vars(Handler(r))
  /\ \A a \in Adders : WF_vars(Adder(a))
  /\ WF_vars(Consumer)
  /\ WF_vars(Stop)

Spec == Init /\ [][Next]_vars

FairSpec == Spec /\ Fairness
-----------------------------------------------------------------------------
(* Properties                                                              *)

Up == phase \in {"boot", "serving", "draining"}

(* The requests whose handler has a worker out of the pool.                *)
Busy == {r \in Requests : pc[r] \in {"publish", "waitReply"}}

(* The adders that still owe the pool a worker, start-up apart.            *)
Renewing == {r \in Requests : adder[r] # "off"}

(* The workers that some part of the running process will come back to.    *)
Tracked == {pool[i] : i \in DOMAIN pool} \cup {worker[r] : r \in Busy}
           \cup {worker[r] : r \in {q \in Requests : adder[q] = "delete"}}
           \cup {new[a] : a \in {b \in Adders : new[b] # None}}

Pods(e) == {w \in WorkerIds : born[w] = e /\ HasPod(w)}

(* The pods one process has created never outnumber WORKER_COUNT, whatever *)
(* calls fail and whenever it stops; those a crashed one left come on top. *)
PodBound == \A e \in 1..epoch : Cardinality(Pods(e)) <= WorkerCount

(* Every pod and every reply channel of the running process belongs to the *)
(* pool, to a handler or to a goroutine that will remove it; only a failed *)
(* call loses one.  handleRun and AddWorkers hand workers on so.           *)
NothingForgotten ==
  phase # "exited" => (Pods(epoch) \cup replies) \subseteq (Tracked \cup lost)

(* A stop that gets as far as closing its connection leaves no pod and no  *)
(* reply channel behind, but for those lost to failed calls and for the    *)
(* worker of each cleanup goroutine that Shutdown did not wait for.        *)
Renewed(r) == IF adder[r] = "delete" THEN worker[r] ELSE new[r]

StopLeavesNothing ==
  phase = "closing" =>
    (Pods(epoch) \cup replies) \subseteq lost \cup {Renewed(r) : r \in Renewing}

(* Each place of the pool is taken by a waiting worker, a handler, an      *)
(* adder, or was lost to a failed call: the send of AddWorkers never       *)
(* blocks, and the pool comes back to its size.                            *)
PlacesAddUp ==
  Up => Len(pool) + Cardinality(Busy) + Cardinality(Renewing) + left
          + Cardinality(lost) = WorkerCount

(* A worker runs the code of one request only, in its life and across      *)
(* restarts: a sandbox is never reused (handleRun cleans it up).           *)
SingleUse ==
  \A q, r \in Requests :
    worker[q] = worker[r] /\ worker[q] # None => q = r

(* A handler answers with the outcome of its own request, even when other  *)
(* replies come late, after a timeout, or out of order.                    *)
OwnResult == \A r \in Requests : result[r] \in {None, r}

(* The goroutine of consumeReplies never blocks on a full reply channel;   *)
(* if it did, every later reply of the language would time out.            *)
ConsumerNeverBlocks ==
  holding # NoMessage => replyCh[holding.worker] = None

(* Subscribe finds the reply channel: "This shouldn't happen" holds.       *)
SubscribeFindsChannel == \A r \in Busy : worker[r] \in replies

(* A worker handed to a request has its rpc queue, so that the publish,    *)
(* which is not mandatory, is not lost, unless the agent died.             *)
PooledWorkerReachable ==
  \A i \in DOMAIN pool : pool[i] \in declared \/ agent[pool[i]] = "exited"

(* Every request is answered, or the process ended under it.               *)
EveryRequestAnswered ==
  \A r \in Requests : pc[r] \in InFlight ~> pc[r] \in Ended

(* As long as the service runs its pool comes back to its size, less the   *)
(* places lost to failed calls.                                            *)
PoolRefills ==
  []<>(phase # "serving" \/ Len(pool) + Cardinality(lost) = WorkerCount)

(* A shutdown ends, whatever fails in it, and the loss of the connection   *)
(* brings one about: Kubernetes then starts a process that can serve.      *)
StopEnds == phase = "draining" \/ conn = "closed" ~> phase = "exited"

(* main() logs "shutting down server gracefully": a stop never ends in a   *)
(* panic.                                                                  *)
StopNeverPanics == ended # "panic"
=============================================================================
