-------------------------- MODULE ControlInvariant --------------------------
(* The inductive invariant of ControlService, in named parts, from which   *)
(* ControlService_proofs derives the safety properties.                    *)
EXTENDS ControlService

(* What a program counter says about the worker beside it.                 *)
Linked ==
  /\ \A r \in Requests :
       /\ pc[r] \in {"idle", "waitWorker"} => worker[r] = None
       /\ pc[r] \in {"publish", "waitReply"} => worker[r] # None
       /\ pc[r] = "answered" \/ result[r] = None
       /\ adder[r] # "off" => /\ worker[r] # None
                              /\ pc[r] \in {"answered", "timedOut"}
  /\ \A a \in Adders : new[a] # None <=> adder[a] \in {"create", "send"}
  /\ adder[Boot] # "delete"
  /\ adder[Boot] # "off" <=> phase = "boot"
  /\ phase = "boot" <=> left # 0
  /\ \A w \in WorkerIds : agent[w] = "executing" => job[w] # None

(* No worker is in two places: each is in the pool once, or was handed to  *)
(* one request for good, or is being created by one adder, or was not      *)
(* drawn yet.                                                              *)
Apart ==
  /\ \A i, j \in DOMAIN pool : pool[i] = pool[j] => i = j
  /\ \A i \in DOMAIN pool :
       /\ born[pool[i]] # 0
       /\ \A r \in Requests : worker[r] # pool[i]
       /\ \A a \in Adders : new[a] # pool[i]
  /\ \A r \in Requests : worker[r] # None =>
       /\ born[worker[r]] # 0
       /\ \A a \in Adders : new[a] # worker[r]
       /\ \A q \in Requests : worker[q] = worker[r] => q = r
  /\ \A a \in Adders : new[a] # None =>
       /\ born[new[a]] # 0
       /\ \A b \in Adders : new[b] = new[a] => a = b
  /\ epoch # 0

(* A job and its reply stay with the worker of their request.              *)
Routed ==
  /\ \A w \in WorkerIds :
       /\ \A r \in rpcQueue[w] : worker[r] = w
       /\ job[w] # None => worker[job[w]] = w
       /\ replyCh[w] # None => worker[replyCh[w]] = w
  /\ \A m \in replyQueue : worker[m[2]] = m[1]
  /\ holding # NoMessage => worker[holding.request] = holding.worker
  /\ OwnResult

Core == TypeOK /\ Linked /\ Apart /\ Routed

(* A worker is born once, and its pod, its job and its reply come after    *)
(* one another: it is asked for before it has one, and has one run.        *)
Life ==
  /\ \A w \in WorkerIds :
       /\ born[w] <= epoch
       /\ born[w] = 0 => agent[w] = "absent"
       /\ agent[w] \in {"absent", "starting", "consuming"} => job[w] = None
  /\ \A a \in Adders : adder[a] = "create" => agent[new[a]] = "absent"

(* Requests are in flight only while the process serves them, and an ended *)
(* process keeps nothing.                                                  *)
Ending ==
  /\ \A r \in Requests : pc[r] \in InFlight => phase \in {"serving", "draining"}
  /\ phase = "exited" => /\ pool = <<>> /\ replies = {} /\ lost = {}
                         /\ \A a \in Adders : adder[a] = "off"

(* A worker that waits for a request or works for one is the process's     *)
(* own, and has its reply channel, its pod, and its queue while its agent  *)
(* lives.                                                                  *)
Ready(w) == /\ born[w] = epoch
            /\ w \in replies
            /\ agent[w] # "deleted"
            /\ w \in declared \/ agent[w] = "exited"

Kept ==
  /\ \A i \in DOMAIN pool : Ready(pool[i])
  /\ \A r \in Busy : Ready(worker[r])
  /\ \A a \in Adders : new[a] # None => Ready(new[a])

(* A worker sends one reply, the outcome of its job, and that reply is in  *)
(* one place: the queue, the hands of the reply goroutine or the channel.  *)
Over(w) == agent[w] \in {"published", "exited", "deleted"}

OneReply ==
  /\ \A m \in replyQueue :
       /\ Over(m[1]) /\ m[2] = job[m[1]]
       /\ replyCh[m[1]] = None /\ holding.worker # m[1]
  /\ holding # NoMessage =>
       /\ Over(holding.worker) /\ holding.request = job[holding.worker]
       /\ replyCh[holding.worker] = None
  /\ \A w \in WorkerIds : replyCh[w] # None => Over(w) /\ replyCh[w] = job[w]

(* The workers lost to failed calls are in nobody's hands.                 *)
LostApart ==
  \A w \in lost :
    /\ born[w] # 0
    /\ \A i \in DOMAIN pool : pool[i] # w
    /\ \A a \in Adders : new[a] # w
    /\ \A r \in Requests :
         worker[r] = w => r \notin Busy /\ adder[r] # "delete"

(* The places of the pool: all are accounted for while the process runs,   *)
(* and a stop only frees some.                                             *)
Taken == Len(pool) + Cardinality(Busy) + Cardinality(Renewing) + left
           + Cardinality(lost)

Places ==
  /\ IsFiniteSet(Busy) /\ IsFiniteSet(Renewing) /\ IsFiniteSet(lost)
  /\ Taken <= WorkerCount
  /\ Up => Taken = WorkerCount

(* No process, ended or not, has more pods than its pool has places.       *)
PodsBounded ==
  \A e \in 1..epoch : IsFiniteSet(Pods(e)) /\ Cardinality(Pods(e)) <= WorkerCount

IInv == /\ Core /\ Life /\ Ending /\ Kept /\ OneReply
        /\ NothingForgotten /\ LostApart /\ Places /\ PodsBounded
=============================================================================
