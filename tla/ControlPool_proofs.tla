------------------------- MODULE ControlPool_proofs -------------------------
(***************************************************************************)
(* Theorems about the places of the pool and about replies: no worker is   *)
(* forgotten, the pool comes back to its size, pods are bounded, the reply *)
(* goroutine never blocks, and the whole keeps the contract of a run, for  *)
(* any number of requests, workers, failed calls, crashes and restarts.    *)
(***************************************************************************)
EXTENDS ControlContract, ControlService_proofs, FiniteSetTheorems

USE NoneAssumption, CountAssumption, BootAssumption

-----------------------------------------------------------------------------
(* What Core says of single workers, for the steps below.                  *)

LEMMA HeadWorker ==
  ASSUME Core, pool # <<>>
  PROVE  /\ Head(pool) \in WorkerIds /\ born[Head(pool)] # 0
         /\ 1 \in DOMAIN pool /\ Head(pool) = pool[1]
         /\ \A r \in Requests : worker[r] # Head(pool)
         /\ \A a \in Adders : new[a] # Head(pool)
<1>1. pool \in Seq(WorkerIds) /\ 1 \in DOMAIN pool /\ Head(pool) = pool[1]
  BY DEF Core, TypeOK
<1> QED
  BY <1>1 DEF Core, Apart

LEMMA CleanedWorker ==
  ASSUME Core, NEW r \in Requests, adder[r] = "delete"
  PROVE  /\ worker[r] \in WorkerIds /\ born[worker[r]] # 0
         /\ pc[r] \in {"answered", "timedOut"} /\ r \notin Busy
         /\ \A i \in DOMAIN pool : pool[i] # worker[r]
         /\ \A a \in Adders : new[a] # worker[r]
         /\ \A q \in Requests : worker[q] = worker[r] => q = r
<1>1. /\ worker[r] \in WorkerIds /\ pc[r] \in {"answered", "timedOut"}
      /\ \A q \in Requests : q \in Adders
  BY DEF Core, TypeOK, Linked, Adders
<1> QED
  BY <1>1 DEF Core, Apart, Busy

LEMMA NewWorker ==
  ASSUME Core, NEW a \in Adders, adder[a] \in {"create", "send"}
  PROVE  /\ new[a] \in WorkerIds /\ born[new[a]] # 0
         /\ \A b \in Adders : new[b] = new[a] => b = a
         /\ \A i \in DOMAIN pool : pool[i] # new[a]
         /\ \A r \in Requests : worker[r] # new[a]
BY DEF Core, TypeOK, Linked, Apart

LEMMA UnbornWorker ==
  ASSUME Core, NEW w \in WorkerIds, born[w] = 0
  PROVE  /\ \A i \in DOMAIN pool : pool[i] # w
         /\ \A a \in Adders : new[a] # w
         /\ \A r \in Requests : worker[r] # w
BY DEF Core, Apart, TypeOK

-----------------------------------------------------------------------------
(* The steps, with all the ways the process ends taken together.           *)

Exit ==
  /\ \E how \in {"graceful", "fatal", "panic", "killed"} : ProcessExit(how)
  /\ job' = job
  /\ \/ UNCHANGED <<agent, declared>>
     \/ /\ adder[Boot] = "create"
        /\ agent' = [agent EXCEPT ![new[Boot]] = "starting"]
        /\ UNCHANGED declared
     \/ phase = "stopping" /\ pool # <<>> /\ AgentEnds(Head(pool), "deleted")

CloseAmqp == StopAmqp /\ conn # "closed"

LEMMA ExitKinds ==
  /\ BootRefused \/ BootFails \/ StopReturns \/ Crash => Exit
  /\ \A r : SendPanics(r) => Exit
  /\ StopCleanupFails => Exit
  /\ StopAmqp => Exit \/ CloseAmqp
<1>1. BootRefused \/ BootFails \/ StopReturns \/ Crash => Exit
  BY DEF BootRefused, BootFails, StopReturns, Crash, Exit
<1>2. \A r : SendPanics(r) => Exit
  BY DEF SendPanics, Exit
<1>3. StopCleanupFails => Exit
  BY DEF StopCleanupFails, Exit
<1>4. StopAmqp => Exit \/ CloseAmqp
  BY DEF StopAmqp, CloseAmqp, Exit
<1> QED
  BY <1>1, <1>2, <1>3, <1>4

HandlerStep(r) ==
  \/ Arrive(r) \/ ObtainWorker(r) \/ WorkerTimeout(r) \/ Publish(r)
  \/ PublishFails(r) \/ ReceiveReply(r) \/ ExecutionTimeout(r)

AdderStep(a) == DeclareQueue(a) \/ CreatePod(a) \/ SendWorker(a)

RenewStep(r) == CleanupWorker(r) \/ CleanupFails(r) \/ DeclareFails(r)
                \/ CreatePodFails(r)

ProcessStep == ConsumerTake \/ ConsumerSend \/ Drain \/ HandlersDone
               \/ AmqpCloses \/ StopCleanup \/ CloseAmqp \/ Restart \/ Exit

LEMMA StepKinds ==
  ASSUME [Next]_vars
  PROVE  \/ \E r \in Requests : HandlerStep(r) \/ RenewStep(r)
         \/ \E a \in Adders : AdderStep(a)
         \/ \E w \in WorkerIds : Agent(w) \/ AgentFails(w)
         \/ ProcessStep
         \/ UNCHANGED vars
<1>1. ASSUME NEW a \in Adders, Adder(a)
      PROVE  AdderStep(a) \/ Exit \/ (a \in Requests /\ RenewStep(a))
  BY <1>1, ExitKinds DEF Adder, Adders, AdderStep, RenewStep
<1>2. Stop => ProcessStep
  BY ExitKinds DEF Stop, AmqpNotified, ProcessStep
<1> QED
  BY <1>1, <1>2, ExitKinds DEF Next, Handler, HandlerStep, Consumer,
     StopSignal, ProcessStep

(* The end of the process, with what it means for the tables.              *)
LEMMA ExitEmpties ==
  ASSUME Core, Exit
  PROVE  /\ phase' = "exited" /\ pool' = <<>> /\ DOMAIN pool' = {}
         /\ replies' = {} /\ lost' = {} /\ left' = 0 /\ Busy' = {}
         /\ replyQueue' = {} /\ holding' = NoMessage
         /\ \A w \in WorkerIds : replyCh'[w] = None
         /\ \A r \in Requests : pc'[r] \notin InFlight
         /\ \A a \in Adders : adder'[a] = "off" /\ new'[a] = None
         /\ UNCHANGED <<epoch, born, worker, result, job>>
<1>1. \A r \in Requests :
        pc'[r] = IF pc[r] \in InFlight THEN "dropped" ELSE pc[r]
  BY DEF Exit, ProcessExit
<1>2. \A r \in Requests : pc'[r] \notin InFlight
  BY <1>1 DEF InFlight
<1>3. pool' = <<>> /\ DOMAIN pool' = {}
  BY DEF Exit, ProcessExit
<1>4. Busy' = {}
  BY <1>2 DEF Busy, InFlight
<1> QED
  BY <1>2, <1>3, <1>4 DEF Exit, ProcessExit

-----------------------------------------------------------------------------
(* The life of a worker.                                                   *)

(* The steps that give no worker an id and no adder a worker, and end the  *)
(* agents they touch.                                                      *)
LEMMA SameLife ==
  ASSUME Life, job' = job, born' = born, epoch' \in Nat, epoch' >= epoch,
         born \in [WorkerIds -> Nat], epoch \in Nat,
         \A w \in WorkerIds :
           \/ agent'[w] = agent[w]
           \/ /\ agent'[w] \in {"exited", "deleted"} /\ born[w] # 0
              /\ \A a \in Adders : adder[a] = "create" => new[a] # w,
         \A a \in Adders : adder'[a] = "create" =>
           adder[a] = "create" /\ new'[a] = new[a] /\ new[a] \in WorkerIds
  PROVE  Life'
BY DEF Life

LEMMA ExitLife ==
  ASSUME Core, Life, Exit PROVE Life'
<1>1. /\ agent \in [WorkerIds -> AgentStates] /\ Boot \in Adders
  BY DEF Core, TypeOK, SandboxTypeOK, Adders
<1>2. ASSUME NEW w \in WorkerIds
      PROVE  \/ agent'[w] = agent[w]
             \/ agent'[w] = "starting" /\ agent[w] = "absent" /\ born[w] # 0
             \/ agent'[w] = "deleted" /\ born[w] # 0
  BY <1>1, <1>2, NewWorker, HeadWorker DEF Exit, AgentEnds, Life
<1> QED
  BY <1>2, ExitEmpties DEF Life

(* The life of a worker goes on with its agent.                            *)
LEMMA AgentLife ==
  ASSUME Core, Life, NEW w \in WorkerIds, Agent(w) \/ AgentFails(w)
  PROVE  Life'
<1>1. UNCHANGED <<born, epoch, adder, new>>
  BY DEF Agent, AgentFails, serviceVars, procVars, addVars
<1>2. agent \in [WorkerIds -> AgentStates] /\ job \in [WorkerIds -> Requests \cup {None}]
  BY DEF Core, TypeOK, SandboxTypeOK
<1>3. agent[w] # "absent"
  BY DEF Agent, AgentFails, AgentConsume, AgentReceive, AgentAck,
     AgentPublish, AgentDies, PodStates
<1>4. /\ \A x \in WorkerIds \ {w} : agent'[x] = agent[x] /\ job'[x] = job[x]
      /\ agent'[w] # "absent"
      /\ agent'[w] \in {"starting", "consuming"} => job'[w] = None
  <2> USE DEF Life
  <2>1. CASE AgentConsume(w)
    BY <1>2, <2>1 DEF AgentConsume
  <2>2. CASE AgentReceive(w)
    BY <1>2, <2>2 DEF AgentReceive
  <2>3. CASE AgentPublish(w, ReplyQueueExists(w))
    BY <1>2, <2>3 DEF AgentPublish
  <2>4. CASE AgentAck(w) \/ AgentDies(w)
    BY <1>2, <2>4 DEF AgentAck, AgentDies, AgentEnds
  <2> QED
    BY <2>1, <2>2, <2>3, <2>4 DEF Agent, AgentFails
<1>5. \A a \in Adders : adder[a] = "create" => new[a] \in WorkerIds \ {w}
  BY <1>3, NewWorker DEF Life
<1> QED
  BY <1>1, <1>3, <1>4, <1>5 DEF Life

LEMMA LifeStep ==
  ASSUME Core, Life, [Next]_vars PROVE Life'
<1> USE DEF SandboxTypeOK
<1>0. /\ agent \in [WorkerIds -> AgentStates] /\ epoch \in Nat
      /\ adder \in [Adders -> {"off", "delete", "declare", "create", "send"}]
      /\ new \in [Adders -> WorkerIds \cup {None}]
      /\ born \in [WorkerIds -> Nat]
      /\ \A r \in Requests : r \in Adders
      /\ \A a \in Adders : adder[a] = "create" => new[a] \in WorkerIds
  BY NewWorker DEF Core, TypeOK, Adders
<1>1. ASSUME UNCHANGED <<agent, job, born, epoch>>,
             \A a \in Adders : adder'[a] = "create" =>
               adder[a] = "create" /\ new'[a] = new[a]
      PROVE  Life'
  BY <1>0, <1>1, SameLife
<1>2. ASSUME NEW r \in Requests, HandlerStep(r) PROVE Life'
  <2>1. CASE ReceiveReply(r) \/ ExecutionTimeout(r)
    BY <1>0, <1>1, <2>1 DEF ReceiveReply, ExecutionTimeout, procVars, sandboxVars
  <2>2. CASE Publish(r) \/ PublishFails(r)
    BY <1>0, <1>1, <2>2 DEF Publish, PublishFails, procVars, addVars
  <2> QED
    BY <1>1, <1>2, <2>1, <2>2 DEF HandlerStep, Arrive, ObtainWorker,
       WorkerTimeout, procVars, sandboxVars, addVars
<1>3. ASSUME NEW r \in Requests, CleanupWorker(r) \/ CleanupFails(r)
      PROVE  Life'
  <2>1. /\ adder[r] = "delete"
        /\ adder' = [adder EXCEPT ![r] = "declare"] \/ adder' = [adder EXCEPT ![r] = "off"]
        /\ UNCHANGED <<job, born, epoch, new>>
        /\ \/ agent' = agent
           \/ agent' = [agent EXCEPT ![worker[r]] = "deleted"]
    BY <1>3 DEF CleanupWorker, CleanupFails, DeleteSandbox, AgentEnds,
       procVars, sandboxVars
  <2> QED
    BY <1>0, <2>1, CleanedWorker, SameLife
<1>4. ASSUME NEW a \in Adders, DeclareQueue(a) \/ DeclareFails(a)
      PROVE  Life'
  <2>1. PICK w \in WorkerIds : born[w] = 0 /\ born' = [born EXCEPT ![w] = epoch]
    BY <1>4 DEF DeclareQueue, DeclareFails
  <2>2. /\ UNCHANGED <<agent, job, epoch>> /\ agent[w] = "absent"
        /\ \A b \in Adders : adder'[b] = "create" =>
             \/ adder[b] = "create" /\ new'[b] = new[b]
             \/ new'[b] \in WorkerIds /\ born[new'[b]] = 0
    BY <1>0, <1>4, <2>1 DEF DeclareQueue, DeclareFails, procVars, Life
  <2> QED
    BY <1>0, <2>1, <2>2 DEF Life
<1>5. ASSUME NEW a \in Adders, CreatePod(a) \/ CreatePodFails(a)
      PROVE  Life'
  <2>1. /\ adder[a] = "create" /\ UNCHANGED <<job, born, epoch>>
        /\ agent' = agent \/ agent' = [agent EXCEPT ![new[a]] = "starting"]
        /\ \A b \in Adders : adder'[b] = "create" =>
             adder[b] = "create" /\ new'[b] = new[b] /\ b # a
    BY <1>0, <1>5 DEF CreatePod, CreatePodFails, procVars
  <2> QED
    BY <1>0, <2>1, NewWorker DEF Life
<1>6. ASSUME NEW a \in Adders, SendWorker(a) PROVE Life'
  <2>1. \A b \in Adders : adder'[b] = "create" =>
             adder[b] = "create" /\ new'[b] = new[b]
    BY <1>0, <1>6 DEF SendWorker, Core, Linked
  <2> QED
    BY <1>1, <1>6, <2>1 DEF SendWorker, sandboxVars
<1>7. CASE StopCleanup
  <2>1. /\ pool # <<>> /\ UNCHANGED <<job, born, epoch, adder, new>>
        /\ agent' = [agent EXCEPT ![Head(pool)] = "deleted"]
    BY <1>7 DEF StopCleanup, DeleteSandbox, AgentEnds, procVars, addVars
  <2> QED
    BY <1>0, <2>1, HeadWorker, SameLife
<1>8. CASE Restart
  <2>1. /\ epoch' = epoch + 1 /\ UNCHANGED <<agent, job, born, new>>
        /\ \A a \in Adders : adder'[a] = "create" => adder[a] = "create"
    BY <1>0, <1>8 DEF Restart, sandboxVars
  <2> QED
    BY <1>0, <2>1, SameLife
<1>9. CASE ConsumerTake \/ ConsumerSend \/ Drain \/ HandlersDone
  BY <1>1, <1>9 DEF ConsumerTake, ConsumerSend, Drain, HandlersDone,
     sandboxVars, procVars, addVars
<1>10. CASE AmqpCloses \/ CloseAmqp
  BY <1>1, <1>10 DEF AmqpCloses, CloseAmqp, StopAmqp, addVars
<1>11. CASE UNCHANGED vars
  BY <1>1, <1>11 DEF vars, sandboxVars, procVars, addVars
<1>12. ASSUME NEW a \in Adders, AdderStep(a) PROVE Life'
  BY <1>4, <1>5, <1>6, <1>12 DEF AdderStep
<1>13. ASSUME NEW r \in Requests, RenewStep(r) PROVE Life'
  BY <1>0, <1>3, <1>4, <1>5, <1>13 DEF RenewStep
<1>14. CASE ProcessStep
  BY <1>7, <1>8, <1>9, <1>10, <1>14, ExitLife DEF ProcessStep
<1> QED
  BY <1>2, <1>11, <1>12, <1>13, <1>14, StepKinds, AgentLife

-----------------------------------------------------------------------------
(* Where requests can be in flight, and what an ended process keeps.       *)

LEMMA EndingStep ==
  ASSUME Core, Ending, [Next]_vars PROVE Ending'
<1> USE DEF Ending, InFlight
<1>0. /\ pc \in [Requests -> {"idle"} \cup InFlight \cup Ended]
      /\ adder \in [Adders -> {"off", "delete", "declare", "create", "send"}]
      /\ adder[Boot] # "off" <=> phase = "boot"
      /\ \A r \in Requests : r \in Adders
  BY DEF Core, TypeOK, Linked, Adders
<1>1. ASSUME NEW r \in Requests, HandlerStep(r) PROVE Ending'
  <2>1. phase' = phase /\ phase # "exited"
    BY <1>0, <1>1 DEF HandlerStep, Arrive, ObtainWorker, WorkerTimeout,
       Publish, PublishFails, ReceiveReply, ExecutionTimeout, procVars
  <2>2. pc[r] \in InFlight \/ phase = "serving"
    BY <1>1 DEF HandlerStep, Arrive, ObtainWorker, WorkerTimeout,
       Publish, PublishFails, ReceiveReply, ExecutionTimeout
  <2>3. \A q \in Requests \ {r} : pc'[q] = pc[q]
    BY <1>0, <1>1 DEF HandlerStep, Arrive, ObtainWorker, WorkerTimeout,
       Publish, PublishFails, ReceiveReply, ExecutionTimeout
  <2> QED
    BY <2>1, <2>2, <2>3
<1>2. ASSUME NEW a \in Adders, AdderStep(a) \/ RenewStep(a)
      PROVE  Ending'
  <2>1. phase # "exited" /\ UNCHANGED pc
    BY <1>2 DEF AdderStep, DeclareQueue, CreatePod, SendWorker, RenewStep,
       CleanupWorker, CleanupFails, DeclareFails, CreatePodFails, runVars
  <2>2. phase' = phase \/ (phase = "boot" /\ phase' = "serving")
    BY <1>0, <1>2 DEF AdderStep, DeclareQueue, CreatePod, SendWorker, RenewStep,
       CleanupWorker, CleanupFails, DeclareFails, CreatePodFails, procVars
  <2> QED
    BY <2>1, <2>2
<1>3. CASE ConsumerTake \/ ConsumerSend \/ UNCHANGED vars
  BY <1>3 DEF ConsumerTake, ConsumerSend, vars, procVars, tableVars, runVars,
     addVars
<1>4. ASSUME NEW w \in WorkerIds, Agent(w) \/ AgentFails(w) PROVE Ending'
  BY <1>4 DEF Agent, AgentFails, serviceVars, procVars, tableVars, runVars,
     addVars
<1>5. CASE Drain \/ HandlersDone \/ AmqpCloses \/ StopCleanup \/ CloseAmqp
  BY <1>5 DEF Drain, HandlersDone, AmqpCloses, StopCleanup, CloseAmqp,
     StopAmqp, procVars, tableVars, runVars, addVars
<1>6. CASE Restart
  BY <1>6 DEF Restart, runVars
<1>7. CASE Exit
  BY <1>7, ExitEmpties
<1>8. CASE ProcessStep
  BY <1>3, <1>5, <1>6, <1>7, <1>8 DEF ProcessStep
<1> QED
  BY <1>0, <1>1, <1>2, <1>3, <1>4, <1>8, StepKinds

-----------------------------------------------------------------------------
(* The workers in use are ready.                                           *)

LEMMA SameReady ==
  ASSUME Kept, UNCHANGED <<agent, declared, replies, born, epoch>>,
         \A i \in DOMAIN pool' : \/ \E j \in DOMAIN pool : pool'[i] = pool[j]
                                 \/ \E a \in Adders : new[a] # None /\ pool'[i] = new[a],
         \A r \in Requests : r \in Busy' =>
           \/ r \in Busy /\ worker'[r] = worker[r]
           \/ \E j \in DOMAIN pool : worker'[r] = pool[j],
         \A a \in Adders : new'[a] \in {None, new[a]}
  PROVE  Kept'
<1>1. \A w : Ready(w) => Ready(w)'
  BY DEF Ready
<1> QED
  BY <1>1 DEF Kept, Busy

(* An agent that ends takes only its own queue with it.                    *)
LEMMA OthersReady ==
  ASSUME TypeOK, NEW w, NEW s, AgentEnds(w, s), NEW x \in WorkerIds, Ready(x),
         x \in replies', x # w \/ s = "exited", UNCHANGED <<born, epoch>>
  PROVE  Ready(x)'
<1>1. /\ agent'[x] = agent[x] \/ agent'[x] = "exited"
      /\ x \in declared /\ x # w => x \in declared'
      /\ x = w => agent'[x] = "exited"
  BY DEF AgentEnds, TypeOK, SandboxTypeOK
<1> QED
  BY <1>1 DEF Ready

(* A worker of an earlier request, or one of the pool, is deleted: those   *)
(* in use stay ready.                                                      *)
LEMMA EndReady ==
  ASSUME Core, Kept, NEW w, AgentEnds(w, "deleted") \/ UNCHANGED <<agent, declared>>,
         \A x \in replies : x # w => x \in replies',
         UNCHANGED <<pc, worker, born, epoch>>,
         \A i \in DOMAIN pool' : pool'[i] # w
           /\ \E j \in DOMAIN pool : pool'[i] = pool[j],
         \A r \in Busy : worker[r] # w,
         \A a \in Adders : new'[a] # w /\ new'[a] \in {None, new[a]}
  PROVE  Kept'
<1>1. \A x \in WorkerIds : Ready(x) /\ x # w => Ready(x)'
  BY OthersReady DEF Core, Ready
<1>2. /\ \A i \in DOMAIN pool : pool[i] \in WorkerIds
      /\ \A r \in Busy : worker[r] \in WorkerIds
      /\ \A a \in Adders : new[a] # None => new[a] \in WorkerIds
  BY DEF Core, TypeOK, Linked, Busy
<1>3. Busy' = Busy
  BY DEF Busy
<1> QED
  BY <1>1, <1>2, <1>3 DEF Kept

LEMMA KeptStep ==
  ASSUME Core, Life, Ending, Kept, [Next]_vars PROVE Kept'
<1>0. /\ pc \in [Requests -> {"idle"} \cup InFlight \cup Ended]
      /\ worker \in [Requests -> WorkerIds \cup {None}]
      /\ new \in [Adders -> WorkerIds \cup {None}]
      /\ born \in [WorkerIds -> Nat]
      /\ \A r \in Requests : r \in Adders
  BY DEF Core, TypeOK, Adders
<1>1. ASSUME NEW r \in Requests, ObtainWorker(r) PROVE Kept'
  <2>1. /\ pool # <<>> /\ pool' = Tail(pool)
        /\ UNCHANGED <<agent, declared, replies, new, born, epoch>>
        /\ \A q \in Requests : q \in Busy' =>
             \/ q \in Busy /\ worker'[q] = worker[q]
             \/ worker'[q] = Head(pool)
    BY <1>0, <1>1 DEF ObtainWorker, sandboxVars, procVars, tableVars, addVars,
       Busy
  <2> QED
    BY <2>1, TailApart, HeadWorker, SameReady DEF Core
<1>2. ASSUME NEW r \in Requests, HandlerStep(r), ~ObtainWorker(r) PROVE Kept'
  <2>1. UNCHANGED <<agent, declared, replies, new, pool, worker, born, epoch>>
    BY <1>2 DEF HandlerStep, Arrive, WorkerTimeout, Publish, PublishFails,
       ReceiveReply, ExecutionTimeout, sandboxVars, procVars, tableVars,
       addVars
  <2>2. \A q \in Requests : q \in Busy' => q \in Busy
    BY <1>0, <1>2 DEF HandlerStep, Arrive, WorkerTimeout, Publish,
       PublishFails, ReceiveReply, ExecutionTimeout, Busy
  <2> QED
    BY <2>1, <2>2, SameReady
<1>3. ASSUME NEW r \in Requests, CleanupWorker(r) \/ CleanupFails(r)
      PROVE  Kept'
  <2>1. /\ adder[r] = "delete" /\ UNCHANGED <<pc, worker, new, pool, born, epoch>>
        /\ AgentEnds(worker[r], "deleted") \/ UNCHANGED <<agent, declared>>
        /\ \A x \in replies : x # worker[r] => x \in replies'
    BY <1>3 DEF CleanupWorker, CleanupFails, DeleteSandbox, runVars,
       sandboxVars, procVars, tableVars
  <2>2. \A q \in Busy : worker[q] # worker[r]
    BY <2>1, CleanedWorker DEF Busy
  <2> QED
    BY <2>1, <2>2, CleanedWorker, EndReady
<1>4. ASSUME NEW a \in Adders, DeclareQueue(a) \/ DeclareFails(a)
      PROVE  Kept'
  <2>1. PICK w \in WorkerIds :
          /\ born[w] = 0 /\ replies' = replies \cup {w}
          /\ \/ declared' = declared \cup {w} /\ new' = [new EXCEPT ![a] = w]
             \/ declared \subseteq declared' /\ new' = new
          /\ born' = [born EXCEPT ![w] = epoch]
          /\ UNCHANGED <<agent, pool, pc, worker, epoch>>
    BY <1>4 DEF DeclareQueue, DeclareFails, procVars, runVars
  <2>2. \A x \in WorkerIds : Ready(x) => Ready(x)'
    BY <1>0, <2>1 DEF Ready
  <2>3. new' = new \/ Ready(w)'
    BY <1>0, <2>1 DEF Ready, Life
  <2>4. /\ \A i \in DOMAIN pool : pool[i] \in WorkerIds
        /\ \A r \in Busy : worker[r] \in WorkerIds
    BY DEF Core, TypeOK, Linked, Busy
  <2>5. Busy' = Busy
    BY <2>1 DEF Busy
  <2> QED
    BY <1>0, <2>1, <2>2, <2>3, <2>4, <2>5 DEF Kept
<1>5. ASSUME NEW a \in Adders, CreatePod(a) PROVE Kept'
  <2>1. /\ adder[a] = "create" /\ agent' = [agent EXCEPT ![new[a]] = "starting"]
        /\ UNCHANGED <<declared, replies, new, pool, pc, worker, born, epoch>>
    BY <1>5 DEF CreatePod, procVars, tableVars, runVars
  <2>2. agent \in [WorkerIds -> AgentStates]
    BY DEF Core, TypeOK, SandboxTypeOK
  <2>3. agent[new[a]] = "absent" /\ new[a] # None
    BY <2>1, NewWorker DEF Life
  <2>4. Ready(new[a])
    BY <2>3 DEF Kept
  <2>5. \A x \in WorkerIds : Ready(x) => Ready(x)'
    BY <2>1, <2>2, <2>3, <2>4 DEF Ready
  <2>6. /\ \A i \in DOMAIN pool : pool[i] \in WorkerIds
        /\ \A r \in Busy : worker[r] \in WorkerIds
    BY DEF Core, TypeOK, Linked, Busy
  <2>7. Busy' = Busy
    BY <2>1 DEF Busy
  <2> QED
    BY <1>0, <2>1, <2>5, <2>6, <2>7 DEF Kept
<1>6. ASSUME NEW r \in Requests, CreatePodFails(r) PROVE Kept'
  <2>1. /\ adder[r] = "create" /\ new' = [new EXCEPT ![r] = None]
        /\ agent' = agent \/ agent' = [agent EXCEPT ![new[r]] = "starting"]
        /\ UNCHANGED <<declared, replies, pool, pc, worker, born, epoch>>
    BY <1>6 DEF CreatePodFails, procVars, tableVars, runVars
  <2>2. agent \in [WorkerIds -> AgentStates]
    BY DEF Core, TypeOK, SandboxTypeOK
  <2>3. \A x \in WorkerIds : Ready(x) /\ x # new[r] => Ready(x)'
    BY <2>1, <2>2 DEF Ready
  <2>4. /\ \A i \in DOMAIN pool : pool[i] \in WorkerIds /\ pool[i] # new[r]
        /\ \A q \in Busy : worker[q] \in WorkerIds /\ worker[q] # new[r]
        /\ \A a \in Adders : new'[a] # None =>
             new'[a] = new[a] /\ new[a] # new[r] /\ new[a] \in WorkerIds
    BY <1>0, <2>1, NewWorker DEF Core, TypeOK, Linked, Busy
  <2>5. Busy' = Busy
    BY <2>1 DEF Busy
  <2> QED
    BY <2>1, <2>3, <2>4, <2>5 DEF Kept
<1>7. ASSUME NEW a \in Adders, SendWorker(a) PROVE Kept'
  <2>1. /\ new' = [new EXCEPT ![a] = None] /\ pool' = Append(pool, new[a])
        /\ UNCHANGED <<agent, declared, replies, pc, worker, born, epoch>>
        /\ adder[a] = "send"
    BY <1>7 DEF SendWorker, sandboxVars, tableVars, runVars
  <2>2. new[a] # None /\ new[a] \in WorkerIds /\ pool \in Seq(WorkerIds)
    BY <2>1, NewWorker DEF Core, TypeOK
  <2>3. \A i \in DOMAIN pool' :
          (\E j \in DOMAIN pool : pool'[i] = pool[j]) \/ pool'[i] = new[a]
    BY <2>1, <2>2
  <2>4. Busy' = Busy
    BY <2>1 DEF Busy
  <2> QED
    BY <1>0, <2>1, <2>2, <2>3, <2>4, SameReady
<1>8. ASSUME NEW w \in WorkerIds, Agent(w) \/ AgentFails(w) PROVE Kept'
  <2>1. UNCHANGED <<pool, pc, worker, new, replies, born, epoch>>
    BY <1>8 DEF Agent, AgentFails, serviceVars, procVars, tableVars, runVars, addVars
  <2>2. \A x \in WorkerIds : Ready(x) => Ready(x)'
    <3>1. CASE AgentEnds(w, "exited")
      BY <2>1, <3>1, OthersReady DEF Core, Ready
    <3>2. CASE ~AgentEnds(w, "exited")
      <4>1. /\ declared' = declared /\ agent \in [WorkerIds -> AgentStates]
            /\ agent' = [agent EXCEPT ![w] = "consuming"]
               \/ agent' = [agent EXCEPT ![w] = "executing"]
               \/ agent' = [agent EXCEPT ![w] = "published"]
            /\ agent[w] # "exited"
        BY <1>8, <3>2 DEF Agent, AgentFails, AgentConsume, AgentReceive,
           AgentPublish, AgentAck, AgentDies, Core, TypeOK, SandboxTypeOK
      <4> QED
        BY <2>1, <4>1 DEF Ready
    <3> QED
      BY <3>1, <3>2
  <2>3. /\ \A i \in DOMAIN pool : pool[i] \in WorkerIds
        /\ \A r \in Busy : worker[r] \in WorkerIds
    BY DEF Core, TypeOK, Linked, Busy
  <2>4. Busy' = Busy
    BY <2>1 DEF Busy
  <2> QED
    BY <1>0, <2>1, <2>2, <2>3, <2>4 DEF Kept
<1>9. CASE StopCleanup
  <2>1. /\ pool # <<>> /\ pool' = Tail(pool) /\ AgentEnds(Head(pool), "deleted")
        /\ UNCHANGED <<pc, worker, new, born, epoch>> /\ replies' = replies \ {Head(pool)}
    BY <1>9 DEF StopCleanup, DeleteSandbox, procVars, runVars, addVars
  <2>2. Busy \subseteq Requests
    BY DEF Busy
  <2> QED
    BY <2>1, <2>2, HeadWorker, TailApart, EndReady DEF Core
<1>10. CASE \/ ConsumerTake \/ ConsumerSend \/ Drain \/ HandlersDone
            \/ AmqpCloses \/ CloseAmqp \/ UNCHANGED vars
  <2>1. UNCHANGED <<agent, declared, replies, pool, pc, worker, new, born,
                    epoch>>
    BY <1>10 DEF ConsumerTake, ConsumerSend, Drain, HandlersDone, AmqpCloses,
       CloseAmqp, StopAmqp, vars, sandboxVars, procVars, tableVars, runVars,
       addVars
  <2> QED
    BY <2>1, SameReady DEF Busy
<1>11. CASE Exit
  BY <1>11, ExitEmpties DEF Kept
<1>12. ASSUME NEW a \in Adders, AdderStep(a) PROVE Kept'
  BY <1>4, <1>5, <1>7, <1>12 DEF AdderStep
<1>13. ASSUME NEW r \in Requests, RenewStep(r) PROVE Kept'
  BY <1>0, <1>3, <1>4, <1>6, <1>13 DEF RenewStep
<1>14. CASE Restart
  <2>1. phase = "exited" /\ UNCHANGED <<pool, pc, new>>
    BY <1>14 DEF Restart, runVars
  <2>2. pool = <<>> /\ Busy' = {} /\ \A a \in Adders : new[a] = None
    BY <2>1 DEF Ending, Busy, InFlight, Core, Linked
  <2> QED
    BY <2>1, <2>2 DEF Kept
<1>15. CASE ProcessStep
  BY <1>9, <1>10, <1>11, <1>14, <1>15 DEF ProcessStep
<1> QED
  BY <1>1, <1>2, <1>8, <1>10, <1>12, <1>13, <1>15, StepKinds

-----------------------------------------------------------------------------
(* One reply for each worker.                                              *)

(* The steps that only take replies away, while agents that have ended     *)
(* their job stay what they are or end.                                    *)
LEMMA FewerReplies ==
  ASSUME TypeOK, OneReply,
         \A w \in WorkerIds : Over(w) => Over(w)' /\ job'[w] = job[w],
         replyQueue' \subseteq replyQueue, holding' = holding,
         \A w \in WorkerIds : replyCh'[w] \in {None, replyCh[w]}
  PROVE  OneReply'
<1>1. /\ \A m \in replyQueue : m[1] \in WorkerIds
      /\ holding # NoMessage => holding.worker \in WorkerIds
  BY DEF TypeOK, SandboxTypeOK, Message
<1> QED
  BY <1>1 DEF OneReply, NoMessage

LEMMA SameAgents ==
  ASSUME UNCHANGED <<agent, job>>
  PROVE  \A w \in WorkerIds : Over(w) => Over(w)' /\ job'[w] = job[w]
BY DEF Over

LEMMA EndsOver ==
  ASSUME TypeOK, NEW x, NEW s \in {"exited", "deleted"}, AgentEnds(x, s),
         job' = job
  PROVE  \A w \in WorkerIds : Over(w) => Over(w)' /\ job'[w] = job[w]
BY DEF Over, AgentEnds, TypeOK, SandboxTypeOK

LEMMA AgentOneReply ==
  ASSUME Core, OneReply, NEW w \in WorkerIds, Agent(w) \/ AgentFails(w)
  PROVE  OneReply'
<1>0. /\ UNCHANGED <<replyCh, holding>> /\ TypeOK
      /\ agent \in [WorkerIds -> AgentStates]
      /\ job \in [WorkerIds -> Requests \cup {None}]
      /\ \A m \in replyQueue : m[1] \in WorkerIds
      /\ holding # NoMessage => holding.worker \in WorkerIds
  BY DEF Agent, AgentFails, serviceVars, tableVars, Core, TypeOK,
     SandboxTypeOK, Message
<1>1. CASE AgentConsume(w) \/ AgentReceive(w)
  <2>1. replyQueue' = replyQueue /\ ~Over(w)
        /\ \A x \in WorkerIds \ {w} : agent'[x] = agent[x] /\ job'[x] = job[x]
    BY <1>0, <1>1 DEF AgentConsume, AgentReceive, Over
  <2>2. \A x \in WorkerIds : Over(x) => Over(x)' /\ job'[x] = job[x]
    BY <2>1 DEF Over
  <2> QED
    BY <1>0, <2>1, <2>2, FewerReplies
<1>2. CASE AgentPublish(w, ReplyQueueExists(w))
  <2>1. /\ agent[w] = "executing" /\ job' = job
        /\ agent' = [agent EXCEPT ![w] = "published"]
        /\ \A m \in replyQueue' : m \in replyQueue \/ m = <<w, job[w]>>
    BY <1>2 DEF AgentPublish
  <2>2. Over(w)' /\ \A x \in WorkerIds : Over(x) => Over(x)'
    BY <1>0, <2>1 DEF Over
  <2>3. /\ replyCh[w] = None /\ holding.worker # w
        /\ \A m \in replyQueue : m[1] # w
    <3>1. ~Over(w)
      BY <2>1 DEF Over
    <3>2. NoMessage.worker # w
      BY DEF NoMessage
    <3> QED
      BY <3>1, <3>2 DEF OneReply
  <2> QED
    BY <1>0, <2>1, <2>2, <2>3 DEF OneReply, NoMessage
<1>3. CASE AgentAck(w) \/ AgentDies(w)
  <2>1. AgentEnds(w, "exited") /\ UNCHANGED <<job, replyQueue>>
    BY <1>3 DEF AgentAck, AgentDies
  <2> QED
    BY <1>0, <2>1, EndsOver, FewerReplies
<1> QED
  BY <1>1, <1>2, <1>3 DEF Agent, AgentFails

LEMMA OneReplyStep ==
  ASSUME Core, Life, OneReply, [Next]_vars PROVE OneReply'
<1>0. /\ TypeOK /\ replyCh \in [WorkerIds -> Requests \cup {None}]
      /\ agent \in [WorkerIds -> AgentStates]
      /\ \A m \in replyQueue : m[1] \in WorkerIds /\ m = <<m[1], m[2]>>
      /\ holding \in Message \cup {NoMessage}
  BY DEF Core, TypeOK, SandboxTypeOK
<1>1. ASSUME UNCHANGED <<agent, job, replyQueue, replyCh, holding>>
      PROVE  OneReply'
  BY <1>0, <1>1, SameAgents, FewerReplies
<1>2. ASSUME NEW r \in Requests, HandlerStep(r) PROVE OneReply'
  <2>1. CASE ReceiveReply(r)
    BY <1>0, <2>1, SameAgents, FewerReplies DEF ReceiveReply, sandboxVars
  <2> QED
    BY <1>1, <1>2, <2>1 DEF HandlerStep, Arrive, ObtainWorker, WorkerTimeout,
       Publish, PublishFails, ExecutionTimeout, sandboxVars, tableVars
<1>3. ASSUME NEW r \in Requests, CleanupWorker(r) \/ CleanupFails(r)
      PROVE  OneReply'
  <2>1. /\ \/ AgentEnds(worker[r], "deleted") /\ job' = job
           \/ UNCHANGED <<agent, job>>
        /\ UNCHANGED <<replyQueue, replyCh, holding>>
    BY <1>3 DEF CleanupWorker, CleanupFails, DeleteSandbox, sandboxVars,
       tableVars
  <2> QED
    BY <1>0, <2>1, EndsOver, SameAgents, FewerReplies
<1>4. ASSUME NEW a \in Adders, CreatePod(a) \/ CreatePodFails(a)
      PROVE  OneReply'
  <2>1. /\ adder[a] = "create" /\ UNCHANGED <<job, replyQueue, replyCh, holding>>
        /\ agent' = agent \/ agent' = [agent EXCEPT ![new[a]] = "starting"]
    BY <1>4 DEF CreatePod, CreatePodFails, tableVars
  <2>2. agent[new[a]] = "absent"
    BY <2>1 DEF Life
  <2>3. \A w \in WorkerIds : Over(w) => Over(w)' /\ job'[w] = job[w]
    BY <1>0, <2>1, <2>2 DEF Over
  <2> QED
    BY <1>0, <2>1, <2>3, FewerReplies
<1>5. ASSUME NEW a \in Adders, DeclareQueue(a) \/ DeclareFails(a) \/ SendWorker(a)
      PROVE  OneReply'
  BY <1>1, <1>5 DEF DeclareQueue, DeclareFails, SendWorker, sandboxVars,
     tableVars
<1>6. CASE StopCleanup
  <2>1. AgentEnds(Head(pool), "deleted") /\ UNCHANGED <<job, replyQueue, replyCh, holding>>
    BY <1>6 DEF StopCleanup, DeleteSandbox
  <2> QED
    BY <1>0, <2>1, EndsOver, FewerReplies
<1>7. CASE ConsumerTake
  <2>1. PICK m \in replyQueue :
          /\ holding = NoMessage
          /\ replyQueue' = replyQueue \ {m}
          /\ \/ holding' = [worker |-> m[1], request |-> m[2]]
             \/ holding' = NoMessage
          /\ UNCHANGED <<agent, job, replyCh>>
    BY <1>7 DEF ConsumerTake
  <2>2. \A n \in replyQueue' : n[1] # m[1]
    BY <1>0, <2>1 DEF OneReply
  <2>3. /\ \A w : Over(w) => Over(w)'
        /\ Over(m[1]) /\ m[2] = job[m[1]] /\ replyCh[m[1]] = None
    BY <2>1 DEF Over, OneReply
  <2> QED
    BY <1>0, <2>1, <2>2, <2>3 DEF OneReply, NoMessage
<1>8. CASE ConsumerSend
  <2>1. /\ holding # NoMessage /\ holding' = NoMessage
        /\ replyCh' = [replyCh EXCEPT ![holding.worker] = holding.request]
        /\ UNCHANGED <<agent, job, replyQueue>>
    BY <1>8 DEF ConsumerSend, sandboxVars
  <2>2. /\ \A w : Over(w) => Over(w)'
        /\ Over(holding.worker) /\ holding.request = job[holding.worker]
        /\ \A m \in replyQueue : holding.worker # m[1]
    BY <2>1 DEF Over, OneReply
  <2>3. \A w \in WorkerIds : replyCh'[w] = IF w = holding.worker
                                           THEN holding.request ELSE replyCh[w]
    BY <1>0, <2>1
  <2> QED
    BY <1>0, <2>1, <2>2, <2>3 DEF OneReply, NoMessage
<1>9. CASE \/ Drain \/ HandlersDone \/ AmqpCloses \/ CloseAmqp \/ Restart
           \/ UNCHANGED vars
  <2>1. /\ UNCHANGED <<agent, job, replyCh, holding>>
        /\ replyQueue' \subseteq replyQueue
    BY <1>9 DEF Drain, HandlersDone, AmqpCloses, CloseAmqp, StopAmqp, Restart,
       vars, sandboxVars, tableVars
  <2> QED
    BY <1>0, <2>1, SameAgents, FewerReplies
<1>10. CASE Exit
  BY <1>10, ExitEmpties DEF OneReply, NoMessage
<1>11. ASSUME NEW a \in Adders, AdderStep(a) PROVE OneReply'
  BY <1>4, <1>5, <1>11 DEF AdderStep
<1>12. ASSUME NEW r \in Requests, RenewStep(r) PROVE OneReply'
  <2>1. r \in Adders
    BY DEF Adders
  <2> QED
    BY <1>3, <1>4, <1>5, <1>12, <2>1 DEF RenewStep
<1>13. CASE ProcessStep
  BY <1>6, <1>7, <1>8, <1>9, <1>10, <1>13 DEF ProcessStep
<1> QED
  BY <1>2, <1>9, <1>11, <1>12, <1>13, AgentOneReply, StepKinds

-----------------------------------------------------------------------------
(* The workers lost to failed calls are in nobody's hands.                 *)

(* A failed call loses one worker, which its handler or adder lets go.     *)
LEMMA OneMoreLost ==
  ASSUME Core, LostApart, NEW w \in WorkerIds, lost' = lost \cup {w},
         \A x \in WorkerIds : born[x] # 0 => born'[x] # 0, born'[w] # 0,
         pool' = pool, \A i \in DOMAIN pool : pool[i] # w,
         \A a \in Adders : new'[a] \in {None, new[a]} /\ new'[a] # w,
         worker' = worker,
         \A r \in Requests :
           /\ r \in Busy' => r \in Busy
           /\ adder'[r] = "delete" => adder[r] = "delete"
           /\ worker[r] = w => r \notin Busy' /\ adder'[r] # "delete"
  PROVE  LostApart'
<1>1. lost \subseteq WorkerIds
  BY DEF Core, TypeOK
<1> QED
  BY <1>1 DEF LostApart

LEMMA LostApartStep ==
  ASSUME Core, LostApart, [Next]_vars PROVE LostApart'
<1>0. /\ pc \in [Requests -> {"idle"} \cup InFlight \cup Ended]
      /\ worker \in [Requests -> WorkerIds \cup {None}]
      /\ new \in [Adders -> WorkerIds \cup {None}]
      /\ adder \in [Adders -> {"off", "delete", "declare", "create", "send"}]
      /\ born \in [WorkerIds -> Nat]
      /\ \A r \in Requests : r \in Adders
      /\ lost \subseteq WorkerIds
  BY DEF Core, TypeOK, Adders
<1>1. ASSUME NEW r \in Requests, ObtainWorker(r) PROVE LostApart'
  <2>1. /\ pool # <<>> /\ pool' = Tail(pool)
        /\ UNCHANGED <<lost, born, new, adder>>
        /\ \A q \in Requests : q # r =>
              worker'[q] = worker[q] /\ (q \in Busy' <=> q \in Busy)
        /\ worker'[r] = Head(pool) /\ adder[r] # "delete"
    BY <1>0, <1>1 DEF ObtainWorker, addVars, Busy, Core, Linked
  <2>2. Head(pool) = pool[1] /\ 1 \in DOMAIN pool
    BY <2>1, HeadWorker
  <2>3. \A i \in DOMAIN pool' : \E j \in DOMAIN pool : pool'[i] = pool[j]
    BY <2>1, TailApart DEF Core
  <2>4. \A q \in Requests :
           q \in Busy' \/ adder'[q] = "delete" =>
             \/ worker'[q] = worker[q] /\ (q \in Busy \/ adder[q] = "delete")
             \/ \E j \in DOMAIN pool : worker'[q] = pool[j]
    BY <2>1, <2>2
  <2> QED
    BY <1>0, <2>1, <2>3, <2>4 DEF LostApart
<1>2. ASSUME NEW r \in Requests, PublishFails(r) PROVE LostApart'
  <2>1. /\ pc[r] = "publish" /\ pc' = [pc EXCEPT ![r] = "failed"]
        /\ lost' = lost \cup {worker[r]}
        /\ UNCHANGED <<born, pool, worker, adder, new>>
    BY <1>2 DEF PublishFails
  <2>2. worker[r] \in WorkerIds /\ adder[r] = "off"
    BY <1>0, <2>1 DEF Core, Linked
  <2>3. /\ born[worker[r]] # 0
        /\ \A i \in DOMAIN pool : pool[i] # worker[r]
        /\ \A a \in Adders : new[a] # worker[r]
        /\ \A q \in Requests : worker[q] = worker[r] => q = r
    BY <2>2 DEF Core, Apart
  <2>4. Busy' = Busy \ {r}
    BY <1>0, <2>1 DEF Busy
  <2> QED
    BY <2>1, <2>2, <2>3, <2>4, OneMoreLost
<1>3. ASSUME NEW r \in Requests, HandlerStep(r), ~ObtainWorker(r),
             ~PublishFails(r)
      PROVE  LostApart'
  <2>1. UNCHANGED <<lost, born, pool, worker, new>>
    BY <1>3 DEF HandlerStep, Arrive, WorkerTimeout, Publish, ReceiveReply,
       ExecutionTimeout, addVars
  <2>2. \A q \in Requests : q \in Busy' \/ adder'[q] = "delete" =>
                             q \in Busy \/ adder[q] = "delete"
    BY <1>0, <1>3 DEF HandlerStep, Arrive, WorkerTimeout, Publish,
       ReceiveReply, ExecutionTimeout, addVars, Busy
  <2> QED
    BY <1>0, <2>1, <2>2 DEF LostApart
<1>4. ASSUME NEW r \in Requests, CleanupFails(r) PROVE LostApart'
  <2>1. /\ adder[r] = "delete" /\ adder' = [adder EXCEPT ![r] = "off"]
        /\ lost' = lost \cup {worker[r]}
        /\ UNCHANGED <<born, pool, pc, worker, new>>
    BY <1>4 DEF CleanupFails, runVars
  <2>2. Busy' = Busy
    BY <2>1 DEF Busy
  <2> QED
    BY <1>0, <2>1, <2>2, CleanedWorker, OneMoreLost
<1>5. ASSUME NEW r \in Requests, CreatePodFails(r) PROVE LostApart'
  <2>1. /\ adder[r] = "create" /\ adder' = [adder EXCEPT ![r] = "off"]
        /\ lost' = lost \cup {new[r]} /\ new' = [new EXCEPT ![r] = None]
        /\ UNCHANGED <<born, pool, pc, worker>>
    BY <1>5 DEF CreatePodFails, runVars
  <2>2. Busy' = Busy
    BY <2>1 DEF Busy
  <2> QED
    BY <1>0, <2>1, <2>2, NewWorker, OneMoreLost
<1>6. ASSUME NEW r \in Requests, DeclareFails(r) PROVE LostApart'
  <2>1. PICK w \in WorkerIds :
          /\ born[w] = 0 /\ born' = [born EXCEPT ![w] = epoch]
          /\ lost' = lost \cup {w}
    BY <1>6 DEF DeclareFails
  <2>2. /\ adder' = [adder EXCEPT ![r] = "off"]
        /\ UNCHANGED <<pool, pc, worker, new>>
    BY <1>6 DEF DeclareFails, runVars
  <2>3. Busy' = Busy
    BY <2>2 DEF Busy
  <2>4. born'[w] # 0 /\ \A x \in WorkerIds : born[x] # 0 => born'[x] # 0
    BY <1>0, <2>1 DEF Core, Apart
  <2> QED
    BY <1>0, <2>1, <2>2, <2>3, <2>4, UnbornWorker, OneMoreLost
<1>7. ASSUME NEW a \in Adders, DeclareQueue(a) PROVE LostApart'
  <2>1. PICK w \in WorkerIds :
          /\ born[w] = 0 /\ born' = [born EXCEPT ![w] = epoch]
          /\ new' = [new EXCEPT ![a] = w]
    BY <1>7 DEF DeclareQueue
  <2>2. /\ adder' = [adder EXCEPT ![a] = "create"]
        /\ UNCHANGED <<pool, pc, worker, lost>>
    BY <1>7 DEF DeclareQueue, runVars
  <2>3. Busy' = Busy
    BY <2>2 DEF Busy
  <2>4. \A x \in WorkerIds : born[x] # 0 => born'[x] # 0
    BY <1>0, <2>1 DEF Core, Apart
  <2> QED
    BY <1>0, <2>1, <2>2, <2>3, <2>4 DEF LostApart
<1>8. ASSUME NEW a \in Adders, SendWorker(a) PROVE LostApart'
  <2>1. /\ adder[a] = "send" /\ pool' = Append(pool, new[a])
        /\ new' = [new EXCEPT ![a] = None]
        /\ \A q \in Requests : adder'[q] = "delete" => adder[q] = "delete"
        /\ UNCHANGED <<born, pc, worker, lost>>
    BY <1>0, <1>8 DEF SendWorker, runVars
  <2>2. new[a] \in WorkerIds /\ pool \in Seq(WorkerIds)
    BY <2>1, NewWorker DEF Core, TypeOK
  <2>3. \A i \in DOMAIN pool' :
          (\E j \in DOMAIN pool : pool'[i] = pool[j]) \/ pool'[i] = new[a]
    BY <2>1, <2>2
  <2>4. Busy' = Busy
    BY <2>1 DEF Busy
  <2> QED
    BY <1>0, <2>1, <2>3, <2>4 DEF LostApart
<1>9. CASE StopCleanup
  <2>1. /\ pool # <<>> /\ pool' = Tail(pool)
        /\ UNCHANGED <<born, pc, worker, new, adder, lost>>
    BY <1>9 DEF StopCleanup, runVars, addVars
  <2>2. \A i \in DOMAIN pool' : \E j \in DOMAIN pool : pool'[i] = pool[j]
    BY <2>1, TailApart DEF Core
  <2>3. Busy' = Busy
    BY <2>1 DEF Busy
  <2> QED
    BY <1>0, <2>1, <2>2, <2>3 DEF LostApart
<1>10. ASSUME UNCHANGED <<born, pool, pc, worker, new, lost>>,
              \A r \in Requests : adder'[r] = "delete" => adder[r] = "delete"
       PROVE  LostApart'
  BY <1>0, <1>10 DEF Busy, LostApart
<1>11. CASE \/ ConsumerTake \/ ConsumerSend \/ Drain \/ HandlersDone
            \/ AmqpCloses \/ CloseAmqp \/ UNCHANGED vars
  BY <1>10, <1>11 DEF ConsumerTake, ConsumerSend, Drain, HandlersDone,
     AmqpCloses, CloseAmqp, StopAmqp, vars, runVars, addVars
<1>12. CASE Restart
  BY <1>0, <1>10, <1>12 DEF Restart, runVars
<1>13. CASE Exit
  BY <1>13, ExitEmpties DEF LostApart
<1>14. ASSUME NEW w \in WorkerIds, Agent(w) \/ AgentFails(w) PROVE LostApart'
  BY <1>10, <1>14 DEF Agent, AgentFails, serviceVars, runVars, addVars
<1>15. ASSUME NEW a \in Adders, CreatePod(a) PROVE LostApart'
  BY <1>0, <1>10, <1>15 DEF CreatePod, runVars
<1>16. ASSUME NEW r \in Requests, CleanupWorker(r) PROVE LostApart'
  BY <1>0, <1>10, <1>16 DEF CleanupWorker, runVars
<1>17. ASSUME NEW a \in Adders, AdderStep(a) PROVE LostApart'
  BY <1>7, <1>8, <1>15, <1>17 DEF AdderStep
<1>18. ASSUME NEW r \in Requests, RenewStep(r) PROVE LostApart'
  BY <1>4, <1>5, <1>6, <1>16, <1>18 DEF RenewStep
<1>19. CASE ProcessStep
  BY <1>9, <1>11, <1>12, <1>13, <1>19 DEF ProcessStep
<1> QED
  BY <1>1, <1>2, <1>3, <1>11, <1>14, <1>17, <1>18, <1>19, StepKinds

-----------------------------------------------------------------------------
(* No pod and no reply channel is forgotten.                               *)

LEMMA TrackedMeans ==
  ASSUME NEW w
  PROVE  w \in Tracked <=>
           \/ \E i \in DOMAIN pool : pool[i] = w
           \/ \E r \in Requests : worker[r] = w /\ (r \in Busy \/ adder[r] = "delete")
           \/ \E a \in Adders : new[a] # None /\ new[a] = w
BY DEF Tracked, Busy

LEMMA TrackedMeansNext ==
  ASSUME NEW w
  PROVE  w \in Tracked' <=>
           \/ \E i \in DOMAIN pool' : pool'[i] = w
           \/ \E r \in Requests :
                worker'[r] = w /\ (r \in Busy' \/ adder'[r] = "delete")
           \/ \E a \in Adders : new'[a] # None /\ new'[a] = w
BY DEF Tracked, Busy

(* Which workers may have a pod after a step.                              *)
LEMMA PodsMove ==
  ASSUME Core, Life, [Next]_vars, NEW w \in WorkerIds
  PROVE  /\ HasPod(w)' => \/ HasPod(w)
                          \/ \E a \in Adders : adder[a] = "create" /\ new[a] = w
         /\ born'[w] = born[w] \/ ~HasPod(w)'
<1> USE DEF HasPod, PodStates
<1>0. /\ agent \in [WorkerIds -> AgentStates] /\ born \in [WorkerIds -> Nat]
      /\ Boot \in Adders /\ \A r \in Requests : r \in Adders
  BY DEF Core, TypeOK, SandboxTypeOK, Adders
<1>1. CASE UNCHANGED <<agent, born>>
  BY <1>1
<1>2. ASSUME NEW r \in Requests, HandlerStep(r) PROVE UNCHANGED <<agent, born>>
  BY <1>2 DEF HandlerStep, Arrive, ObtainWorker, WorkerTimeout, Publish,
     PublishFails, ReceiveReply, ExecutionTimeout, sandboxVars
<1>3. ASSUME NEW x, AgentEnds(x, "deleted") \/ UNCHANGED agent, UNCHANGED born
      PROVE  /\ HasPod(w)' => HasPod(w)
             /\ born'[w] = born[w]
  BY <1>0, <1>3 DEF AgentEnds
<1>4. ASSUME NEW a \in Adders, AdderStep(a) \/ RenewStep(a)
      PROVE  /\ HasPod(w)' => \/ HasPod(w)
                              \/ \E b \in Adders : adder[b] = "create" /\ new[b] = w
             /\ born'[w] = born[w] \/ ~HasPod(w)'
  <2>1. CASE CleanupWorker(a) \/ CleanupFails(a)
    BY <1>3, <2>1 DEF CleanupWorker, CleanupFails, DeleteSandbox, sandboxVars
  <2>2. CASE DeclareQueue(a) \/ DeclareFails(a)
    <3>1. PICK x \in WorkerIds : born[x] = 0 /\ born' = [born EXCEPT ![x] = epoch]
      BY <2>2 DEF DeclareQueue, DeclareFails
    <3> QED
      BY <1>0, <2>2, <3>1 DEF DeclareQueue, DeclareFails, Life
  <2>3. CASE CreatePod(a) \/ CreatePodFails(a)
    <3>1. /\ adder[a] = "create" /\ born' = born
          /\ agent' = agent \/ agent' = [agent EXCEPT ![new[a]] = "starting"]
      BY <2>3 DEF CreatePod, CreatePodFails
    <3> QED
      BY <1>0, <3>1
  <2>4. CASE SendWorker(a)
    BY <2>4, <1>1 DEF SendWorker, sandboxVars
  <2> QED
    BY <1>4, <2>1, <2>2, <2>3, <2>4 DEF AdderStep, RenewStep
<1>5. ASSUME NEW x \in WorkerIds, Agent(x) \/ AgentFails(x)
      PROVE  (HasPod(w)' => HasPod(w)) /\ born' = born
  BY <1>0, <1>5 DEF Agent, AgentFails, serviceVars, AgentConsume, AgentReceive,
     AgentPublish, AgentAck, AgentDies, AgentEnds
<1>6. CASE ConsumerTake \/ ConsumerSend \/ Drain \/ HandlersDone
           \/ AmqpCloses \/ CloseAmqp \/ Restart \/ UNCHANGED vars
  BY <1>1, <1>6 DEF ConsumerTake, ConsumerSend, Drain, HandlersDone,
     AmqpCloses, CloseAmqp, StopAmqp, Restart, vars, sandboxVars
<1>7. CASE StopCleanup
  BY <1>3, <1>7 DEF StopCleanup, DeleteSandbox
<1>8. CASE Exit
  <2>1. born' = born
    BY <1>8 DEF Exit, ProcessExit
  <2>2. \/ AgentEnds(Head(pool), "deleted") \/ UNCHANGED agent
        \/ /\ adder[Boot] = "create"
           /\ agent' = [agent EXCEPT ![new[Boot]] = "starting"]
    BY <1>8 DEF Exit
  <2> QED
    BY <1>0, <1>3, <2>1, <2>2
<1>9. CASE ProcessStep
  BY <1>6, <1>7, <1>8, <1>9 DEF ProcessStep
<1> QED
  BY <1>0, <1>1, <1>2, <1>4, <1>5, <1>6, <1>9, StepKinds

(* What leaves the pool is its head.                                       *)
LEMMA TailKeeps ==
  ASSUME Core, pool # <<>>, pool' = Tail(pool)
  PROVE  \A i \in DOMAIN pool : \/ pool[i] = Head(pool)
                               \/ \E j \in DOMAIN pool' : pool'[j] = pool[i]
<1>1. /\ Len(pool) \in Nat \ {0} /\ DOMAIN pool = 1..Len(pool)
      /\ DOMAIN pool' = 1..(Len(pool) - 1) /\ Head(pool) = pool[1]
      /\ \A j \in DOMAIN pool' : pool'[j] = pool[j + 1]
  BY DEF Core, TypeOK
<1>2. \A i \in DOMAIN pool : i # 1 =>
        i - 1 \in DOMAIN pool' /\ pool'[i - 1] = pool[i]
  BY <1>1
<1> QED
  BY <1>1, <1>2

(* A worker that a step takes out of the pool, from its handler or from    *)
(* its adder is handed on, lost to a failed call, or removed.              *)
LEMMA HandedOn ==
  ASSUME Core, [Next]_vars, phase' # "exited", ~Restart,
         NEW w \in Tracked \cup lost
  PROVE  \/ w \in Tracked' \cup lost'
         \/ agent'[w] = "deleted" /\ w \notin replies'
<1>0. /\ pc \in [Requests -> {"idle"} \cup InFlight \cup Ended]
      /\ worker \in [Requests -> WorkerIds \cup {None}]
      /\ new \in [Adders -> WorkerIds \cup {None}]
      /\ adder \in [Adders -> {"off", "delete", "declare", "create", "send"}]
      /\ agent \in [WorkerIds -> AgentStates]
      /\ \A r \in Requests : r \in Adders
      /\ \A a \in Adders : new[a] # None <=> adder[a] \in {"create", "send"}
  BY DEF Core, TypeOK, SandboxTypeOK, Linked, Adders
<1>1. ASSUME UNCHANGED <<pool, worker>>, lost \subseteq lost',
             \A r \in Requests : r \in Busy \/ adder[r] = "delete" =>
               r \in Busy' \/ adder'[r] = "delete" \/ worker[r] \in lost',
             \A a \in Adders : new[a] # None => new'[a] = new[a] \/ new[a] \in lost'
      PROVE  w \in Tracked' \cup lost'
  BY <1>1, TrackedMeans, TrackedMeansNext
<1>2. ASSUME NEW r \in Requests, ObtainWorker(r) PROVE w \in Tracked' \cup lost'
  <2>1. /\ pool # <<>> /\ pool' = Tail(pool) /\ UNCHANGED <<new, adder, lost>>
        /\ worker' = [worker EXCEPT ![r] = Head(pool)] /\ worker[r] = None
        /\ Busy' = Busy \cup {r} /\ adder[r] = "off"
    BY <1>0, <1>2 DEF ObtainWorker, addVars, Busy, Core, Linked
  <2>2. \A i \in DOMAIN pool : \/ pool[i] = Head(pool)
                              \/ \E j \in DOMAIN pool' : pool'[j] = pool[i]
    BY <2>1, TailKeeps
  <2>3. worker'[r] = Head(pool) /\ r \in Busy'
        /\ \A q \in Requests \ {r} : worker'[q] = worker[q]
    BY <1>0, <2>1
  <2>4. CASE \E i \in DOMAIN pool : pool[i] = w
    BY <2>2, <2>3, <2>4, TrackedMeansNext
  <2>5. CASE \E q \in Requests : worker[q] = w /\ (q \in Busy \/ adder[q] = "delete")
    <3>1. PICK q \in Requests : worker[q] = w /\ (q \in Busy \/ adder[q] = "delete")
      BY <2>5
    <3>2. q # r
      BY <1>2, <2>1, <3>1 DEF ObtainWorker, Busy
    <3>3. worker'[q] = w /\ (q \in Busy' \/ adder'[q] = "delete")
      BY <2>1, <2>3, <3>1, <3>2
    <3> QED
      BY <3>3, TrackedMeansNext
  <2>6. CASE \E a \in Adders : new[a] # None /\ new[a] = w
    BY <2>1, <2>6, TrackedMeansNext
  <2> QED
    BY <2>1, <2>4, <2>5, <2>6, TrackedMeans
<1>3. ASSUME NEW r \in Requests, HandlerStep(r), ~ObtainWorker(r)
      PROVE  w \in Tracked' \cup lost'
  <2>1. UNCHANGED <<pool, worker, new>> /\ lost \subseteq lost'
    BY <1>3 DEF HandlerStep, Arrive, WorkerTimeout, Publish, PublishFails,
       ReceiveReply, ExecutionTimeout, addVars
  <2>2. \A q \in Requests : q \in Busy \/ adder[q] = "delete" =>
          q \in Busy' \/ adder'[q] = "delete" \/ worker[q] \in lost'
    BY <1>0, <1>3 DEF HandlerStep, Arrive, WorkerTimeout, Publish,
       PublishFails, ReceiveReply, ExecutionTimeout, addVars, Busy
  <2> QED
    BY <1>1, <2>1, <2>2
<1>4. ASSUME NEW r \in Requests, CleanupWorker(r)
      PROVE  \/ w \in Tracked' \cup lost'
             \/ agent'[w] = "deleted" /\ w \notin replies'
  <2>1. /\ adder[r] = "delete" /\ adder' = [adder EXCEPT ![r] = "declare"]
        /\ UNCHANGED <<pool, pc, worker, new, lost>>
        /\ agent' = [agent EXCEPT ![worker[r]] = "deleted"]
        /\ replies' = replies \ {worker[r]}
    BY <1>4 DEF CleanupWorker, DeleteSandbox, AgentEnds, runVars
  <2>2. Busy' = Busy
    BY <2>1 DEF Busy
  <2>3. CASE w = worker[r]
    BY <1>0, <2>1, <2>3, CleanedWorker
  <2>4. CASE w # worker[r]
    BY <1>0, <2>1, <2>2, <2>4, TrackedMeans, TrackedMeansNext
  <2> QED
    BY <2>3, <2>4
<1>5. ASSUME NEW r \in Requests, CleanupFails(r) \/ DeclareFails(r) \/ CreatePodFails(r)
      PROVE  w \in Tracked' \cup lost'
  <2>1. UNCHANGED <<pool, pc, worker>> /\ lost \subseteq lost'
    BY <1>5 DEF CleanupFails, DeclareFails, CreatePodFails, runVars
  <2>2. Busy' = Busy
    BY <2>1 DEF Busy
  <2>3. \A q \in Requests : adder[q] = "delete" =>
          adder'[q] = "delete" \/ worker[q] \in lost'
    BY <1>0, <1>5 DEF CleanupFails, DeclareFails, CreatePodFails
  <2>4. \A a \in Adders : new[a] # None => new'[a] = new[a] \/ new[a] \in lost'
    BY <1>0, <1>5 DEF CleanupFails, DeclareFails, CreatePodFails
  <2> QED
    BY <1>1, <2>1, <2>2, <2>3, <2>4
<1>6. ASSUME NEW a \in Adders, DeclareQueue(a) \/ CreatePod(a)
      PROVE  w \in Tracked' \cup lost'
  <2>1. UNCHANGED <<pool, pc, worker, lost>>
    BY <1>6 DEF DeclareQueue, CreatePod, runVars
  <2>2. Busy' = Busy
    BY <2>1 DEF Busy
  <2>3. \A q \in Requests : adder[q] = "delete" => adder'[q] = "delete"
    BY <1>0, <1>6 DEF DeclareQueue, CreatePod
  <2>4. \A b \in Adders : new[b] # None => new'[b] = new[b]
    BY <1>0, <1>6 DEF DeclareQueue, CreatePod
  <2> QED
    BY <1>1, <2>1, <2>2, <2>3, <2>4
<1>7. ASSUME NEW a \in Adders, SendWorker(a) PROVE w \in Tracked' \cup lost'
  <2>1. /\ adder[a] = "send" /\ pool' = Append(pool, new[a])
        /\ new' = [new EXCEPT ![a] = None]
        /\ \A q \in Requests : adder[q] = "delete" => adder'[q] = "delete"
        /\ UNCHANGED <<pc, worker, lost>>
    BY <1>0, <1>7 DEF SendWorker, runVars
  <2>2. new[a] \in WorkerIds /\ pool \in Seq(WorkerIds)
    BY <1>0, <2>1, NewWorker DEF Core, TypeOK
  <2>3. /\ \A i \in DOMAIN pool : i \in DOMAIN pool' /\ pool'[i] = pool[i]
        /\ Len(pool) + 1 \in DOMAIN pool' /\ pool'[Len(pool) + 1] = new[a]
    BY <2>1, <2>2
  <2>4. Busy' = Busy
    BY <2>1 DEF Busy
  <2> QED
    BY <1>0, <2>1, <2>3, <2>4, TrackedMeans, TrackedMeansNext
<1>8. CASE StopCleanup
  <2>1. /\ pool # <<>> /\ pool' = Tail(pool)
        /\ agent' = [agent EXCEPT ![Head(pool)] = "deleted"]
        /\ replies' = replies \ {Head(pool)}
        /\ UNCHANGED <<pc, worker, new, adder, lost>>
    BY <1>8 DEF StopCleanup, DeleteSandbox, AgentEnds, runVars, addVars
  <2>2. Busy' = Busy
    BY <2>1 DEF Busy
  <2>3. CASE w = Head(pool)
    BY <1>0, <2>1, <2>3, HeadWorker
  <2>4. CASE w # Head(pool)
    <3>1. \A i \in DOMAIN pool : \/ pool[i] = Head(pool)
                                \/ \E j \in DOMAIN pool' : pool'[j] = pool[i]
      BY <2>1, TailKeeps
    <3>2. CASE \E i \in DOMAIN pool : pool[i] = w
      <4>1. \E j \in DOMAIN pool' : pool'[j] = w
        BY <2>4, <3>1, <3>2
      <4> QED
        BY <4>1, TrackedMeansNext
    <3>3. CASE \E r \in Requests : worker[r] = w /\ (r \in Busy \/ adder[r] = "delete")
      BY <2>1, <2>2, <3>3, TrackedMeansNext
    <3>4. CASE \E a \in Adders : new[a] # None /\ new[a] = w
      BY <2>1, <3>4, TrackedMeansNext
    <3>5. CASE w \in lost
      BY <2>1, <3>5
    <3> QED
      BY <1>0, <3>2, <3>3, <3>4, <3>5, TrackedMeans
  <2> QED
    BY <2>3, <2>4
<1>9. CASE ConsumerTake \/ ConsumerSend \/ Drain \/ HandlersDone
           \/ AmqpCloses \/ CloseAmqp \/ UNCHANGED vars
  <2>1. UNCHANGED <<pool, pc, worker, new, adder, lost>>
    BY <1>9 DEF ConsumerTake, ConsumerSend, Drain, HandlersDone, AmqpCloses,
       CloseAmqp, StopAmqp, vars, runVars, addVars
  <2> QED
    BY <1>1, <2>1 DEF Busy
<1>10. ASSUME NEW x \in WorkerIds, Agent(x) \/ AgentFails(x)
       PROVE  w \in Tracked' \cup lost'
  <2>1. UNCHANGED <<pool, pc, worker, new, adder, lost>>
    BY <1>10 DEF Agent, AgentFails, serviceVars, runVars, addVars
  <2> QED
    BY <1>1, <2>1 DEF Busy
<1>11. ~Exit
  BY ExitEmpties
<1>12. ASSUME NEW a \in Adders, AdderStep(a) PROVE w \in Tracked' \cup lost'
  BY <1>6, <1>7, <1>12 DEF AdderStep
<1>13. ASSUME NEW r \in Requests, RenewStep(r)
       PROVE  \/ w \in Tracked' \cup lost'
              \/ agent'[w] = "deleted" /\ w \notin replies'
  BY <1>4, <1>5, <1>13 DEF RenewStep
<1>14. CASE ProcessStep
  BY <1>8, <1>9, <1>11, <1>14 DEF ProcessStep
<1> QED
  BY <1>2, <1>3, <1>9, <1>10, <1>12, <1>13, <1>14, StepKinds

(* What comes to the process's pods and reply channels is an adder's.      *)
LEMMA ComesTracked ==
  ASSUME Core, [Next]_vars, NEW w \in replies', w \notin replies
  PROVE  w \in Tracked' \cup lost'
<1>0. /\ new \in [Adders -> WorkerIds \cup {None}]
      /\ \A r \in Requests : r \in Adders
  BY DEF Core, TypeOK, Adders
<1>1. CASE UNCHANGED replies
  BY <1>1
<1>2. ASSUME NEW a \in Adders, DeclareQueue(a) PROVE w \in Tracked'
  <2>1. w \in WorkerIds /\ new'[a] = w
    BY <1>0, <1>2 DEF DeclareQueue
  <2> QED
    BY <2>1, TrackedMeansNext
<1>3. ASSUME NEW r, DeclareFails(r) PROVE w \in lost'
  BY <1>3 DEF DeclareFails
<1>4. ASSUME NEW r \in Requests, HandlerStep(r) PROVE UNCHANGED replies
  BY <1>4 DEF HandlerStep, Arrive, ObtainWorker, WorkerTimeout, Publish,
     PublishFails, ReceiveReply, ExecutionTimeout, tableVars
<1>5. ASSUME NEW a, CreatePod(a) \/ SendWorker(a) \/ CleanupFails(a) \/ CreatePodFails(a)
      PROVE  UNCHANGED replies
  BY <1>5 DEF CreatePod, SendWorker, CleanupFails, CreatePodFails, tableVars
<1>6. ASSUME NEW a, CleanupWorker(a) PROVE replies' \subseteq replies
  BY <1>6 DEF CleanupWorker, DeleteSandbox
<1>7. ASSUME NEW x \in WorkerIds, Agent(x) \/ AgentFails(x)
      PROVE  UNCHANGED replies
  BY <1>7 DEF Agent, AgentFails, serviceVars, tableVars
<1>8. CASE ConsumerTake \/ ConsumerSend \/ Drain \/ HandlersDone
           \/ AmqpCloses \/ CloseAmqp \/ Restart \/ UNCHANGED vars
  BY <1>1, <1>8 DEF ConsumerTake, ConsumerSend, Drain, HandlersDone,
     AmqpCloses, CloseAmqp, StopAmqp, Restart, vars, tableVars
<1>9. ~StopCleanup /\ ~Exit
  BY ExitEmpties DEF StopCleanup, DeleteSandbox
<1>10. ASSUME NEW a \in Adders, AdderStep(a) PROVE w \in Tracked' \cup lost'
  BY <1>1, <1>2, <1>5, <1>10 DEF AdderStep
<1>11. ASSUME NEW r \in Requests, RenewStep(r) PROVE w \in Tracked' \cup lost'
  BY <1>1, <1>3, <1>5, <1>6, <1>11 DEF RenewStep
<1>12. CASE ProcessStep
  BY <1>8, <1>9, <1>12 DEF ProcessStep
<1> QED
  BY <1>1, <1>4, <1>7, <1>8, <1>10, <1>11, <1>12, StepKinds

(* Only a restart changes the epoch, and only the end of the process ends  *)
(* the phases in between.                                                  *)
LEMMA EpochMoves ==
  ASSUME Core, [Next]_vars, ~Restart
  PROVE  /\ epoch' = epoch
         /\ phase = "exited" => phase' = "exited"
         /\ Up' => Up
<1> USE DEF Up
<1>0. /\ adder[Boot] # "off" <=> phase = "boot"
      /\ Boot \in Adders
  BY DEF Core, Linked, Adders
<1>1. ASSUME NEW r \in Requests, HandlerStep(r) PROVE UNCHANGED <<phase, epoch>>
  BY <1>1 DEF HandlerStep, Arrive, ObtainWorker, WorkerTimeout, Publish,
     PublishFails, ReceiveReply, ExecutionTimeout, procVars
<1>2. ASSUME NEW a, CleanupWorker(a) \/ CleanupFails(a) \/ DeclareQueue(a)
                    \/ DeclareFails(a) \/ CreatePod(a) \/ CreatePodFails(a)
      PROVE  UNCHANGED <<phase, epoch>>
  BY <1>2 DEF CleanupWorker, CleanupFails, DeclareQueue, DeclareFails,
     CreatePod, CreatePodFails, procVars
<1>3. ASSUME NEW a, SendWorker(a)
      PROVE  /\ epoch' = epoch
             /\ phase' = phase \/ (phase = "boot" /\ phase' = "serving")
  BY <1>0, <1>3 DEF SendWorker
<1>4. ASSUME NEW w, Agent(w) \/ AgentFails(w) PROVE UNCHANGED <<phase, epoch>>
  BY <1>4 DEF Agent, AgentFails, serviceVars, procVars
<1>5. CASE ConsumerTake \/ ConsumerSend \/ AmqpCloses \/ StopCleanup \/ UNCHANGED vars
  BY <1>5 DEF ConsumerTake, ConsumerSend, AmqpCloses, StopCleanup, vars,
     procVars
<1>6. CASE Drain \/ HandlersDone \/ CloseAmqp
  BY <1>6 DEF Drain, HandlersDone, CloseAmqp, StopAmqp
<1>7. CASE Exit
  BY <1>7, ExitEmpties
<1>8. CASE ProcessStep
  BY <1>5, <1>6, <1>7, <1>8 DEF ProcessStep
<1>9. ASSUME NEW a, AdderStep(a) \/ RenewStep(a)
      PROVE  /\ epoch' = epoch
             /\ phase' = phase \/ (phase = "boot" /\ phase' = "serving")
  BY <1>2, <1>3, <1>9 DEF AdderStep, RenewStep
<1> QED
  BY <1>1, <1>4, <1>5, <1>8, <1>9, StepKinds

LEMMA CreatingTracked ==
  ASSUME Core, NEW a \in Adders, adder[a] = "create"
  PROVE  new[a] \in Tracked /\ new[a] \in WorkerIds
<1>1. new[a] \in WorkerIds /\ new[a] # None
  BY NewWorker
<1>2. new[a] \in Tracked
  BY <1>1, TrackedMeans
<1> QED
  BY <1>1, <1>2

LEMMA ForgottenStep ==
  ASSUME Core, Life, Ending, NothingForgotten, [Next]_vars
  PROVE  NothingForgotten'
<1>1. CASE Restart
  <2>1. /\ replies' = {} /\ epoch' = epoch + 1 /\ born' = born
    BY <1>1 DEF Restart, Ending, tableVars
  <2>2. \A w \in WorkerIds : born[w] # epoch + 1
    BY DEF Life, Core, TypeOK
  <2>3. Pods(epoch)' = {}
    BY <2>1, <2>2 DEF Pods
  <2> QED
    BY <2>1, <2>3 DEF NothingForgotten
<1>2. CASE ~Restart /\ phase' # "exited"
  <2>1. epoch' = epoch /\ phase # "exited"
    BY <1>2, EpochMoves
  <2> SUFFICES ASSUME NEW w \in (Pods(epoch) \cup replies)'
               PROVE  w \in Tracked' \cup lost'
    BY DEF NothingForgotten
  <2>2. w \in WorkerIds
    <3>1. replies' \subseteq WorkerIds
      BY TypeStep DEF Core, TypeOK
    <3> QED
      BY <3>1 DEF Pods
  <2>3. CASE w \in Tracked \cup lost
    <3>1. ~(agent'[w] = "deleted" /\ w \notin replies')
      BY DEF Pods, HasPod, PodStates
    <3> QED
      BY <1>2, <2>3, <3>1, HandedOn
  <2>4. CASE w \notin Tracked \cup lost
    <3>1. w \notin Pods(epoch) \cup replies
      BY <2>1, <2>4 DEF NothingForgotten
    <3>2. CASE w \in replies'
      BY <3>1, <3>2, ComesTracked
    <3>3. CASE w \in Pods(epoch)'
      <4>1. HasPod(w)' /\ born'[w] = epoch
        BY <2>1, <3>3 DEF Pods
      <4>2. born[w] = epoch /\ \E a \in Adders : adder[a] = "create" /\ new[a] = w
        BY <2>2, <3>1, <4>1, PodsMove DEF Pods
      <4> QED
        BY <2>4, <4>2, CreatingTracked
    <3> QED
      BY <3>2, <3>3
  <2> QED
    BY <2>3, <2>4
<1>3. CASE ~Restart /\ phase' = "exited"
  BY <1>3 DEF NothingForgotten
<1> QED
  BY <1>1, <1>2, <1>3

-----------------------------------------------------------------------------
(* The places of the pool.                                                 *)

LEMMA OneMore ==
  ASSUME NEW S, IsFiniteSet(S), NEW x, x \notin S
  PROVE  /\ IsFiniteSet(S \cup {x})
         /\ Cardinality(S \cup {x}) = Cardinality(S) + 1
BY FS_AddElement

LEMMA OneLess ==
  ASSUME NEW S, IsFiniteSet(S), NEW x \in S
  PROVE  /\ IsFiniteSet(S \ {x})
         /\ Cardinality(S \ {x}) = Cardinality(S) - 1
BY FS_RemoveElement

LEMMA CountsTyped ==
  ASSUME Core, Places
  PROVE  /\ Len(pool) \in Nat /\ left \in Nat /\ Cardinality(Busy) \in Nat
         /\ Cardinality(Renewing) \in Nat /\ Cardinality(lost) \in Nat
BY FS_CardinalityType DEF Core, TypeOK, Places

LEMMA SameCounts ==
  ASSUME Places, UNCHANGED <<pool, left, lost>>, Busy' = Busy,
         Renewing' = Renewing, Up' => Up
  PROVE  Places'
BY DEF Places, Taken

(* The counts of a step, put together.                                     *)
LEMMA NewCounts ==
  ASSUME Core, Places, Up' => Up, left' \in Nat, Len(pool') \in Nat,
         IsFiniteSet(Busy'), IsFiniteSet(Renewing'), IsFiniteSet(lost'),
         NEW db \in -1..1, Cardinality(Busy') = Cardinality(Busy) + db,
         NEW dr \in -1..1, Cardinality(Renewing') = Cardinality(Renewing) + dr,
         NEW dl \in 0..1, Cardinality(lost') = Cardinality(lost) + dl,
         Len(pool') + left' = Len(pool) + left - (db + dr + dl)
  PROVE  Places'
<1>1. /\ Len(pool) \in Nat /\ left \in Nat /\ Cardinality(Busy) \in Nat
      /\ Cardinality(Renewing) \in Nat /\ Cardinality(lost) \in Nat
  BY CountsTyped
<1>2. db \in Int /\ dr \in Int /\ dl \in Int
  OBVIOUS
<1>3. Len(pool') + (Cardinality(Busy) + db) + (Cardinality(Renewing) + dr)
        + left' + (Cardinality(lost) + dl)
        = Len(pool) + Cardinality(Busy) + Cardinality(Renewing) + left
            + Cardinality(lost)
  <2> DEFINE p == Len(pool)
             b == Cardinality(Busy)
             r == Cardinality(Renewing)
             l == Cardinality(lost)
             q == Len(pool')
             k == left'
  <2>1. /\ p \in Int /\ b \in Int /\ r \in Int /\ l \in Int /\ q \in Int
        /\ k \in Int /\ left \in Int
    BY <1>1
  <2>2. q + k = p + left - (db + dr + dl)
    OBVIOUS
  <2> HIDE DEF p, b, r, l, q, k
  <2>3. q + (b + db) + (r + dr) + k + (l + dl) = p + b + r + left + l
    BY <1>2, <2>1, <2>2
  <2> QED
    BY <2>3 DEF p, b, r, l, q, k
<1>4. Taken' = Taken
  BY <1>3 DEF Taken
<1> QED
  BY <1>4 DEF Places

(* A worker sent to the pool takes the place its adder held.               *)
LEMMA SamePlaces ==
  ASSUME Core, Places, Up' => Up, left' \in Nat, Len(pool') \in Nat,
         IsFiniteSet(Busy'), IsFiniteSet(Renewing'), IsFiniteSet(lost'),
         Cardinality(Busy') = Cardinality(Busy),
         Cardinality(Renewing') = Cardinality(Renewing),
         Cardinality(lost') = Cardinality(lost),
         Len(pool') + left' = Len(pool) + left
  PROVE  Places'
<1>1. /\ Len(pool) \in Nat /\ left \in Nat /\ Cardinality(Busy) \in Nat
      /\ Cardinality(Renewing) \in Nat /\ Cardinality(lost) \in Nat
  BY CountsTyped
<1> QED
  BY <1>1, NewCounts

LEMMA SendPlaces ==
  ASSUME Core, Places, Up' => Up, left' = left, Len(pool') = Len(pool) + 1,
         IsFiniteSet(Busy'), IsFiniteSet(Renewing'), IsFiniteSet(lost'),
         Cardinality(Busy') = Cardinality(Busy),
         Cardinality(Renewing') = Cardinality(Renewing) - 1,
         Cardinality(lost') = Cardinality(lost)
  PROVE  Places'
<1>1. /\ Len(pool) \in Nat /\ left \in Nat /\ Cardinality(Busy) \in Nat
      /\ Cardinality(Renewing) \in Nat /\ Cardinality(lost) \in Nat
  BY CountsTyped
<1> QED
  BY <1>1, NewCounts

(* A handler keeps a place, hands it to its adder, or loses it.            *)
LEMMA HandlerPlaces ==
  ASSUME Core, LostApart, Places, NEW r \in Requests, HandlerStep(r), Up' => Up
  PROVE  Places'
<1>0. /\ pc \in [Requests -> {"idle"} \cup InFlight \cup Ended]
      /\ adder \in [Adders -> {"off", "delete", "declare", "create", "send"}]
      /\ r \in Adders
  BY DEF Core, TypeOK, Adders
<1>1. CASE ObtainWorker(r)
  <2>1. /\ pool # <<>> /\ pool' = Tail(pool) /\ UNCHANGED <<left, lost>>
        /\ Renewing' = Renewing /\ Busy' = Busy \cup {r} /\ r \notin Busy
    BY <1>0, <1>1 DEF ObtainWorker, addVars, Busy, Renewing
  <2>2. Len(pool') = Len(pool) - 1
    BY <2>1 DEF Core, TypeOK
  <2>3. IsFiniteSet(Busy') /\ Cardinality(Busy') = Cardinality(Busy) + 1
    BY <2>1, OneMore DEF Places
  <2> QED
    BY <2>1, <2>2, <2>3, CountsTyped, NewCounts DEF Places
<1>2. CASE PublishFails(r)
  <2>1. /\ UNCHANGED <<pool, left>> /\ lost' = lost \cup {worker[r]}
        /\ Renewing' = Renewing /\ Busy' = Busy \ {r} /\ r \in Busy
    BY <1>0, <1>2 DEF PublishFails, Busy, Renewing
  <2>2. worker[r] \notin lost
    BY <2>1 DEF LostApart
  <2>3. IsFiniteSet(Busy') /\ Cardinality(Busy') = Cardinality(Busy) - 1
    BY <2>1, OneLess DEF Places
  <2>4. IsFiniteSet(lost') /\ Cardinality(lost') = Cardinality(lost) + 1
    BY <2>1, <2>2, OneMore DEF Places
  <2> QED
    BY <2>1, <2>3, <2>4, CountsTyped, NewCounts DEF Places
<1>3. CASE ReceiveReply(r) \/ ExecutionTimeout(r)
  <2>1. /\ UNCHANGED <<pool, left, lost>> /\ r \in Busy /\ r \notin Renewing
        /\ Renewing' = Renewing \cup {r} /\ Busy' = Busy \ {r}
    <3>1. pc[r] = "waitReply" /\ adder[r] = "off"
      BY <1>0, <1>3 DEF ReceiveReply, ExecutionTimeout, Core, Linked
    <3>2. /\ UNCHANGED <<pool, left, lost>>
          /\ adder' = [adder EXCEPT ![r] = "delete"]
          /\ \/ pc' = [pc EXCEPT ![r] = "answered"]
             \/ pc' = [pc EXCEPT ![r] = "timedOut"]
      BY <1>3 DEF ReceiveReply, ExecutionTimeout
    <3> QED
      BY <1>0, <3>1, <3>2 DEF Busy, Renewing
  <2>2. IsFiniteSet(Busy') /\ Cardinality(Busy') = Cardinality(Busy) - 1
    BY <2>1, OneLess DEF Places
  <2>3. IsFiniteSet(Renewing') /\ Cardinality(Renewing') = Cardinality(Renewing) + 1
    BY <2>1, OneMore DEF Places
  <2> QED
    BY <2>1, <2>2, <2>3, CountsTyped, NewCounts DEF Places
<1>4. CASE Arrive(r) \/ WorkerTimeout(r) \/ Publish(r)
  <2>1. /\ UNCHANGED <<pool, left, lost>> /\ Renewing' = Renewing
        /\ Busy' = Busy
    BY <1>0, <1>4 DEF Arrive, WorkerTimeout, Publish, addVars, Busy, Renewing
  <2> QED
    BY <2>1, SameCounts
<1> QED
  BY <1>1, <1>2, <1>3, <1>4 DEF HandlerStep

(* An adder keeps its place, gives it back to the pool, or loses it.       *)
LEMMA AdderPlaces ==
  ASSUME Core, LostApart, Places, NEW a \in Adders, Up' => Up,
         AdderStep(a) \/ (a \in Requests /\ RenewStep(a))
  PROVE  Places'
<1>0. /\ adder \in [Adders -> {"off", "delete", "declare", "create", "send"}]
      /\ \A r \in Requests : r \in Adders
      /\ Boot \in Adders /\ adder[Boot] # "off" <=> left # 0
  BY DEF Core, TypeOK, Linked, Adders
<1>1. CASE DeclareQueue(a) \/ CreatePod(a) \/ CleanupWorker(a)
  <2>1. UNCHANGED <<pool, left, lost, pc>> /\ Renewing' = Renewing
    BY <1>0, <1>1 DEF DeclareQueue, CreatePod, CleanupWorker, runVars, Renewing
  <2>2. Busy' = Busy
    BY <2>1 DEF Busy
  <2> QED
    BY <2>1, <2>2, SameCounts
<1>2. ASSUME a \in Requests, CleanupFails(a) \/ DeclareFails(a) \/ CreatePodFails(a)
      PROVE  Places'
  <2>1. /\ UNCHANGED <<pool, left, pc>> /\ a \in Renewing
        /\ Renewing' = Renewing \ {a}
    BY <1>0, <1>2 DEF CleanupFails, DeclareFails, CreatePodFails, runVars,
       Renewing
  <2>2. \E w : lost' = lost \cup {w} /\ w \notin lost
    BY <1>0, <1>2 DEF CleanupFails, DeclareFails, CreatePodFails, LostApart
  <2>3. Busy' = Busy
    BY <2>1 DEF Busy
  <2>4. IsFiniteSet(lost') /\ Cardinality(lost') = Cardinality(lost) + 1
    BY <2>2, OneMore DEF Places
  <2>5. IsFiniteSet(Renewing') /\ Cardinality(Renewing') = Cardinality(Renewing) - 1
    BY <2>1, OneLess DEF Places
  <2> QED
    BY <2>1, <2>3, <2>4, <2>5, CountsTyped, NewCounts DEF Places
<1>3. CASE SendWorker(a)
  <2>1. /\ adder[a] = "send" /\ pool' = Append(pool, new[a])
        /\ UNCHANGED <<pc, lost>>
    BY <1>3 DEF SendWorker, runVars
  <2>2. Len(pool') = Len(pool) + 1
    BY <2>1, NewWorker DEF Core, TypeOK
  <2>3. Busy' = Busy
    BY <2>1 DEF Busy
  <2>4. CASE a = Boot
    <3>1. left' = left - 1 /\ left # 0 /\ Renewing' = Renewing
      BY <1>0, <1>3, <2>1, <2>4 DEF SendWorker, Renewing
    <3>2. left \in Nat /\ left' \in Nat /\ Len(pool) \in Nat /\ Len(pool') \in Nat
      BY <2>2, <3>1, CountsTyped
    <3>3. /\ IsFiniteSet(Busy') /\ IsFiniteSet(Renewing') /\ IsFiniteSet(lost')
          /\ Cardinality(Busy') = Cardinality(Busy)
          /\ Cardinality(Renewing') = Cardinality(Renewing)
          /\ Cardinality(lost') = Cardinality(lost)
      BY <2>1, <2>3, <3>1 DEF Places
    <3> QED
      BY <2>2, <3>1, <3>2, <3>3, SamePlaces
  <2>5. CASE a # Boot
    <3>1. left' = left /\ a \in Renewing /\ Renewing' = Renewing \ {a}
      BY <1>0, <1>3, <2>1, <2>5 DEF SendWorker, Renewing, Adders
    <3>2. IsFiniteSet(Renewing') /\ Cardinality(Renewing') = Cardinality(Renewing) - 1
      BY <3>1, OneLess DEF Places
    <3>3. left \in Nat /\ left' \in Nat /\ Len(pool) \in Nat /\ Len(pool') \in Nat
      BY <2>2, <3>1, CountsTyped
    <3>4. /\ IsFiniteSet(Busy') /\ IsFiniteSet(lost')
          /\ Cardinality(Busy') = Cardinality(Busy)
          /\ Cardinality(lost') = Cardinality(lost)
      BY <2>1, <2>3 DEF Places
    <3> QED
      BY <2>2, <3>1, <3>2, <3>3, <3>4, SendPlaces
  <2> QED
    BY <2>4, <2>5
<1> QED
  BY <1>1, <1>2, <1>3 DEF AdderStep, RenewStep

LEMMA PlacesStep ==
  ASSUME Core, Ending, LostApart, Places, [Next]_vars PROVE Places'
<1>1. CASE Restart
  <2>1. /\ phase = "exited" /\ UNCHANGED <<pool, pc, lost>> /\ left' = WorkerCount
        /\ adder' = [adder EXCEPT ![Boot] = "declare"]
    BY <1>1 DEF Restart, runVars
  <2>2. pool = <<>> /\ lost = {} /\ Busy' = {}
    BY <2>1 DEF Ending, Busy, InFlight
  <2>3. Renewing' = {}
    BY <2>1 DEF Ending, Renewing, Adders, Core, TypeOK
  <2>4. Len(pool') = 0
    BY <2>1, <2>2
  <2> QED
    BY <2>1, <2>2, <2>3, <2>4, FS_EmptySet DEF Places, Taken
<1>2. CASE Exit
  <2>1. /\ pool' = <<>> /\ lost' = {} /\ Busy' = {} /\ left' = 0
        /\ phase' = "exited"
    BY <1>2, ExitEmpties
  <2>2. Renewing' = {}
    BY <1>2, ExitEmpties DEF Renewing, Adders
  <2>3. Len(pool') = 0
    BY <2>1
  <2> QED
    BY <2>1, <2>2, <2>3, FS_EmptySet DEF Places, Taken, Up
<1>3. CASE StopCleanup
  <2>1. /\ pool # <<>> /\ pool' = Tail(pool) /\ UNCHANGED <<pc, adder, left, lost>>
        /\ phase' = "stopping"
    BY <1>3 DEF StopCleanup, procVars, runVars, addVars
  <2>2. Len(pool') = Len(pool) - 1
    BY <2>1 DEF Core, TypeOK
  <2>3. Busy' = Busy /\ Renewing' = Renewing
    BY <2>1 DEF Busy, Renewing
  <2> QED
    BY <2>1, <2>2, <2>3, CountsTyped DEF Places, Taken, Up
<1>4. ASSUME UNCHANGED <<pool, pc, adder, left, lost>>, ~Restart PROVE Places'
  <2>1. Busy' = Busy /\ Renewing' = Renewing
    BY <1>4 DEF Busy, Renewing
  <2> QED
    BY <1>4, <2>1, EpochMoves, SameCounts
<1>5. CASE /\ ~Restart
           /\ ConsumerTake \/ ConsumerSend \/ Drain \/ HandlersDone
              \/ AmqpCloses \/ CloseAmqp \/ UNCHANGED vars
  BY <1>4, <1>5 DEF ConsumerTake, ConsumerSend, Drain, HandlersDone,
     AmqpCloses, CloseAmqp, StopAmqp, vars, runVars, addVars
<1>6. ASSUME NEW w, Agent(w) \/ AgentFails(w), ~Restart PROVE Places'
  BY <1>4, <1>6 DEF Agent, AgentFails, serviceVars, runVars, addVars
<1>7. CASE ~Restart /\ ProcessStep
  BY <1>2, <1>3, <1>5, <1>7 DEF ProcessStep
<1>8. ~Restart => (Up' => Up)
  BY EpochMoves
<1>9. \A r \in Requests : r \in Adders
  BY DEF Adders
<1> QED
  BY <1>1, <1>5, <1>6, <1>7, <1>8, <1>9, HandlerPlaces, AdderPlaces, StepKinds

-----------------------------------------------------------------------------
(* The pods of a process.                                                  *)

LEMMA ImageBound ==
  ASSUME NEW S, IsFiniteSet(S), NEW g
  PROVE  /\ IsFiniteSet({g[x] : x \in S})
         /\ Cardinality({g[x] : x \in S}) <= Cardinality(S)
<1> DEFINE f == [x \in S |-> g[x]]
<1>1. f \in Surjection(S, {g[x] : x \in S})
  BY DEF Surjection
<1> QED
  BY <1>1, FS_Surjection

LEMMA UnionBound ==
  ASSUME NEW S, IsFiniteSet(S), NEW T, IsFiniteSet(T)
  PROVE  /\ IsFiniteSet(S \cup T)
         /\ Cardinality(S \cup T) <= Cardinality(S) + Cardinality(T)
<1>1. Cardinality(S) \in Nat /\ Cardinality(T) \in Nat
  BY FS_CardinalityType
<1>2. IsFiniteSet(S \cap T) /\ Cardinality(S \cap T) \in Nat
  BY FS_Intersection, FS_CardinalityType
<1>3. /\ IsFiniteSet(S \cup T)
      /\ Cardinality(S \cup T)
           = Cardinality(S) + Cardinality(T) - Cardinality(S \cap T)
  BY FS_Union
<1> QED
  BY <1>1, <1>2, <1>3

LEMMA SumBound ==
  ASSUME NEW n \in Nat, NEW a \in Nat, NEW b \in Nat, NEW c \in Nat,
         NEW d \in Nat, NEW l \in Nat, NEW p \in Nat, NEW q \in Nat,
         NEW r \in Nat, NEW s \in Nat,
         n <= a + b + c + d + l, a <= p, b <= q, c <= r, d <= s
  PROVE  n <= p + q + r + s + l
OBVIOUS

LEMMA UnionsBound ==
  ASSUME NEW n \in Nat, NEW a \in Nat, NEW b \in Nat, NEW c \in Nat,
         NEW d \in Nat, NEW l \in Nat, NEW ab \in Nat, NEW abc \in Nat,
         NEW dl \in Nat, NEW all \in Nat,
         n <= all, all <= abc + dl, abc <= ab + c, ab <= a + b, dl <= d + l
  PROVE  n <= a + b + c + d + l
OBVIOUS

(* Each tracked worker takes a place.                                      *)
LEMMA TrackedBound ==
  ASSUME Core, Places
  PROVE  /\ IsFiniteSet(Tracked \cup lost)
         /\ Cardinality(Tracked \cup lost) <= WorkerCount
<1> DEFINE P == {pool[i] : i \in DOMAIN pool}
           B == {worker[r] : r \in Busy}
           g == [r \in Renewing |->
                   IF adder[r] = "delete" THEN worker[r] ELSE new[r]]
           R == {g[r] : r \in Renewing}
           N == IF left = 0 THEN {} ELSE {new[Boot]}
<1>1. IsFiniteSet(P) /\ Cardinality(P) <= Len(pool)
  <2>1. DOMAIN pool = 1..Len(pool) /\ Len(pool) \in Nat
    BY DEF Core, TypeOK
  <2>2. IsFiniteSet(1..Len(pool)) /\ Cardinality(1..Len(pool)) = Len(pool)
    <3>1. 1 \in Int /\ Len(pool) \in Int
      BY <2>1
    <3>2. /\ IsFiniteSet(1..Len(pool))
          /\ Cardinality(1..Len(pool))
               = IF 1 > Len(pool) THEN 0 ELSE Len(pool) - 1 + 1
      BY <3>1, FS_Interval
    <3> QED
      BY <2>1, <3>2
  <2>3. /\ IsFiniteSet({pool[i] : i \in 1..Len(pool)})
        /\ Cardinality({pool[i] : i \in 1..Len(pool)}) <= Cardinality(1..Len(pool))
    BY <2>2, ImageBound
  <2> QED
    BY <2>1, <2>2, <2>3
<1>2. IsFiniteSet(B) /\ Cardinality(B) <= Cardinality(Busy)
  BY ImageBound DEF Places
<1>3. IsFiniteSet(R) /\ Cardinality(R) <= Cardinality(Renewing)
  BY ImageBound DEF Places
<1>4. IsFiniteSet(N) /\ Cardinality(N) <= left
  <2>1. left \in Nat
    BY DEF Core, TypeOK
  <2>2. CASE left = 0
    BY <2>2, FS_EmptySet
  <2>3. CASE left # 0
    <3>1. IsFiniteSet({new[Boot]}) /\ Cardinality({new[Boot]}) = 1
      BY FS_Singleton
    <3> QED
      BY <2>1, <2>3, <3>1
  <2> QED
    BY <2>2, <2>3
<1>5. Tracked \cup lost \subseteq ((P \cup B) \cup R) \cup (N \cup lost)
  <2> SUFFICES ASSUME NEW w \in Tracked PROVE w \in P \cup B \cup R \cup N
    OBVIOUS
  <2>1. CASE \E r \in Requests : worker[r] = w /\ (r \in Busy \/ adder[r] = "delete")
    BY <2>1 DEF Renewing
  <2>2. CASE \E a \in Adders : new[a] # None /\ new[a] = w
    <3>1. PICK a \in Adders : new[a] = w /\ new[a] # None
      BY <2>2
    <3>2. adder[a] \in {"create", "send"}
      BY <3>1 DEF Core, Linked
    <3>3. CASE a = Boot
      <4>1. left # 0
        BY <3>2, <3>3 DEF Core, Linked
      <4> QED
        BY <3>1, <3>3, <4>1
    <3>4. CASE a # Boot
      <4>1. a \in Renewing /\ g[a] = w
        BY <3>1, <3>2, <3>4 DEF Renewing, Adders
      <4> QED
        BY <4>1
    <3> QED
      BY <3>3, <3>4
  <2> QED
    BY <2>1, <2>2, TrackedMeans
<1> HIDE DEF P, B, R, N
<1>6. /\ IsFiniteSet(P \cup B)
      /\ Cardinality(P \cup B) <= Cardinality(P) + Cardinality(B)
  BY <1>1, <1>2, UnionBound
<1>7. /\ IsFiniteSet((P \cup B) \cup R)
      /\ Cardinality((P \cup B) \cup R) <= Cardinality(P \cup B) + Cardinality(R)
  BY <1>3, <1>6, UnionBound
<1>8. /\ IsFiniteSet(N \cup lost)
      /\ Cardinality(N \cup lost) <= Cardinality(N) + Cardinality(lost)
  BY <1>4, UnionBound DEF Places
<1>9. /\ IsFiniteSet(((P \cup B) \cup R) \cup (N \cup lost))
      /\ Cardinality(((P \cup B) \cup R) \cup (N \cup lost))
           <= Cardinality((P \cup B) \cup R) + Cardinality(N \cup lost)
  BY <1>7, <1>8, UnionBound
<1>10. /\ IsFiniteSet(Tracked \cup lost)
       /\ Cardinality(Tracked \cup lost)
            <= Cardinality(((P \cup B) \cup R) \cup (N \cup lost))
  BY <1>5, <1>9, FS_Subset
<1>11. /\ Cardinality(P) \in Nat /\ Cardinality(B) \in Nat
       /\ Cardinality(R) \in Nat /\ Cardinality(N) \in Nat
       /\ Cardinality(P \cup B) \in Nat /\ Cardinality((P \cup B) \cup R) \in Nat
       /\ Cardinality(N \cup lost) \in Nat
       /\ Cardinality(((P \cup B) \cup R) \cup (N \cup lost)) \in Nat
       /\ Cardinality(Tracked \cup lost) \in Nat
  BY <1>1, <1>2, <1>3, <1>4, <1>6, <1>7, <1>8, <1>9, <1>10, FS_CardinalityType
<1>12. Cardinality(Tracked \cup lost)
         <= Cardinality(P) + Cardinality(B) + Cardinality(R) + Cardinality(N)
              + Cardinality(lost)
  <2>1. Cardinality(lost) \in Nat
    BY CountsTyped
  <2> QED
    BY <1>6, <1>7, <1>8, <1>9, <1>10, <1>11, <2>1, UnionsBound
<1>13. /\ Len(pool) \in Nat /\ left \in Nat /\ Cardinality(Busy) \in Nat
       /\ Cardinality(Renewing) \in Nat /\ Cardinality(lost) \in Nat
  BY CountsTyped
<1>14. Cardinality(Tracked \cup lost)
         <= Len(pool) + Cardinality(Busy) + Cardinality(Renewing) + left
              + Cardinality(lost)
  BY <1>1, <1>2, <1>3, <1>4, <1>11, <1>12, <1>13, SumBound
<1>15. Taken <= WorkerCount /\ Taken \in Nat
  BY <1>13 DEF Places, Taken
<1>16. Cardinality(Tracked \cup lost) <= Taken
  BY <1>14 DEF Taken
<1> QED
  BY <1>10, <1>11, <1>15, <1>16, CountAssumption

LEMMA PodsBoundedStep ==
  ASSUME Core, Life, Ending, Kept, NothingForgotten, Places, PodsBounded,
         [Next]_vars
  PROVE  PodsBounded'
<1>0. epoch \in Nat \ {0}
  BY DEF Core, TypeOK, Apart
<1>1. ASSUME NEW e, NEW S, IsFiniteSet(S),
             Cardinality(S) <= WorkerCount, Pods(e)' \subseteq S
      PROVE  IsFiniteSet(Pods(e)') /\ Cardinality(Pods(e)') <= WorkerCount
  <2>1. IsFiniteSet(Pods(e)') /\ Cardinality(Pods(e)') <= Cardinality(S)
    BY <1>1, FS_Subset
  <2>2. Cardinality(Pods(e)') \in Nat /\ Cardinality(S) \in Nat
    BY <1>1, <2>1, FS_CardinalityType
  <2> QED
    BY <1>1, <2>1, <2>2
<1>2. ASSUME NEW e, NEW w \in Pods(e)'
      PROVE  /\ born[w] = e /\ e <= epoch
             /\ \/ w \in Pods(e)
                \/ phase # "exited" /\ w \in Tracked /\ e = epoch
  <2>1. w \in WorkerIds /\ HasPod(w)' /\ born'[w] = e
    BY <1>2 DEF Pods
  <2>2. /\ born[w] = e /\ born[w] <= epoch
        /\ HasPod(w) \/ \E a \in Adders : adder[a] = "create" /\ new[a] = w
    BY <2>1, PodsMove DEF Life
  <2>3. CASE HasPod(w)
    BY <2>1, <2>2, <2>3 DEF Pods
  <2>4. ASSUME NEW a \in Adders, adder[a] = "create", new[a] = w
        PROVE  phase # "exited" /\ w \in Tracked /\ born[w] = epoch
    <3>1. new[a] # None
      BY <2>4, NewWorker
    <3> QED
      BY <2>4, <3>1, CreatingTracked DEF Ending, Kept, Ready
  <2> QED
    BY <2>2, <2>3, <2>4
<1>3. ASSUME NEW e, phase = "exited" \/ e # epoch
      PROVE  Pods(e)' \subseteq Pods(e)
  BY <1>2, <1>3
<1>4. ASSUME NEW e \in 1..epoch
      PROVE  IsFiniteSet(Pods(e)') /\ Cardinality(Pods(e)') <= WorkerCount
  <2>1. IsFiniteSet(Pods(e)) /\ Cardinality(Pods(e)) <= WorkerCount
    BY <1>4 DEF PodsBounded
  <2>2. CASE phase = "exited" \/ e # epoch
    BY <1>1, <1>3, <2>1, <2>2
  <2>3. CASE phase # "exited" /\ e = epoch
    <3>1. Pods(e) \subseteq Tracked \cup lost
      BY <2>3 DEF NothingForgotten
    <3>2. Pods(e)' \subseteq Tracked \cup lost
      BY <1>2, <3>1
    <3> QED
      BY <1>1, <3>2, TrackedBound
  <2> QED
    BY <2>2, <2>3
<1>5. ASSUME NEW e \in Nat, e > epoch
      PROVE  IsFiniteSet(Pods(e)') /\ Cardinality(Pods(e)') <= WorkerCount
  <2>1. Pods(e)' = {}
    BY <1>0, <1>2, <1>5
  <2> QED
    BY <2>1, FS_EmptySet, CountAssumption
<1>6. epoch' \in Nat
  BY TypeStep DEF Core, TypeOK
<1>7. ASSUME NEW e \in 1..epoch'
      PROVE  IsFiniteSet(Pods(e)') /\ Cardinality(Pods(e)') <= WorkerCount
  BY <1>0, <1>4, <1>5, <1>6, <1>7
<1> QED
  BY <1>7 DEF PodsBounded

-----------------------------------------------------------------------------
LEMMA InitIInv == Init => IInv
<1> SUFFICES ASSUME Init PROVE IInv
  OBVIOUS
<1>1. /\ agent = [w \in WorkerIds |-> "absent"]
      /\ job = [w \in WorkerIds |-> None]
      /\ replyQueue = {} /\ phase = "boot" /\ epoch = 1
      /\ born = [w \in WorkerIds |-> 0]
      /\ pool = <<>> /\ replies = {} /\ left = WorkerCount /\ lost = {}
      /\ replyCh = [w \in WorkerIds |-> None] /\ holding = NoMessage
      /\ pc = [r \in Requests |-> "idle"]
      /\ adder = [a \in Adders |-> IF a = Boot THEN "declare" ELSE "off"]
      /\ new = [a \in Adders |-> None]
  BY DEF Init, SandboxInit
<1>2. Busy = {} /\ Renewing = {} /\ Len(pool) = 0 /\ DOMAIN pool = {}
  BY <1>1 DEF Busy, Renewing, Adders
<1>3. \A e \in 1..epoch : Pods(e) = {}
  BY <1>1 DEF Pods, HasPod, PodStates
<1>4. IsFiniteSet({}) /\ Cardinality({}) = 0
  BY FS_EmptySet
<1>5. Core
  BY InitCore
<1>6. Life
  BY <1>1 DEF Life, Adders
<1>7. Ending
  BY <1>1 DEF Ending, InFlight
<1>8. Kept
  BY <1>1, <1>2 DEF Kept
<1>9. OneReply
  BY <1>1 DEF OneReply
<1>10. NothingForgotten
  BY <1>1, <1>3 DEF NothingForgotten
<1>11. LostApart
  BY <1>1 DEF LostApart
<1>12. Places
  BY <1>1, <1>2, <1>4 DEF Places, Taken
<1>13. PodsBounded
  BY <1>3, <1>4 DEF PodsBounded
<1> QED
  BY <1>5, <1>6, <1>7, <1>8, <1>9, <1>10, <1>11, <1>12, <1>13 DEF IInv

LEMMA IInvStep == IInv /\ [Next]_vars => IInv'
<1> SUFFICES ASSUME IInv, [Next]_vars PROVE IInv'
  OBVIOUS
<1>1. /\ Core /\ Life /\ Ending /\ Kept /\ OneReply
      /\ NothingForgotten /\ LostApart /\ Places /\ PodsBounded
  BY DEF IInv
<1>2. Core' /\ Life' /\ Ending' /\ Kept'
  BY <1>1, CoreStep, LifeStep, EndingStep, KeptStep
<1>3. OneReply' /\ NothingForgotten' /\ LostApart'
  BY <1>1, OneReplyStep, ForgottenStep, LostApartStep
<1>4. Places' /\ PodsBounded'
  BY <1>1, PlacesStep, PodsBoundedStep
<1> QED
  BY <1>2, <1>3, <1>4 DEF IInv

(* The parts of IInv hold together in every reachable state: each part     *)
(* leans on the others, and all the theorems below follow from it.         *)
THEOREM Invariant == Spec => []IInv
BY InitIInv, IInvStep, PTL DEF Spec

(* Subscribe finds the reply channel of the worker a handler took: the     *)
(* panic that main.go says cannot happen is unreachable, though channels   *)
(* are added and removed by other goroutines in a shared map.              *)
THEOREM SubscribeIsSafe == Spec => []SubscribeFindsChannel
<1>1. IInv => SubscribeFindsChannel
  BY DEF IInv, Kept, Ready, SubscribeFindsChannel
<1> QED
  BY Invariant, <1>1, PTL

(* The reply goroutine never waits for room in a reply channel: a worker   *)
(* sends one reply, so the one place of its channel is free for it.        *)
THEOREM ConsumerGoesOn == Spec => []ConsumerNeverBlocks
<1>1. IInv => ConsumerNeverBlocks
  BY DEF IInv, OneReply, ConsumerNeverBlocks
<1> QED
  BY Invariant, <1>1, PTL

(* Each pod and each reply channel of the running process is in the care   *)
(* of the pool, a handler or an adder, or was lost to a failed call.       *)
THEOREM WorkersAreTracked == Spec => []NothingForgotten
<1>1. IInv => NothingForgotten
  BY DEF IInv
<1> QED
  BY Invariant, <1>1, PTL

(* A worker waiting in the pool can be published to, unless its agent died *)
(* meanwhile, which nothing tells the control service.                     *)
THEOREM PoolIsReachable == Spec => []PooledWorkerReachable
<1>1. IInv => PooledWorkerReachable
  BY DEF IInv, Kept, Ready, PooledWorkerReachable
<1> QED
  BY Invariant, <1>1, PTL

(* Until a stop empties the pool, its places are all accounted for: the    *)
(* send of AddWorkers finds room, whatever the number of requests.         *)
THEOREM PlacesAreKept == Spec => []PlacesAddUp
<1>1. IInv => PlacesAddUp
  BY DEF IInv, Places, Taken, PlacesAddUp
<1> QED
  BY Invariant, <1>1, PTL

(* No process has more pods at a time than its pool has places, the pods   *)
(* that failed calls left behind and those that outlive it included.       *)
THEOREM PodsAreBounded == Spec => []PodBound
<1>1. IInv => PodBound
  BY DEF IInv, PodsBounded, PodBound
<1> QED
  BY Invariant, <1>1, PTL

(* An adder that has a worker to send finds room in the pool's channel: it *)
(* never blocks on the send, not even while the pool is being emptied.     *)
THEOREM SendFindsRoom ==
  Spec => [](\A a \in Adders : adder[a] = "send" => Len(pool) < WorkerCount)
<1>1. ASSUME IInv, NEW a \in Adders, adder[a] = "send"
      PROVE  Len(pool) < WorkerCount
  <2>1. Core /\ Places
    BY <1>1 DEF IInv
  <2>2. /\ Len(pool) \in Nat /\ left \in Nat /\ Cardinality(Busy) \in Nat
        /\ Cardinality(Renewing) \in Nat /\ Cardinality(lost) \in Nat
    BY <2>1, CountsTyped
  <2>3. left # 0 \/ Renewing # {}
    BY <1>1, <2>1 DEF Core, Linked, Renewing, Adders
  <2>4. left # 0 \/ Cardinality(Renewing) # 0
    BY <2>1, <2>3, FS_EmptySet DEF Places
  <2>5. Len(pool) + Cardinality(Busy) + Cardinality(Renewing) + left
          + Cardinality(lost) <= WorkerCount
    BY <2>1 DEF Places, Taken
  <2> QED
    BY <2>2, <2>4, <2>5, CountAssumption
<1>2. IInv => \A a \in Adders : adder[a] = "send" => Len(pool) < WorkerCount
  BY <1>1
<1> QED
  BY Invariant, <1>2, PTL

-----------------------------------------------------------------------------
(* What a stop leaves behind, and when it panics.                          *)

(* Nothing comes into a pool whose channel is closed, so that it is empty  *)
(* from the moment the connection is closed.                               *)
Emptied == phase = "closing" => pool = <<>>

LEMMA EmptiedStep ==
  ASSUME IInv, Emptied, [Next]_vars PROVE Emptied'
<1> USE DEF Emptied
<1>1. ASSUME NEW r \in Requests, HandlerStep(r) PROVE Emptied'
  <2>1. phase' = phase /\ (pool' = pool \/ pool # <<>>)
    BY <1>1 DEF HandlerStep, Arrive, ObtainWorker, WorkerTimeout, Publish,
       PublishFails, ReceiveReply, ExecutionTimeout, procVars
  <2> QED
    BY <2>1
<1>2. ASSUME NEW a \in Adders, AdderStep(a) \/ RenewStep(a) PROVE Emptied'
  <2>1. CASE SendWorker(a)
    BY <2>1 DEF SendWorker, ChannelClosed
  <2>2. CASE UNCHANGED <<phase, pool>>
    BY <2>2
  <2> QED
    BY <1>2, <2>1, <2>2 DEF AdderStep, DeclareQueue, CreatePod, RenewStep,
       CleanupWorker, CleanupFails, DeclareFails, CreatePodFails, procVars
<1>3. CASE UNCHANGED <<phase, pool>>
  BY <1>3
<1>4. CASE Drain \/ HandlersDone \/ StopCleanup \/ CloseAmqp \/ Restart
  BY <1>4 DEF Drain, HandlersDone, StopCleanup, CloseAmqp, StopAmqp, Restart,
     procVars
<1>5. CASE Exit
  BY <1>5 DEF Exit, ProcessExit
<1> QED
  BY <1>1, <1>2, <1>3, <1>4, <1>5, StepKinds DEF Adders, ProcessStep,
     ConsumerTake, ConsumerSend, AmqpCloses, Agent, AgentFails, serviceVars,
     procVars, vars

LEMMA StopsEmpty == Spec => []Emptied
<1>1. Init => Emptied
  BY DEF Init, Emptied
<1> QED
  BY <1>1, EmptiedStep, Invariant, PTL DEF Spec

(* Of the workers that the process knows of, only those of its cleanup     *)
(* goroutines are left once the connection is closed.                      *)
LEMMA OnlyRenewalsLeft ==
  ASSUME IInv, Emptied, phase = "closing"
  PROVE  Tracked \subseteq {Renewed(r) : r \in Renewing}
<1>0. Core /\ Ending
  BY DEF IInv
<1>1. {pool[i] : i \in DOMAIN pool} = {}
  BY DEF Emptied
<1>2. Busy = {}
  BY <1>0 DEF Ending, Busy, InFlight
<1>3. ASSUME NEW r \in Requests, adder[r] = "delete"
      PROVE  worker[r] \in {Renewed(q) : q \in Renewing}
  <2>1. r \in Renewing /\ Renewed(r) = worker[r]
    BY <1>3 DEF Renewing, Renewed
  <2> QED
    BY <2>1
<1>4. ASSUME NEW a \in Adders, new[a] # None
      PROVE  new[a] \in {Renewed(q) : q \in Renewing}
  <2>1. adder[a] \in {"create", "send"} /\ adder[Boot] = "off"
    BY <1>0, <1>4 DEF Core, Linked, Adders
  <2>2. a \in Requests
    BY <2>1 DEF Adders
  <2>3. a \in Renewing /\ Renewed(a) = new[a]
    BY <2>1, <2>2 DEF Renewing, Renewed
  <2> QED
    BY <2>3
<1> QED
  BY <1>1, <1>2, <1>3, <1>4 DEF Tracked

(* A stop that closes its connection has deleted every pod and forgotten   *)
(* every reply channel, but for the workers of the goroutines it did not   *)
(* wait for and those that failed calls had lost before.                   *)
THEOREM StopsLeaveNothing == Spec => []StopLeavesNothing
<1>1. IInv /\ Emptied => StopLeavesNothing
  <2> SUFFICES ASSUME IInv, Emptied, phase = "closing"
               PROVE  (Pods(epoch) \cup replies)
                        \subseteq lost \cup {Renewed(r) : r \in Renewing}
    BY DEF StopLeavesNothing
  <2>1. (Pods(epoch) \cup replies) \subseteq (Tracked \cup lost)
    BY DEF IInv, NothingForgotten
  <2> QED
    BY <2>1, OnlyRenewalsLeft
<1> QED
  BY <1>1, Invariant, StopsEmpty, PTL

(* What a stop that waits for the cleanup goroutines keeps: no goroutine   *)
(* has a worker to send any more when the pool's channel is closed.        *)
Patient == ended # "panic" /\ (ChannelClosed => Renewing = {})

LEMMA PatientStep ==
  ASSUME IInv, Patient, [Next]_vars, [HandlersDone => Renewing = {}]_vars
  PROVE  Patient'
<1> USE DEF Patient, ChannelClosed
<1>0. /\ \A r \in Requests : r \in Adders /\ r # Boot
      /\ adder \in [Adders -> {"off", "delete", "declare", "create", "send"}]
  BY DEF Adders, IInv, Core, TypeOK
<1>1. \A r \in Requests : pc[r] \in InFlight => ~ChannelClosed
  BY DEF IInv, Ending
<1>2. ASSUME NEW r \in Requests, HandlerStep(r) PROVE Patient'
  <2>1. UNCHANGED <<phase, ended>>
    BY <1>2 DEF HandlerStep, Arrive, ObtainWorker, WorkerTimeout, Publish,
       PublishFails, ReceiveReply, ExecutionTimeout, procVars
  <2>2. phase = "serving" \/ pc[r] \in InFlight
    BY <1>2 DEF HandlerStep, Arrive, ObtainWorker, WorkerTimeout, Publish,
       PublishFails, ReceiveReply, ExecutionTimeout, InFlight
  <2> QED
    BY <1>1, <2>1, <2>2
<1>3. ASSUME NEW a \in Adders, AdderStep(a) PROVE Patient'
  <2>1. UNCHANGED ended /\ (phase' = phase \/ phase' = "serving")
    BY <1>3 DEF AdderStep, DeclareQueue, CreatePod, SendWorker, procVars
  <2>2. adder[a] # "off"
    BY <1>3 DEF AdderStep, DeclareQueue, CreatePod, SendWorker
  <2>3. CASE ChannelClosed
    <3>1. a = Boot
      BY <2>2, <2>3 DEF Renewing, Adders
    <3> QED
      BY <2>2, <2>3, <3>1 DEF IInv, Core, Linked
  <2>4. CASE ~ChannelClosed
    BY <2>1, <2>4
  <2> QED
    BY <2>3, <2>4
<1>4. ASSUME NEW r \in Requests, RenewStep(r) PROVE Patient'
  <2>1. UNCHANGED <<phase, ended>>
    BY <1>4 DEF RenewStep, CleanupWorker, CleanupFails, DeclareFails,
       CreatePodFails, procVars
  <2>2. r \in Renewing
    BY <1>4 DEF RenewStep, CleanupWorker, CleanupFails, DeclareFails,
       CreatePodFails, Renewing
  <2> QED
    BY <2>1, <2>2
<1>5. ASSUME NEW r \in Requests, SendPanics(r) PROVE Patient'
  <2>1. r \in Renewing /\ ChannelClosed
    BY <1>5 DEF SendPanics, Renewing
  <2> QED
    BY <2>1
<1>6. CASE BootRefused \/ BootFails \/ StopReturns \/ Crash
           \/ StopCleanupFails \/ (StopAmqp /\ conn = "closed")
  <2>1. phase' = "exited" /\ ended' # "panic"
    BY <1>6 DEF BootRefused, BootFails, StopReturns, Crash, StopCleanupFails,
       StopAmqp, ProcessExit
  <2> QED
    BY <2>1
<1>7. CASE HandlersDone
  <2>1. /\ phase = "draining" /\ phase' = "stopping"
        /\ UNCHANGED <<ended, adder>>
    BY <1>7 DEF HandlersDone, addVars
  <2>2. Renewing = {}
    BY <1>7, <2>1 DEF vars, procVars
  <2> QED
    BY <2>1, <2>2 DEF Renewing
<1>8. CASE Drain \/ AmqpCloses \/ StopCleanup \/ CloseAmqp \/ Consumer
           \/ UNCHANGED vars
  <2>1. /\ UNCHANGED <<ended, adder>>
        /\ ChannelClosed' => ChannelClosed
    <3>1. CASE Drain \/ AmqpCloses \/ StopCleanup \/ CloseAmqp
      BY <3>1 DEF Drain, AmqpCloses, StopCleanup, CloseAmqp, StopAmqp,
         procVars, addVars
    <3>2. CASE Consumer \/ UNCHANGED vars
      BY <3>2 DEF Consumer, ConsumerTake, ConsumerSend, vars, procVars, addVars
    <3> QED
      BY <1>8, <3>1, <3>2
  <2> QED
    BY <2>1 DEF Renewing
<1>9. CASE Restart
  BY <1>9 DEF Restart
<1>10. ASSUME NEW w \in WorkerIds, Agent(w) \/ AgentFails(w) PROVE Patient'
  <2>1. UNCHANGED <<phase, ended, adder>>
    BY <1>10 DEF Agent, AgentFails, serviceVars, procVars, addVars
  <2> QED
    BY <2>1 DEF Renewing
<1>11. ASSUME NEW a \in Adders, Adder(a) PROVE Patient'
  <2>1. CASE a = Boot
    <3>1. AdderStep(a) \/ BootRefused
      BY <1>11, <2>1 DEF Adder, AdderStep
    <3> QED
      BY <1>3, <1>6, <3>1
  <2>2. CASE a # Boot
    <3>1. a \in Requests /\ (AdderStep(a) \/ RenewStep(a) \/ SendPanics(a))
      BY <1>11, <2>2 DEF Adder, Adders, AdderStep, RenewStep
    <3> QED
      BY <1>3, <1>4, <1>5, <3>1
  <2> QED
    BY <2>1, <2>2
<1>12. CASE Stop
  <2>1. \/ Drain \/ HandlersDone \/ StopCleanup \/ StopCleanupFails
        \/ CloseAmqp \/ (StopAmqp /\ conn = "closed") \/ StopReturns
    BY <1>12 DEF Stop, AmqpNotified, CloseAmqp
  <2> QED
    BY <1>6, <1>7, <1>8, <2>1
<1>13. ASSUME NEW r \in Requests, Arrive(r) \/ Handler(r) PROVE Patient'
  BY <1>2, <1>13 DEF Handler, HandlerStep
<1> HIDE DEF Patient, ChannelClosed
<1> QED
  BY <1>6, <1>8, <1>9, <1>10, <1>11, <1>12, <1>13 DEF Next, StopSignal

(* Suppose Stop waited for the cleanup goroutines as it does for the       *)
(* handlers that start them.  Then it would never panic, and would leave   *)
(* no pod and no reply channel but those lost to failed calls: that it     *)
(* does not wait for them is the one cause of the panic, and of the pods   *)
(* that outlive a graceful stop.                                           *)
THEOREM PatientStopsAreGraceful ==
  Spec /\ [][HandlersDone => Renewing = {}]_vars
    => [](/\ StopNeverPanics
          /\ phase = "closing" => (Pods(epoch) \cup replies) \subseteq lost)
<1>1. Init => Patient
  BY DEF Init, Patient, ChannelClosed
<1>2. Patient /\ StopLeavesNothing
      => /\ StopNeverPanics
         /\ phase = "closing" => (Pods(epoch) \cup replies) \subseteq lost
  BY DEF Patient, ChannelClosed, StopLeavesNothing, StopNeverPanics
<1>3. IInv /\ Patient /\ [Next]_vars /\ [HandlersDone => Renewing = {}]_vars
      => Patient'
  BY PatientStep
<1> QED
  BY <1>1, <1>2, <1>3, Invariant, StopsLeaveNothing, PTL DEF Spec

-----------------------------------------------------------------------------
(* The control service implements RunContract: every step of its handlers, *)
(* adders, agents and of main is a step of the contract, or none, as long  *)
(* as the invariant holds.                                                 *)

(* The state of the contract.                                              *)
Status == [r \in Requests |-> StatusOf(r)]
Gone == {w \in WorkerIds : agent[w] = "deleted"}

LEMMA StatusMeans ==
  ASSUME NEW r
  PROVE  /\ pc[r] = "idle" => StatusOf(r) = "new"
         /\ pc[r] \in InFlight => StatusOf(r) = "pending"
         /\ pc[r] = "answered" => StatusOf(r) = "answered"
         /\ pc[r] \in Ended \ {"answered"} => StatusOf(r) = "over"
BY DEF StatusOf, InFlight, Ended

LEMMA StatusMeansNext ==
  ASSUME NEW r
  PROVE  /\ pc'[r] = "idle" => StatusOf(r)' = "new"
         /\ pc'[r] \in InFlight => StatusOf(r)' = "pending"
         /\ pc'[r] = "answered" => StatusOf(r)' = "answered"
         /\ pc'[r] \in Ended \ {"answered"} => StatusOf(r)' = "over"
BY DEF StatusOf, InFlight, Ended

LEMMA SameStatus ==
  ASSUME pc' = pc PROVE Status' = Status
BY DEF Status, StatusOf

LEMMA OneStatus ==
  ASSUME TypeOK, NEW r \in Requests, NEW s, pc' = [pc EXCEPT ![r] = s]
  PROVE  Status' = [Status EXCEPT ![r] = StatusOf(r)']
<1>1. ASSUME NEW q \in Requests, q # r PROVE StatusOf(q)' = StatusOf(q)
  <2>1. pc'[q] = pc[q]
    BY <1>1 DEF TypeOK
  <2> QED
    BY <2>1 DEF StatusOf
<1> QED
  BY <1>1 DEF Status

LEMMA SameGone ==
  ASSUME TypeOK, NEW w, NEW s, s # "deleted", agent[w] # "deleted",
         agent' = [agent EXCEPT ![w] = s]
  PROVE  Gone' = Gone
BY DEF Gone, TypeOK, SandboxTypeOK

LEMMA OneGone ==
  ASSUME TypeOK, NEW w \in WorkerIds, AgentEnds(w, "deleted")
  PROVE  Gone' = Gone \cup {w}
BY DEF Gone, AgentEnds, TypeOK, SandboxTypeOK

-----------------------------------------------------------------------------
(* The steps of the contract, said of the control service.                 *)

LEMMA Stutters ==
  ASSUME UNCHANGED <<pc, worker, job, result>>, Gone' = Gone
  PROVE  UNCHANGED Contract!vars
<1>1. Status' = Status
  BY SameStatus
<1> QED
  BY <1>1 DEF Contract!vars, Status, Gone

LEMMA ThrowsAway ==
  ASSUME TypeOK, NEW w \in WorkerIds, AgentEnds(w, "deleted"),
         UNCHANGED <<worker, job, result>>, Status' = Status,
         \A r \in Requests : worker[r] = w => pc[r] \in Ended
  PROVE  Contract!Next
<1>1. Gone' = Gone \cup {w}
  BY OneGone
<1>2. ASSUME NEW r \in Requests, worker[r] = w PROVE Status[r] # "pending"
  <2>1. pc[r] \in Ended
    BY <1>2
  <2>2. StatusOf(r) \in {"answered", "over"}
    BY <2>1, StatusMeans
  <2> QED
    BY <2>2 DEF Status
<1>3. Contract!ThrowAway(w)
  BY <1>1, <1>2 DEF Contract!ThrowAway, Status, Gone
<1> QED
  BY <1>3 DEF Contract!Next

LEMMA GivesUp ==
  ASSUME TypeOK, NEW R \in SUBSET Requests,
         \A r \in R : pc[r] \in InFlight /\ pc'[r] \in Ended \ {"answered"},
         \A r \in Requests \ R : pc'[r] = pc[r],
         UNCHANGED <<worker, job, result>>, Gone' = Gone
  PROVE  Contract!Next
<1>1. \A r \in R : Status[r] = "pending" /\ StatusOf(r)' = "over"
  BY StatusMeans, StatusMeansNext DEF Status
<1>2. \A r \in Requests \ R : StatusOf(r)' = StatusOf(r)
  BY DEF StatusOf
<1>3. Status' = [r \in Requests |-> IF r \in R THEN "over" ELSE Status[r]]
  BY <1>1, <1>2 DEF Status
<1>4. Contract!GiveUp(R)
  BY <1>1, <1>3 DEF Contract!GiveUp, Status, Gone
<1> QED
  BY <1>4 DEF Contract!Next

LEMMA GivesUpOne ==
  ASSUME TypeOK, NEW r \in Requests, pc[r] \in InFlight,
         NEW s \in Ended \ {"answered"}, pc' = [pc EXCEPT ![r] = s],
         UNCHANGED <<worker, job, result, agent>>
  PROVE  Contract!Next
<1>1. Gone' = Gone
  BY DEF Gone
<1>2. /\ {r} \in SUBSET Requests
      /\ \A q \in {r} : pc[q] \in InFlight /\ pc'[q] \in Ended \ {"answered"}
      /\ \A q \in Requests \ {r} : pc'[q] = pc[q]
  BY DEF TypeOK
<1> QED
  BY <1>1, <1>2, GivesUp

-----------------------------------------------------------------------------
(* Each step of the control service, in the contract.                      *)

LEMMA HandlerKeeps ==
  ASSUME IInv, NEW r \in Requests, HandlerStep(r)
  PROVE  Contract!Next \/ UNCHANGED Contract!vars
<1>0. /\ Core /\ Life /\ Kept /\ OneReply /\ TypeOK
      /\ pc \in [Requests -> {"idle"} \cup InFlight \cup Ended]
      /\ worker \in [Requests -> WorkerIds \cup {None}]
      /\ result \in [Requests -> Requests \cup {None}]
  BY DEF IInv, Core, TypeOK
<1>1. CASE Arrive(r)
  <2>1. PICK next \in {"waitWorker", "rejected"} : pc' = [pc EXCEPT ![r] = next]
    BY <1>1 DEF Arrive
  <2>2. /\ pc[r] = "idle" /\ UNCHANGED <<worker, job, result, agent>>
    BY <1>1 DEF Arrive, sandboxVars
  <2>3. Status[r] = "new" /\ StatusOf(r)' \in {"pending", "over"}
    <3>1. pc'[r] \in {"waitWorker", "rejected"}
      BY <1>0, <2>1
    <3> QED
      BY <2>2, <3>1, StatusMeans, StatusMeansNext DEF Status, InFlight, Ended
  <2>4. Status' = [Status EXCEPT ![r] = StatusOf(r)']
    BY <1>0, <2>1, OneStatus
  <2>5. Contract!Submit(r)
    BY <2>2, <2>3, <2>4 DEF Contract!Submit, Status, Gone
  <2> QED
    BY <2>5 DEF Contract!Next
<1>2. CASE ObtainWorker(r)
  <2> DEFINE w == Head(pool)
  <2>1. /\ pc[r] = "waitWorker" /\ pool # <<>>
        /\ worker' = [worker EXCEPT ![r] = w]
        /\ pc' = [pc EXCEPT ![r] = "publish"]
        /\ UNCHANGED <<job, result, agent>>
    BY <1>2 DEF ObtainWorker, sandboxVars
  <2>2. /\ w \in WorkerIds /\ 1 \in DOMAIN pool /\ w = pool[1]
        /\ \A q \in Requests : worker[q] # w
    BY <1>0, <2>1, HeadWorker
  <2>3. w \notin Gone
    BY <1>0, <2>2 DEF Kept, Ready, Gone
  <2>4. job[w] = None
    <3>1. job[w] \in Requests \cup {None}
      BY <1>0, <2>2 DEF TypeOK, SandboxTypeOK
    <3> QED
      BY <1>0, <2>2, <3>1 DEF Core, Routed
  <2>5. worker[r] = None
    BY <1>0, <2>1 DEF Core, Linked
  <2>6. Status[r] = "pending" /\ Status' = Status
    <3>1. pc'[r] = "publish"
      BY <1>0, <2>1
    <3>2. StatusOf(r) = "pending" /\ StatusOf(r)' = "pending"
      BY <2>1, <3>1, StatusMeans, StatusMeansNext DEF InFlight
    <3> QED
      BY <1>0, <2>1, <3>2, OneStatus DEF Status
  <2>7. Gone' = Gone
    BY <2>1 DEF Gone
  <2>8. Contract!Give(r, w)
    BY <2>1, <2>2, <2>3, <2>4, <2>5, <2>6, <2>7 DEF Contract!Give, Status, Gone
  <2> QED
    BY <2>2, <2>8 DEF Contract!Next
<1>3. CASE WorkerTimeout(r)
  <2>1. /\ pc[r] = "waitWorker" /\ pc' = [pc EXCEPT ![r] = "noWorker"]
        /\ UNCHANGED <<worker, job, result, agent>>
    BY <1>3 DEF WorkerTimeout, sandboxVars
  <2> QED
    BY <1>0, <2>1, GivesUpOne DEF InFlight, Ended
<1>4. CASE Publish(r)
  <2>1. /\ pc[r] = "publish" /\ pc' = [pc EXCEPT ![r] = "waitReply"]
        /\ UNCHANGED <<worker, job, result, agent>>
    BY <1>4 DEF Publish
  <2>2. Status' = Status
    <3>1. pc'[r] = "waitReply"
      BY <1>0, <2>1
    <3>2. StatusOf(r) = "pending" /\ StatusOf(r)' = "pending"
      BY <2>1, <3>1, StatusMeans, StatusMeansNext DEF InFlight
    <3> QED
      BY <1>0, <2>1, <3>2, OneStatus DEF Status
  <2> QED
    BY <2>1, <2>2 DEF Contract!vars, Status
<1>5. CASE PublishFails(r)
  <2>1. /\ pc[r] = "publish" /\ pc' = [pc EXCEPT ![r] = "failed"]
        /\ UNCHANGED <<worker, job, result, agent>>
    BY <1>5 DEF PublishFails
  <2> QED
    BY <1>0, <2>1, GivesUpOne DEF InFlight, Ended
<1>6. CASE ReceiveReply(r)
  <2> DEFINE w == worker[r]
  <2>1. /\ pc[r] = "waitReply" /\ replyCh[w] # None
        /\ result' = [result EXCEPT ![r] = replyCh[w]]
        /\ pc' = [pc EXCEPT ![r] = "answered"]
        /\ UNCHANGED <<worker, job, agent>>
    BY <1>6 DEF ReceiveReply, sandboxVars
  <2>2. w \in WorkerIds /\ w # None
    BY <1>0, <2>1 DEF Core, Linked
  <2>3. replyCh[w] \in Requests /\ worker[replyCh[w]] = w /\ replyCh[w] = job[w]
    BY <1>0, <2>1, <2>2 DEF Core, TypeOK, Routed, OneReply
  <2>4. replyCh[w] = r /\ job[w] = r
    BY <1>0, <2>2, <2>3 DEF Core, Apart
  <2>5. Status[r] = "pending" /\ Status' = [Status EXCEPT ![r] = "answered"]
    <3>1. pc'[r] = "answered"
      BY <1>0, <2>1
    <3>2. StatusOf(r) = "pending" /\ StatusOf(r)' = "answered"
      BY <2>1, <3>1, StatusMeans, StatusMeansNext DEF InFlight
    <3> QED
      BY <1>0, <2>1, <3>2, OneStatus DEF Status
  <2>6. Contract!Answer(r)
    BY <2>1, <2>2, <2>4, <2>5 DEF Contract!Answer, Status
  <2> QED
    BY <2>6 DEF Contract!Next
<1>7. CASE ExecutionTimeout(r)
  <2>1. /\ pc[r] = "waitReply" /\ pc' = [pc EXCEPT ![r] = "timedOut"]
        /\ UNCHANGED <<worker, job, result, agent>>
    BY <1>7 DEF ExecutionTimeout, sandboxVars
  <2> QED
    BY <1>0, <2>1, GivesUpOne DEF InFlight, Ended
<1> QED
  BY <1>1, <1>2, <1>3, <1>4, <1>5, <1>6, <1>7 DEF HandlerStep

(* A pod that is being created had not been there before.                  *)
LEMMA CreatesOnly ==
  ASSUME Core, Life, NEW a \in Adders, adder[a] = "create",
         \/ agent' = [agent EXCEPT ![new[a]] = "starting"]
         \/ agent' = agent
  PROVE  Gone' = Gone
<1>1. new[a] \in WorkerIds /\ agent[new[a]] = "absent"
  BY NewWorker DEF Life
<1> QED
  BY <1>1, SameGone DEF Core, Gone

LEMMA AdderKeeps ==
  ASSUME IInv, NEW a \in Adders, AdderStep(a) \/ (a \in Requests /\ RenewStep(a))
  PROVE  Contract!Next \/ UNCHANGED Contract!vars
<1>0. Core /\ Life /\ TypeOK
  BY DEF IInv, Core
<1>1. UNCHANGED <<pc, worker, job, result>>
  BY DEF AdderStep, RenewStep, DeclareQueue, CreatePod, SendWorker,
     CleanupWorker, CleanupFails, DeclareFails, CreatePodFails, DeleteSandbox,
     runVars, sandboxVars
<1>2. CASE CreatePod(a) \/ CreatePodFails(a)
  <2>1. Gone' = Gone
    BY <1>0, <1>2, CreatesOnly DEF CreatePod, CreatePodFails
  <2> QED
    BY <1>1, <2>1, Stutters
<1>3. CASE DeclareQueue(a) \/ SendWorker(a) \/ DeclareFails(a)
  <2>1. agent' = agent
    BY <1>3 DEF DeclareQueue, SendWorker, DeclareFails, sandboxVars
  <2> QED
    BY <1>1, <2>1, Stutters DEF Gone
<1>4. ASSUME a \in Requests, CleanupWorker(a) \/ CleanupFails(a)
      PROVE  Contract!Next \/ UNCHANGED Contract!vars
  <2>1. adder[a] = "delete"
    BY <1>4 DEF CleanupWorker, CleanupFails
  <2>2. /\ worker[a] \in WorkerIds
        /\ \A r \in Requests : worker[r] = worker[a] => pc[r] \in Ended
    BY <1>0, <1>4, <2>1, CleanedWorker DEF Ended
  <2>3. CASE AgentEnds(worker[a], "deleted")
    BY <1>0, <1>1, <2>2, <2>3, SameStatus, ThrowsAway
  <2>4. CASE agent' = agent
    BY <1>1, <2>4, Stutters DEF Gone
  <2> QED
    BY <1>4, <2>3, <2>4 DEF CleanupWorker, CleanupFails, DeleteSandbox,
       sandboxVars
<1> QED
  BY <1>2, <1>3, <1>4 DEF AdderStep, RenewStep

LEMMA AgentKeeps ==
  ASSUME IInv, NEW w \in WorkerIds, Agent(w) \/ AgentFails(w)
  PROVE  Contract!Next \/ UNCHANGED Contract!vars
<1>0. Core /\ Life /\ TypeOK /\ Routed /\ agent \in [WorkerIds -> AgentStates]
  BY DEF IInv, Core, TypeOK, SandboxTypeOK
<1>1. UNCHANGED <<pc, worker, result>>
  BY DEF Agent, AgentFails, serviceVars, runVars
<1>2. Gone' = Gone
  <2>1. \E s : /\ s # "deleted" /\ agent[w] # "deleted"
               /\ agent' = [agent EXCEPT ![w] = s]
    BY DEF Agent, AgentFails, AgentConsume, AgentReceive, AgentPublish,
       AgentAck, AgentDies, AgentEnds, PodStates
  <2> QED
    BY <1>0, <2>1, SameGone
<1>3. CASE AgentReceive(w)
  <2>1. /\ agent[w] = "consuming"
        /\ \E r \in rpcQueue[w] : job' = [job EXCEPT ![w] = r]
    BY <1>3 DEF AgentReceive
  <2>2. PICK r \in rpcQueue[w] : job' = [job EXCEPT ![w] = r]
    BY <2>1
  <2>3. r \in Requests /\ worker[r] = w /\ job[w] = None
    BY <1>0, <2>1, <2>2 DEF TypeOK, SandboxTypeOK, Routed, Life
  <2>4. w \notin Gone
    BY <2>1 DEF Gone
  <2>5. Status' = Status
    BY <1>1, SameStatus
  <2>6. Contract!Run(r, w)
    BY <1>1, <1>2, <2>2, <2>3, <2>4, <2>5 DEF Contract!Run, Status, Gone
  <2> QED
    BY <2>3, <2>6 DEF Contract!Next
<1>4. CASE job' = job
  BY <1>1, <1>2, <1>4, Stutters
<1> QED
  BY <1>3, <1>4 DEF Agent, AgentFails, AgentConsume, AgentPublish, AgentAck,
     AgentDies

LEMMA HeadNotPending ==
  ASSUME Core, pool # <<>>
  PROVE  /\ Head(pool) \in WorkerIds
         /\ \A r \in Requests : worker[r] = Head(pool) => pc[r] \in Ended
BY HeadWorker

LEMMA ExitKeeps ==
  ASSUME IInv, Exit
  PROVE  Contract!Next \/ UNCHANGED Contract!vars
<1>0. Core /\ Life /\ Ending /\ TypeOK /\ Boot \in Adders
  BY DEF IInv, Core, Adders
<1>1. /\ pc' = [r \in Requests |-> IF pc[r] \in InFlight THEN "dropped" ELSE pc[r]]
      /\ UNCHANGED <<worker, job, result>>
  BY DEF Exit, ProcessExit
<1>2. CASE Gone' = Gone
  <2> DEFINE R == {r \in Requests : pc[r] \in InFlight}
  <2>1. /\ R \in SUBSET Requests
        /\ \A r \in R : pc[r] \in InFlight /\ pc'[r] \in Ended \ {"answered"}
        /\ \A r \in Requests \ R : pc'[r] = pc[r]
    BY <1>1 DEF Ended
  <2> HIDE DEF R
  <2> QED
    BY <1>0, <1>1, <1>2, <2>1, GivesUp
<1>3. CASE phase = "stopping" /\ pool # <<>> /\ AgentEnds(Head(pool), "deleted")
  <2>1. \A r \in Requests : pc[r] \notin InFlight
    BY <1>0, <1>3 DEF Ending
  <2>2. \A r \in Requests : pc'[r] = pc[r]
    BY <1>1, <2>1
  <2>3. Status' = Status
    BY <2>2 DEF Status, StatusOf
  <2> QED
    BY <1>0, <1>1, <1>3, <2>3, HeadNotPending, ThrowsAway
<1>4. CASE agent' = agent
  BY <1>2, <1>4 DEF Gone
<1>5. CASE /\ adder[Boot] = "create"
           /\ agent' = [agent EXCEPT ![new[Boot]] = "starting"]
  <2>1. Gone' = Gone
    BY <1>0, <1>5, CreatesOnly
  <2> QED
    BY <1>2, <2>1
<1> QED
  BY <1>3, <1>4, <1>5 DEF Exit

LEMMA ProcessKeeps ==
  ASSUME IInv, ProcessStep
  PROVE  Contract!Next \/ UNCHANGED Contract!vars
<1>0. Core /\ TypeOK
  BY DEF IInv, Core
<1>1. CASE UNCHANGED <<pc, worker, job, result, agent>>
  BY <1>1, Stutters DEF Gone
<1>2. CASE StopCleanup
  <2>1. /\ pool # <<>> /\ AgentEnds(Head(pool), "deleted")
        /\ UNCHANGED <<pc, worker, job, result>>
    BY <1>2 DEF StopCleanup, DeleteSandbox, runVars
  <2>2. Status' = Status
    BY <2>1, SameStatus
  <2> QED
    BY <1>0, <2>1, <2>2, HeadNotPending, ThrowsAway
<1>3. CASE Exit
  BY <1>3, ExitKeeps
<1> QED
  BY <1>1, <1>2, <1>3 DEF ProcessStep, ConsumerTake, ConsumerSend, Drain,
     HandlersDone, AmqpCloses, CloseAmqp, StopAmqp, Restart, sandboxVars,
     runVars

-----------------------------------------------------------------------------
LEMMA InitKeeps == Init => Contract!Init
<1> SUFFICES ASSUME Init PROVE Contract!Init
  OBVIOUS
<1>1. /\ agent = [w \in WorkerIds |-> "absent"]
      /\ job = [w \in WorkerIds |-> None]
      /\ pc = [r \in Requests |-> "idle"]
      /\ worker = [r \in Requests |-> None]
      /\ result = [r \in Requests |-> None]
  BY DEF Init, SandboxInit
<1>2. \A r \in Requests : StatusOf(r) = "new"
  BY <1>1, StatusMeans
<1> QED
  BY <1>1, <1>2 DEF Contract!Init

LEMMA StepKeeps ==
  IInv /\ [Next]_vars => [Contract!Next]_(Contract!vars)
<1> SUFFICES ASSUME IInv, [Next]_vars
             PROVE  Contract!Next \/ UNCHANGED Contract!vars
  OBVIOUS
<1>1. CASE UNCHANGED vars
  BY <1>1, Stutters DEF vars, sandboxVars, runVars, Gone
<1>2. \A r \in Requests : r \in Adders
  BY DEF Adders
<1> QED
  BY <1>1, <1>2, HandlerKeeps, AdderKeeps, AgentKeeps, ProcessKeeps, StepKinds

(* The control service keeps the contract of a run: a sandbox is given to  *)
(* one request and runs its code only, is not thrown away while the        *)
(* request is pending, and an answer is the outcome of that very run,      *)
(* through crashes, restarts, failed calls, late replies and a shutdown,   *)
(* for any number of requests and workers.                                 *)
THEOREM RunsKeepTheContract == Spec => KeepsContract
<1>1. Spec => []IInv
  BY Invariant
<1> QED
  BY <1>1, InitKeeps, StepKeeps, PTL DEF Spec, KeepsContract, Contract!Spec
=============================================================================
