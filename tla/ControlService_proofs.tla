------------------------ MODULE ControlService_proofs ------------------------
(* Theorems about ControlService, for every value of its constants.        *)
EXTENDS ControlInvariant, TLAPS

USE NoneAssumption, CountAssumption, BootAssumption

LEMMA InitCore == Init => Core
BY DEF Init, SandboxInit, Core, TypeOK, SandboxTypeOK, AgentStates, Phases,
       InFlight, Ended, Message, NoMessage, Adders, Linked, Apart, Routed,
       OwnResult

-----------------------------------------------------------------------------
(* Type correctness.                                                       *)

LEMMA AgentEndsType ==
  ASSUME SandboxTypeOK, NEW w \in WorkerIds, NEW s \in AgentStates,
         AgentEnds(w, s)
  PROVE  /\ agent' \in [WorkerIds -> AgentStates]
         /\ declared' \subseteq WorkerIds
         /\ rpcQueue' \in [WorkerIds -> SUBSET Requests]
<1>1. CASE agent[w] \in {"consuming", "executing", "published"}
  BY <1>1 DEF SandboxTypeOK, AgentEnds
<1>2. CASE agent[w] \notin {"consuming", "executing", "published"}
  BY <1>2 DEF SandboxTypeOK, AgentEnds
<1> QED
  BY <1>1, <1>2

LEMMA EnqueueType ==
  ASSUME SandboxTypeOK, NEW w \in WorkerIds, NEW r \in Requests,
         EnqueueJob(w, r)
  PROVE  rpcQueue' \in [WorkerIds -> SUBSET Requests]
<1>1. rpcQueue[w] \cup {r} \in SUBSET Requests
  BY DEF SandboxTypeOK
<1> QED
  BY <1>1 DEF SandboxTypeOK, EnqueueJob

(* The variables that the end of the process resets have their types.      *)
LEMMA ExitType ==
  ASSUME TypeOK,
         NEW how \in {"graceful", "fatal", "panic", "killed"},
         ProcessExit(how),
         agent' \in [WorkerIds -> AgentStates], job' = job,
         declared' \subseteq WorkerIds,
         rpcQueue' \in [WorkerIds -> SUBSET Requests], faults' \in Nat
  PROVE  TypeOK'
<1>1. pc' \in [Requests -> {"idle"} \cup InFlight \cup Ended]
  BY DEF ProcessExit, TypeOK, InFlight, Ended
<1>2. SandboxTypeOK'
  BY DEF ProcessExit, TypeOK, SandboxTypeOK
<1>3. pool' \in Seq(WorkerIds)
  BY DEF ProcessExit
<1> QED
  BY <1>1, <1>2, <1>3 DEF ProcessExit, TypeOK, Phases

LEMMA HandlerType ==
  ASSUME TypeOK, Linked, NEW r \in Requests, Arrive(r) \/ Handler(r)
  PROVE  TypeOK'
<1> USE DEF TypeOK, procVars, tableVars, addVars, InFlight, Ended
<1>1. CASE Arrive(r)
  BY <1>1 DEF Arrive, SandboxTypeOK, sandboxVars
<1>2. CASE ObtainWorker(r)
  <2>1. pool' \in Seq(WorkerIds) /\ Head(pool) \in WorkerIds
    BY <1>2 DEF ObtainWorker
  <2> QED
    BY <1>2, <2>1 DEF ObtainWorker, SandboxTypeOK, sandboxVars
<1>3. CASE WorkerTimeout(r)
  BY <1>3 DEF WorkerTimeout, SandboxTypeOK, sandboxVars
<1>4. CASE Publish(r)
  <2>1. worker[r] \in WorkerIds /\ EnqueueJob(worker[r], r)
    BY <1>4 DEF Publish, Linked
  <2>2. rpcQueue' \in [WorkerIds -> SUBSET Requests]
    BY <2>1, EnqueueType
  <2> QED
    BY <1>4, <2>2 DEF Publish, SandboxTypeOK
<1>5. CASE PublishFails(r)
  <2>1. worker[r] \in WorkerIds /\ faults' \in Nat
    BY <1>5 DEF PublishFails, Linked, AmqpFault, Fault
  <2>2. rpcQueue' = rpcQueue \/ EnqueueJob(worker[r], r)
    BY <1>5 DEF PublishFails
  <2>3. rpcQueue' \in [WorkerIds -> SUBSET Requests]
    BY <2>1, <2>2, EnqueueType DEF SandboxTypeOK
  <2> QED
    BY <1>5, <2>1, <2>3 DEF PublishFails, SandboxTypeOK
<1>6. CASE ReceiveReply(r)
  BY <1>6 DEF ReceiveReply, Linked, Adders, SandboxTypeOK, sandboxVars
<1>7. CASE ExecutionTimeout(r)
  BY <1>7 DEF ExecutionTimeout, Adders, SandboxTypeOK, sandboxVars
<1> QED
  BY <1>1, <1>2, <1>3, <1>4, <1>5, <1>6, <1>7 DEF Handler

LEMMA AdderType ==
  ASSUME TypeOK, Linked, NEW a \in Adders, Adder(a)
  PROVE  TypeOK'
<1> USE DEF TypeOK, procVars, tableVars, runVars
<1>1. CASE DeclareQueue(a)
  BY <1>1 DEF DeclareQueue, SandboxTypeOK
<1>2. CASE CreatePod(a)
  BY <1>2 DEF CreatePod, SandboxTypeOK, AgentStates
<1>3. CASE SendWorker(a)
  <2>1. new[a] \in WorkerIds
    BY <1>3 DEF SendWorker, Linked
  <2>2. pool' \in Seq(WorkerIds)
    BY <1>3, <2>1 DEF SendWorker
  <2>3. SandboxTypeOK'
    BY <1>3 DEF SendWorker, SandboxTypeOK, sandboxVars
  <2>4. CASE a = Boot
    <3>1. left' \in Nat
      BY <1>3, <2>4 DEF SendWorker, Linked
    <3> QED
      BY <1>3, <2>2, <2>3, <2>4, <3>1 DEF SendWorker, Phases
  <2>5. CASE a # Boot
    BY <1>3, <2>2, <2>3, <2>5 DEF SendWorker, Phases
  <2> QED
    BY <2>4, <2>5
<1>4. CASE a = Boot /\ BootRefused
  <2>1. TypeOK /\ ProcessExit("fatal") /\ UNCHANGED <<agent, job, declared, rpcQueue, faults>>
    BY <1>4 DEF BootRefused
  <2> QED
    BY <2>1, ExitType DEF SandboxTypeOK
<1>5. ASSUME a # Boot, CleanupWorker(a) PROVE TypeOK'
  <2>1. a \in Requests /\ worker[a] \in WorkerIds
    BY <1>5 DEF CleanupWorker, Adders, Linked
  <2>2. AgentEnds(worker[a], "deleted") /\ job' = job /\ replyQueue' = replyQueue
    BY <1>5 DEF CleanupWorker, DeleteSandbox
  <2>3. SandboxTypeOK'
    BY <2>1, <2>2, AgentEndsType DEF SandboxTypeOK, AgentStates
  <2> QED
    BY <1>5, <2>3 DEF CleanupWorker, DeleteSandbox
<1>6. ASSUME a # Boot, CleanupFails(a) PROVE TypeOK'
  <2>1. a \in Requests /\ worker[a] \in WorkerIds
    BY <1>6 DEF CleanupFails, Adders, Linked
  <2>2. \/ AgentEnds(worker[a], "deleted") /\ job' = job /\ replyQueue' = replyQueue
        \/ UNCHANGED sandboxVars
    BY <1>6 DEF CleanupFails
  <2>3. SandboxTypeOK'
    BY <2>1, <2>2, AgentEndsType DEF SandboxTypeOK, AgentStates, sandboxVars
  <2> QED
    BY <1>6, <2>1, <2>3 DEF CleanupFails, Fault
<1>7. ASSUME a # Boot, DeclareFails(a) PROVE TypeOK'
  BY <1>7 DEF DeclareFails, AmqpFault, Fault, SandboxTypeOK
<1>8. ASSUME a # Boot, CreatePodFails(a) PROVE TypeOK'
  <2>1. new[a] \in WorkerIds
    BY <1>8 DEF CreatePodFails, Linked
  <2>2. SandboxTypeOK'
    BY <1>8 DEF CreatePodFails, SandboxTypeOK, AgentStates
  <2> QED
    BY <1>8, <2>1, <2>2 DEF CreatePodFails, Fault
<1>9. ASSUME a # Boot, SendPanics(a) PROVE TypeOK'
  <2>1. ProcessExit("panic") /\ UNCHANGED <<agent, job, declared, rpcQueue, faults>>
    BY <1>9 DEF SendPanics
  <2> QED
    BY <2>1, ExitType DEF SandboxTypeOK
<1> QED
  BY <1>1, <1>2, <1>3, <1>4, <1>5, <1>6, <1>7, <1>8, <1>9 DEF Adder

LEMMA AgentType ==
  ASSUME TypeOK, Linked, NEW w \in WorkerIds, Agent(w) \/ AgentFails(w)
  PROVE  TypeOK'
<1>1. SandboxTypeOK'
  <2> USE DEF TypeOK, SandboxTypeOK
  <2>1. CASE AgentConsume(w)
    BY <2>1 DEF AgentConsume, AgentStates
  <2>2. CASE AgentReceive(w)
    BY <2>2 DEF AgentReceive, AgentStates
  <2>3. CASE AgentPublish(w, ReplyQueueExists(w))
    BY <2>3 DEF AgentPublish, AgentStates, Linked
  <2>4. CASE AgentAck(w) \/ AgentDies(w)
    <3>1. AgentEnds(w, "exited") /\ job' = job /\ replyQueue' = replyQueue
      BY <2>4 DEF AgentAck, AgentDies
    <3> QED
      BY <3>1, AgentEndsType DEF AgentStates
  <2> QED
    BY <2>1, <2>2, <2>3, <2>4 DEF Agent, AgentFails
<1>2. UNCHANGED serviceVars /\ faults' \in Nat
  BY DEF Agent, AgentFails, Fault, TypeOK
<1> QED
  BY <1>1, <1>2 DEF TypeOK, serviceVars, procVars, tableVars, runVars, addVars

LEMMA ProcessType ==
  ASSUME TypeOK, Linked,
         \/ Consumer \/ BootFails \/ StopSignal \/ AmqpCloses \/ Stop
         \/ Crash \/ Restart
  PROVE  TypeOK'
<1> USE DEF TypeOK, procVars, tableVars, runVars, addVars
<1>1. CASE ConsumerTake
  BY <1>1 DEF ConsumerTake, SandboxTypeOK, Message, NoMessage
<1>2. CASE ConsumerSend
  BY <1>2 DEF ConsumerSend, SandboxTypeOK, sandboxVars, Message, NoMessage
<1>3. CASE BootFails
  <2>1. /\ ProcessExit("fatal") /\ faults' \in Nat
        /\ UNCHANGED <<job, declared, rpcQueue>>
        /\ \/ agent' = agent
           \/ agent' = [agent EXCEPT ![new[Boot]] = "starting"]
    BY <1>3 DEF BootFails, Fault
  <2>2. /\ agent' \in [WorkerIds -> AgentStates]
        /\ declared' \subseteq WorkerIds
        /\ rpcQueue' \in [WorkerIds -> SUBSET Requests]
    BY <2>1 DEF SandboxTypeOK, AgentStates
  <2> HIDE DEF TypeOK
  <2> QED
    BY <2>1, <2>2, ExitType
<1>4. CASE StopSignal \/ AmqpNotified
  BY <1>4 DEF StopSignal, AmqpNotified, Drain, SandboxTypeOK, sandboxVars, Phases
<1>5. CASE AmqpCloses
  BY <1>5 DEF AmqpCloses, Fault, SandboxTypeOK
<1>6. CASE HandlersDone
  BY <1>6 DEF HandlersDone, SandboxTypeOK, sandboxVars, Phases
<1>7. CASE StopCleanup
  <2>1. Head(pool) \in WorkerIds /\ pool' \in Seq(WorkerIds)
    BY <1>7 DEF StopCleanup
  <2>2. /\ AgentEnds(Head(pool), "deleted")
        /\ job' = job /\ replyQueue' = replyQueue
    BY <1>7 DEF StopCleanup, DeleteSandbox
  <2>3. SandboxTypeOK'
    BY <2>1, <2>2, AgentEndsType DEF SandboxTypeOK, AgentStates
  <2> QED
    BY <1>7, <2>1, <2>3 DEF StopCleanup, DeleteSandbox
<1>8. CASE StopCleanupFails
  <2>1. Head(pool) \in WorkerIds
    BY <1>8 DEF StopCleanupFails
  <2>2. /\ ProcessExit("fatal") /\ job' = job /\ faults' \in Nat
        /\ \/ AgentEnds(Head(pool), "deleted")
           \/ UNCHANGED <<agent, declared, rpcQueue>>
    BY <1>8 DEF StopCleanupFails, Fault
  <2> QED
    BY <2>1, <2>2, AgentEndsType, ExitType DEF SandboxTypeOK, AgentStates
<1>9. CASE StopAmqp
  <2>1. CASE conn # "closed"
    BY <1>9, <2>1 DEF StopAmqp, SandboxTypeOK, Phases
  <2>2. CASE conn = "closed"
    BY <1>9, <2>2, ExitType DEF StopAmqp, SandboxTypeOK
  <2> QED
    BY <2>1, <2>2
<1>10. CASE StopReturns
  BY <1>10, ExitType DEF StopReturns, SandboxTypeOK
<1>11. CASE Crash
  <2>1. /\ ProcessExit("killed") /\ faults' \in Nat
        /\ UNCHANGED <<agent, job, declared, rpcQueue>>
    BY <1>11 DEF Crash, Fault
  <2> QED
    BY <2>1, ExitType DEF SandboxTypeOK
<1>12. CASE Restart
  <2>1. SandboxTypeOK'
    BY <1>12 DEF Restart, SandboxTypeOK, sandboxVars
  <2>2. phase' \in Phases /\ epoch' \in Nat /\ left' \in Nat
    BY <1>12 DEF Restart, Phases
  <2>3. adder' \in [Adders -> {"off", "delete", "declare", "create", "send"}]
    BY <1>12 DEF Restart
  <2> QED
    BY <1>12, <2>1, <2>2, <2>3 DEF Restart
<1> QED
  BY <1>1, <1>2, <1>3, <1>4, <1>5, <1>6, <1>7, <1>8, <1>9, <1>10, <1>11, <1>12
     DEF Consumer, Stop

LEMMA TypeStep == TypeOK /\ Linked /\ [Next]_vars => TypeOK'
<1> SUFFICES ASSUME TypeOK, Linked, [Next]_vars PROVE TypeOK'
  OBVIOUS
<1>1. CASE UNCHANGED vars
  BY <1>1 DEF vars, TypeOK, SandboxTypeOK, sandboxVars, procVars, tableVars,
              runVars, addVars
<1> QED
  BY <1>1, HandlerType, AdderType, AgentType, ProcessType DEF Next

-----------------------------------------------------------------------------
(* What a program counter says about the worker beside it.                 *)

LEMMA ExitLinked ==
  ASSUME TypeOK, Linked, NEW how, ProcessExit(how),
         \A w \in WorkerIds : agent'[w] = "executing" => job'[w] # None
  PROVE  Linked'
<1>1. /\ \A r \in Requests :
           pc'[r] = IF pc[r] \in InFlight THEN "dropped" ELSE pc[r]
      /\ \A a \in Adders : adder'[a] = "off" /\ new'[a] = None
      /\ phase' = "exited" /\ left' = 0
      /\ worker' = worker /\ result' = result
  BY DEF ProcessExit
<1>2. Boot \in Adders /\ \A r \in Requests : r \in Adders
  BY DEF Adders
<1> QED
  BY <1>1, <1>2 DEF Linked, InFlight

LEMMA HandlerLinked ==
  ASSUME TypeOK, Linked, NEW r \in Requests, Arrive(r) \/ Handler(r)
  PROVE  Linked'
<1> USE DEF TypeOK, Linked, procVars, tableVars, addVars
<1>1. CASE Arrive(r)
  BY <1>1 DEF Arrive, sandboxVars
<1>2. CASE ObtainWorker(r)
  <2>1. Head(pool) \in WorkerIds
    BY <1>2 DEF ObtainWorker
  <2> QED
    BY <1>2, <2>1 DEF ObtainWorker, sandboxVars, Adders
<1>3. CASE WorkerTimeout(r)
  BY <1>3 DEF WorkerTimeout, sandboxVars, Adders
<1>4. CASE Publish(r)
  BY <1>4 DEF Publish, Adders
<1>5. CASE PublishFails(r)
  BY <1>5 DEF PublishFails, Adders
<1>6. CASE ReceiveReply(r)
  BY <1>6 DEF ReceiveReply, sandboxVars, Adders
<1>7. CASE ExecutionTimeout(r)
  BY <1>7 DEF ExecutionTimeout, sandboxVars, Adders
<1> QED
  BY <1>1, <1>2, <1>3, <1>4, <1>5, <1>6, <1>7 DEF Handler

LEMMA AdderLinked ==
  ASSUME TypeOK, Linked, NEW a \in Adders, Adder(a)
  PROVE  Linked'
<1> USE DEF TypeOK, Linked, procVars, tableVars, runVars, SandboxTypeOK
<1>1. CASE DeclareQueue(a)
  BY <1>1 DEF DeclareQueue, Adders
<1>2. CASE CreatePod(a)
  BY <1>2 DEF CreatePod, Adders
<1>3. CASE SendWorker(a)
  <2>1. CASE a = Boot
    BY <1>3, <2>1 DEF SendWorker, Adders, sandboxVars
  <2>2. CASE a # Boot
    BY <1>3, <2>2 DEF SendWorker, Adders, sandboxVars
  <2> QED
    BY <2>1, <2>2
<1>4. CASE a = Boot /\ BootRefused
  BY <1>4, ExitLinked DEF BootRefused
<1>5. ASSUME a # Boot, CleanupWorker(a) PROVE Linked'
  BY <1>5 DEF CleanupWorker, DeleteSandbox, AgentEnds, Adders
<1>6. ASSUME a # Boot, CleanupFails(a) PROVE Linked'
  <2>1. job' = job /\ \A w \in WorkerIds : agent'[w] = "executing" => agent[w] = "executing"
    BY <1>6 DEF CleanupFails, AgentEnds, sandboxVars
  <2> QED
    BY <1>6, <2>1 DEF CleanupFails, Adders
<1>7. ASSUME a # Boot, DeclareFails(a) PROVE Linked'
  BY <1>7 DEF DeclareFails, Adders
<1>8. ASSUME a # Boot, CreatePodFails(a) PROVE Linked'
  <2>1. job' = job /\ \A w \in WorkerIds : agent'[w] = "executing" => agent[w] = "executing"
    BY <1>8 DEF CreatePodFails
  <2> QED
    BY <1>8, <2>1 DEF CreatePodFails, Adders
<1>9. ASSUME a # Boot, SendPanics(a) PROVE Linked'
  BY <1>9, ExitLinked DEF SendPanics
<1> QED
  BY <1>1, <1>2, <1>3, <1>4, <1>5, <1>6, <1>7, <1>8, <1>9 DEF Adder

LEMMA AgentLinked ==
  ASSUME TypeOK, Linked, NEW w \in WorkerIds, Agent(w) \/ AgentFails(w)
  PROVE  Linked'
<1>1. \A x \in WorkerIds : agent'[x] = "executing" => job'[x] # None
  <2> USE DEF TypeOK, SandboxTypeOK, Linked
  <2>1. CASE AgentConsume(w)
    BY <2>1 DEF AgentConsume
  <2>2. CASE AgentReceive(w)
    BY <2>2 DEF AgentReceive
  <2>3. CASE AgentPublish(w, ReplyQueueExists(w))
    BY <2>3 DEF AgentPublish
  <2>4. CASE AgentAck(w) \/ AgentDies(w)
    BY <2>4 DEF AgentAck, AgentDies, AgentEnds
  <2> QED
    BY <2>1, <2>2, <2>3, <2>4 DEF Agent, AgentFails
<1>2. UNCHANGED serviceVars
  BY DEF Agent, AgentFails
<1> QED
  BY <1>1, <1>2 DEF Linked, serviceVars, procVars, tableVars, runVars, addVars

LEMMA ProcessLinked ==
  ASSUME TypeOK, Linked,
         \/ Consumer \/ BootFails \/ StopSignal \/ AmqpCloses \/ Stop
         \/ Crash \/ Restart
  PROVE  Linked'
<1> USE DEF TypeOK, Linked, SandboxTypeOK, procVars, tableVars, runVars, addVars
<1>1. CASE ConsumerTake
  BY <1>1 DEF ConsumerTake
<1>2. CASE ConsumerSend
  BY <1>2 DEF ConsumerSend, sandboxVars
<1>3. CASE BootFails
  <2>1. /\ ProcessExit("fatal") /\ job' = job
        /\ \/ agent' = agent
           \/ agent' = [agent EXCEPT ![new[Boot]] = "starting"]
    BY <1>3 DEF BootFails
  <2>2. \A w \in WorkerIds : agent'[w] = "executing" => job'[w] # None
    BY <2>1
  <2> QED
    BY <2>1, <2>2, ExitLinked
<1>4. CASE StopSignal \/ AmqpNotified
  BY <1>4 DEF StopSignal, AmqpNotified, Drain, sandboxVars, Adders
<1>5. CASE AmqpCloses
  BY <1>5 DEF AmqpCloses
<1>6. CASE HandlersDone
  BY <1>6 DEF HandlersDone, sandboxVars
<1>7. CASE StopCleanup
  <2>1. Head(pool) \in WorkerIds
    BY <1>7 DEF StopCleanup
  <2> QED
    BY <1>7, <2>1 DEF StopCleanup, DeleteSandbox, AgentEnds
<1>8. CASE StopCleanupFails
  <2>1. /\ ProcessExit("fatal") /\ job' = job
        /\ AgentEnds(Head(pool), "deleted") \/ agent' = agent
    BY <1>8 DEF StopCleanupFails
  <2>2. \A w \in WorkerIds : agent'[w] = "executing" => job'[w] # None
    BY <2>1 DEF AgentEnds
  <2> QED
    BY <2>1, <2>2, ExitLinked
<1>9. CASE StopAmqp
  <2>1. CASE conn # "closed"
    BY <1>9, <2>1 DEF StopAmqp
  <2>2. CASE conn = "closed"
    BY <1>9, <2>2, ExitLinked DEF StopAmqp
  <2> QED
    BY <2>1, <2>2
<1>10. CASE StopReturns
  BY <1>10, ExitLinked DEF StopReturns
<1>11. CASE Crash
  BY <1>11, ExitLinked DEF Crash
<1>12. CASE Restart
  BY <1>12 DEF Restart, sandboxVars, Adders
<1> QED
  BY <1>1, <1>2, <1>3, <1>4, <1>5, <1>6, <1>7, <1>8, <1>9, <1>10, <1>11, <1>12
     DEF Consumer, Stop

LEMMA LinkedStep == TypeOK /\ Linked /\ [Next]_vars => Linked'
<1> SUFFICES ASSUME TypeOK, Linked, [Next]_vars PROVE Linked'
  OBVIOUS
<1>1. CASE UNCHANGED vars
  BY <1>1 DEF vars, Linked, sandboxVars, procVars, tableVars, runVars, addVars
<1> QED
  BY <1>1, HandlerLinked, AdderLinked, AgentLinked, ProcessLinked DEF Next

(* Every variable keeps its type: Linked is what makes it inductive, since *)
(* what a handler or an adder does with its worker has a type only because *)
(* its program counter says that it has one.                               *)
THEOREM TypeCorrect == Spec => []TypeOK
<1>1. Init => TypeOK /\ Linked
  BY InitCore DEF Core
<1>2. TypeOK /\ Linked /\ [Next]_vars => (TypeOK /\ Linked)'
  BY TypeStep, LinkedStep
<1> QED
  BY <1>1, <1>2, PTL DEF Spec

-----------------------------------------------------------------------------
(* No worker is in two places.                                             *)

apartVars == <<pool, worker, new, born, epoch>>

LEMMA ExitApart ==
  ASSUME TypeOK, Apart, NEW how, ProcessExit(how)
  PROVE  Apart'
<1>1. /\ pool' = <<>> /\ worker' = worker /\ born' = born /\ epoch' = epoch
      /\ \A a \in Adders : new'[a] = None
  BY DEF ProcessExit
<1>2. DOMAIN pool' = {}
  BY <1>1
<1> QED
  BY <1>1, <1>2 DEF Apart, TypeOK

(* The head of the pool leaves it, for a handler or for good.              *)
LEMMA TailApart ==
  ASSUME TypeOK, Apart, pool # <<>>, pool' = Tail(pool)
  PROVE  /\ Head(pool) = pool[1] /\ 1 \in DOMAIN pool
         /\ \A i \in DOMAIN pool' : /\ i + 1 \in DOMAIN pool
                                    /\ pool'[i] = pool[i + 1]
                                    /\ pool'[i] # Head(pool)
         /\ \A i, j \in DOMAIN pool' : pool'[i] = pool'[j] => i = j
<1>1. /\ Len(pool) \in Nat \ {0} /\ DOMAIN pool = 1..Len(pool)
      /\ pool' \in Seq(WorkerIds) /\ Len(pool') = Len(pool) - 1
      /\ DOMAIN pool' = 1..(Len(pool) - 1)
      /\ Head(pool) = pool[1]
  BY DEF TypeOK
<1>2. \A i \in DOMAIN pool' : i + 1 \in DOMAIN pool /\ pool'[i] = pool[i + 1]
  BY <1>1 DEF TypeOK
<1>3. \A i \in DOMAIN pool' : pool'[i] # Head(pool)
  BY <1>1, <1>2 DEF Apart
<1>4. \A i, j \in DOMAIN pool' : pool'[i] = pool'[j] => i = j
  BY <1>1, <1>2 DEF Apart
<1> QED
  BY <1>1, <1>2, <1>3, <1>4

LEMMA ApartStep == TypeOK /\ Linked /\ Apart /\ [Next]_vars => Apart'
<1> SUFFICES ASSUME TypeOK, Linked, Apart, [Next]_vars PROVE Apart'
  OBVIOUS
<1>0. CASE UNCHANGED apartVars
  BY <1>0 DEF apartVars, Apart
<1>1. ASSUME NEW r \in Requests, ObtainWorker(r) PROVE Apart'
  <2>1. /\ pc[r] = "waitWorker" /\ pool # <<>> /\ pool' = Tail(pool)
        /\ worker' = [worker EXCEPT ![r] = Head(pool)]
        /\ UNCHANGED <<new, born, epoch>>
    BY <1>1 DEF ObtainWorker, procVars, addVars
  <2>2. worker[r] = None /\ Head(pool) # None
    BY <2>1, TailApart DEF Linked, TypeOK
  <2>3. \A q \in Requests : worker'[q] = IF q = r THEN Head(pool) ELSE worker[q]
    BY <2>1 DEF TypeOK
  <2>4. \A i \in DOMAIN pool' :
          /\ born'[pool'[i]] # 0
          /\ \A q \in Requests : worker'[q] # pool'[i]
          /\ \A a \in Adders : new'[a] # pool'[i]
    BY <2>1, <2>3, TailApart DEF Apart
  <2>5. \A q \in Requests : worker'[q] # None =>
          /\ born'[worker'[q]] # 0
          /\ \A a \in Adders : new'[a] # worker'[q]
          /\ \A p \in Requests : worker'[p] = worker'[q] => p = q
    BY <2>1, <2>3, TailApart DEF Apart
  <2> QED
    BY <2>1, <2>4, <2>5, TailApart DEF Apart
<1>2. ASSUME NEW a \in Adders, DeclareQueue(a) PROVE Apart'
  <2>1. PICK w \in WorkerIds :
          /\ born[w] = 0 /\ born' = [born EXCEPT ![w] = epoch]
          /\ new' = [new EXCEPT ![a] = w]
          /\ adder[a] = "declare"
          /\ UNCHANGED <<pool, worker, epoch>>
    BY <1>2 DEF DeclareQueue, procVars, runVars
  <2>2. new[a] = None
    BY <2>1 DEF Linked
  <2>3. \A x \in WorkerIds : born'[x] = IF x = w THEN epoch ELSE born[x]
    BY <2>1 DEF TypeOK
  <2>4. \A b \in Adders : new'[b] = IF b = a THEN w ELSE new[b]
    BY <2>1 DEF TypeOK
  <2>5. /\ \A i \in DOMAIN pool : pool[i] # w /\ pool[i] \in WorkerIds
        /\ \A r \in Requests : worker[r] # w
        /\ \A b \in Adders : new[b] # w
    BY <2>1 DEF Apart, TypeOK
  <2> QED
    BY <2>1, <2>2, <2>3, <2>4, <2>5 DEF Apart, TypeOK
<1>3. ASSUME NEW r \in Requests, DeclareFails(r) PROVE Apart'
  <2>1. PICK w \in WorkerIds :
          /\ born[w] = 0 /\ born' = [born EXCEPT ![w] = epoch]
          /\ UNCHANGED <<pool, worker, epoch, new>>
    BY <1>3 DEF DeclareFails, procVars, runVars
  <2>2. \A x \in WorkerIds : born'[x] = IF x = w THEN epoch ELSE born[x]
    BY <2>1 DEF TypeOK
  <2> QED
    BY <2>1, <2>2 DEF Apart, TypeOK
<1>4. ASSUME NEW r \in Requests, CreatePodFails(r) PROVE Apart'
  <2>1. new' = [new EXCEPT ![r] = None] /\ UNCHANGED <<pool, worker, epoch, born>>
    BY <1>4 DEF CreatePodFails, procVars, runVars
  <2>2. \A b \in Adders : new'[b] = IF b = r THEN None ELSE new[b]
    BY <2>1 DEF TypeOK
  <2> QED
    BY <2>1, <2>2 DEF Apart, TypeOK
<1>5. ASSUME NEW a \in Adders, SendWorker(a) PROVE Apart'
  <2>1. /\ adder[a] = "send" /\ pool' = Append(pool, new[a])
        /\ new' = [new EXCEPT ![a] = None]
        /\ UNCHANGED <<worker, epoch, born>>
    BY <1>5 DEF SendWorker, runVars
  <2>2. new[a] \in WorkerIds
    BY <2>1 DEF Linked, TypeOK
  <2>3. /\ DOMAIN pool' = DOMAIN pool \cup {Len(pool) + 1}
        /\ Len(pool) + 1 \notin DOMAIN pool
        /\ pool'[Len(pool) + 1] = new[a]
        /\ \A i \in DOMAIN pool : pool'[i] = pool[i]
    BY <2>1, <2>2 DEF TypeOK
  <2>4. \A b \in Adders : new'[b] = IF b = a THEN None ELSE new[b]
    BY <2>1 DEF TypeOK
  <2>5. \A i, j \in DOMAIN pool' : pool'[i] = pool'[j] => i = j
    BY <2>3 DEF Apart
  <2>6. \A i \in DOMAIN pool' :
          /\ born'[pool'[i]] # 0
          /\ \A r \in Requests : worker'[r] # pool'[i]
          /\ \A b \in Adders : new'[b] # pool'[i]
    BY <2>1, <2>2, <2>3, <2>4 DEF Apart, TypeOK
  <2> QED
    BY <2>1, <2>4, <2>5, <2>6 DEF Apart
<1>6. ASSUME NEW how, ProcessExit(how) PROVE Apart'
  BY <1>6, ExitApart
<1>7. CASE StopCleanup
  <2>1. pool # <<>> /\ pool' = Tail(pool) /\ UNCHANGED <<worker, new, born, epoch>>
    BY <1>7 DEF StopCleanup, procVars, runVars, addVars
  <2> QED
    BY <2>1, TailApart DEF Apart
<1>8. CASE Restart
  <2>1. epoch' # 0 /\ UNCHANGED <<pool, worker, new, born>>
    BY <1>8 DEF Restart, runVars, TypeOK
  <2> QED
    BY <2>1 DEF Apart
<1>9. ASSUME NEW r \in Requests, Arrive(r) \/ Handler(r) PROVE Apart'
  BY <1>0, <1>1, <1>9 DEF Handler, Arrive, WorkerTimeout, Publish,
     PublishFails, ReceiveReply, ExecutionTimeout, apartVars, procVars, addVars
<1>10. ASSUME NEW a \in Adders, Adder(a) PROVE Apart'
  <2>1. CASE CleanupWorker(a) \/ CleanupFails(a) \/ CreatePod(a)
    BY <2>1, <1>0 DEF CleanupWorker, CleanupFails, CreatePod, apartVars,
       procVars, runVars
  <2>2. CASE SendPanics(a) \/ BootRefused
    BY <2>2, <1>6 DEF SendPanics, BootRefused
  <2> QED
    BY <1>2, <1>3, <1>4, <1>5, <1>10, <2>1, <2>2 DEF Adder, Adders
<1>11. ASSUME NEW w \in WorkerIds, Agent(w) \/ AgentFails(w) PROVE Apart'
  BY <1>11, <1>0 DEF Agent, AgentFails, serviceVars, apartVars, procVars,
     runVars, addVars
<1>12. CASE Consumer \/ StopSignal \/ AmqpCloses
  BY <1>12, <1>0 DEF Consumer, ConsumerTake, ConsumerSend, StopSignal, Drain,
     AmqpCloses, apartVars, procVars, runVars, addVars
<1>13. CASE BootFails \/ Crash
  BY <1>13, <1>6 DEF BootFails, Crash
<1>14. CASE Stop
  <2>1. CASE AmqpNotified \/ HandlersDone
    BY <2>1, <1>0 DEF AmqpNotified, Drain, HandlersDone, apartVars, procVars,
       runVars, addVars
  <2>2. CASE StopCleanupFails \/ StopReturns
    BY <2>2, <1>6 DEF StopCleanupFails, StopReturns
  <2>3. CASE StopAmqp
    <3>1. CASE conn = "closed"
      BY <2>3, <3>1, <1>6 DEF StopAmqp
    <3>2. CASE conn # "closed"
      BY <2>3, <3>2, <1>0 DEF StopAmqp, apartVars, runVars, addVars
    <3> QED
      BY <3>1, <3>2
  <2> QED
    BY <1>7, <1>14, <2>1, <2>2, <2>3 DEF Stop
<1>15. CASE UNCHANGED vars
  BY <1>15, <1>0 DEF vars, apartVars, procVars, runVars, addVars
<1> QED
  BY <1>8, <1>9, <1>10, <1>11, <1>12, <1>13, <1>14, <1>15 DEF Next

(* No worker runs the code of two requests, in its life or across crashes  *)
(* and restarts: handleRun takes each out of the pool once, and nothing    *)
(* puts a used one back.                                                   *)
THEOREM SandboxesAreSingleUse == Spec => []SingleUse
<1>1. Init => TypeOK /\ Linked /\ Apart
  BY InitCore DEF Core
<1>2. TypeOK /\ Linked /\ Apart /\ [Next]_vars => (TypeOK /\ Linked /\ Apart)'
  BY TypeStep, LinkedStep, ApartStep
<1>3. Apart => SingleUse
  BY DEF Apart, SingleUse
<1> QED
  BY <1>1, <1>2, <1>3, PTL DEF Spec

-----------------------------------------------------------------------------
(* A job and its reply stay with the worker of their request.              *)

routedVars == <<rpcQueue, job, replyQueue, replyCh, holding, worker, result>>

LEMMA ExitRouted ==
  ASSUME TypeOK, Routed, NEW how, ProcessExit(how), job' = job,
         \A w \in WorkerIds : rpcQueue'[w] \subseteq rpcQueue[w]
  PROVE  Routed'
<1>1. /\ replyQueue' = {} /\ holding' = NoMessage
      /\ \A w \in WorkerIds : replyCh'[w] = None
      /\ worker' = worker /\ result' = result
  BY DEF ProcessExit
<1>2. NoMessage' = NoMessage
  BY DEF NoMessage
<1> QED
  BY <1>1, <1>2 DEF Routed, OwnResult

(* The end of an agent can only take jobs out of its queue.                *)
LEMMA AgentEndsRouted ==
  ASSUME TypeOK, NEW w, NEW s, AgentEnds(w, s)
  PROVE  \A x \in WorkerIds : rpcQueue'[x] \subseteq rpcQueue[x]
BY DEF AgentEnds, TypeOK, SandboxTypeOK

LEMMA FewerRouted ==
  ASSUME Routed, UNCHANGED <<job, replyQueue, replyCh, holding, worker, result>>,
         \A w \in WorkerIds : rpcQueue'[w] \subseteq rpcQueue[w]
  PROVE  Routed'
BY DEF Routed, OwnResult, NoMessage

LEMMA HandlerRouted ==
  ASSUME TypeOK, Linked, Apart, Routed, NEW r \in Requests,
         Arrive(r) \/ Handler(r)
  PROVE  Routed'
<1>0. CASE UNCHANGED routedVars
  BY <1>0 DEF routedVars, Routed, OwnResult, NoMessage
<1>1. CASE Arrive(r) \/ WorkerTimeout(r) \/ ExecutionTimeout(r)
  BY <1>0, <1>1 DEF Arrive, WorkerTimeout, ExecutionTimeout, routedVars,
     sandboxVars, tableVars
<1>2. CASE ObtainWorker(r)
  <2>1. worker[r] = None
    BY <1>2 DEF ObtainWorker, Linked
  <2>2. \A q \in Requests : worker[q] \in WorkerIds => worker'[q] = worker[q]
    BY <1>2, <2>1 DEF ObtainWorker, TypeOK
  <2>3. UNCHANGED <<rpcQueue, job, replyQueue, replyCh, holding, result>>
    BY <1>2 DEF ObtainWorker, sandboxVars, tableVars
  <2>4. holding # NoMessage => /\ holding.request \in Requests
                               /\ holding.worker \in WorkerIds
    BY DEF TypeOK, Message
  <2>5. /\ \A w \in WorkerIds : rpcQueue[w] \subseteq Requests
        /\ \A m \in replyQueue : m[1] \in WorkerIds /\ m[2] \in Requests
        /\ \A w \in WorkerIds : job[w] # None => job[w] \in Requests
        /\ \A w \in WorkerIds : replyCh[w] # None => replyCh[w] \in Requests
    BY DEF TypeOK, SandboxTypeOK
  <2> QED
    BY <2>2, <2>3, <2>4, <2>5 DEF Routed, OwnResult, NoMessage
<1>3. CASE Publish(r) \/ PublishFails(r)
  <2>1. /\ rpcQueue' = rpcQueue \/ EnqueueJob(worker[r], r)
        /\ UNCHANGED <<job, replyQueue, replyCh, holding, worker, result>>
    BY <1>3 DEF Publish, PublishFails, tableVars
  <2>2. \A w \in WorkerIds : \A q \in rpcQueue'[w] :
           q \in rpcQueue[w] \/ (q = r /\ w = worker[r])
    BY <2>1 DEF EnqueueJob, TypeOK, SandboxTypeOK
  <2> QED
    BY <2>1, <2>2 DEF Routed, OwnResult, NoMessage
<1>4. CASE ReceiveReply(r)
  <2>1. /\ replyCh[worker[r]] # None /\ pc[r] = "waitReply"
        /\ result' = [result EXCEPT ![r] = replyCh[worker[r]]]
        /\ replyCh' = [replyCh EXCEPT ![worker[r]] = None]
        /\ UNCHANGED <<rpcQueue, job, replyQueue, holding, worker>>
    BY <1>4 DEF ReceiveReply, sandboxVars
  <2>2. worker[r] \in WorkerIds
    BY <2>1 DEF Linked, TypeOK
  <2>3. replyCh[worker[r]] = r
    <3>1. /\ replyCh[worker[r]] \in Requests
          /\ worker[replyCh[worker[r]]] = worker[r]
      BY <2>1, <2>2 DEF Routed, TypeOK
    <3>2. \A q \in Requests : worker[q] = worker[r] => q = r
      BY <2>2 DEF Apart
    <3> QED
      BY <3>1, <3>2
  <2>4. OwnResult'
    BY <2>1, <2>3 DEF Routed, OwnResult, TypeOK
  <2>5. \A w \in WorkerIds : replyCh'[w] \in {None, replyCh[w]}
    BY <2>1 DEF TypeOK
  <2> QED
    BY <2>1, <2>4, <2>5 DEF Routed, NoMessage
<1> QED
  BY <1>1, <1>2, <1>3, <1>4 DEF Handler

LEMMA AdderRouted ==
  ASSUME TypeOK, Linked, Routed, NEW a \in Adders, Adder(a)
  PROVE  Routed'
<1>0. CASE UNCHANGED routedVars
  BY <1>0 DEF routedVars, Routed, OwnResult, NoMessage
<1>1. CASE DeclareQueue(a) \/ CreatePod(a) \/ SendWorker(a)
  BY <1>0, <1>1 DEF DeclareQueue, CreatePod, SendWorker, routedVars,
     sandboxVars, runVars, tableVars
<1>2. CASE BootRefused \/ SendPanics(a)
  BY <1>2, ExitRouted DEF BootRefused, SendPanics
<1>3. CASE CleanupWorker(a)
  BY <1>3, AgentEndsRouted, FewerRouted DEF CleanupWorker, DeleteSandbox,
     runVars
<1>4. CASE CleanupFails(a)
  <2>1. UNCHANGED <<job, replyQueue, replyCh, holding, worker, result>>
    BY <1>4 DEF CleanupFails, sandboxVars, tableVars, runVars
  <2>2. \A w \in WorkerIds : rpcQueue'[w] \subseteq rpcQueue[w]
    BY <1>4, AgentEndsRouted DEF CleanupFails, sandboxVars
  <2> QED
    BY <2>1, <2>2, FewerRouted
<1>5. CASE DeclareFails(a) \/ CreatePodFails(a)
  BY <1>0, <1>5 DEF DeclareFails, CreatePodFails, routedVars, runVars, tableVars
<1> QED
  BY <1>1, <1>2, <1>3, <1>4, <1>5 DEF Adder

LEMMA AgentRouted ==
  ASSUME TypeOK, Linked, Routed, NEW w \in WorkerIds, Agent(w) \/ AgentFails(w)
  PROVE  Routed'
<1>0. UNCHANGED <<replyCh, holding, worker, result>>
  BY DEF Agent, AgentFails, serviceVars, tableVars, runVars
<1>1. CASE AgentConsume(w)
  BY <1>0, <1>1 DEF AgentConsume, Routed, OwnResult, NoMessage
<1>2. CASE AgentReceive(w)
  <2>1. PICK r \in rpcQueue[w] : /\ rpcQueue' = [rpcQueue EXCEPT ![w] = @ \ {r}]
                                 /\ job' = [job EXCEPT ![w] = r]
    BY <1>2 DEF AgentReceive
  <2>2. /\ \A x \in WorkerIds : rpcQueue'[x] \subseteq rpcQueue[x]
        /\ \A x \in WorkerIds : job'[x] = IF x = w THEN r ELSE job[x]
        /\ replyQueue' = replyQueue
    BY <1>2, <2>1 DEF AgentReceive, TypeOK, SandboxTypeOK
  <2> QED
    BY <1>0, <2>1, <2>2 DEF Routed, OwnResult, NoMessage
<1>3. CASE AgentPublish(w, ReplyQueueExists(w))
  <2>1. job[w] # None /\ worker[job[w]] = w
    BY <1>3 DEF AgentPublish, Linked, Routed
  <2>2. /\ \A m \in replyQueue' : m \in replyQueue \/ m = <<w, job[w]>>
        /\ UNCHANGED <<job, rpcQueue>>
    BY <1>3 DEF AgentPublish
  <2> QED
    BY <1>0, <2>1, <2>2 DEF Routed, OwnResult, NoMessage
<1>4. CASE AgentAck(w) \/ AgentDies(w)
  BY <1>0, <1>4, AgentEndsRouted, FewerRouted DEF AgentAck, AgentDies
<1> QED
  BY <1>1, <1>2, <1>3, <1>4 DEF Agent, AgentFails

LEMMA ProcessRouted ==
  ASSUME TypeOK, Linked, Routed,
         \/ Consumer \/ BootFails \/ StopSignal \/ AmqpCloses \/ Stop
         \/ Crash \/ Restart
  PROVE  Routed'
<1>0. CASE UNCHANGED routedVars
  BY <1>0 DEF routedVars, Routed, OwnResult, NoMessage
<1>1. CASE ConsumerTake
  <2>1. PICK m \in replyQueue :
          /\ replyQueue' = replyQueue \ {m}
          /\ \/ holding' = [worker |-> m[1], request |-> m[2]]
             \/ holding' = NoMessage
          /\ UNCHANGED <<rpcQueue, job, replyCh, worker, result>>
    BY <1>1 DEF ConsumerTake, runVars
  <2> QED
    BY <2>1 DEF Routed, OwnResult, NoMessage
<1>2. CASE ConsumerSend
  <2>1. /\ holding # NoMessage /\ holding' = NoMessage
        /\ replyCh' = [replyCh EXCEPT ![holding.worker] = holding.request]
        /\ UNCHANGED <<rpcQueue, job, replyQueue, worker, result>>
    BY <1>2 DEF ConsumerSend, sandboxVars, runVars
  <2>2. \A w \in WorkerIds : replyCh'[w] = IF w = holding.worker
                                           THEN holding.request ELSE replyCh[w]
    BY <2>1 DEF TypeOK
  <2> QED
    BY <2>1, <2>2 DEF Routed, OwnResult, NoMessage
<1>3. CASE BootFails \/ StopReturns \/ Crash
  BY <1>3, ExitRouted DEF BootFails, StopReturns, Crash
<1>4. CASE StopSignal \/ AmqpNotified \/ HandlersDone \/ Restart
  BY <1>0, <1>4 DEF StopSignal, AmqpNotified, Drain, HandlersDone, Restart,
     routedVars, sandboxVars, tableVars, runVars
<1>5. CASE AmqpCloses
  <2>1. /\ replyQueue' \subseteq replyQueue
        /\ UNCHANGED <<rpcQueue, job, replyCh, holding, worker, result>>
    BY <1>5 DEF AmqpCloses, tableVars, runVars
  <2> QED
    BY <2>1 DEF Routed, OwnResult, NoMessage
<1>6. CASE StopCleanup
  BY <1>6, AgentEndsRouted, FewerRouted DEF StopCleanup, DeleteSandbox, runVars
<1>7. CASE StopCleanupFails
  <2>1. \A w \in WorkerIds : rpcQueue'[w] \subseteq rpcQueue[w]
    BY <1>7, AgentEndsRouted DEF StopCleanupFails
  <2> QED
    BY <1>7, <2>1, ExitRouted DEF StopCleanupFails
<1>8. CASE StopAmqp
  <2>1. CASE conn = "closed"
    BY <1>8, <2>1, ExitRouted DEF StopAmqp
  <2>2. CASE conn # "closed"
    BY <1>8, <2>2 DEF StopAmqp, tableVars, runVars, Routed, OwnResult, NoMessage
  <2> QED
    BY <2>1, <2>2
<1> QED
  BY <1>1, <1>2, <1>3, <1>4, <1>5, <1>6, <1>7, <1>8 DEF Consumer, Stop

LEMMA CoreStep == Core /\ [Next]_vars => Core'
<1> SUFFICES ASSUME Core, [Next]_vars PROVE Routed'
  BY TypeStep, LinkedStep, ApartStep DEF Core
<1>1. CASE UNCHANGED vars
  BY <1>1 DEF vars, Core, Routed, OwnResult, NoMessage, sandboxVars, tableVars,
     runVars
<1> QED
  BY <1>1, HandlerRouted, AdderRouted, AgentRouted, ProcessRouted DEF Next, Core

(* handleRun answers a request with the outcome of its own run, whatever   *)
(* comes late, out of order or from an earlier process: the correlation id *)
(* of a reply is the id of a worker, and that worker has one request.      *)
THEOREM AnswersAreOwn == Spec => []OwnResult
<1>1. Core => OwnResult
  BY DEF Core, Routed
<1> QED
  BY InitCore, CoreStep, <1>1, PTL DEF Spec
=============================================================================
