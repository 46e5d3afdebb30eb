------------------------- MODULE FileService_proofs -------------------------
(***************************************************************************)
(* Proofs about FileService: that an answer names every file of its upload *)
(* at an object of its own, and when what is stored has no expiry rule,    *)
(* for any uploads and files, any number of failures and of restarts.      *)
(***************************************************************************)
EXTENDS FileService, TLAPS

USE FileAssumption

(* What has been processed of an upload is what its answer has so far.     *)
Processed ==
  \A u \in Uploads :
    /\ todo[u] \subseteq sent[u]
    /\ up[u] = "new" => sent[u] = {}
    /\ up[u] = "created" => todo[u] = {}
    /\ \A a \in answer[u] :
         /\ a.name = NameOf[objects[a.object][2]]
         /\ \E f \in sent[u] \ todo[u] : objects[a.object] = <<u, f>>
    /\ \A f \in sent[u] \ todo[u] :
         \E a \in answer[u] : objects[a.object] = <<u, f>>

(* Uploads are read only by a process that serves, so by one with a bucket.*)
ReadWhileServing ==
  \A u \in Uploads : up[u] = "reading" => phase \in Serving

(* A bucket has its rule once the start that made it is past it; and until *)
(* then nothing is stored.                                                 *)
RuledOnceMade ==
  /\ bucket /\ ~skipped /\ phase # "rule" => rule
  /\ objects # <<>> => bucket /\ phase # "rule"

IInv == FileTypeOK /\ Processed /\ ReadWhileServing /\ RuledOnceMade

-----------------------------------------------------------------------------
LEMMA InvInit == Init => IInv
<1> SUFFICES ASSUME Init PROVE IInv
  OBVIOUS
<1>1. FileTypeOK
  <2>1. objects \in Seq(Uploads \X Files)
    BY DEF Init
  <2>2. answer \in [Uploads -> SUBSET [name : {NameOf[f] : f \in Files},
                                      object : DOMAIN objects]]
    <3>1. \A S : {} \in SUBSET S
      OBVIOUS
    <3> QED
      BY <3>1 DEF Init
  <2>3. /\ up \in [Uploads -> {"new", "reading", "created", "refused", "dropped"}]
        /\ todo \in [Uploads -> SUBSET Files]
        /\ sent \in [Uploads -> SUBSET Files]
    BY DEF Init
  <2>4. /\ phase = "make" /\ epoch \in 1..MaxEpochs /\ faults \in 0..MaxFaults
    BY DEF Init
  <2>5. ~bucket /\ ~rule /\ {bucket, rule, skipped} \subseteq BOOLEAN
    BY Zenon DEF Init
  <2> QED
    BY <2>1, <2>2, <2>3, <2>4, <2>5 DEF FileTypeOK, Serving
<1>2. Processed
  BY DEF Init, Processed
<1>3. ReadWhileServing /\ RuledOnceMade
  BY DEF Init, ReadWhileServing, RuledOnceMade
<1> QED
  BY <1>1, <1>2, <1>3 DEF IInv

(* The start: no upload and no object is touched.                          *)
LEMMA StartStep ==
  ASSUME IInv, Start PROVE IInv'
<1> USE DEF IInv, Serving
<1>1. UNCHANGED <<epoch, objects, uploadVars>> /\ phase \notin Serving
      /\ faults' \in 0..MaxFaults
  BY DEF Start, MakeBucket, MakeFails, BucketExists, ExistsFails,
     SetBucketLifecycle, LifecycleFails, Fault, minioVars, uploadVars, FileTypeOK
<1>2. /\ phase' \in {"make", "owned", "rule", "exited"} \cup Serving
      /\ {bucket', rule', skipped'} \subseteq BOOLEAN
      /\ rule' => bucket'
      /\ phase' \in {"rule"} \cup Serving => bucket'
  <2> USE DEF FileTypeOK, minioVars
  <2>1. CASE MakeBucket
    BY <2>1 DEF MakeBucket
  <2>2. CASE MakeFails
    BY <2>2 DEF MakeFails
  <2>3. CASE BucketExists \/ ExistsFails
    BY <2>3 DEF BucketExists, ExistsFails
  <2>4. CASE SetBucketLifecycle
    BY <2>4 DEF SetBucketLifecycle
  <2>5. CASE LifecycleFails
    BY <2>5 DEF LifecycleFails
  <2> QED
    BY <2>1, <2>2, <2>3, <2>4, <2>5 DEF Start
<1>3. FileTypeOK'
  BY <1>1, <1>2 DEF FileTypeOK, uploadVars
<1>4. Processed' /\ ReadWhileServing'
  BY <1>1 DEF Processed, ReadWhileServing, uploadVars
<1>5. RuledOnceMade'
  BY <1>1 DEF RuledOnceMade, Start, MakeBucket, MakeFails, BucketExists,
     ExistsFails, SetBucketLifecycle, LifecycleFails, minioVars, FileTypeOK
<1> QED
  BY <1>3, <1>4, <1>5

(* Signals, the end of the process and its restart.                        *)
LEMMA ProcessStep ==
  ASSUME IInv, StopSignal \/ StopReturns \/ Crash \/ Restart PROVE IInv'
<1> USE DEF IInv, Serving
<1>1. /\ UNCHANGED <<minioVars, todo, sent, answer>>
      /\ faults' \in 0..MaxFaults /\ epoch' \in 1..MaxEpochs
      /\ phase' \in {"make", "draining", "exited"}
      /\ phase' = "draining" => phase = "serving"
  BY DEF StopSignal, StopReturns, Crash, Restart, Fault, FileTypeOK,
     minioVars, uploadVars
<1>2. up' \in [Uploads -> {"new", "reading", "created", "refused", "dropped"}]
  BY DEF StopSignal, StopReturns, Crash, Restart, FileTypeOK, uploadVars
<1>3. \A u \in Uploads : /\ up'[u] \in {"new", "created"} => up'[u] = up[u]
                         /\ up'[u] = "reading" => phase' \in Serving
  BY DEF StopSignal, StopReturns, Crash, Restart, FileTypeOK, uploadVars,
     Busy, ReadWhileServing
<1>4. /\ skipped' \in BOOLEAN
      /\ ~skipped' => ~skipped /\ (phase' # "rule" /\ phase = "rule" => FALSE)
  BY DEF StopSignal, StopReturns, Crash, Restart, FileTypeOK
<1>5. FileTypeOK'
  BY <1>1, <1>2, <1>4 DEF FileTypeOK, minioVars
<1>6. Processed' /\ ReadWhileServing'
  BY <1>1, <1>3 DEF Processed, ReadWhileServing, minioVars
<1>7. RuledOnceMade'
  BY <1>1, <1>4 DEF RuledOnceMade, minioVars
<1> QED
  BY <1>5, <1>6, <1>7

(* An object more: the former ones stay what they are.                     *)
LEMMA ObjectAdded ==
  ASSUME FileTypeOK, NEW u \in Uploads, NEW f \in Files,
         objects' = Append(objects, <<u, f>>)
  PROVE  /\ objects' \in Seq(Uploads \X Files) /\ objects' # <<>>
         /\ DOMAIN objects' = DOMAIN objects \cup {Len(objects) + 1}
         /\ \A i \in DOMAIN objects : objects'[i] = objects[i]
         /\ objects'[Len(objects) + 1] = <<u, f>>
BY DEF FileTypeOK

LEMMA ReceiveStep ==
  ASSUME IInv, NEW u \in Uploads, Receive(u) PROVE IInv'
<1> USE DEF IInv
<1>1. PICK F \in SUBSET Files :
        /\ sent' = [sent EXCEPT ![u] = F]
        /\ todo' = [todo EXCEPT ![u] = F]
  BY DEF Receive
<1>2. /\ phase = "serving" /\ up[u] = "new"
      /\ up' = [up EXCEPT ![u] = "reading"]
      /\ UNCHANGED <<phase, epoch, minioVars, skipped, answer, faults>>
  BY DEF Receive
<1>3. FileTypeOK'
  BY <1>1, <1>2 DEF FileTypeOK, minioVars
<1>4. answer[u] = {}
  BY <1>2 DEF Processed
<1>5. Processed'
  BY <1>1, <1>2, <1>4 DEF Processed, FileTypeOK, minioVars
<1>6. ReadWhileServing' /\ RuledOnceMade'
  BY <1>2 DEF ReadWhileServing, RuledOnceMade, FileTypeOK, minioVars, Serving
<1> QED
  BY <1>3, <1>5, <1>6

(* A file is stored and gets its place in the answer.                      *)
LEMMA StoreStep ==
  ASSUME IInv, NEW u \in Uploads, Process(u) PROVE IInv'
<1> USE DEF IInv
<1> DEFINE i == Len(objects) + 1
<1>1. PICK f \in todo[u] \cap Allowed :
        /\ objects' = Append(objects, <<u, f>>)
        /\ answer' = [answer EXCEPT ![u] = @ \cup {[name |-> NameOf[f], object |-> i]}]
        /\ todo' = [todo EXCEPT ![u] = @ \ {f}]
  BY DEF Process, Store
<1>2. /\ up[u] = "reading" /\ f \in Files /\ f \in sent[u]
      /\ UNCHANGED <<phase, epoch, bucket, rule, skipped, up, sent, faults>>
  BY <1>1 DEF Process, Processed, FileTypeOK
<1>3. /\ objects' \in Seq(Uploads \X Files) /\ objects' # <<>>
      /\ DOMAIN objects' = DOMAIN objects \cup {i}
      /\ \A j \in DOMAIN objects : objects'[j] = objects[j]
      /\ objects'[i] = <<u, f>>
  BY <1>1, <1>2, ObjectAdded
<1>4. /\ answer'[u] = answer[u] \cup {[name |-> NameOf[f], object |-> i]}
      /\ \A v \in Uploads \ {u} : answer'[v] = answer[v]
      /\ \A v \in Uploads : \A a \in answer[v] : a.object \in DOMAIN objects
  BY <1>1 DEF FileTypeOK
<1>5. FileTypeOK'
  <2>1. todo' \in [Uploads -> SUBSET Files]
    BY <1>1 DEF FileTypeOK
  <2>2. answer' \in [Uploads -> SUBSET [name : {NameOf[g] : g \in Files},
                                        object : DOMAIN objects']]
    <3>1. \A v \in Uploads :
            answer[v] \in SUBSET [name : {NameOf[g] : g \in Files},
                                  object : DOMAIN objects']
      BY <1>3 DEF FileTypeOK
    <3>2. [name |-> NameOf[f], object |-> i]
            \in [name : {NameOf[g] : g \in Files}, object : DOMAIN objects']
      BY <1>2, <1>3
    <3> QED
      BY <1>1, <3>1, <3>2 DEF FileTypeOK
  <2> QED
    BY <1>2, <1>3, <2>1, <2>2 DEF FileTypeOK
<1>6. Processed'
  <2> SUFFICES ASSUME NEW v \in Uploads
               PROVE  /\ todo'[v] \subseteq sent[v]
                      /\ up[v] = "new" => sent[v] = {}
                      /\ up[v] = "created" => todo'[v] = {}
                      /\ \A a \in answer'[v] :
                           /\ a.name = NameOf[objects'[a.object][2]]
                           /\ \E g \in sent[v] \ todo'[v] :
                                objects'[a.object] = <<v, g>>
                      /\ \A g \in sent[v] \ todo'[v] :
                           \E a \in answer'[v] : objects'[a.object] = <<v, g>>
    BY <1>2 DEF Processed
  <2>1. CASE v # u
    <3>1. todo'[v] = todo[v] /\ answer'[v] = answer[v]
      BY <1>1, <1>4, <2>1 DEF FileTypeOK
    <3>2. \A a \in answer[v] : objects'[a.object] = objects[a.object]
      BY <1>3, <1>4
    <3>3. /\ todo[v] \subseteq sent[v]
          /\ up[v] = "new" => sent[v] = {}
          /\ up[v] = "created" => todo[v] = {}
          /\ \A a \in answer[v] :
               /\ a.name = NameOf[objects[a.object][2]]
               /\ \E g \in sent[v] \ todo[v] : objects[a.object] = <<v, g>>
          /\ \A g \in sent[v] \ todo[v] :
               \E a \in answer[v] : objects[a.object] = <<v, g>>
      BY DEF Processed
    <3> HIDE DEF IInv
    <3> QED
      BY <3>1, <3>2, <3>3
  <2>2. CASE v = u
    <3>1. todo'[u] = todo[u] \ {f}
      BY <1>1 DEF FileTypeOK
    <3>2. \A a \in answer[u] : objects'[a.object] = objects[a.object]
      BY <1>3, <1>4
    <3>3. \A a \in answer'[u] :
            /\ a.name = NameOf[objects'[a.object][2]]
            /\ \E g \in sent[u] \ todo'[u] : objects'[a.object] = <<u, g>>
      <4> SUFFICES ASSUME NEW a \in answer'[u]
                   PROVE  /\ a.name = NameOf[objects'[a.object][2]]
                          /\ \E g \in sent[u] \ todo'[u] :
                               objects'[a.object] = <<u, g>>
        OBVIOUS
      <4>1. CASE a \in answer[u]
        <5>1. PICK g \in sent[u] \ todo[u] : objects[a.object] = <<u, g>>
          BY <4>1 DEF Processed
        <5>2. a.name = NameOf[objects[a.object][2]]
          BY <4>1 DEF Processed
        <5> QED
          BY <3>1, <3>2, <4>1, <5>1, <5>2
      <4>2. CASE a = [name |-> NameOf[f], object |-> i]
        <5>1. a.object = i /\ a.name = NameOf[f]
          BY <4>2
        <5>2. objects'[a.object] = <<u, f>> /\ f \in sent[u] \ todo'[u]
          BY <1>2, <1>3, <3>1, <5>1
        <5> QED
          BY <5>1, <5>2
      <4> QED
        BY <1>4, <4>1, <4>2
    <3>4. \A g \in sent[u] \ todo'[u] :
            \E a \in answer'[u] : objects'[a.object] = <<u, g>>
      <4>1. \E a \in answer'[u] : objects'[a.object] = <<u, f>>
        <5>1. [name |-> NameOf[f], object |-> i] \in answer'[u]
          BY <1>4
        <5>2. [name |-> NameOf[f], object |-> i].object = i
          OBVIOUS
        <5> QED
          BY <1>3, <5>1, <5>2
      <4>2. \A g \in sent[u] \ todo[u] :
              \E a \in answer'[u] : objects'[a.object] = <<u, g>>
        BY <1>4, <3>2 DEF Processed
      <4> QED
        BY <3>1, <4>1, <4>2
    <3> QED
      BY <2>2, <3>1, <3>3, <3>4 DEF Processed
  <2> QED
    BY <2>1, <2>2
<1>7. ReadWhileServing'
  BY <1>2 DEF ReadWhileServing, Serving
<1>8. RuledOnceMade'
  <2>1. phase \in Serving /\ bucket
    BY <1>2 DEF ReadWhileServing, FileTypeOK, Serving
  <2> QED
    BY <1>2, <2>1 DEF RuledOnceMade, Serving
<1> QED
  BY <1>5, <1>6, <1>7, <1>8

(* The request ends; a call that failed may have stored an object more.    *)
LEMMA EndStep ==
  ASSUME IInv, NEW u \in Uploads,
         ReceiveFails(u) \/ Refuse(u) \/ ProcessFails(u) \/ Answer(u)
  PROVE  IInv'
<1> USE DEF IInv
<1>1. /\ up[u] \in {"new", "reading"}
      /\ up' \in [Uploads -> {"new", "reading", "created", "refused", "dropped"}]
      /\ \A v \in Uploads : \/ up'[v] = up[v] \/ up'[v] = "refused"
                            \/ up'[v] = "created" /\ todo[v] = {}
      /\ UNCHANGED <<phase, epoch, bucket, rule, skipped, todo, sent, answer>>
      /\ faults' \in 0..MaxFaults
  <2>1. /\ up[u] \in {"new", "reading"}
        /\ \/ up' = [up EXCEPT ![u] = "refused"]
           \/ up' = [up EXCEPT ![u] = "created"] /\ todo[u] = {}
        /\ UNCHANGED <<phase, epoch, bucket, rule, skipped, todo, sent, answer>>
    BY DEF ReceiveFails, Refuse, ProcessFails, Answer, minioVars
  <2>2. faults' \in 0..MaxFaults
    BY FileAssumption DEF ReceiveFails, Refuse, ProcessFails, Answer, Fault, FileTypeOK
  <2>3. up \in [Uploads -> {"new", "reading", "created", "refused", "dropped"}]
    BY DEF FileTypeOK
  <2> HIDE DEF IInv
  <2>4. up' \in [Uploads -> {"new", "reading", "created", "refused", "dropped"}]
    BY <2>1, <2>3
  <2>5. \A v \in Uploads : \/ up'[v] = up[v] \/ up'[v] = "refused"
                           \/ up'[v] = "created" /\ todo[v] = {}
    BY <2>1, <2>3
  <2> QED
    BY <2>1, <2>2, <2>4, <2>5
<1>2. \/ objects' = objects
      \/ \E f \in Files : objects' = Append(objects, <<u, f>>)
  BY DEF ReceiveFails, Refuse, ProcessFails, Answer, minioVars, FileTypeOK
<1>3. /\ objects' \in Seq(Uploads \X Files)
      /\ objects' # <<>> \/ objects' = objects
      /\ DOMAIN objects \subseteq DOMAIN objects'
      /\ \A j \in DOMAIN objects : objects'[j] = objects[j]
  BY <1>2, ObjectAdded DEF FileTypeOK
<1>4. \A v \in Uploads : \A a \in answer[v] :
        a.object \in DOMAIN objects /\ objects'[a.object] = objects[a.object]
  BY <1>3 DEF FileTypeOK
<1>5. FileTypeOK'
  BY <1>1, <1>3 DEF FileTypeOK
<1>6. Processed'
  BY <1>1, <1>4 DEF Processed
<1>7. phase \in Serving
  BY DEF ReceiveFails, Refuse, ProcessFails, Answer, ReadWhileServing, Serving
<1>8. ReadWhileServing' /\ RuledOnceMade'
  BY <1>1, <1>3, <1>7 DEF ReadWhileServing, RuledOnceMade, FileTypeOK, Serving
<1> QED
  BY <1>5, <1>6, <1>8

LEMMA InvStep == IInv /\ [Next]_vars => IInv'
<1> SUFFICES ASSUME IInv, [Next]_vars PROVE IInv'
  OBVIOUS
<1>1. CASE UNCHANGED vars
  BY <1>1 DEF vars, minioVars, uploadVars, IInv, FileTypeOK, Processed,
     ReadWhileServing, RuledOnceMade
<1> QED
  BY <1>1, StartStep, ProcessStep, ReceiveStep, StoreStep, EndStep
     DEF Next, Upload

(* The invariant holds, through failed calls to minio, crashes, restarts   *)
(* and shutdowns.                                                          *)
THEOREM Invariant == Spec => []IInv
BY InvInit, InvStep, PTL DEF Spec

(* The variables keep their types: an answer only names objects that are   *)
(* there, and only a process that has found a bucket serves (newServer).   *)
THEOREM TypeCorrect == Spec => []FileTypeOK
<1>1. IInv => FileTypeOK
  BY DEF IInv
<1> QED
  BY <1>1, Invariant, PTL

(* handleUploadImage answers 201 only with all the files of the upload,    *)
(* each under its name and at an object of its own, also when base names   *)
(* collide and uploads overlap.                                            *)
THEOREM AnswersAreComplete == Spec => []AnswerComplete
<1>1. IInv => AnswerComplete
  <2> SUFFICES ASSUME IInv, NEW u \in Uploads, up[u] = "created"
               PROVE  /\ {objects[a.object] : a \in answer[u]}
                           = {<<u, f>> : f \in sent[u]}
                      /\ \A a \in answer[u] :
                           a.name = NameOf[objects[a.object][2]]
    BY DEF AnswerComplete
  <2>1. /\ sent[u] \ todo[u] = sent[u]
        /\ \A a \in answer[u] :
             /\ a.name = NameOf[objects[a.object][2]]
             /\ \E f \in sent[u] \ todo[u] : objects[a.object] = <<u, f>>
        /\ \A f \in sent[u] \ todo[u] :
             \E a \in answer[u] : objects[a.object] = <<u, f>>
    BY DEF IInv, Processed
  <2> QED
    BY <2>1
<1> QED
  BY <1>1, Invariant, PTL

(* What ArtifactsExpire misses: what is stored is under an expiry rule in  *)
(* every order of failures, crashes and restarts but those with a start    *)
(* that made the bucket and was cut short before the rule (newServer).     *)
THEOREM OnlyCutStartsKeepFiles ==
  Spec => [](objects # <<>> /\ ~skipped => rule)
<1>1. IInv => (objects # <<>> /\ ~skipped => rule)
  BY DEF IInv, RuledOnceMade
<1> QED
  BY <1>1, Invariant, PTL
=============================================================================
