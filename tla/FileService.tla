---------------------------- MODULE FileService ----------------------------
(***************************************************************************)
(* The file service (file-service/main.go): its start, which makes the     *)
(* bucket and its expiry rule, the uploads the agents send it, and its     *)
(* shutdown.  Minio is external: the bucket, the rule and the objects are  *)
(* what outlives the process.                                              *)
(***************************************************************************)
EXTENDS Integers, FiniteSets, Sequences

CONSTANTS Uploads,    \* the POST /api/v1/file/upload requests
          Files,      \* the files an upload may carry
          NameOf,     \* NameOf[f]: the base name f is sent under
          Allowed,    \* the files with an allowed mime-type
          MaxFaults,  \* bound: failed calls to minio and crashes
          MaxEpochs   \* bound: starts of the process

ASSUME FileAssumption == /\ DOMAIN NameOf = Files
                         /\ Allowed \subseteq Files
                         /\ MaxFaults \in Nat
                         /\ MaxEpochs \in Nat \ {0}

VARIABLES phase,    \* what the process is doing
          epoch,    \* how many times it was started
          bucket,   \* does the bucket exist?
          rule,     \* does it have the rule that expires its objects?
          skipped,  \* history: a start made the bucket and not the rule
          objects,  \* objects[i]: whose file the i-th object holds
          up,       \* up[u]: "new", "reading", "created", "refused", "dropped"
          todo,     \* todo[u]: the files of u not processed yet
          sent,     \* sent[u]: the files u was sent with
          answer,   \* answer[u]: [name, object] of the files processed
          faults

minioVars == <<bucket, rule, objects>>
uploadVars == <<up, todo, sent, answer>>
vars == <<phase, epoch, minioVars, skipped, uploadVars, faults>>

Serving == {"serving", "draining"}

FileTypeOK ==
  /\ phase \in {"make", "owned", "rule", "exited"} \cup Serving
  /\ epoch \in 1..MaxEpochs
  /\ {bucket, rule, skipped} \subseteq BOOLEAN
  /\ objects \in Seq(Uploads \X Files)
  /\ up \in [Uploads -> {"new", "reading", "created", "refused", "dropped"}]
  /\ todo \in [Uploads -> SUBSET Files]
  /\ sent \in [Uploads -> SUBSET Files]
  /\ answer \in [Uploads -> SUBSET [name : {NameOf[f] : f \in Files},
                                    object : DOMAIN objects]]
  /\ faults \in 0..MaxFaults
  /\ rule => bucket
  /\ phase \in {"rule"} \cup Serving => bucket

Init ==
  /\ phase = "make" /\ epoch = 1
  /\ bucket = FALSE /\ rule = FALSE /\ skipped = FALSE
  /\ objects = <<>>
  /\ up = [u \in Uploads |-> "new"]
  /\ todo = [u \in Uploads |-> {}]
  /\ sent = [u \in Uploads |-> {}]
  /\ answer = [u \in Uploads |-> {}]
  /\ faults = 0

Fault == faults < MaxFaults /\ faults' = faults + 1

-----------------------------------------------------------------------------
(* newServer                                                               *)

MakeBucket ==
  /\ phase = "make"
  /\ ~bucket
  /\ bucket' = TRUE
  /\ phase' = "rule"
  /\ UNCHANGED <<epoch, rule, skipped, objects, uploadVars, faults>>

(* An error of any kind leads to BucketExists.  The bucket is there, or the*)
(* call failed; a failed call may have been carried out.                   *)
MakeFails ==
  /\ phase = "make"
  /\ \/ bucket /\ UNCHANGED <<faults, bucket, skipped>>
     \/ Fault /\ UNCHANGED <<bucket, skipped>>
     \/ ~bucket /\ Fault /\ bucket' = TRUE /\ skipped' = TRUE
  /\ phase' = "owned"
  /\ UNCHANGED <<epoch, rule, objects, uploadVars>>

(* Mutant: a bucket that cannot be looked up is taken for an own one.      *)
BucketExistsOrError ==
  /\ phase = "owned"
  /\ phase' = "serving"
  /\ UNCHANGED <<epoch, minioVars, skipped, uploadVars, faults>>

BucketExists ==
  /\ phase = "owned"
  /\ phase' = IF bucket THEN "serving" ELSE "exited"
  /\ UNCHANGED <<epoch, minioVars, skipped, uploadVars, faults>>

SetBucketLifecycle ==
  /\ phase = "rule"
  /\ rule' = TRUE
  /\ phase' = "serving"
  /\ UNCHANGED <<epoch, bucket, skipped, objects, uploadVars, faults>>

(* The other calls of the start are fatal; the rule may have been set.     *)
ExistsFails ==
  /\ phase = "owned"
  /\ Fault
  /\ phase' = "exited"
  /\ UNCHANGED <<epoch, minioVars, skipped, uploadVars>>

LifecycleFails ==
  /\ phase = "rule"
  /\ Fault
  /\ rule' \in BOOLEAN
  /\ skipped' = (skipped \/ ~rule')
  /\ phase' = "exited"
  /\ UNCHANGED <<epoch, bucket, objects, uploadVars>>

Start == \/ MakeBucket \/ MakeFails \/ BucketExists \/ ExistsFails
         \/ SetBucketLifecycle \/ LifecycleFails

-----------------------------------------------------------------------------
(* handleUploadImage and processUploadedFile                               *)

Receive(u) ==
  /\ phase = "serving"
  /\ up[u] = "new"
  /\ \E F \in SUBSET Files :
       /\ sent' = [sent EXCEPT ![u] = F]
       /\ todo' = [todo EXCEPT ![u] = F]
  /\ up' = [up EXCEPT ![u] = "reading"]
  /\ UNCHANGED <<phase, epoch, minioVars, skipped, answer, faults>>

(* ParseMultipartForm fails: a form that is none, or ends too early.       *)
ReceiveFails(u) ==
  /\ phase = "serving"
  /\ up[u] = "new"
  /\ up' = [up EXCEPT ![u] = "refused"]
  /\ UNCHANGED <<phase, epoch, minioVars, skipped, todo, sent, answer,
                 faults>>

(* Mutant: an object is named after its file.                              *)
StoreByName(u, f) ==
  LET same == {i \in DOMAIN objects : NameOf[objects[i][2]] = NameOf[f]}
      i == IF same = {} THEN Len(objects) + 1 ELSE CHOOSE j \in same : TRUE
  IN /\ objects' = [j \in DOMAIN objects \cup {i} |->
                      IF j = i THEN <<u, f>> ELSE objects[j]]
     /\ answer' = [answer EXCEPT ![u] = @ \cup {[name |-> NameOf[f],
                                                 object |-> i]}]

(* Every object gets a name of its own, a uuid, and a presigned URL.       *)
Store(u, f) ==
  /\ objects' = Append(objects, <<u, f>>)
  /\ answer' = [answer EXCEPT ![u] = @ \cup {[name |-> NameOf[f],
                                              object |-> Len(objects) + 1]}]

(* The files come out of a Go map: in any order.                           *)
Process(u) ==
  /\ up[u] = "reading"
  /\ \E f \in todo[u] \cap Allowed :
       /\ Store(u, f)
       /\ todo' = [todo EXCEPT ![u] = @ \ {f}]
  /\ UNCHANGED <<phase, epoch, bucket, rule, skipped, up, sent, faults>>

(* The first file that is not allowed ends the request with an error; what *)
(* was stored before it stays.                                             *)
Refuse(u) ==
  /\ up[u] = "reading"
  /\ todo[u] \ Allowed # {}
  /\ up' = [up EXCEPT ![u] = "refused"]
  /\ UNCHANGED <<phase, epoch, minioVars, skipped, todo, sent, answer,
                 faults>>

(* A call to minio fails; the object may have been stored.                 *)
ProcessFails(u) ==
  /\ up[u] = "reading"
  /\ Fault
  /\ \E f \in todo[u] \cap Allowed :
       objects' \in {objects, Append(objects, <<u, f>>)}
  /\ up' = [up EXCEPT ![u] = "refused"]
  /\ UNCHANGED <<phase, epoch, bucket, rule, skipped, todo, sent,
                 answer>>

Answer(u) ==
  /\ up[u] = "reading"
  /\ todo[u] = {}
  /\ up' = [up EXCEPT ![u] = "created"]
  /\ UNCHANGED <<phase, epoch, minioVars, skipped, todo, sent, answer,
                 faults>>

Upload(u) == Process(u) \/ Refuse(u) \/ ProcessFails(u) \/ Answer(u)

-----------------------------------------------------------------------------
(* main                                                                    *)

StopSignal ==
  /\ phase = "serving"
  /\ phase' = "draining"
  /\ UNCHANGED <<epoch, minioVars, skipped, uploadVars, faults>>

Busy == {u \in Uploads : up[u] = "reading"}

(* Shutdown waits for the handlers.                                        *)
StopReturns ==
  /\ phase = "draining"
  /\ Busy = {}
  /\ phase' = "exited"
  /\ UNCHANGED <<epoch, minioVars, skipped, uploadVars, faults>>

Crash ==
  /\ phase # "exited"
  /\ Fault
  /\ phase' = "exited"
  /\ skipped' = (skipped \/ phase = "rule")
  /\ up' = [u \in Uploads |-> IF u \in Busy THEN "dropped" ELSE up[u]]
  /\ UNCHANGED <<epoch, minioVars, todo, sent, answer>>

Restart ==
  /\ phase = "exited"
  /\ epoch < MaxEpochs
  /\ epoch' = epoch + 1
  /\ phase' = "make"
  /\ UNCHANGED <<minioVars, skipped, uploadVars, faults>>

Next ==
  \/ Start \/ StopSignal \/ StopReturns \/ Crash \/ Restart
  \/ \E u \in Uploads : Receive(u) \/ ReceiveFails(u) \/ Upload(u)

Spec == Init /\ [][Next]_vars

-----------------------------------------------------------------------------
(* Properties                                                              *)

(* An upload that is answered 201 is answered with all of its files, each  *)
(* under its name and at an object that holds it and no other upload's:    *)
(* two files of the same base name, in one upload or in two, stay apart.   *)
AnswerComplete ==
  \A u \in Uploads : up[u] = "created" =>
    /\ {objects[a.object] : a \in answer[u]} = {<<u, f>> : f \in sent[u]}
    /\ \A a \in answer[u] : a.name = NameOf[objects[a.object][2]]

=============================================================================
