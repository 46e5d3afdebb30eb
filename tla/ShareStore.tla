----------------------------- MODULE ShareStore -----------------------------
(***************************************************************************)
(* Shared snippets (control-service/main.go, handleShareCreate and         *)
(* handleShareGet): creators draw a random key, look whether etcd has it   *)
(* and put their code under it when it has not, up to Attempts times.  The *)
(* look and the put are two calls, not one transaction.                    *)
(***************************************************************************)
EXTENDS Integers, FiniteSets

CONSTANTS Creators,  \* the create requests; each has its own code
          Keys,      \* the keys generateRandomString can draw
          None,      \* no code, no key
          Attempts,  \* 4: retryCount runs from 0 to 3
          MaxFaults  \* bound: failed calls to etcd

ASSUME ShareAssumption == /\ None \notin Creators \cup Keys
                          /\ Attempts \in Nat \ {0}
                          /\ MaxFaults \in Nat

VARIABLES store,   \* store[k]: whose code etcd has under k
          pc,      \* pc[c]: "idle", "draw", "put", "created" or "failed"
          key,     \* key[c]: the key c drew last
          tries,   \* tries[c]: the attempts that found their key taken
          rivals,  \* history: who may have looked while c was about to put
          faults

vars == <<store, pc, key, tries, rivals, faults>>

TypeOK ==
  /\ store \in [Keys -> Creators \cup {None}]
  /\ pc \in [Creators -> {"idle", "draw", "put", "created", "failed"}]
  /\ key \in [Creators -> Keys \cup {None}]
  /\ tries \in [Creators -> 0..Attempts]
  /\ rivals \in [Creators -> SUBSET Creators]
  /\ faults \in 0..MaxFaults

Init ==
  /\ store = [k \in Keys |-> None]
  /\ pc = [c \in Creators |-> "idle"]
  /\ key = [c \in Creators |-> None]
  /\ tries = [c \in Creators |-> 0]
  /\ rivals = [c \in Creators |-> {}]
  /\ faults = 0

(* The body is read, unless it is too long.                                *)
Submit(c) ==
  /\ pc[c] = "idle"
  /\ \E next \in {"draw", "failed"} : pc' = [pc EXCEPT ![c] = next]
  /\ UNCHANGED <<store, key, tries, rivals, faults>>

(* Those on their way to put under the same key as c, and c itself to them.*)
Meet(c, k) ==
  LET met == {d \in Creators : pc[d] = "put" /\ key[d] = k}
  IN rivals' = [d \in Creators |->
                  rivals[d] \cup IF d = c THEN met
                                 ELSE IF d \in met THEN {c} ELSE {}]

(* Mutant: the key is used without a look.                                 *)
LookNotAtAll(c) ==
  /\ pc[c] = "draw"
  /\ \E k \in Keys :
       /\ key' = [key EXCEPT ![c] = k]
       /\ pc' = [pc EXCEPT ![c] = "put"]
       /\ Meet(c, k)
  /\ UNCHANGED <<store, tries, faults>>

(* Mutant: a taken key is drawn again without counting.                    *)
LookForEver(c) ==
  /\ pc[c] = "draw"
  /\ \E k \in Keys :
       /\ key' = [key EXCEPT ![c] = k]
       /\ pc' = [pc EXCEPT ![c] = IF store[k] = None THEN "put" ELSE "draw"]
       /\ Meet(c, k)
  /\ UNCHANGED <<store, tries, faults>>

(* Mutant: the last retry is counted one too late.                         *)
LookOnceMore(c) ==
  /\ pc[c] = "draw"
  /\ \E k \in Keys :
       /\ key' = [key EXCEPT ![c] = k]
       /\ tries' = [tries EXCEPT ![c] = IF store[k] = None THEN @ ELSE @ + 1]
       /\ pc' = [pc EXCEPT ![c] = IF store[k] = None THEN "put"
                                  ELSE IF tries[c] = Attempts
                                       THEN "failed" ELSE "draw"]
       /\ Meet(c, k)
  /\ UNCHANGED <<store, faults>>

(* A key is drawn and looked up.                                           *)
Look(c) ==
  /\ pc[c] = "draw"
  /\ \E k \in Keys :
       /\ key' = [key EXCEPT ![c] = k]
       /\ IF store[k] = None
          THEN /\ pc' = [pc EXCEPT ![c] = "put"]
               /\ Meet(c, k)
               /\ UNCHANGED tries
          ELSE /\ tries' = [tries EXCEPT ![c] = @ + 1]
               /\ pc' = [pc EXCEPT ![c] = IF tries[c] + 1 = Attempts
                                          THEN "failed" ELSE "draw"]
               /\ UNCHANGED rivals
  /\ UNCHANGED <<store, faults>>

Put(c) ==
  /\ pc[c] = "put"
  /\ store' = [store EXCEPT ![key[c]] = c]
  /\ pc' = [pc EXCEPT ![c] = "created"]
  /\ UNCHANGED <<key, tries, rivals, faults>>

(* A call to etcd fails; a failed put may have been carried out.           *)
EtcdFails(c) ==
  /\ pc[c] \in {"draw", "put"}
  /\ faults < MaxFaults
  /\ faults' = faults + 1
  /\ \/ UNCHANGED store
     \/ pc[c] = "put" /\ store' = [store EXCEPT ![key[c]] = c]
  /\ pc' = [pc EXCEPT ![c] = "failed"]
  /\ UNCHANGED <<key, tries, rivals>>

Creator(c) == Look(c) \/ Put(c) \/ EtcdFails(c)

Next == \E c \in Creators : Submit(c) \/ Creator(c)

Spec == Init /\ [][Next]_vars

FairSpec == Spec /\ \A c \in Creators : WF_vars(Creator(c))

-----------------------------------------------------------------------------
(* What GET /service/control/share/get/:id answers for the key of c.       *)
Served(c) == store[key[c]]

(* A snippet that was given a link is served under it unchanged, unless    *)
(* another creator looked at the same key before it was put: the look      *)
(* protects every snippet that is already there, whatever etcd calls fail. *)
LostOnlyToRival ==
  \A c \in Creators :
    pc[c] = "created" => Served(c) = c \/ Served(c) \in rivals[c]

(* Every create request is answered after at most Attempts draws.          *)
CreateEnds == \A c \in Creators :
                pc[c] = "draw" ~> pc[c] \in {"created", "failed"}
=============================================================================
