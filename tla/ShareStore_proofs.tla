-------------------------- MODULE ShareStore_proofs --------------------------
(***************************************************************************)
(* Proofs about ShareStore: whose code a link can come to show, for any    *)
(* number of creators and keys, any number of attempts and any failures.   *)
(***************************************************************************)
EXTENDS ShareStore, TLAPS

USE ShareAssumption

(* What a creator has drawn and counted by where it is.                    *)
Drawn ==
  \A c \in Creators :
    /\ pc[c] \in {"idle", "draw"} => tries[c] < Attempts
    /\ pc[c] \in {"put", "created"} => key[c] \in Keys

(* A key that was acknowledged is taken, so nobody looks past it any more. *)
Taken ==
  \A c \in Creators : pc[c] = "created" => store[key[c]] # None

(* Two creators about to put under one key know of each other; so does one *)
(* that has put of any that is still about to.                             *)
Met ==
  \A c, d \in Creators :
    /\ c # d /\ key[c] = key[d]
    /\ pc[c] \in {"put", "created"} /\ pc[d] = "put"
    => d \in rivals[c]

IInv == TypeOK /\ Drawn /\ Taken /\ Met /\ LostOnlyToRival

-----------------------------------------------------------------------------
LEMMA InvInit == Init => IInv
<1> SUFFICES ASSUME Init PROVE IInv
  OBVIOUS
<1>1. TypeOK
  BY DEF Init, TypeOK
<1>2. \A c \in Creators : pc[c] = "idle" /\ tries[c] = 0
  BY DEF Init
<1> QED
  BY <1>1, <1>2 DEF IInv, Drawn, Taken, Met, LostOnlyToRival

(* Those who meet get to know each other; nobody is forgotten.             *)
LEMMA MeetRivals ==
  ASSUME TypeOK, NEW c \in Creators, NEW k, Meet(c, k)
  PROVE  /\ rivals' \in [Creators -> SUBSET Creators]
         /\ \A d \in Creators : rivals[d] \subseteq rivals'[d]
         /\ \A d \in Creators : pc[d] = "put" /\ key[d] = k
              => d \in rivals'[c] /\ (d # c => c \in rivals'[d])
<1> DEFINE met == {d \in Creators : pc[d] = "put" /\ key[d] = k}
<1>1. rivals' = [d \in Creators |->
                  rivals[d] \cup IF d = c THEN met
                                 ELSE IF d \in met THEN {c} ELSE {}]
  BY DEF Meet
<1>2. \A d \in Creators : rivals[d] \subseteq Creators
  BY DEF TypeOK
<1>3. rivals' \in [Creators -> SUBSET Creators]
  BY <1>1, <1>2
<1> QED
  BY <1>1, <1>3

(* A draw that finds its key free, or taken.                               *)
LEMMA LookStep ==
  ASSUME IInv, NEW c \in Creators, Look(c)
  PROVE  IInv'
<1> USE DEF IInv, TypeOK, Drawn
<1>1. PICK k \in Keys :
        /\ key' = [key EXCEPT ![c] = k]
        /\ IF store[k] = None
           THEN /\ pc' = [pc EXCEPT ![c] = "put"]
                /\ Meet(c, k)
                /\ UNCHANGED tries
           ELSE /\ tries' = [tries EXCEPT ![c] = @ + 1]
                /\ pc' = [pc EXCEPT ![c] = IF tries[c] + 1 = Attempts
                                           THEN "failed" ELSE "draw"]
                /\ UNCHANGED rivals
  BY DEF Look
<1>2. pc[c] = "draw" /\ UNCHANGED <<store, faults>>
  BY DEF Look
<1>3. \A d \in Creators \ {c} : pc'[d] = pc[d] /\ key'[d] = key[d]
                                /\ tries'[d] = tries[d]
  BY <1>1
<1>4. CASE store[k] = None
  <2>1. /\ key'[c] = k /\ pc'[c] = "put" /\ tries' = tries
        /\ pc' \in [Creators -> {"idle", "draw", "put", "created", "failed"}]
        /\ key' \in [Creators -> Keys \cup {None}]
    BY <1>1, <1>4
  <2>2. /\ rivals' \in [Creators -> SUBSET Creators]
        /\ \A d \in Creators : rivals[d] \subseteq rivals'[d]
        /\ \A d \in Creators : pc[d] = "put" /\ key[d] = k
              => d \in rivals'[c] /\ (d # c => c \in rivals'[d])
    BY <1>1, <1>4, MeetRivals
  <2>3. TypeOK' /\ Drawn' /\ Taken'
    BY <1>2, <1>3, <2>1, <2>2 DEF Taken
  <2>4. Met'
    BY <1>2, <1>3, <1>4, <2>1, <2>2 DEF Met, Taken
  <2>5. LostOnlyToRival'
    BY <1>2, <1>3, <2>1, <2>2 DEF LostOnlyToRival, Served
  <2> QED
    BY <2>3, <2>4, <2>5
<1>5. CASE store[k] # None
  <2>1. /\ pc'[c] \in {"draw", "failed"} /\ rivals' = rivals
        /\ tries' = [tries EXCEPT ![c] = @ + 1]
        /\ pc'[c] = "draw" => tries[c] + 1 # Attempts
        /\ pc' \in [Creators -> {"idle", "draw", "put", "created", "failed"}]
        /\ key' \in [Creators -> Keys \cup {None}]
    BY <1>1, <1>5
  <2>2. tries[c] \in 0..Attempts /\ tries[c] < Attempts
    BY <1>2
  <2>3. tries' \in [Creators -> 0..Attempts]
    BY <2>1, <2>2
  <2>4. pc'[c] = "draw" => tries'[c] < Attempts
    <3>1. tries'[c] = tries[c] + 1
      BY <2>1
    <3>2. tries[c] \in Nat /\ Attempts \in Nat
      BY <2>2, ShareAssumption
    <3> HIDE DEF IInv
    <3> QED
      BY <2>1, <2>2, <3>1, <3>2
  <2>5. TypeOK'
    <3>1. /\ store \in [Keys -> Creators \cup {None}]
          /\ rivals \in [Creators -> SUBSET Creators]
          /\ faults \in 0..MaxFaults
      OBVIOUS
    <3> HIDE DEF IInv
    <3> QED
      BY <1>2, <2>1, <2>3, <3>1
  <2>7. Drawn'
    <3> SUFFICES ASSUME NEW d \in Creators
                 PROVE  /\ pc'[d] \in {"idle", "draw"} => tries'[d] < Attempts
                        /\ pc'[d] \in {"put", "created"} => key'[d] \in Keys
      OBVIOUS
    <3>1. CASE d = c
      BY <2>1, <2>4, <3>1
    <3>2. CASE d # c
      BY <1>3, <3>2
    <3> QED
      BY <3>1, <3>2
  <2>8. Taken'
    BY <1>2, <1>3, <2>1 DEF Taken
  <2>6. Met' /\ LostOnlyToRival'
    BY <1>2, <1>3, <2>1 DEF Met, LostOnlyToRival, Served
  <2> QED
    BY <2>5, <2>6, <2>7, <2>8
<1> QED
  BY <1>4, <1>5

(* What is stored under a key of c is c's, or of one that c knows of.      *)
LEMMA PutStep ==
  ASSUME IInv, NEW c \in Creators, pc[c] = "put",
         store' = [store EXCEPT ![key[c]] = c],
         pc' = [pc EXCEPT ![c] = "created"] \/ pc' = [pc EXCEPT ![c] = "failed"],
         UNCHANGED <<key, tries, rivals>>, faults' \in 0..MaxFaults
  PROVE  IInv'
<1> USE DEF IInv
<1>1. /\ key[c] \in Keys /\ store' \in [Keys -> Creators \cup {None}]
      /\ \A k \in Keys : store'[k] = IF k = key[c] THEN c ELSE store[k]
  BY DEF TypeOK, Drawn
<1>2. /\ \A d \in Creators \ {c} : pc'[d] = pc[d]
      /\ pc'[c] \in {"created", "failed"}
      /\ pc' \in [Creators -> {"idle", "draw", "put", "created", "failed"}]
  BY DEF TypeOK
<1>3. TypeOK' /\ Drawn'
  BY <1>1, <1>2 DEF TypeOK, Drawn
<1>4. Taken'
  BY <1>1, <1>2 DEF Taken, Drawn
<1>5. Met'
  BY <1>2 DEF Met
<1>6. LostOnlyToRival'
  <2> SUFFICES ASSUME NEW d \in Creators, pc'[d] = "created"
               PROVE  store'[key[d]] = d \/ store'[key[d]] \in rivals[d]
    BY DEF LostOnlyToRival, Served
  <2>1. CASE d = c
    BY <1>1, <2>1
  <2>2. CASE d # c /\ key[d] = key[c]
    BY <1>1, <1>2, <2>2 DEF Met
  <2>3. CASE key[d] # key[c]
    BY <1>1, <1>2, <2>3 DEF LostOnlyToRival, Served, Drawn
  <2> QED
    BY <2>1, <2>2, <2>3
<1> QED
  BY <1>3, <1>4, <1>5, <1>6

(* Steps after which nothing is stored and nobody is closer to a put.      *)
LEMMA QuietStep ==
  ASSUME IInv, NEW c \in Creators, UNCHANGED <<store, key, tries, rivals>>,
         \/ pc[c] = "idle" /\ pc' = [pc EXCEPT ![c] = "draw"]
         \/ pc' = [pc EXCEPT ![c] = "failed"],
         faults' \in 0..MaxFaults
  PROVE  IInv'
<1> USE DEF IInv
<1>1. /\ \A d \in Creators \ {c} : pc'[d] = pc[d]
      /\ pc'[c] = "failed" \/ (pc[c] = "idle" /\ pc'[c] = "draw")
      /\ pc' \in [Creators -> {"idle", "draw", "put", "created", "failed"}]
  BY DEF TypeOK
<1>2. TypeOK' /\ Drawn' /\ Taken'
  BY <1>1 DEF TypeOK, Drawn, Taken
<1>3. Met' /\ LostOnlyToRival'
  BY <1>1 DEF Met, LostOnlyToRival, Served
<1> QED
  BY <1>2, <1>3

LEMMA InvStep == IInv /\ [Next]_vars => IInv'
<1> SUFFICES ASSUME IInv, [Next]_vars PROVE IInv'
  OBVIOUS
<1>0. faults \in 0..MaxFaults /\ (faults < MaxFaults => faults + 1 \in 0..MaxFaults)
  BY DEF IInv, TypeOK
<1>1. ASSUME NEW c \in Creators, Submit(c) PROVE IInv'
  BY <1>0, <1>1, QuietStep DEF Submit
<1>2. ASSUME NEW c \in Creators, Put(c) PROVE IInv'
  BY <1>0, <1>2, PutStep DEF Put
<1>3. ASSUME NEW c \in Creators, EtcdFails(c) PROVE IInv'
  <2>1. CASE UNCHANGED store
    BY <1>0, <1>3, <2>1, QuietStep DEF EtcdFails
  <2>2. CASE pc[c] = "put" /\ store' = [store EXCEPT ![key[c]] = c]
    BY <1>0, <1>3, <2>2, PutStep DEF EtcdFails
  <2> QED
    BY <1>3, <2>1, <2>2 DEF EtcdFails
<1>4. CASE UNCHANGED vars
  BY <1>4 DEF vars, IInv, TypeOK, Drawn, Taken, Met, LostOnlyToRival, Served
<1> QED
  BY <1>1, <1>2, <1>3, <1>4, LookStep DEF Next, Creator

(* The variables keep their types; what carries it is that a creator still *)
(* drawing has an attempt left (retryCount in handleShareCreate).          *)
THEOREM TypeCorrect == Spec => []TypeOK
<1>1. IInv => TypeOK
  BY DEF IInv
<1> QED
  BY <1>1, InvInit, InvStep, PTL DEF Spec

(* A snippet whose link was given out is only ever replaced by a creator   *)
(* who looked at the same random key before it was put (handleShareCreate  *)
(* looks and puts in two calls); a key once taken stays so.                *)
THEOREM SnippetsAreLostOnlyToRivals == Spec => []LostOnlyToRival
<1>1. IInv => LostOnlyToRival
  BY DEF IInv
<1> QED
  BY <1>1, InvInit, InvStep, PTL DEF Spec
=============================================================================
