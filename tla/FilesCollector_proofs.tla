----------------------- MODULE FilesCollector_proofs -----------------------
(***************************************************************************)
(* Theorems about the collector of a run's files, for any tree of names,   *)
(* any ignore patterns and any number of files: what it can miss, what it  *)
(* never lists, and when Collect and the upload can fail.                  *)
(***************************************************************************)
EXTENDS FilesCollector, TLAPS

USE TreeAssumption

-----------------------------------------------------------------------------
(* Sequences, as the sets of their members.                                *)

LEMMA AppendMembers ==
  ASSUME NEW S, NEW s \in Seq(S), NEW x \in S
  PROVE  /\ Append(s, x) \in Seq(S) /\ Len(Append(s, x)) = Len(s) + 1
         /\ {Append(s, x)[i] : i \in DOMAIN Append(s, x)}
              = {s[i] : i \in DOMAIN s} \cup {x}
<1> DEFINE t == Append(s, x)
<1>1. /\ t \in Seq(S) /\ Len(t) = Len(s) + 1 /\ Len(s) \in Nat
      /\ DOMAIN t = 1..(Len(s) + 1) /\ DOMAIN s = 1..Len(s)
      /\ \A i \in 1..Len(s) : t[i] = s[i]
      /\ t[Len(s) + 1] = x
  OBVIOUS
<1>2. ASSUME NEW i \in DOMAIN s PROVE \E j \in DOMAIN t : t[j] = s[i]
  BY <1>1
<1>3. \E j \in DOMAIN t : t[j] = x
  BY <1>1
<1>4. ASSUME NEW j \in DOMAIN t
      PROVE  t[j] = x \/ \E i \in DOMAIN s : s[i] = t[j]
  BY <1>1
<1> HIDE DEF t
<1>5. {t[i] : i \in DOMAIN t} = {s[i] : i \in DOMAIN s} \cup {x}
  BY <1>2, <1>3, <1>4
<1> QED
  BY <1>1, <1>5 DEF t

LEMMA TailMembers ==
  ASSUME NEW S, NEW s \in Seq(S), s # <<>>
  PROVE  /\ Head(s) \in S /\ Tail(s) \in Seq(S) /\ Len(Tail(s)) = Len(s) - 1
         /\ {s[i] : i \in DOMAIN s}
              = {Tail(s)[i] : i \in DOMAIN Tail(s)} \cup {Head(s)}
<1> DEFINE t == Tail(s)
<1>1. /\ Head(s) \in S /\ t \in Seq(S) /\ Len(t) = Len(s) - 1 /\ Len(s) \in Nat
      /\ Len(s) # 0 /\ DOMAIN t = 1..(Len(s) - 1) /\ DOMAIN s = 1..Len(s)
      /\ \A i \in DOMAIN t : t[i] = s[i + 1]
      /\ Head(s) = s[1]
  OBVIOUS
<1>2. ASSUME NEW i \in DOMAIN s
      PROVE  s[i] = Head(s) \/ \E j \in DOMAIN t : t[j] = s[i]
  <2>1. CASE i = 1
    BY <1>1, <2>1
  <2>2. CASE i # 1
    <3>1. i - 1 \in DOMAIN t /\ t[i - 1] = s[i]
      BY <1>1, <2>2
    <3> QED
      BY <3>1
  <2> QED
    BY <2>1, <2>2
<1>3. ASSUME NEW j \in DOMAIN t PROVE \E i \in DOMAIN s : s[i] = t[j]
  <2>1. j + 1 \in DOMAIN s /\ s[j + 1] = t[j]
    BY <1>1
  <2> QED
    BY <2>1
<1>4. \E i \in DOMAIN s : s[i] = Head(s)
  BY <1>1
<1> HIDE DEF t
<1>5. {s[i] : i \in DOMAIN s} = {t[i] : i \in DOMAIN t} \cup {Head(s)}
  BY <1>2, <1>3, <1>4
<1> QED
  BY <1>1, <1>5 DEF t

(* The next event, and what is left after it.                              *)
LEMMA NextEvent ==
  ASSUME FilesTypeOK, events # <<>>, events' = Tail(events)
  PROVE  /\ Head(events) \in Paths /\ events' \in Seq(Paths)
         /\ Len(events') = Len(events) - 1 /\ Len(events) \in Nat
         /\ InOrder = InOrder' \cup {Head(events)}
<1>1. events \in Seq(Paths)
  BY DEF FilesTypeOK
<1> QED
  <2>1. /\ Head(events) \in Paths /\ Tail(events) \in Seq(Paths)
        /\ Len(Tail(events)) = Len(events) - 1
        /\ {events[i] : i \in DOMAIN events}
             = {Tail(events)[i] : i \in DOMAIN Tail(events)} \cup {Head(events)}
    BY <1>1, TailMembers
  <2>2. Len(events) \in Nat
    BY <1>1
  <2> QED
    BY <2>1, <2>2 DEF InOrder

LEMMA NewEvent ==
  ASSUME FilesTypeOK, NEW p \in Paths, events' = Append(events, p)
  PROVE  /\ events' \in Seq(Paths) /\ Len(events') = Len(events) + 1
         /\ Len(events) \in Nat /\ InOrder' = InOrder \cup {p}
<1>1. events \in Seq(Paths)
  BY DEF FilesTypeOK
<1> QED
  BY <1>1, AppendMembers DEF InOrder

LEMMA NewFile ==
  ASSUME FilesTypeOK, NEW f \in Files, files' = Append(files, f)
  PROVE  /\ files' \in Seq(Files) /\ Len(files') = Len(files) + 1
         /\ Len(files) \in Nat /\ Found' = Found \cup {f}
<1>1. files \in Seq(Files)
  BY DEF FilesTypeOK
<1> QED
  BY <1>1, AppendMembers DEF Found

-----------------------------------------------------------------------------
LEMMA TypeInit == Init => FilesTypeOK
BY DEF Init, FilesTypeOK

LEMMA TypeStep == FilesTypeOK /\ [Next]_vars => FilesTypeOK'
<1> SUFFICES ASSUME FilesTypeOK, [Next]_vars PROVE FilesTypeOK'
  OBVIOUS
<1> USE DEF FilesTypeOK
<1>1. ASSUME NEW p \in Paths, Create(p) PROVE FilesTypeOK'
  <2>1. events' \in Seq(Paths)
    BY <1>1, NewEvent DEF Create
  <2>2. creates' \in 0..MaxCreates
    BY <1>1 DEF Create
  <2> QED
    BY <1>1, <2>1, <2>2 DEF Create
<1>2. ASSUME NEW p \in Paths, Delete(p) PROVE FilesTypeOK'
  BY <1>2 DEF Delete
<1>3. CASE Exit
  BY <1>3 DEF Exit, treeVars
<1>4. CASE Consume
  <2>1. Head(events) \in Paths /\ events' \in Seq(Paths)
    BY <1>4, NextEvent DEF Consume
  <2>2. watched' \subseteq Dirs \cup {Root} /\ watch' \in {"select", "returned"}
    BY <1>4 DEF Consume, HandleCreate
  <2>3. files' \in Seq(Files)
    BY <1>4, NewFile DEF Consume, HandleCreate
  <2> QED
    BY <1>4, <2>1, <2>2, <2>3 DEF Consume, treeVars
<1>5. CASE Returns
  BY <1>5 DEF Returns, treeVars
<1>6. CASE CollectDone
  BY <1>6 DEF CollectDone, treeVars
<1>7. CASE Upload
  BY <1>7 DEF Upload, treeVars
<1>8. CASE UNCHANGED vars
  BY <1>8 DEF vars, treeVars
<1> QED
  BY <1>1, <1>2, <1>3, <1>4, <1>5, <1>6, <1>7, <1>8 DEF Next

(* Every variable keeps its type: events name paths and files are files.   *)
THEOREM TypeCorrect == Spec => []FilesTypeOK
BY TypeInit, TypeStep, PTL DEF Spec

-----------------------------------------------------------------------------
(* Once ExecCommand has collected the program has ended and watch() has    *)
(* returned: nothing changes any more what the answer lists or lacks.      *)
Settled ==
  /\ agent # "running" => program # "running"
  /\ agent \in {"uploading", "replied", "refused", "missing"}
       => watch = "returned"

LEMMA AnswersAreSettled == Spec => []Settled
<1>1. Init => Settled
  BY DEF Init, Settled
<1>2. Settled /\ [Next]_vars => Settled'
  <2> SUFFICES ASSUME Settled, [Next]_vars PROVE Settled'
    OBVIOUS
  <2>1. ASSUME NEW p \in Paths, Create(p) \/ Delete(p) PROVE Settled'
    BY <2>1 DEF Create, Delete, Settled
  <2>2. CASE Consume
    BY <2>2 DEF Consume, HandleCreate, Settled
  <2>3. CASE Exit \/ Returns \/ CollectDone \/ Upload \/ UNCHANGED vars
    BY <2>3 DEF Exit, Returns, CollectDone, Upload, vars, treeVars, Settled
  <2> QED
    BY <2>1, <2>2, <2>3 DEF Next
<1> QED
  BY <1>1, <1>2, PTL DEF Spec

(* While watch() runs, what it can miss are the files of a directory that  *)
(* it was given too late: every other file has its event or is collected,  *)
(* whatever the program creates and deletes and however slow watch() is.   *)
(* The files an answer lacks are those, and those of the events that the   *)
(* select of watch() left when it took the other arm.                      *)
THEOREM OnlyTheRaceMisses == Spec => []MissedOnlyByRace
<1>1. Init => MissedOnlyByRace
  BY DEF Init, MissedOnlyByRace, Wanted
<1>2. FilesTypeOK /\ Settled /\ MissedOnlyByRace /\ [Next]_vars
        => MissedOnlyByRace'
  <2> SUFFICES ASSUME FilesTypeOK, Settled, MissedOnlyByRace, [Next]_vars,
                      \/ watch' = "select"
                      \/ agent' \in {"uploading", "replied", "refused",
                                     "missing"}
               PROVE  Wanted' \subseteq (Found \cup InOrder \cup unseen)'
    BY DEF MissedOnlyByRace
  <2>1. ASSUME NEW p \in Paths, Create(p)
        PROVE  Wanted' \subseteq (Found \cup InOrder \cup unseen)'
    <3>1. /\ Wanted' \subseteq Wanted \cup {p} /\ Found' = Found
          /\ watch = "select"
      BY <2>1 DEF Create, Wanted, Found, Settled
    <3>2. CASE Parent[p] \in watched
      <4>1. InOrder' = InOrder \cup {p} /\ unseen' = unseen
        BY <2>1, <3>2, NewEvent DEF Create
      <4> QED
        BY <3>1, <4>1 DEF MissedOnlyByRace
    <3>3. CASE Parent[p] \notin watched
      <4>1. InOrder' = InOrder /\ unseen' = unseen \cup {p}
        BY <2>1, <3>3 DEF Create, InOrder
      <4> QED
        BY <3>1, <4>1 DEF MissedOnlyByRace
    <3> QED
      BY <3>2, <3>3
  <2>2. ASSUME NEW p \in Paths, Delete(p)
        PROVE  Wanted' \subseteq (Found \cup InOrder \cup unseen)'
    <3>1. /\ Wanted' = Wanted \ {p} /\ unseen' = unseen \ {p}
          /\ Found' = Found /\ InOrder' = InOrder /\ watch = "select"
      BY <2>2 DEF Delete, Wanted, Found, InOrder, Settled
    <3> QED
      BY <3>1 DEF MissedOnlyByRace
  <2>3. CASE Consume
    <3> DEFINE p == Head(events)
    <3>1. /\ watch = "select" /\ HandleCreate(p)
          /\ Wanted' = Wanted /\ unseen' = unseen
      BY <2>3 DEF Consume, treeVars, Wanted
    <3>2. InOrder = InOrder' \cup {p} /\ p \in Paths
      BY <2>3, NextEvent DEF Consume
    <3>3. Wanted \subseteq Found \cup InOrder' \cup {p} \cup unseen
      BY <3>1, <3>2 DEF MissedOnlyByRace
    <3>4. CASE p \in Wanted
      <4>1. p \in (Files \cap exists) \ Ignored /\ p \notin Dirs
        BY <3>4 DEF Wanted
      <4>2. files' = Append(files, p)
        BY <3>1, <4>1 DEF HandleCreate
      <4>3. Found' = Found \cup {p}
        BY <4>1, <4>2, NewFile
      <4> QED
        BY <3>1, <3>3, <4>3
    <3>5. CASE p \notin Wanted
      <4>1. Found \subseteq Found'
        <5>1. CASE files' = files
          BY <5>1 DEF Found
        <5>2. CASE p \in Files /\ files' = Append(files, p)
          BY <5>2, NewFile
        <5> QED
          BY <3>1, <5>1, <5>2 DEF HandleCreate
      <4> QED
        BY <3>1, <3>3, <3>5, <4>1
    <3> QED
      BY <3>4, <3>5
  <2>4. CASE Exit \/ Returns \/ CollectDone \/ Upload \/ UNCHANGED vars
    <3>1. UNCHANGED <<exists, files, events, unseen>>
      BY <2>4 DEF Exit, Returns, CollectDone, Upload, vars, treeVars
    <3>2. \/ watch = "select"
          \/ agent \in {"uploading", "replied", "refused", "missing"}
      BY <2>4 DEF Exit, Returns, CollectDone, Upload, vars, treeVars
    <3> QED
      BY <3>1, <3>2 DEF MissedOnlyByRace, Wanted, Found, InOrder
  <2> QED
    BY <2>1, <2>2, <2>3, <2>4 DEF Next
<1> QED
  BY <1>1, <1>2, AnswersAreSettled, TypeCorrect, PTL DEF Spec

(* Suppose watch() were stopped only when no event waits, the one thing    *)
(* the select of watch() does not see to.  Then a run's answer would lack  *)
(* no file but those of a directory the watcher was given too late: the    *)
(* other arm of the select is the one other cause of a file that is lost.  *)
THEOREM DrainedRunsLoseNothing ==
  Spec /\ [][CollectDone => events = <<>>]_vars
    => [](agent = "replied" => Wanted \subseteq Found \cup unseen)
<1> DEFINE Drained ==
      agent \in {"uploading", "replied", "refused", "missing"} => events = <<>>
<1>1. Init => Drained
  BY DEF Init
<1>2. /\ Settled /\ Drained /\ [Next]_vars
      /\ [CollectDone => events = <<>>]_vars
      => Drained'
  <2> SUFFICES ASSUME Settled, Drained, [Next]_vars,
                      [CollectDone => events = <<>>]_vars
               PROVE  Drained'
    OBVIOUS
  <2>1. ASSUME NEW p \in Paths, Create(p) \/ Delete(p) PROVE Drained'
    BY <2>1 DEF Create, Delete, Settled
  <2>2. CASE Consume
    BY <2>2 DEF Consume, Settled
  <2>3. CASE CollectDone
    <3>1. events = <<>> /\ events' = events
      BY <2>3 DEF CollectDone, vars
    <3> QED
      BY <3>1
  <2>4. CASE Exit \/ Returns \/ Upload \/ UNCHANGED vars
    BY <2>4 DEF Exit, Returns, Upload, vars, treeVars
  <2> QED
    BY <2>1, <2>2, <2>3, <2>4 DEF Next
<1>3. MissedOnlyByRace /\ Drained
      => (agent = "replied" => Wanted \subseteq Found \cup unseen)
  BY DEF MissedOnlyByRace, InOrder
<1> QED
  BY <1>1, <1>2, <1>3, OnlyTheRaceMisses, AnswersAreSettled, PTL DEF Spec

-----------------------------------------------------------------------------
(* No file of an ignored name is listed, and none is listed twice for one  *)
(* creation: an event is consumed once, and adds one file at most.         *)
THEOREM CollectsOnce == Spec => []CollectedOnce
<1>1. Init => CollectedOnce
  BY DEF Init, CollectedOnce, Found
<1>2. FilesTypeOK /\ CollectedOnce /\ [Next]_vars => CollectedOnce'
  <2> SUFFICES ASSUME FilesTypeOK, CollectedOnce, [Next]_vars
               PROVE  CollectedOnce'
    OBVIOUS
  <2>0. creates \in Nat /\ Len(files) \in Nat /\ Len(events) \in Nat
    BY DEF FilesTypeOK
  <2>1. ASSUME NEW p \in Paths, Create(p) PROVE CollectedOnce'
    <3>1. creates' = creates + 1 /\ files' = files /\ Found' = Found
      BY <2>1 DEF Create, Found
    <3>2. Len(events') \in Nat /\ Len(events') <= Len(events) + 1
      <4>1. CASE events' = Append(events, p)
        BY <4>1, <2>0, NewEvent
      <4>2. CASE events' = events
        BY <4>2, <2>0
      <4> QED
        BY <2>1, <4>1, <4>2 DEF Create
    <3> QED
      BY <2>0, <3>1, <3>2 DEF CollectedOnce
  <2>2. CASE Consume
    <3> DEFINE p == Head(events)
    <3>1. Len(events') = Len(events) - 1 /\ p \in Paths /\ creates' = creates
      BY <2>2, NextEvent DEF Consume, treeVars
    <3>2. CASE files' = files
      BY <2>0, <3>1, <3>2 DEF CollectedOnce, Found
    <3>3. CASE p \in Files \ Ignored /\ files' = Append(files, p)
      <4>1. Len(files') = Len(files) + 1 /\ Found' = Found \cup {p}
        BY <3>3, NewFile
      <4> QED
        BY <2>0, <3>1, <3>3, <4>1 DEF CollectedOnce
    <3> QED
      BY <2>2, <3>2, <3>3 DEF Consume, HandleCreate
  <2>3. CASE UNCHANGED <<files, events, creates>>
    BY <2>3 DEF CollectedOnce, Found
  <2> QED
    BY <2>1, <2>2, <2>3 DEF Next, Delete, Exit, Returns, CollectDone, Upload,
       vars, treeVars
<1> QED
  BY <1>1, <1>2, TypeInit, TypeStep, PTL DEF Spec

-----------------------------------------------------------------------------
(* A program that deletes nothing leaves every name with an event, and     *)
(* every collected file, where they are.                                   *)
Lasting ==
  deletes = 0 => /\ InOrder \cup Found \subseteq exists
                 /\ watch = "returned" => agent \notin {"running", "collecting"}
                 /\ agent # "missing"

(* The send of Collect waits for ever for watch(), and a collected file    *)
(* cannot be opened, only when the program has deleted something: the part *)
(* of RepliesUnlessDeleted that needs no fairness.                         *)
THEOREM OnlyDeletesHurt ==
  Spec => [](\/ agent = "missing"
             \/ watch = "returned" /\ agent \in {"running", "collecting"}
             => deletes # 0)
<1>1. Init => Lasting
  BY DEF Init, Lasting, InOrder, Found
<1>2. FilesTypeOK /\ Lasting /\ [Next]_vars => Lasting'
  <2> SUFFICES ASSUME FilesTypeOK, Lasting, [Next]_vars, deletes' = 0
               PROVE  Lasting'
    BY DEF Lasting
  <2>0. deletes \in Nat
    BY DEF FilesTypeOK
  <2>1. ASSUME NEW p \in Paths, Create(p) PROVE Lasting'
    <3>1. /\ deletes = 0 /\ exists' = exists \cup {p} /\ Found' = Found
          /\ UNCHANGED <<watch, agent>>
      BY <2>1 DEF Create, Found
    <3>2. InOrder' \subseteq InOrder \cup {p}
      <4>1. CASE events' = Append(events, p)
        BY <4>1, NewEvent
      <4>2. CASE events' = events
        BY <4>2 DEF InOrder
      <4> QED
        BY <2>1, <4>1, <4>2 DEF Create
    <3> QED
      BY <3>1, <3>2 DEF Lasting
  <2>2. ASSUME NEW p \in Paths, Delete(p) PROVE Lasting'
    BY <2>0, <2>2 DEF Delete
  <2>3. CASE Consume
    <3> DEFINE p == Head(events)
    <3>1. /\ deletes = 0 /\ exists' = exists /\ agent' = agent
          /\ watch = "select" /\ HandleCreate(p)
      BY <2>3 DEF Consume, treeVars
    <3>2. InOrder = InOrder' \cup {p} /\ p \in Paths
      BY <2>3, NextEvent DEF Consume
    <3>3. p \in exists
      BY <3>1, <3>2 DEF Lasting
    <3>4. watch' = watch
      BY <3>1, <3>3 DEF HandleCreate
    <3>5. CASE files' = files
      BY <3>1, <3>2, <3>4, <3>5 DEF Lasting, Found
    <3>6. CASE p \in Files /\ files' = Append(files, p)
      <4>1. Found' = Found \cup {p}
        BY <3>6, NewFile
      <4> QED
        BY <3>1, <3>2, <3>3, <3>4, <4>1 DEF Lasting
    <3> QED
      BY <3>1, <3>5, <3>6 DEF HandleCreate
  <2>4. CASE Exit \/ Returns \/ CollectDone \/ Upload \/ UNCHANGED vars
    <3>1. UNCHANGED <<exists, deletes, files, events>>
      BY <2>4 DEF Exit, Returns, CollectDone, Upload, vars, treeVars
    <3>2. InOrder' = InOrder /\ Found' = Found
      BY <3>1 DEF InOrder, Found
    <3> QED
      BY <2>4, <3>1, <3>2 DEF Lasting, Exit, Returns, CollectDone, Upload,
         vars, treeVars
  <2> QED
    BY <2>1, <2>2, <2>3, <2>4 DEF Next
<1>3. Lasting => (\/ agent = "missing"
                  \/ watch = "returned" /\ agent \in {"running", "collecting"}
                  => deletes # 0)
  BY DEF Lasting
<1> QED
  BY <1>1, <1>2, <1>3, TypeInit, TypeStep, PTL DEF Spec
=============================================================================
