--------------------------- MODULE FilesCollector ---------------------------
(***************************************************************************)
(* The collector of the files a run creates (internal/worker/files.go) and *)
(* ExecCommand, which starts it, runs the user's program and collects, up  *)
(* to the upload of what was collected (internal/worker/worker.go).        *)
(*                                                                         *)
(* Three processes: the user's program, which creates and deletes files    *)
(* and directories; the goroutine watch(), which consumes the events of    *)
(* the directories it watches; and the agent's own goroutine.              *)
(***************************************************************************)
EXTENDS Integers, FiniteSets, Sequences

CONSTANTS Root,       \* the working directory of the run
          Dirs,       \* names of directories the program may create
          Files,      \* names of files the program may create
          Parent,     \* Parent[p]: the directory of the name p
          Ignored,    \* the names that match an ignore pattern
          Allowed,    \* the files of a type the file service takes
          MaxCreates, \* bound: how often the program creates a name
          MaxDeletes  \* bound: how often it deletes one

Paths == Dirs \cup Files

ASSUME TreeAssumption ==
  /\ Root \notin Paths
  /\ Dirs \cap Files = {}
  /\ Parent \in [Paths -> Dirs \cup {Root}]
  /\ Ignored \subseteq Paths /\ Allowed \subseteq Files
  /\ MaxCreates \in Nat /\ MaxDeletes \in Nat

VARIABLES exists,   \* the names that exist now
          creates,  \* how many creations there were
          deletes,  \* how many deletions
          unseen,   \* history: names created in a directory not watched then
          program,  \* the user's program: "running", "ok" or "failed"
          watched,  \* the directories the watcher has been given
          events,   \* create events not consumed, in order
          watch,    \* the goroutine watch(): "select" or "returned"
          files,    \* filesCollector.files
          agent     \* what ExecCommand and the upload after it are doing

treeVars == <<exists, creates, deletes, unseen>>
vars == <<treeVars, program, watched, events, watch, files, agent>>

InOrder == {events[i] : i \in DOMAIN events}
Found == {files[i] : i \in DOMAIN files}

FilesTypeOK ==
  /\ exists \subseteq Paths
  /\ creates \in 0..MaxCreates /\ deletes \in 0..MaxDeletes
  /\ unseen \subseteq Paths
  /\ program \in {"running", "ok", "failed"}
  /\ watched \subseteq Dirs \cup {Root}
  /\ events \in Seq(Paths)
  /\ watch \in {"select", "returned"}
  /\ files \in Seq(Files)
  /\ agent \in {"running", "collecting", "uploading", "replied", "errored",
                "missing", "refused"}

(* newFilesCollector: only the working directory itself is watched.        *)
Init ==
  /\ exists = {} /\ creates = 0 /\ deletes = 0 /\ unseen = {}
  /\ program = "running"
  /\ watched = {Root} /\ events = <<>>
  /\ watch = "select" /\ files = <<>>
  /\ agent = "running"

-----------------------------------------------------------------------------
(* The user's program                                                      *)

(* Mutant: every operation is consumed, the write after a create too.      *)
CreateAndWrite(p) ==
  /\ program = "running"
  /\ creates < MaxCreates
  /\ p \notin exists
  /\ Parent[p] \in watched
  /\ exists' = exists \cup {p}
  /\ creates' = creates + 1
  /\ events' = events \o <<p, p>>
  /\ UNCHANGED <<deletes, unseen, program, watched, watch, files, agent>>

Create(p) ==
  /\ program = "running"
  /\ creates < MaxCreates
  /\ p \notin exists
  /\ Parent[p] \in exists \cup {Root}
  /\ exists' = exists \cup {p}
  /\ creates' = creates + 1
  /\ IF Parent[p] \in watched
     THEN events' = Append(events, p) /\ UNCHANGED unseen
     ELSE unseen' = unseen \cup {p} /\ UNCHANGED events
  /\ UNCHANGED <<deletes, program, watched, watch, files, agent>>

(* The kernel drops the watch of a directory with the directory.           *)
Delete(p) ==
  /\ program = "running"
  /\ deletes < MaxDeletes
  /\ p \in exists
  /\ \A q \in exists : Parent[q] # p
  /\ exists' = exists \ {p}
  /\ deletes' = deletes + 1
  /\ watched' = watched \ {p}
  /\ unseen' = unseen \ {p}
  /\ UNCHANGED <<creates, program, events, watch, files, agent>>

Exit ==
  /\ program = "running"
  /\ program' \in {"ok", "failed"}
  /\ UNCHANGED <<treeVars, watched, events, watch, files, agent>>

-----------------------------------------------------------------------------
(* watch() and consumeCreateEvent                                          *)

(* Mutant: an ignored name ends the goroutine.                             *)
HandleOrStop(p) ==
  IF p \in exists \ Ignored
  THEN /\ files' = IF p \in Files THEN Append(files, p) ELSE files
       /\ watched' = IF p \in Dirs THEN watched \cup {p} ELSE watched
       /\ UNCHANGED watch
  ELSE watch' = "returned" /\ UNCHANGED <<watched, files>>

(* Mutant: directories are not told from files.                            *)
HandleAsFile(p) ==
  /\ files' = IF p \in exists \ Ignored THEN Append(files, p) ELSE files
  /\ UNCHANGED <<watched, watch>>

(* Mutant: only the names in the working directory itself are taken.       *)
HandleTopLevel(p) ==
  /\ files' = IF Parent[p] = Root /\ p \in (Files \cap exists) \ Ignored
              THEN Append(files, p) ELSE files
  /\ watched' = IF p \in Dirs THEN watched \cup {p} ELSE watched
  /\ UNCHANGED watch

(* An event of a name that is gone by now ends the goroutine.              *)
HandleCreate(p) ==
  \/ p \in Ignored /\ UNCHANGED <<watched, watch, files>>
  \/ /\ p \notin Ignored \cup exists
     /\ watch' = "returned"
     /\ UNCHANGED <<watched, files>>
  \/ /\ p \in (Dirs \cap exists) \ Ignored
     /\ watched' = watched \cup {p}
     /\ UNCHANGED <<watch, files>>
  \/ /\ p \in (Files \cap exists) \ Ignored
     /\ files' = Append(files, p)
     /\ UNCHANGED <<watched, watch>>

Consume ==
  /\ watch = "select"
  /\ events # <<>>
  /\ HandleCreate(Head(events))
  /\ events' = Tail(events)
  /\ UNCHANGED <<treeVars, program, agent>>

-----------------------------------------------------------------------------
(* ExecCommand, Collect and the upload                                     *)

(* Run returns; only after a success are the files collected.              *)
Returns ==
  /\ agent = "running"
  /\ program # "running"
  /\ agent' = IF program = "ok" THEN "collecting" ELSE "errored"
  /\ UNCHANGED <<treeVars, program, watched, events, watch,
                 files>>

(* The send on done meets the receive in the select of watch(): Go takes   *)
(* either arm while events are waiting, and the rest of them are lost.     *)
CollectDone ==
  /\ agent = "collecting"
  /\ watch = "select"
  /\ watch' = "returned"
  /\ agent' = "uploading"
  /\ UNCHANGED <<treeVars, program, watched, events, files>>

(* A collected file that cannot be opened is fatal to the agent.  So is an *)
(* upload that is not answered 201: a file has a type that is not allowed, *)
(* or the file service fails.                                              *)
Upload ==
  /\ agent = "uploading"
  /\ \/ ~(Found \subseteq exists) /\ agent' = "missing"
     \/ Found \subseteq exists \cap Allowed /\ agent' = "replied"
     \/ Found \subseteq exists /\ agent' = "refused"
  /\ UNCHANGED <<treeVars, program, watched, events, watch,
                 files>>

Next ==
  \/ \E p \in Paths : Create(p) \/ Delete(p)
  \/ Exit \/ Consume \/ Returns \/ CollectDone \/ Upload

(* The goroutines run; the user's program may run for ever.                *)
Fairness ==
  /\ WF_vars(Consume) /\ WF_vars(Returns) /\ WF_vars(CollectDone)
  /\ WF_vars(Upload)

Spec == Init /\ [][Next]_vars

FairSpec == Spec /\ Fairness

-----------------------------------------------------------------------------
(* Properties                                                              *)

(* The files a run leaves behind that its answer should list.              *)
Wanted == exists \cap (Files \ Ignored)

(* While watch() runs, and again once Collect has handed over what it      *)
(* found, a file the run left is collected, has its event waiting or was   *)
(* created in a directory before the watcher was given that directory:     *)
(* there is no other way for an answer to miss one.                        *)
MissedOnlyByRace ==
  watch = "select" \/ agent \in {"uploading", "replied", "refused", "missing"}
    => Wanted \subseteq (Found \cup InOrder \cup unseen)

(* No ignored name is collected, and nothing twice for one creation: an    *)
(* answer never lists more files than the run created.                     *)
CollectedOnce ==
  /\ Found \cap Ignored = {}
  /\ Len(files) + Len(events) <= creates

(* A run that deletes nothing is answered once its program has ended well, *)
(* unless the file service refuses its files: no collected file is missing *)
(* and Collect does not block.                                             *)
RepliesUnlessDeleted ==
  program = "ok" /\ deletes = 0 ~> agent \in {"replied", "refused"}

(* The examples' tests expect every screenshot of a run in its answer.     *)
AllCollected == agent = "replied" => Wanted \subseteq Found

(* A program that ends well is answered: Collect does not block for ever.  *)
CollectReturns == program = "ok" ~> agent # "collecting"
=============================================================================
