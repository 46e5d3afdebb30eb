------------------------ MODULE UpdateScript_proofs ------------------------
(***************************************************************************)
(* Theorems about the update script: types.txt is never half written, and  *)
(* a start that ends well leaves nothing older than what was current when  *)
(* it began, for any number of starts, of failures and of releases; and    *)
(* how much of a file of any length stripFileHeader takes.                 *)
(***************************************************************************)
EXTENDS UpdateScript, FiniteSetTheorems, WellFoundedInduction, TLAPS

USE UpdateAssumption

-----------------------------------------------------------------------------
(* The inductive invariant, in named parts.                                *)

(* How far the current start has come, or the last one if it ended well.   *)
Reached == IF step # 0 THEN step
           ELSE IF ended = "done" THEN Len(Script) + 1 ELSE 0

(* No registry takes a release back.                                       *)
OnlyNewer == \A g \in Registries : atStart[g] <= latest[g]

Dependencies ==
  /\ Reached > 1 => package["frontend"] >= atStart["npm"]
  /\ Reached > 2 => lock["frontend"] >= package["frontend"]
  /\ Reached > 3 => package["e2e"] >= atStart["npm"]
  /\ Reached > 4 => lock["e2e"] >= package["e2e"]

(* Part i of a start: the right one, of a current release.                 *)
Current(part, i) == /\ part.part = Parts[i]
                    /\ i # 1 => part.version >= atStart["npm"]

(* The buffer holds the parts downloaded so far, and types.txt, after it   *)
(* is written, all of them.                                                *)
Downloaded ==
  /\ Reached \notin 6..15 => buffer = <<>>
  /\ Reached \in 6..15 => 2 * Len(buffer) \in {Reached - 4, Reached - 5}
  /\ \A i \in DOMAIN buffer : Current(buffer[i], i)

Written ==
  /\ Len(types) = Len(Parts)
  /\ \A i \in DOMAIN types : types[i].part = Parts[i]
  /\ Reached > 15 => \A i \in DOMAIN types : Current(types[i], i)

(* The version asked for is in hand until it is written, and may be older  *)
(* than the registry's by then, but not older than the start.              *)
Asked ==
  /\ Reached = 17 => version # None /\ version >= atStart["nuget"]
  /\ Reached = 19 => version # None /\ version >= atStart["maven"]
  /\ Reached = 21 => /\ version # None /\ version >= atStart["npm"]
                     /\ version <= latest["npm"]
  /\ Reached = 23 => version # None /\ version >= atStart["pypi"]
  /\ Reached = 25 => version # None /\ version >= image["javascript"]

Images ==
  /\ Reached > 17 => image["csharp"] >= atStart["nuget"]
  /\ Reached > 19 => image["java"] >= atStart["maven"]
  /\ Reached > 21 => image["javascript"] >= atStart["npm"]
  /\ Reached \in 22..25 => image["javascript"] <= latest["npm"]
  /\ Reached > 23 => image["python"] >= atStart["pypi"]
  /\ Reached > 25 => badge >= image["javascript"]

IInv == /\ TypeOK /\ OnlyNewer /\ Dependencies /\ Downloaded /\ Written
        /\ Asked /\ Images

-----------------------------------------------------------------------------
(* The script, step by step.                                               *)

LEMMA ScriptSteps ==
  /\ Len(Script) = 25
  /\ Script[1] = [do |-> "upgrade", of |-> "frontend"]
  /\ Script[2] = [do |-> "install", of |-> "frontend"]
  /\ Script[3] = [do |-> "upgrade", of |-> "e2e"]
  /\ Script[4] = [do |-> "install", of |-> "e2e"]
  /\ Script[5] = [do |-> "download", of |-> "globals"]
  /\ Script[6] = [do |-> "append", of |-> "globals"]
  /\ Script[7] = [do |-> "download", of |-> "protocol"]
  /\ Script[8] = [do |-> "append", of |-> "protocol"]
  /\ Script[9] = [do |-> "download", of |-> "structs"]
  /\ Script[10] = [do |-> "append", of |-> "structs"]
  /\ Script[11] = [do |-> "download", of |-> "types"]
  /\ Script[12] = [do |-> "append", of |-> "types"]
  /\ Script[13] = [do |-> "download", of |-> "test"]
  /\ Script[14] = [do |-> "append", of |-> "test"]
  /\ Script[15] = [do |-> "write", of |-> "types"]
  /\ Script[16] = [do |-> "ask", of |-> "csharp"]
  /\ Script[17] = [do |-> "rewrite", of |-> "csharp"]
  /\ Script[18] = [do |-> "ask", of |-> "java"]
  /\ Script[19] = [do |-> "rewrite", of |-> "java"]
  /\ Script[20] = [do |-> "ask", of |-> "javascript"]
  /\ Script[21] = [do |-> "rewrite", of |-> "javascript"]
  /\ Script[22] = [do |-> "ask", of |-> "python"]
  /\ Script[23] = [do |-> "rewrite", of |-> "python"]
  /\ Script[24] = [do |-> "ask", of |-> "javascript"]
  /\ Script[25] = [do |-> "rewrite", of |-> "badge"]
BY DEF Script, UpdateDependencies, UpdateFrontendTypes, AddPart, UpdateWorker,
   UpdateMainReadMeBadge

LEMMA PartsMean ==
  /\ Len(Parts) = 5 /\ DOMAIN Parts = 1..5
  /\ Parts[1] = "globals" /\ Parts[2] = "protocol" /\ Parts[3] = "structs"
  /\ Parts[4] = "types" /\ Parts[5] = "test"
BY DEF Parts

LEMMA LangsMean ==
  /\ Langs = {"csharp", "java", "javascript", "python"}
  /\ Registry["csharp"] = "nuget" /\ Registry["java"] = "maven"
  /\ Registry["javascript"] = "npm" /\ Registry["python"] = "pypi"
  /\ Registries = {"nuget", "maven", "npm", "pypi"}
<1>1. Langs = {"csharp", "java", "javascript", "python"}
  BY DEF Langs, Registry
<1>2. /\ Registry["csharp"] = "nuget" /\ Registry["java"] = "maven"
      /\ Registry["javascript"] = "npm" /\ Registry["python"] = "pypi"
  BY DEF Registry
<1>3. Registries = {"nuget", "maven", "npm", "pypi"}
  BY <1>1, <1>2 DEF Registries
<1> QED
  BY <1>1, <1>2, <1>3

(* Where the script is when it carries out a command.                      *)
LEMMA AtStep ==
  ASSUME NEW do, NEW of, At(do, of), step \in 0..Len(Script)
  PROVE  /\ step \in 1..25
         /\ Script[step].do = do /\ Script[step].of = of
BY ScriptSteps DEF At

(* Which steps carry out which kind of command.                            *)
LEMMA StepsOf ==
  ASSUME NEW k \in 1..25
  PROVE  /\ Script[k].do = "upgrade" => k \in {1, 3}
         /\ Script[k].do = "install" => k \in {2, 4}
         /\ Script[k].do = "download" => k \in {5, 7, 9, 11, 13}
         /\ Script[k].do = "append" => k \in {6, 8, 10, 12, 14}
         /\ Script[k].do = "write" => k \in {15}
         /\ Script[k].do = "ask" => k \in {16, 18, 20, 22, 24}
         /\ Script[k].do = "rewrite" => k \in {17, 19, 21, 23, 25}
<1>1. \/ k = 1 \/ k = 2 \/ k = 3 \/ k = 4 \/ k = 5 \/ k = 6 \/ k = 7 \/ k = 8
      \/ k = 9 \/ k = 10 \/ k = 11 \/ k = 12 \/ k = 13 \/ k = 14 \/ k = 15
      \/ k = 16 \/ k = 17 \/ k = 18 \/ k = 19 \/ k = 20 \/ k = 21 \/ k = 22
      \/ k = 23 \/ k = 24 \/ k = 25
  OBVIOUS
<1>2. /\ Script[1].do = "upgrade"
      /\ Script[2].do = "install"
      /\ Script[3].do = "upgrade"
      /\ Script[4].do = "install"
      /\ Script[5].do = "download"
      /\ Script[6].do = "append"
      /\ Script[7].do = "download"
      /\ Script[8].do = "append"
      /\ Script[9].do = "download"
      /\ Script[10].do = "append"
      /\ Script[11].do = "download"
      /\ Script[12].do = "append"
      /\ Script[13].do = "download"
      /\ Script[14].do = "append"
      /\ Script[15].do = "write"
      /\ Script[16].do = "ask"
      /\ Script[17].do = "rewrite"
      /\ Script[18].do = "ask"
      /\ Script[19].do = "rewrite"
      /\ Script[20].do = "ask"
      /\ Script[21].do = "rewrite"
      /\ Script[22].do = "ask"
      /\ Script[23].do = "rewrite"
      /\ Script[24].do = "ask"
      /\ Script[25].do = "rewrite"
  BY ScriptSteps
<1>3. Script[k].do = "upgrade" => k \in {1, 3}
  BY <1>1, <1>2
<1>4. Script[k].do = "install" => k \in {2, 4}
  BY <1>1, <1>2
<1>5. Script[k].do = "download" => k \in {5, 7, 9, 11, 13}
  BY <1>1, <1>2
<1>6. Script[k].do = "append" => k \in {6, 8, 10, 12, 14}
  BY <1>1, <1>2
<1>7. Script[k].do = "write" => k \in {15}
  BY <1>1, <1>2
<1>8. Script[k].do = "ask" => k \in {16, 18, 20, 22, 24}
  BY <1>1, <1>2
<1>9. Script[k].do = "rewrite" => k \in {17, 19, 21, 23, 25}
  BY <1>1, <1>2
<1> QED
  BY <1>3, <1>4, <1>5, <1>6, <1>7, <1>8, <1>9

LEMMA KindAt ==
  ASSUME NEW of, step \in 0..Len(Script)
  PROVE  /\ At("upgrade", of) => step \in {1, 3} /\ Script[step].of = of
         /\ At("install", of) => step \in {2, 4} /\ Script[step].of = of
         /\ At("download", of) => step \in {5, 7, 9, 11, 13} /\ Script[step].of = of
         /\ At("append", of) => step \in {6, 8, 10, 12, 14} /\ Script[step].of = of
         /\ At("write", of) => step \in {15} /\ Script[step].of = of
         /\ At("ask", of) => step \in {16, 18, 20, 22, 24} /\ Script[step].of = of
         /\ At("rewrite", of) => step \in {17, 19, 21, 23, 25} /\ Script[step].of = of
<1>1. At("upgrade", of) => step \in {1, 3} /\ Script[step].of = of
  <2> SUFFICES ASSUME At("upgrade", of) PROVE step \in {1, 3} /\ Script[step].of = of
    OBVIOUS
  <2>1. step \in 1..25 /\ Script[step].do = "upgrade" /\ Script[step].of = of
    BY AtStep
  <2> QED
    BY <2>1, StepsOf
<1>2. At("install", of) => step \in {2, 4} /\ Script[step].of = of
  <2> SUFFICES ASSUME At("install", of) PROVE step \in {2, 4} /\ Script[step].of = of
    OBVIOUS
  <2>1. step \in 1..25 /\ Script[step].do = "install" /\ Script[step].of = of
    BY AtStep
  <2> QED
    BY <2>1, StepsOf
<1>3. At("download", of) => step \in {5, 7, 9, 11, 13} /\ Script[step].of = of
  <2> SUFFICES ASSUME At("download", of) PROVE step \in {5, 7, 9, 11, 13} /\ Script[step].of = of
    OBVIOUS
  <2>1. step \in 1..25 /\ Script[step].do = "download" /\ Script[step].of = of
    BY AtStep
  <2> QED
    BY <2>1, StepsOf
<1>4. At("append", of) => step \in {6, 8, 10, 12, 14} /\ Script[step].of = of
  <2> SUFFICES ASSUME At("append", of) PROVE step \in {6, 8, 10, 12, 14} /\ Script[step].of = of
    OBVIOUS
  <2>1. step \in 1..25 /\ Script[step].do = "append" /\ Script[step].of = of
    BY AtStep
  <2> QED
    BY <2>1, StepsOf
<1>5. At("write", of) => step \in {15} /\ Script[step].of = of
  <2> SUFFICES ASSUME At("write", of) PROVE step \in {15} /\ Script[step].of = of
    OBVIOUS
  <2>1. step \in 1..25 /\ Script[step].do = "write" /\ Script[step].of = of
    BY AtStep
  <2> QED
    BY <2>1, StepsOf
<1>6. At("ask", of) => step \in {16, 18, 20, 22, 24} /\ Script[step].of = of
  <2> SUFFICES ASSUME At("ask", of) PROVE step \in {16, 18, 20, 22, 24} /\ Script[step].of = of
    OBVIOUS
  <2>1. step \in 1..25 /\ Script[step].do = "ask" /\ Script[step].of = of
    BY AtStep
  <2> QED
    BY <2>1, StepsOf
<1>7. At("rewrite", of) => step \in {17, 19, 21, 23, 25} /\ Script[step].of = of
  <2> SUFFICES ASSUME At("rewrite", of) PROVE step \in {17, 19, 21, 23, 25} /\ Script[step].of = of
    OBVIOUS
  <2>1. step \in 1..25 /\ Script[step].do = "rewrite" /\ Script[step].of = of
    BY AtStep
  <2> QED
    BY <2>1, StepsOf
<1> QED
  BY <1>1, <1>2, <1>3, <1>4, <1>5, <1>6, <1>7

LEMMA DependenciesAt ==
  ASSUME NEW f \in Folders, step \in 0..Len(Script)
  PROVE  /\ At("upgrade", f) => \/ f = "frontend" /\ step = 1
                                \/ f = "e2e" /\ step = 3
         /\ At("install", f) => \/ f = "frontend" /\ step = 2
                                \/ f = "e2e" /\ step = 4
<1>1. /\ At("upgrade", f) => step \in {1, 3} /\ Script[step].of = f
      /\ At("install", f) => step \in {2, 4} /\ Script[step].of = f
  BY KindAt
<1>2. /\ Script[1].of = "frontend" /\ Script[3].of = "e2e"
      /\ Script[2].of = "frontend" /\ Script[4].of = "e2e"
  BY ScriptSteps
<1> QED
  BY <1>1, <1>2

LEMMA PartAt ==
  ASSUME NEW i \in DOMAIN Parts, step \in 0..Len(Script)
  PROVE  /\ At("download", Parts[i]) => step = 2 * i + 3
         /\ At("append", Parts[i]) => step = 2 * i + 4
<1>1. /\ At("download", Parts[i]) => /\ step \in {5, 7, 9, 11, 13}
                                     /\ Script[step].of = Parts[i]
      /\ At("append", Parts[i]) => /\ step \in {6, 8, 10, 12, 14}
                                   /\ Script[step].of = Parts[i]
  BY KindAt
<1>2. /\ Script[5].of = "globals" /\ Script[7].of = "protocol"
      /\ Script[9].of = "structs" /\ Script[11].of = "types"
      /\ Script[13].of = "test"
  BY ScriptSteps
<1>3. /\ Script[6].of = "globals" /\ Script[8].of = "protocol"
      /\ Script[10].of = "structs" /\ Script[12].of = "types"
      /\ Script[14].of = "test"
  BY ScriptSteps
<1>4. i = 1 \/ i = 2 \/ i = 3 \/ i = 4 \/ i = 5
  BY PartsMean
<1>5. At("download", Parts[i]) => step = 2 * i + 3
  BY <1>1, <1>2, <1>4, PartsMean
<1>6. At("append", Parts[i]) => step = 2 * i + 4
  BY <1>1, <1>3, <1>4, PartsMean
<1> QED
  BY <1>5, <1>6

LEMMA VersionAt ==
  ASSUME NEW l \in Langs, step \in 0..Len(Script)
  PROVE  /\ At("ask", l) => \/ l = "csharp" /\ step = 16
                            \/ l = "java" /\ step = 18
                            \/ l = "javascript" /\ step \in {20, 24}
                            \/ l = "python" /\ step = 22
         /\ At("rewrite", l) => \/ l = "csharp" /\ step = 17
                                \/ l = "java" /\ step = 19
                                \/ l = "javascript" /\ step = 21
                                \/ l = "python" /\ step = 23
<1>1. /\ At("ask", l) => step \in {16, 18, 20, 22, 24} /\ Script[step].of = l
      /\ At("rewrite", l) => step \in {17, 19, 21, 23, 25} /\ Script[step].of = l
  BY KindAt
<1>2. /\ Script[16].of = "csharp" /\ Script[18].of = "java"
      /\ Script[20].of = "javascript" /\ Script[22].of = "python"
      /\ Script[24].of = "javascript"
  BY ScriptSteps
<1>3. /\ Script[17].of = "csharp" /\ Script[19].of = "java"
      /\ Script[21].of = "javascript" /\ Script[23].of = "python"
      /\ Script[25].of = "badge"
  BY ScriptSteps
<1> QED
  BY <1>1, <1>2, <1>3, LangsMean

LEMMA LastAt ==
  ASSUME step \in 0..Len(Script)
  PROVE  /\ At("write", "types") => step = 15
         /\ At("rewrite", "badge") => step = 25
<1>1. /\ At("write", "types") => step = 15
      /\ At("rewrite", "badge") => /\ step \in {17, 19, 21, 23, 25}
                                   /\ Script[step].of = "badge"
  BY KindAt
<1>2. /\ Script[17].of = "csharp" /\ Script[19].of = "java"
      /\ Script[21].of = "javascript" /\ Script[23].of = "python"
  BY ScriptSteps
<1> QED
  BY <1>1, <1>2

(* A step that is done brings the script one step further.                 *)
LEMMA GoesOn ==
  ASSUME TypeOK, step # 0, Continue
  PROVE  /\ Reached = step /\ Reached' = step + 1 /\ step \in 1..25
         /\ step' \in 0..Len(Script) /\ ended' \in {"never", "failed", "done"}
         /\ UNCHANGED <<latest, here, atStart, starts>>
<1>1. /\ step \in 1..25 /\ ended \in {"never", "failed", "done"}
      /\ step' = IF step = 25 THEN 0 ELSE step + 1
      /\ ended' = IF step = 25 THEN "done" ELSE ended
  BY ScriptSteps DEF TypeOK, Continue
<1>2. Reached = step
  BY DEF Reached
<1>3. Reached' = step + 1
  <2>1. Reached' = IF step' # 0 THEN step' ELSE IF ended' = "done" THEN 26 ELSE 0
    BY ScriptSteps DEF Reached
  <2>2. CASE step = 25
    BY <1>1, <2>1, <2>2
  <2>3. CASE step # 25
    BY <1>1, <2>1, <2>3
  <2> QED
    BY <2>2, <2>3
<1>4. UNCHANGED <<latest, here, atStart, starts>>
  BY DEF Continue
<1> QED
  BY <1>1, <1>2, <1>3, <1>4, ScriptSteps

LEMMA ReachedBounds ==
  ASSUME TypeOK
  PROVE  Reached \in 0..26 /\ step \in 0..25
BY ScriptSteps DEF TypeOK, Reached

-----------------------------------------------------------------------------
(* What a step leaves alone.                                               *)

LEMMA SameDependencies ==
  ASSUME Dependencies, Reached \in 0..26, Reached' = Reached + 1,
         Reached \notin 1..4, UNCHANGED <<package, lock, atStart>>
  PROVE  Dependencies'
BY DEF Dependencies

LEMMA SameDownloaded ==
  ASSUME Downloaded, Reached \in 0..26, Reached' = Reached + 1,
         Reached \notin 5..15, UNCHANGED <<buffer, atStart>>
  PROVE  Downloaded'
<1>1. Reached \notin 6..15 /\ Reached' \notin 6..15
  OBVIOUS
<1>2. buffer = <<>> /\ buffer' = <<>>
  BY <1>1 DEF Downloaded
<1> QED
  BY <1>1, <1>2 DEF Downloaded

LEMMA SameWritten ==
  ASSUME Written, Reached \in 0..26, Reached' = Reached + 1,
         Reached # 15, UNCHANGED <<types, atStart>>
  PROVE  Written'
<1>1. Reached' > 15 => Reached > 15
  OBVIOUS
<1> QED
  BY <1>1 DEF Written, Current

LEMMA SameAsked ==
  ASSUME Reached' \notin {17, 19, 21, 23, 25}
  PROVE  Asked'
BY DEF Asked

LEMMA SameImages ==
  ASSUME Images, Reached \in 0..26, Reached' = Reached + 1,
         Reached \notin {17, 19, 21, 23, 25},
         UNCHANGED <<image, badge, latest, atStart>>
  PROVE  Images'
BY DEF Images

LEMMA PartPlaces ==
  ASSUME NEW i \in 1..5
  PROVE  /\ 2 * i + 3 \in 5..13 /\ (i # 1 => 2 * i + 3 \in 6..15)
         /\ 2 * i + 4 \in 6..14 /\ 2 * i + 4 \in 6..15
         /\ 2 * i + 5 \in 7..15 /\ 2 * i + 5 \in 6..15
         /\ (2 * i + 3) + 1 = 2 * i + 4 /\ (2 * i + 4) + 1 = 2 * i + 5
         /\ 2 * i = (2 * i + 4) - 4 /\ 2 * i = (2 * i + 5) - 5
OBVIOUS

LEMMA Half ==
  ASSUME NEW i \in 1..5, NEW n \in Nat, NEW r \in Nat,
         r = 2 * i + 4 \/ r = 2 * i + 5, 2 * n \in {r - 4, r - 5}
  PROVE  n = i
OBVIOUS

-----------------------------------------------------------------------------
(* The steps.                                                              *)

LEMMA UpgradeKeeps ==
  ASSUME IInv, NEW f \in Folders, Upgrade(f) PROVE IInv'
<1> USE DEF IInv
<1>1. /\ At("upgrade", f) /\ Continue /\ step # 0
      /\ package' = [package EXCEPT ![f] = latest["npm"]]
      /\ UNCHANGED <<buffer, text, version, lock, types, image, badge>>
  BY DEF Upgrade, At, work
<1>2. /\ Reached = step /\ Reached' = step + 1 /\ step \in 1..25
      /\ UNCHANGED <<latest, here, atStart, starts>>
      /\ step' \in 0..Len(Script) /\ ended' \in {"never", "failed", "done"}
  BY <1>1, GoesOn
<1>3. \/ f = "frontend" /\ step = 1
      \/ f = "e2e" /\ step = 3
  BY <1>1, DependenciesAt DEF TypeOK
<1>4. /\ latest["npm"] \in Nat /\ atStart["npm"] \in Nat
      /\ latest["npm"] >= atStart["npm"]
  BY LangsMean DEF TypeOK, OnlyNewer
<1>5. TypeOK'
  BY <1>1, <1>2, <1>4 DEF TypeOK
<1>6. Dependencies'
  BY <1>1, <1>2, <1>3, <1>4 DEF Dependencies, TypeOK, Folders
<1>7. Downloaded' /\ Written' /\ Asked' /\ Images'
  BY <1>1, <1>2, <1>3, SameDownloaded, SameWritten, SameAsked, SameImages
<1>8. OnlyNewer'
  BY <1>2 DEF OnlyNewer
<1> QED
  BY <1>5, <1>6, <1>7, <1>8

LEMMA InstallKeeps ==
  ASSUME IInv, NEW f \in Folders, Install(f) PROVE IInv'
<1> USE DEF IInv
<1>0. PICK v \in IF lock[f] >= package[f] THEN {lock[f]}
                  ELSE package[f]..latest["npm"] :
             lock' = [lock EXCEPT ![f] = v]
  BY DEF Install
<1>1. /\ At("install", f) /\ Continue /\ step # 0
      /\ UNCHANGED <<buffer, text, version, package, types, image, badge>>
  BY DEF Install, At, work
<1>2. /\ Reached = step /\ Reached' = step + 1 /\ step \in 1..25
      /\ UNCHANGED <<latest, here, atStart, starts>>
      /\ step' \in 0..Len(Script) /\ ended' \in {"never", "failed", "done"}
  BY <1>1, GoesOn
<1>3. \/ f = "frontend" /\ step = 2
      \/ f = "e2e" /\ step = 4
  BY <1>1, DependenciesAt DEF TypeOK
<1>4. v \in Nat /\ v >= package[f]
  <2>1. /\ package[f] \in Nat /\ lock[f] \in Nat /\ latest["npm"] \in Nat
    BY LangsMean DEF TypeOK
  <2>2. CASE lock[f] >= package[f]
    BY <2>1, <2>2
  <2>3. CASE ~(lock[f] >= package[f])
    BY <2>1, <2>3
  <2> QED
    BY <2>2, <2>3
<1>5. TypeOK'
  BY <1>0, <1>1, <1>2, <1>4 DEF TypeOK
<1>6. Dependencies'
  BY <1>0, <1>1, <1>2, <1>3, <1>4 DEF Dependencies, TypeOK, Folders
<1>7. Downloaded' /\ Written' /\ Asked' /\ Images'
  BY <1>1, <1>2, <1>3, SameDownloaded, SameWritten, SameAsked, SameImages
<1>8. OnlyNewer'
  BY <1>2 DEF OnlyNewer
<1> QED
  BY <1>5, <1>6, <1>7, <1>8

LEMMA DownloadKeeps ==
  ASSUME IInv, NEW i \in DOMAIN Parts, Download(Parts[i]) PROVE IInv'
<1> USE DEF IInv
<1> DEFINE part == [part |-> Parts[i], version |-> Served(Parts[i])]
<1>1. /\ At("download", Parts[i]) /\ Continue /\ step # 0
      /\ text' \in Texts \cup {<<>>}
      /\ buffer' = Append(buffer, part)
      /\ UNCHANGED <<version, package, lock, types, image, badge>>
  BY DEF Download, At, files
<1>2. /\ Reached = step /\ Reached' = step + 1 /\ step \in 1..25
      /\ UNCHANGED <<latest, here, atStart, starts>>
      /\ step' \in 0..Len(Script) /\ ended' \in {"never", "failed", "done"}
  BY <1>1, GoesOn
<1>3. step = 2 * i + 3 /\ i \in 1..5
  BY <1>1, PartAt, PartsMean DEF TypeOK
<1>4. /\ latest["npm"] \in Nat /\ atStart["npm"] \in Nat
      /\ latest["npm"] >= atStart["npm"]
  BY LangsMean DEF TypeOK, OnlyNewer
<1>5. part \in Part /\ Current(part, i)
  BY <1>3, <1>4, PartsMean DEF Part, Current, Served
<1>6. buffer \in Seq(Part) /\ Len(buffer) = i - 1
  <2>1. buffer \in Seq(Part) /\ Len(buffer) \in Nat
    BY DEF TypeOK
  <2>2. CASE i = 1
    BY <1>2, <1>3, <2>1, <2>2 DEF Downloaded
  <2>3. CASE i # 1
    <3>1. Reached \in 6..15 /\ Reached = 2 * i + 3
      BY <1>2, <1>3, <2>3, PartPlaces
    <3>2. 2 * Len(buffer) \in {Reached - 4, Reached - 5}
      BY <3>1 DEF Downloaded
    <3> QED
      BY <1>3, <2>1, <3>1, <3>2
  <2> QED
    BY <2>1, <2>2, <2>3
<1> HIDE DEF part
<1>7. /\ buffer' \in Seq(Part) /\ Len(buffer') = i
      /\ buffer'[i] = part
      /\ \A j \in DOMAIN buffer' :
           \/ j = i
           \/ j \in DOMAIN buffer /\ buffer'[j] = buffer[j]
  BY <1>1, <1>3, <1>5, <1>6
<1>8. TypeOK'
  BY <1>1, <1>2, <1>7 DEF TypeOK
<1>9. Downloaded'
  <2>1. Reached' = 2 * i + 4 /\ Reached' \in 6..15
    BY <1>2, <1>3, PartPlaces
  <2>2. 2 * Len(buffer') \in {Reached' - 4, Reached' - 5}
    BY <1>3, <1>7, <2>1, PartPlaces
  <2>3. ASSUME NEW j \in DOMAIN buffer' PROVE Current(buffer[j], j)'
    BY <1>2, <1>5, <1>7 DEF Downloaded, Current
  <2> QED
    BY <2>1, <2>2, <2>3 DEF Downloaded
<1>10. Dependencies' /\ Written' /\ Asked' /\ Images'
  <2>1. step \in 5..13
    BY <1>3
  <2> QED
    BY <1>1, <1>2, <2>1, SameDependencies, SameWritten, SameAsked, SameImages
<1>11. OnlyNewer'
  BY <1>2 DEF OnlyNewer
<1> QED
  BY <1>8, <1>9, <1>10, <1>11

LEMMA AppendKeeps ==
  ASSUME IInv, NEW i \in DOMAIN Parts, AppendPart(Parts[i]) PROVE IInv'
<1> USE DEF IInv
<1>1. /\ At("append", Parts[i]) /\ Continue /\ step # 0
      /\ text' = None
      /\ UNCHANGED <<buffer, version, package, lock, types, image, badge>>
  BY DEF AppendPart, At, files
<1>2. /\ Reached = step /\ Reached' = step + 1 /\ step \in 1..25
      /\ UNCHANGED <<latest, here, atStart, starts>>
      /\ step' \in 0..Len(Script) /\ ended' \in {"never", "failed", "done"}
  BY <1>1, GoesOn
<1>3. step = 2 * i + 4 /\ i \in 1..5
  BY <1>1, PartAt, PartsMean DEF TypeOK
<1>4. Len(buffer) \in Nat
  BY DEF TypeOK
<1>5. TypeOK'
  BY <1>1, <1>2 DEF TypeOK
<1>6. Downloaded'
  <2>1. Reached = 2 * i + 4 /\ Reached \in 6..15
    BY <1>2, <1>3, PartPlaces
  <2>2. 2 * Len(buffer) \in {Reached - 4, Reached - 5}
    BY <2>1 DEF Downloaded
  <2>3. Len(buffer) = i
    <3>1. Reached \in Nat
      BY <2>1
    <3> HIDE DEF IInv
    <3> QED
      BY <1>3, <1>4, <2>1, <2>2, <3>1, Half
  <2>4. Reached' = 2 * i + 5 /\ Reached' \in 6..15
    BY <1>2, <1>3, <2>1, PartPlaces
  <2>5. 2 * Len(buffer) \in {Reached' - 4, Reached' - 5}
    BY <1>3, <2>3, <2>4, PartPlaces
  <2> QED
    BY <1>1, <1>2, <2>4, <2>5 DEF Downloaded, Current
<1>7. Dependencies' /\ Written' /\ Asked' /\ Images'
  <2>1. step \in 6..14
    BY <1>3
  <2> QED
    BY <1>1, <1>2, <2>1, SameDependencies, SameWritten, SameAsked, SameImages
<1>8. OnlyNewer'
  BY <1>2 DEF OnlyNewer
<1> QED
  BY <1>5, <1>6, <1>7, <1>8

LEMMA WriteKeeps ==
  ASSUME IInv, WriteTypes PROVE IInv'
<1> USE DEF IInv
<1>1. /\ At("write", "types") /\ Continue /\ step # 0
      /\ types' = buffer /\ buffer' = <<>>
      /\ UNCHANGED <<text, version, package, lock, image, badge>>
  BY DEF WriteTypes, At
<1>2. /\ Reached = step /\ Reached' = step + 1 /\ step \in 1..25
      /\ UNCHANGED <<latest, here, atStart, starts>>
      /\ step' \in 0..Len(Script) /\ ended' \in {"never", "failed", "done"}
  BY <1>1, GoesOn
<1>3. step = 15
  BY <1>1, LastAt DEF TypeOK
<1>4. /\ buffer \in Seq(Part) /\ Len(buffer) = 5
      /\ \A i \in DOMAIN buffer : Current(buffer[i], i)
  <2>1. buffer \in Seq(Part) /\ Len(buffer) \in Nat
    BY DEF TypeOK
  <2>2. 2 * Len(buffer) \in {Reached - 4, Reached - 5}
    BY <1>2, <1>3 DEF Downloaded
  <2>3. Len(buffer) = 5
    <3>1. Reached \in Nat /\ Reached = 2 * 5 + 5 /\ 5 \in 1..5
      BY <1>2, <1>3
    <3> HIDE DEF IInv
    <3> QED
      BY <2>1, <2>2, <3>1, Half
  <2>4. \A i \in DOMAIN buffer : Current(buffer[i], i)
    BY DEF Downloaded
  <2> QED
    BY <2>1, <2>3, <2>4
<1>5. TypeOK'
  BY <1>1, <1>2, <1>4 DEF TypeOK
<1>6. Downloaded'
  BY <1>1, <1>2, <1>3 DEF Downloaded
<1>7. Written'
  BY <1>1, <1>2, <1>4, PartsMean DEF Written, Current
<1>8. Dependencies' /\ Asked' /\ Images'
  BY <1>1, <1>2, <1>3, SameDependencies, SameAsked, SameImages
<1>9. OnlyNewer'
  BY <1>2 DEF OnlyNewer
<1> QED
  BY <1>5, <1>6, <1>7, <1>8, <1>9

LEMMA AskKeeps ==
  ASSUME IInv, NEW l \in Langs, GetVersionForLanguageBinding(l) PROVE IInv'
<1> USE DEF IInv
<1>1. /\ At("ask", l) /\ Continue /\ step # 0
      /\ version' = latest[Registry[l]]
      /\ UNCHANGED <<buffer, text, package, lock, types, image, badge>>
  BY DEF GetVersionForLanguageBinding, At, files
<1>2. /\ Reached = step /\ Reached' = step + 1 /\ step \in 1..25
      /\ UNCHANGED <<latest, here, atStart, starts>>
      /\ step' \in 0..Len(Script) /\ ended' \in {"never", "failed", "done"}
  BY <1>1, GoesOn
<1>3. \/ l = "csharp" /\ step = 16
      \/ l = "java" /\ step = 18
      \/ l = "javascript" /\ step \in {20, 24}
      \/ l = "python" /\ step = 22
  BY <1>1, VersionAt DEF TypeOK
<1>4. /\ Registry[l] \in Registries /\ version' \in Nat
      /\ version' >= atStart[Registry[l]]
  BY <1>1, LangsMean DEF TypeOK, OnlyNewer
<1>5. TypeOK'
  BY <1>1, <1>2, <1>4 DEF TypeOK
<1>6. Asked'
  <2>1. CASE l # "javascript"
    BY <1>2, <1>3, <1>4, <2>1, LangsMean DEF Asked
  <2>2. CASE l = "javascript"
    <3>1. /\ version' = latest["npm"] /\ latest["npm"] \in Nat
          /\ version' >= atStart["npm"]
      BY <1>1, <1>4, <2>2, LangsMean DEF TypeOK
    <3>2. step = 24 => image["javascript"] <= latest["npm"]
      BY <1>2 DEF Images
    <3>3. image["javascript"] \in Nat
      BY LangsMean DEF TypeOK
    <3> QED
      BY <1>1, <1>2, <1>3, <1>4, <2>2, <3>1, <3>2, <3>3 DEF Asked
  <2> QED
    BY <2>1, <2>2
<1>7. Dependencies' /\ Downloaded' /\ Written' /\ Images'
  BY <1>1, <1>2, <1>3, SameDependencies, SameDownloaded, SameWritten, SameImages
<1>8. OnlyNewer'
  BY <1>2 DEF OnlyNewer
<1> QED
  BY <1>5, <1>6, <1>7, <1>8

LEMMA RewriteKeeps ==
  ASSUME IInv, NEW l \in Langs, RewriteDockerfile(l) PROVE IInv'
<1> USE DEF IInv
<1>1. /\ At("rewrite", l) /\ Continue /\ step # 0
      /\ image' = [image EXCEPT ![l] = version]
      /\ UNCHANGED <<buffer, text, version, package, lock, types, badge>>
  BY DEF RewriteDockerfile, At, work
<1>2. /\ Reached = step /\ Reached' = step + 1 /\ step \in 1..25
      /\ UNCHANGED <<latest, here, atStart, starts>>
      /\ step' \in 0..Len(Script) /\ ended' \in {"never", "failed", "done"}
  BY <1>1, GoesOn
<1>3. \/ l = "csharp" /\ step = 17
      \/ l = "java" /\ step = 19
      \/ l = "javascript" /\ step = 21
      \/ l = "python" /\ step = 23
  BY <1>1, VersionAt DEF TypeOK
<1>4. /\ version \in Nat /\ version >= atStart[Registry[l]]
      /\ l = "javascript" => version <= latest["npm"]
  BY <1>2, <1>3, LangsMean DEF TypeOK, Asked
<1>5. image \in [Langs -> Nat]
  BY DEF TypeOK
<1>6. TypeOK'
  BY <1>1, <1>2, <1>4 DEF TypeOK
<1>7. Images'
  <2>1. image'[l] = version /\ \A m \in Langs \ {l} : image'[m] = image[m]
    BY <1>1, <1>5
  <2> QED
    BY <1>1, <1>2, <1>3, <1>4, <2>1, LangsMean DEF Images
<1>8. Asked'
  BY <1>2, <1>3, SameAsked
<1>9. Dependencies' /\ Downloaded' /\ Written'
  BY <1>1, <1>2, <1>3, SameDependencies, SameDownloaded, SameWritten
<1>10. OnlyNewer'
  BY <1>2 DEF OnlyNewer
<1> QED
  BY <1>6, <1>7, <1>8, <1>9, <1>10

LEMMA BadgeKeeps ==
  ASSUME IInv, RewriteBadge PROVE IInv'
<1> USE DEF IInv
<1>1. /\ At("rewrite", "badge") /\ Continue /\ step # 0
      /\ badge' = version /\ version' = None
      /\ UNCHANGED <<buffer, text, package, lock, types, image>>
  BY DEF RewriteBadge, At
<1>2. /\ Reached = step /\ Reached' = step + 1 /\ step \in 1..25
      /\ UNCHANGED <<latest, here, atStart, starts>>
      /\ step' \in 0..Len(Script) /\ ended' \in {"never", "failed", "done"}
  BY <1>1, GoesOn
<1>3. step = 25
  BY <1>1, LastAt DEF TypeOK
<1>4. version \in Nat /\ version >= image["javascript"]
  BY <1>2, <1>3 DEF TypeOK, Asked
<1>5. TypeOK'
  BY <1>1, <1>2, <1>4 DEF TypeOK
<1>6. Images'
  BY <1>1, <1>2, <1>3, <1>4 DEF Images
<1>7. Asked'
  BY <1>2, <1>3, SameAsked
<1>8. Dependencies' /\ Downloaded' /\ Written'
  BY <1>1, <1>2, <1>3, SameDependencies, SameDownloaded, SameWritten
<1>9. OnlyNewer'
  BY <1>2 DEF OnlyNewer
<1> QED
  BY <1>5, <1>6, <1>7, <1>8, <1>9

LEMMA StartKeeps ==
  ASSUME IInv, Start PROVE IInv'
<1> USE DEF IInv
<1>1. /\ step = 0 /\ step' = 1 /\ atStart' = latest
      /\ starts < MaxStarts /\ starts' = starts + 1 /\ here' \in BOOLEAN
      /\ UNCHANGED <<latest, ended, buffer, text, version, package, lock,
                     types, image, badge>>
  BY DEF Start, work, files
<1>2. Reached' = 1 /\ Reached \in {0, 26}
  BY <1>1, ScriptSteps DEF Reached
<1>3. TypeOK'
  <2>1. /\ 1 \in 0..Len(Script)
        /\ starts \in 0..MaxStarts /\ MaxStarts \in Nat
    BY ScriptSteps DEF TypeOK
  <2>2. starts' \in 0..MaxStarts
    BY <1>1, <2>1
  <2> QED
    BY <1>1, <2>1, <2>2 DEF TypeOK
<1>4. OnlyNewer'
  BY <1>1 DEF OnlyNewer, TypeOK
<1>5. Downloaded'
  BY <1>1, <1>2 DEF Downloaded
<1>6. Written'
  BY <1>1, <1>2 DEF Written
<1>7. Dependencies' /\ Asked' /\ Images'
  BY <1>2 DEF Dependencies, Asked, Images
<1> QED
  BY <1>3, <1>4, <1>5, <1>6, <1>7

LEMMA ThrowKeeps ==
  ASSUME IInv, Throw PROVE IInv'
<1> USE DEF IInv
<1>1. /\ step' = 0 /\ ended' = "failed"
      /\ buffer' = <<>> /\ text' = None /\ version' = None
      /\ UNCHANGED <<latest, here, atStart, starts, package, lock, types,
                     image, badge>>
  BY DEF Throw, files
<1>2. Reached' = 0
  BY <1>1 DEF Reached
<1>3. TypeOK'
  <2>1. <<>> \in Seq(Part) /\ 0 \in 0..Len(Script)
    BY ScriptSteps
  <2> QED
    BY <1>1, <2>1 DEF TypeOK
<1>4. Downloaded' /\ Written'
  BY <1>1, <1>2 DEF Downloaded, Written
<1>5. Dependencies' /\ Asked' /\ Images' /\ OnlyNewer'
  BY <1>1, <1>2 DEF Dependencies, Asked, Images, OnlyNewer
<1> QED
  BY <1>3, <1>4, <1>5

LEMMA ReleaseKeeps ==
  ASSUME IInv, NEW g \in Registries, Release(g) PROVE IInv'
<1> USE DEF IInv
<1>1. /\ latest' = [latest EXCEPT ![g] = @ + 1]
      /\ UNCHANGED <<step, here, atStart, ended, starts, buffer, text, version,
                     package, lock, types, image, badge>>
  BY DEF Release, work, files
<1>2. /\ latest' \in [Registries -> Nat]
      /\ \A r \in Registries : latest[r] <= latest'[r] /\ latest[r] \in Nat
                               /\ latest'[r] \in Nat
  BY <1>1 DEF TypeOK
<1>3. Reached' = Reached
  BY <1>1 DEF Reached
<1>4. TypeOK'
  BY <1>1, <1>2 DEF TypeOK
<1>5. OnlyNewer'
  BY <1>1, <1>2 DEF OnlyNewer, TypeOK
<1>6. Dependencies' /\ Downloaded' /\ Written'
  BY <1>1, <1>3 DEF Dependencies, Downloaded, Written, Current
<1>7. latest["npm"] <= latest'["npm"]
  BY <1>2, LangsMean
<1>8. Asked' /\ Images'
  <2>1. /\ latest["npm"] \in Nat /\ latest'["npm"] \in Nat
        /\ image["javascript"] \in Nat /\ version \in Nat \cup {None}
    BY <1>2, LangsMean DEF TypeOK
  <2> QED
    BY <1>1, <1>3, <1>7, <2>1 DEF Asked, Images
<1> QED
  BY <1>4, <1>5, <1>6, <1>8

-----------------------------------------------------------------------------
LEMMA InvInit == Init => IInv
<1> SUFFICES ASSUME Init PROVE IInv
  OBVIOUS
<1> USE DEF Init
<1>1. Reached = 0 /\ step = 0 /\ buffer = <<>>
  BY DEF Reached
<1>2. /\ types \in Seq(Part) /\ Len(types) = 5
      /\ \A i \in DOMAIN types : types[i].part = Parts[i]
  <2>1. types = [i \in 1..5 |-> [part |-> Parts[i], version |-> 0]]
    BY PartsMean
  <2>2. \A i \in 1..5 : [part |-> Parts[i], version |-> 0] \in Part
    BY PartsMean DEF Part
  <2> QED
    BY <2>1, <2>2
<1>3. TypeOK
  <2>1. <<>> \in Seq(Part) /\ 0 \in 0..Len(Script)
    BY ScriptSteps
  <2> QED
    BY <1>2, <2>1 DEF TypeOK
<1>4. OnlyNewer
  BY DEF OnlyNewer
<1>5. Downloaded /\ Written
  BY <1>1, <1>2, PartsMean DEF Downloaded, Written
<1>6. Dependencies /\ Asked /\ Images
  BY <1>1 DEF Dependencies, Asked, Images
<1> QED
  BY <1>3, <1>4, <1>5, <1>6 DEF IInv

LEMMA InvStep == IInv /\ [Next]_vars => IInv'
<1> SUFFICES ASSUME IInv, [Next]_vars PROVE IInv'
  OBVIOUS
<1>1. CASE UNCHANGED vars
  BY <1>1 DEF vars, work, files, IInv, TypeOK, OnlyNewer, Dependencies,
     Downloaded, Written, Current, Asked, Images, Reached
<1>2. CASE Next
  BY <1>2, StartKeeps, ThrowKeeps, WriteKeeps, BadgeKeeps, UpgradeKeeps,
     InstallKeeps, DownloadKeeps, AppendKeeps, AskKeeps, RewriteKeeps,
     ReleaseKeeps DEF Next
<1> QED
  BY <1>1, <1>2

(* The invariant holds, whatever fails, whatever comes out meanwhile and   *)
(* however often the script is started.                                    *)
THEOREM Invariant == Spec => []IInv
BY InvInit, InvStep, PTL DEF Spec

(* Every variable keeps its type: no file is ever written with a version   *)
(* that was not asked for.                                                 *)
THEOREM TypeCorrect == Spec => []TypeOK
<1>1. IInv => TypeOK
  BY DEF IInv
<1> QED
  BY <1>1, Invariant, PTL

(* updateFrontendTypes writes types.txt once, when all five parts are in   *)
(* its buffer in their order: a failed download leaves the former file.    *)
THEOREM TypesStayWhole == Spec => []TypesAreWhole
<1>1. IInv => TypesAreWhole
  <2> SUFFICES ASSUME IInv PROVE TypesAreWhole
    OBVIOUS
  <2>1. /\ DOMAIN types = 1..5
        /\ \A i \in DOMAIN types : types[i].part = Parts[i]
    BY PartsMean DEF IInv, TypeOK, Written
  <2>2. [i \in 1..5 |-> Parts[i]] = Parts
    BY DEF Parts
  <2> QED
    BY <2>1, <2>2 DEF TypesAreWhole
<1> QED
  BY <1>1, Invariant, PTL

(* A start that ends well has brought every file it is there to update to  *)
(* a release no older than when it began, however earlier starts ended and *)
(* whichever of its several questions a release comes between, npm install *)
(* included: it may install a newer one than package.json was given.       *)
THEOREM DoneMeansCurrent == Spec => []DoneIsCurrent
<1>1. IInv => DoneIsCurrent
  <2> SUFFICES ASSUME IInv, ended = "done", step = 0 PROVE DoneIsCurrent
    BY DEF DoneIsCurrent
  <2>1. Reached = 26
    BY ScriptSteps DEF Reached
  <2>2. /\ package["frontend"] >= atStart["npm"]
        /\ lock["frontend"] >= package["frontend"]
        /\ package["e2e"] >= atStart["npm"]
        /\ lock["e2e"] >= package["e2e"]
    BY <2>1 DEF IInv, Dependencies
  <2>3. \A i \in DOMAIN types \ {1} : types[i].version >= atStart["npm"]
    BY <2>1 DEF IInv, Written, Current
  <2>4. /\ image["csharp"] >= atStart["nuget"] /\ image["java"] >= atStart["maven"]
        /\ image["javascript"] >= atStart["npm"] /\ image["python"] >= atStart["pypi"]
        /\ badge >= image["javascript"]
    BY <2>1 DEF IInv, Images
  <2> QED
    BY <2>2, <2>3, <2>4, LangsMean DEF DoneIsCurrent, Folders
<1> QED
  BY <1>1, Invariant, PTL

-----------------------------------------------------------------------------
(* stripFileHeader.  A recursive function over the lines of a file of any  *)
(* length takes induction; the one below is over a set of numbers, which   *)
(* comes from the finite sets 0..n being well-founded under inclusion.     *)

(* Induction over the natural numbers, with a set for the predicate.       *)
LEMMA SetInduction ==
  ASSUME NEW S, 0 \in S, \A n \in Nat : n \in S => n + 1 \in S
  PROVE  Nat \subseteq S
<1> DEFINE R == StrictSubsetOrdering(Nat)
           T == {0..n : n \in Nat \ S}
<1>1. SUFFICES ASSUME T # {} PROVE FALSE
  OBVIOUS
<1>2. IsWellFoundedOn(R, FiniteSubsetsOf(Nat))
  BY FS_StrictSubsetOrderingWellFounded
<1>3. T \subseteq FiniteSubsetsOf(Nat)
  <2> SUFFICES ASSUME NEW n \in Nat PROVE 0..n \in FiniteSubsetsOf(Nat)
    OBVIOUS
  <2>1. 0..n \in SUBSET Nat /\ IsFiniteSet(0..n)
    BY FS_Interval
  <2> QED
    BY <2>1 DEF FiniteSubsetsOf
<1> HIDE DEF T
<1>4. PICK x \in T : \A y \in T : <<y, x>> \notin R
  BY <1>1, <1>2, <1>3, WFMin
<1> USE DEF T
<1>5. PICK m \in Nat \ S : x = 0..m
  OBVIOUS
<1>6. m - 1 \in Nat \ S
  BY <1>5
<1>7. 0..(m - 1) \in T
  BY <1>6
<1>8. <<0..(m - 1), 0..m>> \in R
  <2>1. 0..(m - 1) \in SUBSET Nat /\ 0..m \in SUBSET Nat
    BY <1>6
  <2>2. 0..(m - 1) \subseteq 0..m /\ m \in 0..m /\ m \notin 0..(m - 1)
    BY <1>6
  <2> QED
    BY <2>1, <2>2 DEF StrictSubsetOrdering
<1> QED
  BY <1>4, <1>5, <1>7, <1>8

Begin == [start |-> 0, inComment |-> FALSE, stop |-> FALSE]

(* The loop over the lines: a turn for each of them.                       *)
LEMMA ScannedIs ==
  ASSUME NEW t \in Seq(LineKinds)
  PROVE  Scanned(t) = [i \in 0..Len(t) |->
                        IF i = 0 THEN Begin
                        ELSE Turn(Scanned(t)[i - 1], t[i], i)]
<1> DEFINE F(f, n) == [i \in 0..n |-> IF i = 0 THEN Begin
                                      ELSE Turn(f[i - 1], t[i], i)]
           S == {n \in Nat : \E f : f = F(f, n)}
<1>1. 0 \in S
  <2>1. F([i \in 0..0 |-> Begin], 0) = [i \in 0..0 |-> Begin]
    OBVIOUS
  <2> QED
    BY <2>1
<1>2. \A n \in Nat : n \in S => n + 1 \in S
  <2> SUFFICES ASSUME NEW n \in Nat, n \in S PROVE n + 1 \in S
    OBVIOUS
  <2>1. PICK f : f = F(f, n)
    OBVIOUS
  <2> DEFINE g == [i \in 0..n + 1 |->
                     IF i # n + 1 THEN f[i] ELSE Turn(f[n], t[n + 1], n + 1)]
  <2>2. \A i \in 0..n + 1 : g[i] = IF i = 0 THEN Begin ELSE Turn(g[i - 1], t[i], i)
    <3> SUFFICES ASSUME NEW i \in 0..n + 1
                 PROVE g[i] = IF i = 0 THEN Begin ELSE Turn(g[i - 1], t[i], i)
      OBVIOUS
    <3>1. CASE i = n + 1
      <4>1. n \in 0..n + 1 /\ n # n + 1 /\ i - 1 = n /\ i # 0
        BY <3>1
      <4>2. g[n] = f[n] /\ g[i] = Turn(f[n], t[n + 1], n + 1)
        BY <3>1, <4>1
      <4> HIDE DEF g
      <4> QED
        BY <3>1, <4>1, <4>2
    <3>2. CASE i = 0
      <4>1. g[i] = f[i] /\ f[i] = Begin
        BY <2>1, <3>2
      <4> QED
        BY <3>2, <4>1
    <3>3. CASE i \in 1..n
      <4>1. g[i] = f[i] /\ g[i - 1] = f[i - 1] /\ i \in 0..n /\ i # 0
        BY <3>3
      <4>2. f[i] = Turn(f[i - 1], t[i], i)
        BY <2>1, <4>1
      <4> QED
        BY <4>1, <4>2
    <3> QED
      BY <3>1, <3>2, <3>3
  <2>3. g = F(g, n + 1)
    <3> HIDE DEF g
    <3>1. g = [i \in 0..n + 1 |-> g[i]]
      BY DEF g
    <3> QED
      BY <2>2, <3>1
  <2>4. n + 1 \in Nat /\ \E h : h = F(h, n + 1)
    <3> HIDE DEF g, F
    <3> QED
      BY <2>3
  <2> QED
    BY <2>4
<1>3. \E f : f = F(f, Len(t))
  <2>1. Len(t) \in S
    <3>1. Len(t) \in Nat
      OBVIOUS
    <3> HIDE DEF S
    <3>2. Nat \subseteq S
      BY <1>1, <1>2, SetInduction
    <3> QED
      BY <3>1, <3>2
  <2> QED
    BY <2>1
<1>4. Scanned(t) = CHOOSE f : f = F(f, Len(t))
  BY DEF Scanned, Begin
<1> HIDE DEF F
<1>5. Scanned(t) = F(Scanned(t), Len(t))
  BY <1>3, <1>4
<1> QED
  BY <1>5 DEF F

(* A set of natural numbers has a least one, which the first match is.     *)
LEMMA HasLeast ==
  ASSUME NEW S, S \subseteq Nat, S # {}
  PROVE  \E m \in S : \A j \in S : m <= j
<1> SUFFICES ASSUME \A m \in S : \E j \in S : j < m PROVE FALSE
  OBVIOUS
<1> DEFINE Absent == {n \in Nat : \A j \in 0..n : j \notin S}
<1>1. 0 \in Absent
  OBVIOUS
<1>2. \A n \in Nat : n \in Absent => n + 1 \in Absent
  <2> SUFFICES ASSUME NEW n \in Nat, \A j \in 0..n : j \notin S
               PROVE \A j \in 0..n + 1 : j \notin S
    OBVIOUS
  <2>1. n + 1 \notin S
    <3> SUFFICES ASSUME n + 1 \in S PROVE FALSE
      OBVIOUS
    <3>1. PICK j \in S : j < n + 1
      OBVIOUS
    <3>2. j \in 0..n
      BY <3>1
    <3> QED
      BY <3>2
  <2>2. \A j \in 0..n + 1 : j \in 0..n \/ j = n + 1
    OBVIOUS
  <2> QED
    BY <2>1, <2>2
<1>3. Nat \subseteq Absent
  <2> HIDE DEF Absent
  <2> QED
    BY <1>1, <1>2, SetInduction
<1>4. PICK m \in S : TRUE
  OBVIOUS
<1>5. m \in Absent /\ m \in 0..m
  <2> HIDE DEF Absent
  <2>1. m \in Nat
    BY <1>4
  <2> QED
    BY <1>3, <2>1
<1> QED
  BY <1>4, <1>5

(* The first line after i of one of the kinds, or 0.                       *)
LEMMA ClosesAtMeans ==
  ASSUME NEW t \in Seq(LineKinds), NEW i \in DOMAIN t, NEW kinds,
         NEW e, e = ClosesAt(t, i, kinds)
  PROVE  \/ e = 0 /\ \A j \in i + 1..Len(t) : t[j] \notin kinds
         \/ /\ e \in i + 1..Len(t) /\ t[e] \in kinds
            /\ \A j \in i + 1..e - 1 : t[j] \notin kinds
<1> DEFINE I == {j \in i + 1..Len(t) : t[j] \in kinds}
<1>1. e = IF I # {} THEN Min(I) ELSE 0
  BY DEF ClosesAt, SelectInSubSeq
<1>2. CASE I = {}
  BY <1>1, <1>2
<1>3. CASE I # {}
  <2>1. I \subseteq Nat
    OBVIOUS
  <2>2. \E m \in I : \A j \in I : m <= j
    <3> HIDE DEF I
    <3> QED
      BY <1>3, <2>1, HasLeast
  <2>3. e \in I /\ \A j \in I : e <= j
    <3>1. e = Min(I)
      BY <1>1, <1>3
    <3> HIDE DEF I
    <3> QED
      BY <2>2, <3>1 DEF Min
  <2>4. \A j \in i + 1..e - 1 : j \in i + 1..Len(t) /\ ~(e <= j)
    BY <2>3
  <2> QED
    BY <2>3, <2>4
<1> QED
  BY <1>2, <1>3

(* Lines that a header has only inside of its elements.                    *)
Bare == {"close", "tail", "decl", "hidden"}

(* Where the element that begins with line i ends, or 0: nothing of a      *)
(* header begins there, or what begins is incomplete.                      *)
LEMMA ElementMeans ==
  ASSUME NEW t \in Seq(LineKinds), NEW i \in DOMAIN t,
         NEW e, e = ElementEnd(t, i)
  PROVE  \/ t[i] \in {"skipped", "kept", "comment"} /\ e = i
         \/ /\ t[i] = "open" /\ e \in i + 1..Len(t)
            /\ t[e] \in {"close", "comment"}
            /\ \A j \in i + 1..e - 1 : t[j] \notin {"close", "comment"}
         \/ t[i] = "open" /\ e = 0 /\ ~EndsWithin(t, i, Len(t))
         \/ /\ t[i] \in {"importOpen", "keptOpen"}
            /\ e \in i + 1..Len(t) /\ t[e] = "tail"
         \/ t[i] \in {"importOpen", "keptOpen"} /\ e = 0
         \/ t[i] \in Bare /\ e = 0
<1>1. t[i] \in LineKinds
  OBVIOUS
<1>2. CASE t[i] \in {"skipped", "kept", "comment"}
  BY <1>2 DEF ElementEnd
<1>3. CASE t[i] = "open"
  <2>1. e = ClosesAt(t, i, {"close", "comment"})
    BY <1>3 DEF ElementEnd
  <2> QED
    BY <1>3, <2>1, ClosesAtMeans DEF EndsWithin
<1>4. CASE t[i] \in {"importOpen", "keptOpen"}
  <2>1. e = ClosesAt(t, i, {"tail"})
    BY <1>4 DEF ElementEnd
  <2> QED
    BY <1>4, <2>1, ClosesAtMeans
<1>5. CASE t[i] \in Bare
  BY <1>5 DEF ElementEnd, Bare
<1> QED
  BY <1>1, <1>2, <1>3, <1>4, <1>5 DEF LineKinds, Bare

(* An element ends no earlier than it begins.                              *)
LEMMA ElementGoesOn ==
  ASSUME NEW t \in Seq(LineKinds), NEW i \in DOMAIN t, ElementEnd(t, i) # 0
  PROVE  ElementEnd(t, i) \in i..Len(t)
<1> DEFINE e == ElementEnd(t, i)
<1> HIDE DEF e
<1>1. e \in i..Len(t)
  BY ElementMeans DEF e
<1> QED
  BY <1>1 DEF e

(* The elements of a header, counted from the last.                        *)
LEMMA HeaderEndsIs ==
  ASSUME NEW t \in Seq(LineKinds)
  PROVE  HeaderEnds(t) =
           [i \in 1..Len(t) + 1 |->
              IF i = Len(t) + 1 THEN Len(t)
              ELSE IF ElementEnd(t, i) = 0 THEN i - 1
              ELSE HeaderEnds(t)[ElementEnd(t, i) + 1]]
<1> DEFINE L == Len(t)
           E(i) == ElementEnd(t, i)
           F(f, n) == [i \in L + 1 - n..L + 1 |->
                         IF i = L + 1 THEN L
                         ELSE IF E(i) = 0 THEN i - 1 ELSE f[E(i) + 1]]
           S == {n \in Nat : n <= L => \E f : f = F(f, n)}
<1>0. L \in Nat /\ \A i \in 1..L : E(i) # 0 => E(i) \in i..L
  BY ElementGoesOn
<1> HIDE DEF E, L, F
<1>1. 0 \in S
  <2>1. F([i \in L + 1..L + 1 |-> L], 0) = [i \in L + 1..L + 1 |-> L]
    BY <1>0 DEF F
  <2> QED
    BY <2>1
<1>2. \A n \in Nat : n \in S => n + 1 \in S
  <2> SUFFICES ASSUME NEW n \in Nat, n \in S, n + 1 <= L
               PROVE \E f : f = F(f, n + 1)
    OBVIOUS
  <2>1. PICK f : f = F(f, n)
    BY <1>0
  <2> USE DEF F
  <2> DEFINE g == [i \in L - n..L + 1 |->
                     IF i # L - n THEN f[i]
                     ELSE IF E(i) = 0 THEN i - 1 ELSE f[E(i) + 1]]
  <2>2. \A i \in L - n..L + 1 :
          g[i] = IF i = L + 1 THEN L
                 ELSE IF E(i) = 0 THEN i - 1 ELSE g[E(i) + 1]
    <3> SUFFICES ASSUME NEW i \in L - n..L + 1
                 PROVE g[i] = IF i = L + 1 THEN L
                              ELSE IF E(i) = 0 THEN i - 1 ELSE g[E(i) + 1]
      OBVIOUS
    <3>1. CASE i = L + 1
      BY <1>0, <2>1, <3>1
    <3>2. CASE i # L + 1
      <4>1. i \in 1..L
        BY <1>0, <3>2
      <4>2. E(i) # 0 => /\ E(i) + 1 \in L + 1 - n..L + 1
                        /\ E(i) + 1 # L - n
        BY <1>0, <4>1
      <4>3. E(i) # 0 => g[E(i) + 1] = f[E(i) + 1]
        BY <1>0, <4>2
      <4>4. CASE i = L - n
        BY <1>0, <4>1, <4>3, <4>4
      <4>5. CASE i # L - n
        <5>1. i \in L + 1 - n..L + 1 /\ g[i] = f[i]
          BY <1>0, <4>5
        <5>2. f[i] = IF E(i) = 0 THEN i - 1 ELSE f[E(i) + 1]
          BY <2>1, <3>2, <5>1
        <5> QED
          BY <3>2, <4>3, <5>1, <5>2
      <4> QED
        BY <4>4, <4>5
    <3> QED
      BY <3>1, <3>2
  <2>3. g = F(g, n + 1)
    <3>1. g = [i \in L - n..L + 1 |-> g[i]]
      OBVIOUS
    <3>2. L - n = L + 1 - (n + 1)
      BY <1>0
    <3> HIDE DEF g
    <3> QED
      BY <2>2, <3>1, <3>2
  <2> HIDE DEF g, F
  <2> QED
    BY <2>3
<1>3. \E f : f = F(f, L)
  <2> HIDE DEF S
  <2>1. Nat \subseteq S
    BY <1>1, <1>2, SetInduction
  <2>2. L \in S
    BY <1>0, <2>1
  <2> QED
    BY <1>0, <2>2 DEF S
<1>4. HeaderEnds(t) = CHOOSE f : f = F(f, L)
  <2>1. L + 1 - L = 1
    BY <1>0
  <2> QED
    BY <2>1 DEF HeaderEnds, F, E, L
<1>5. HeaderEnds(t) = F(HeaderEnds(t), L)
  BY <1>3, <1>4
<1> QED
  <2>1. L + 1 - L = 1
    BY <1>0
  <2> QED
    BY <1>5, <2>1 DEF F, E, L

-----------------------------------------------------------------------------
(* What a header is made of, told by its lines alone.                      *)

(* The elements that begin with line i end with line e: no comment goes    *)
(* on after it, the next line is none of a header, and, unless there is an *)
(* import or export of several lines, a bare line is inside a comment.     *)
EndsAt(t, i, e) ==
  /\ e \in i - 1..Len(t)
  /\ e < Len(t) => t[e + 1] \in Bare
  /\ \A j \in i..e : t[j] = "open" => EndsWithin(t, j, e)
  /\ \A j \in i..e :
       /\ t[j] \in Bare
       /\ (\A k \in i..j - 1 : t[k] \notin {"importOpen", "keptOpen"})
       => \E a \in i..j - 1 : t[a] = "open" /\ ~EndsWithin(t, a, j - 1)

(* One element more at the front.                                          *)
LEMMA OneMoreElement ==
  ASSUME NEW t \in Seq(LineKinds), Complete(t), NEW i \in DOMAIN t,
         NEW c, c = ElementEnd(t, i), NEW e,
         c = 0 => e = i - 1, c # 0 => EndsAt(t, c + 1, e)
  PROVE  EndsAt(t, i, e)
<1> DEFINE L == Len(t)
<1>0. \/ t[i] \in {"skipped", "kept", "comment"} /\ c = i
      \/ /\ t[i] = "open" /\ c \in i + 1..L
         /\ t[c] \in {"close", "comment"}
         /\ \A j \in i + 1..c - 1 : t[j] \notin {"close", "comment"}
      \/ t[i] = "open" /\ c = 0 /\ ~EndsWithin(t, i, L)
      \/ /\ t[i] \in {"importOpen", "keptOpen"}
         /\ c \in i + 1..L /\ t[c] = "tail"
      \/ t[i] \in {"importOpen", "keptOpen"} /\ c = 0
      \/ t[i] \in Bare /\ c = 0
  BY ElementMeans
<1>1. L \in Nat /\ i \in 1..L
  OBVIOUS
<1>2. CASE c = 0
  <2>1. t[i] \in Bare
    <3>1. \/ t[i] \in Bare
          \/ t[i] = "open" /\ ~EndsWithin(t, i, Len(t))
          \/ t[i] \in {"importOpen", "keptOpen"}
      BY <1>0, <1>1, <1>2
    <3> QED
      BY <1>2, <3>1 DEF Complete
  <2>2. e = i - 1 /\ e < L /\ e + 1 = i
    BY <1>1, <1>2
  <2> QED
    BY <1>1, <2>1, <2>2 DEF EndsAt
<1>3. CASE c # 0
  <2>1. /\ c \in i..L /\ e \in c..L
        /\ e < L => t[e + 1] \in Bare
    <3>1. c \in i..L
      BY <1>3, ElementGoesOn
    <3> QED
      BY <1>3, <3>1 DEF EndsAt
  <2>2. \/ t[i] \in {"skipped", "kept", "comment"} /\ c = i
        \/ /\ t[i] = "open" /\ c \in i + 1..L
           /\ t[c] \in {"close", "comment"}
           /\ \A j \in i + 1..c - 1 : t[j] \notin {"close", "comment"}
        \/ /\ t[i] \in {"importOpen", "keptOpen"}
           /\ c \in i + 1..L /\ t[c] = "tail"
    BY <1>0, <1>3
  <2>3. ASSUME NEW j \in i..e, t[j] = "open" PROVE EndsWithin(t, j, e)
    <3>1. CASE j \in c + 1..e
      BY <1>3, <2>3, <3>1 DEF EndsAt
    <3>2. CASE j \in i..c /\ t[i] \in {"skipped", "kept", "comment"}
      BY <2>2, <2>3, <3>2
    <3>3. CASE j \in i..c /\ t[i] = "open"
      <4>1. c \in j + 1..e /\ t[c] \in {"close", "comment"}
        BY <1>1, <2>1, <2>2, <2>3, <3>3
      <4> QED
        BY <4>1 DEF EndsWithin
    <3>4. CASE j \in i..c /\ t[i] \in {"importOpen", "keptOpen"}
      <4>1. j \in i + 1..c
        BY <1>1, <2>1, <2>3, <3>4
      <4>2. EndsWithin(t, j, c - 1)
        BY <2>3, <3>4, <4>1 DEF Complete
      <4> QED
        BY <1>1, <2>1, <4>2 DEF EndsWithin
    <3> QED
      BY <1>1, <2>1, <2>2, <3>1, <3>2, <3>3, <3>4
  <2>4. ASSUME NEW j \in i..e, t[j] \in Bare,
               \A k \in i..j - 1 : t[k] \notin {"importOpen", "keptOpen"}
        PROVE \E a \in i..j - 1 : t[a] = "open" /\ ~EndsWithin(t, a, j - 1)
    <3>1. CASE j \in c + 1..e
      <4>1. \A k \in c + 1..j - 1 : k \in i..j - 1
        BY <1>1, <2>1
      <4>2. \E a \in c + 1..j - 1 : t[a] = "open" /\ ~EndsWithin(t, a, j - 1)
        BY <1>3, <2>4, <3>1, <4>1 DEF EndsAt
      <4> QED
        BY <1>1, <2>1, <4>2
    <3>2. CASE j \in i..c
      <4>1. j # i
        BY <2>2, <2>4 DEF Bare
      <4>2. j # i /\ t[i] = "open"
        <5>1. i \in i..j - 1
          BY <1>1, <2>1, <3>2, <4>1
        <5> QED
          BY <2>2, <2>4, <3>2, <4>1, <5>1 DEF Bare
      <4>3. \A k \in i + 1..j - 1 : k \in i + 1..c - 1
        BY <1>1, <2>1, <3>2
      <4>4. ~EndsWithin(t, i, j - 1)
        BY <2>2, <4>2, <4>3 DEF EndsWithin
      <4>5. i \in i..j - 1
        BY <1>1, <2>1, <3>2, <4>2
      <4> QED
        BY <4>2, <4>4, <4>5
    <3> QED
      BY <1>1, <2>1, <3>1, <3>2
  <2> QED
    BY <1>1, <2>1, <2>3, <2>4 DEF EndsAt
<1> QED
  BY <1>2, <1>3

(* By induction from the last element to the first.                        *)
LEMMA HeaderIs ==
  ASSUME NEW t \in Seq(LineKinds), Complete(t)
  PROVE  EndsAt(t, 1, HeaderLength(t))
<1> DEFINE L == Len(t)
           E(i) == HeaderEnds(t)[i]
           S == {n \in Nat : \A i \in 1..L + 1 : L + 1 - i <= n => EndsAt(t, i, E(i))}
<1>1. L \in Nat /\ DOMAIN t = 1..L
  OBVIOUS
<1>2. EndsAt(t, L + 1, E(L + 1))
  <2>1. E(L + 1) = L
    BY <1>1, HeaderEndsIs
  <2> QED
    BY <1>1, <2>1 DEF EndsAt
<1>3. \A i \in 1..L :
        /\ ElementEnd(t, i) = 0 => E(i) = i - 1
        /\ ElementEnd(t, i) # 0 => E(i) = E(ElementEnd(t, i) + 1)
  <2> SUFFICES ASSUME NEW i \in 1..L
               PROVE /\ ElementEnd(t, i) = 0 => E(i) = i - 1
                     /\ ElementEnd(t, i) # 0 => E(i) = E(ElementEnd(t, i) + 1)
    OBVIOUS
  <2>1. i \in 1..L + 1 /\ i # L + 1
    BY <1>1
  <2> QED
    BY <2>1, HeaderEndsIs
<1> HIDE DEF E, L
<1>4. 0 \in S
  BY <1>1, <1>2
<1>5. \A n \in Nat : n \in S => n + 1 \in S
  <2> SUFFICES ASSUME NEW n \in Nat, n \in S, NEW i \in 1..L + 1, L + 1 - i <= n + 1
               PROVE EndsAt(t, i, E(i))
    OBVIOUS
  <2>1. CASE i = L + 1
    BY <1>2, <2>1
  <2>2. CASE i # L + 1
    <3> DEFINE c == ElementEnd(t, i)
    <3>1. i \in 1..L /\ i \in DOMAIN t
      BY <1>1, <2>2
    <3>2. c # 0 => c \in i..L
      BY <3>1, ElementGoesOn DEF L
    <3>3. c # 0 => EndsAt(t, c + 1, E(c + 1))
      BY <1>1, <3>1, <3>2
    <3>4. /\ c = 0 => E(i) = i - 1
          /\ c # 0 => E(i) = E(c + 1)
      BY <1>3, <3>1
    <3> HIDE DEF S
    <3>5. c # 0 => EndsAt(t, c + 1, E(i))
      BY <3>3, <3>4
    <3> QED
      BY <3>1, <3>4, <3>5, OneMoreElement
  <2> QED
    BY <2>1, <2>2
<1>6. L \in S
  <2> HIDE DEF S
  <2>1. Nat \subseteq S
    BY <1>4, <1>5, SetInduction
  <2> QED
    BY <1>1, <2>1
<1>7. 1 \in 1..L + 1 /\ L + 1 - 1 <= L
  BY <1>1
<1> QED
  BY <1>6, <1>7 DEF HeaderLength, E

-----------------------------------------------------------------------------
(* What the loop has done after some lines of the file.                    *)

ScanState == [start : Nat, inComment : BOOLEAN, stop : BOOLEAN]

(* What the loop does with a line outside of comments: it goes on to the   *)
(* next one, or stops.                                                     *)
Passed == {"skipped", "importOpen", "hidden"}
Stopping == {"close", "tail", "decl", "kept", "keptOpen"}

(* What a turn does with line i of kind k: s before it, r after it.        *)
OneTurn(s, k, i, r) ==
  /\ r \in ScanState
  /\ s.stop => r = s
  /\ ~s.stop /\ k \in {"open", "comment"} =>
       r.start = i /\ r.inComment /\ ~r.stop
  /\ ~s.stop /\ k = "close" /\ s.inComment =>
       r.start = i /\ ~r.inComment /\ ~r.stop
  /\ ~s.stop /\ k \notin {"open", "comment", "close"} /\ s.inComment => r = s
  /\ ~s.stop /\ ~s.inComment /\ k \in Passed =>
       r.start = i /\ ~r.inComment /\ ~r.stop
  /\ ~s.stop /\ ~s.inComment /\ k \in Stopping => r.start = s.start /\ r.stop

(* The turn, case by case.                                                 *)
LEMMA TurnMeans ==
  ASSUME NEW s \in ScanState, NEW k \in LineKinds, NEW i \in Nat
  PROVE  OneTurn(s, k, i, Turn(s, k, i))
<1> DEFINE r == Turn(s, k, i)
<1> USE DEF OneTurn
<1>1. CASE s.stop
  BY <1>1 DEF Turn
<1>2. CASE ~s.stop /\ k \in {"open", "comment"}
  <2>1. r = [s EXCEPT !.inComment = TRUE, !.start = i]
    BY <1>2 DEF Turn, Starts
  <2> QED
    BY <1>2, <2>1 DEF ScanState, Passed, Stopping
<1>3. CASE ~s.stop /\ k \notin {"open", "comment"} /\ s.inComment
  <2>1. r = IF k = "close" THEN [s EXCEPT !.inComment = FALSE, !.start = i] ELSE s
    BY <1>3 DEF Turn, Starts, Ends
  <2> QED
    BY <1>3, <2>1 DEF ScanState, Passed, Stopping
<1>4. CASE ~s.stop /\ ~s.inComment /\ k \in Passed
  <2>1. r = [s EXCEPT !.start = i]
    BY <1>4 DEF Turn, Starts, Skipped, Passed
  <2> QED
    BY <1>4, <2>1 DEF ScanState, Passed, Stopping
<1>5. CASE ~s.stop /\ ~s.inComment /\ k \in Stopping
  <2>1. r = [s EXCEPT !.stop = TRUE]
    BY <1>5 DEF Turn, Starts, Skipped, Stopping
  <2> QED
    BY <1>5, <2>1 DEF ScanState, Passed, Stopping
<1> QED
  BY <1>1, <1>2, <1>3, <1>4, <1>5 DEF LineKinds, Passed, Stopping

(* After n lines, with a header of h lines: nothing beyond the header is   *)
(* taken, because a comment open inside it ends inside it, and what        *)
(* follows it stops the loop.                                              *)
ScanGoes(t, h, s, n) ==
  /\ s \in ScanState
  /\ s.start <= n /\ s.start <= h
  /\ n <= h /\ ~s.stop /\ s.inComment => EndsWithin(t, n, h)
  /\ n > h => s.stop

(* Up to the first line that is special all of the header is taken: the    *)
(* loop is in a comment wherever the file is, goes on there, and takes the *)
(* comment with its last line.  A line it stops at is not taken.           *)
Plain(t, n) == FreeOf(t, n, {"comment", "importOpen", "kept", "keptOpen"})
Plainly(t, i) == Plain(t, i - 1) /\ t[i] \notin {"kept", "keptOpen"}

InHeader(t, h, s, n) ==
  /\ ~s.stop
  /\ s.inComment \/ s.start = n
  /\ s.inComment => EndsWithin(t, n, h)
  /\ \A a \in 1..n : t[a] = "open" /\ ~EndsWithin(t, a, n) => s.inComment

Takes(t, h, s, n, i) ==
  s.start >= i \/ (~s.stop /\ s.inComment /\ EndsWithin(t, n, h))

ScanTakes(t, h, s, n) ==
  /\ s \in ScanState
  /\ n <= h /\ Plain(t, n) => InHeader(t, h, s, n)
  /\ \A i \in 1..h : i <= n /\ Plainly(t, i) => Takes(t, h, s, n, i)

(* A turn keeps what is known of the loop.                                 *)
LEMMA ScanGoesOn ==
  ASSUME NEW t \in Seq(LineKinds), NEW h \in 0..Len(t), EndsAt(t, 1, h),
         FreeOf(t, h, {"comment"}), h < Len(t) => t[h + 1] # "hidden",
         NEW n \in Nat, n + 1 <= Len(t),
         NEW s, NEW r, OneTurn(s, t[n + 1], n + 1, r),
         ScanGoes(t, h, s, n)
  PROVE  ScanGoes(t, h, r, n + 1)
<1> DEFINE k == t[n + 1]
<1>1. k \in LineKinds /\ n + 1 \in 1..Len(t) /\ h \in Nat /\ Len(t) \in Nat
  OBVIOUS
<1>2. s \in ScanState /\ s.start \in Nat
  BY DEF ScanGoes, ScanState
<1>3. /\ r \in ScanState
      /\ s.stop => r = s
      /\ ~s.stop /\ k \in {"open", "comment"} =>
           r.start = n + 1 /\ r.inComment /\ ~r.stop
      /\ ~s.stop /\ k = "close" /\ s.inComment =>
           r.start = n + 1 /\ ~r.inComment /\ ~r.stop
      /\ ~s.stop /\ k \notin {"open", "comment", "close"} /\ s.inComment => r = s
      /\ ~s.stop /\ ~s.inComment /\ k \in Passed =>
           r.start = n + 1 /\ ~r.inComment /\ ~r.stop
      /\ ~s.stop /\ ~s.inComment /\ k \in Stopping => r.start = s.start /\ r.stop
  BY DEF OneTurn
<1>4. CASE s.stop
  BY <1>1, <1>2, <1>3, <1>4 DEF ScanGoes
<1>5. CASE ~s.stop /\ n + 1 <= h
  <2>1. k # "comment"
    BY <1>1, <1>5 DEF FreeOf
  <2>2. CASE k = "open"
    <3>1. EndsWithin(t, n + 1, h)
      BY <1>1, <1>5, <2>2 DEF EndsAt
    <3> QED
      BY <1>1, <1>3, <1>5, <2>2, <3>1 DEF ScanGoes
  <2>3. CASE k # "open" /\ s.inComment
    <3>1. CASE k = "close"
      BY <1>1, <1>3, <1>5, <2>3, <3>1 DEF ScanGoes
    <3>2. CASE k # "close"
      <4>1. r = s
        BY <1>3, <1>5, <2>1, <2>3, <3>2
      <4>2. PICK j \in n + 1..h : t[j] \in {"close", "comment"}
        BY <1>1, <1>5, <2>3 DEF ScanGoes, EndsWithin
      <4>3. j \in n + 1 + 1..h
        BY <1>1, <2>1, <3>2, <4>2
      <4>4. EndsWithin(t, n + 1, h)
        BY <4>2, <4>3 DEF EndsWithin
      <4> QED
        BY <1>1, <1>2, <1>5, <4>1, <4>4 DEF ScanGoes
    <3> QED
      BY <3>1, <3>2
  <2>4. CASE k # "open" /\ ~s.inComment
    <3>1. k \in Passed \/ k \in Stopping
      BY <1>1, <2>1, <2>4 DEF LineKinds, Passed, Stopping
    <3> QED
      BY <1>1, <1>2, <1>3, <1>5, <2>4, <3>1 DEF ScanGoes
  <2> QED
    BY <2>2, <2>3, <2>4
<1>6. CASE ~s.stop /\ n + 1 > h
  <2>1. n = h
    BY <1>1, <1>6 DEF ScanGoes
  <2>2. k \in Stopping
    BY <1>1, <2>1 DEF EndsAt, Bare, Stopping
  <2>3. ~s.inComment
    BY <1>1, <1>6, <2>1 DEF ScanGoes, EndsWithin
  <2> QED
    BY <1>1, <1>2, <1>3, <1>6, <2>1, <2>2, <2>3 DEF ScanGoes
<1> QED
  BY <1>1, <1>4, <1>5, <1>6

(* One line of the header more, in the part that holds no special line.    *)
LEMMA StaysInHeader ==
  ASSUME NEW t \in Seq(LineKinds), NEW h \in 0..Len(t), EndsAt(t, 1, h),
         NEW n \in Nat, n + 1 <= h, Plain(t, n),
         NEW s, NEW r, OneTurn(s, t[n + 1], n + 1, r),
         s \in ScanState, InHeader(t, h, s, n)
  PROVE  /\ Plain(t, n + 1) => InHeader(t, h, r, n + 1)
         /\ t[n + 1] \notin {"kept", "keptOpen"} => Takes(t, h, r, n + 1, n + 1)
<1> DEFINE k == t[n + 1]
<1>1. /\ k \in LineKinds /\ n + 1 \in 1..h /\ h \in Nat /\ Len(t) \in Nat
      /\ s.start \in Nat /\ n + 1 >= n + 1
  BY DEF ScanState
<1>2. /\ k \in {"open", "comment"} => r.start = n + 1 /\ r.inComment /\ ~r.stop
      /\ k = "close" /\ s.inComment => r.start = n + 1 /\ ~r.inComment /\ ~r.stop
      /\ k \notin {"open", "comment", "close"} /\ s.inComment => r = s
      /\ ~s.inComment /\ k \in Passed =>
           r.start = n + 1 /\ ~r.inComment /\ ~r.stop
  BY DEF OneTurn, InHeader
<1>3. /\ s.inComment \/ s.start = n
      /\ ~s.stop /\ (s.inComment => EndsWithin(t, n, h))
      /\ \A a \in 1..n : t[a] = "open" /\ ~EndsWithin(t, a, n) => s.inComment
  BY DEF InHeader
<1>4. \A a \in 1..n : ~EndsWithin(t, a, n + 1) => ~EndsWithin(t, a, n)
  BY DEF EndsWithin
<1>5. \A a \in 1..n + 1 : a \in 1..n \/ a = n + 1
  OBVIOUS
<1>6. CASE k = "open"
  <2>1. EndsWithin(t, n + 1, h)
    BY <1>1, <1>6 DEF EndsAt
  <2> QED
    BY <1>1, <1>2, <1>6, <2>1 DEF InHeader, Takes
<1>7. CASE k = "comment"
  <2>1. ~Plain(t, n + 1)
    BY <1>7 DEF Plain, FreeOf
  <2> QED
    BY <1>1, <1>2, <1>7, <2>1 DEF Takes
<1>8. CASE k = "close" /\ s.inComment
  <2>1. \A a \in 1..n : EndsWithin(t, a, n + 1)
    BY <1>8 DEF EndsWithin
  <2> QED
    BY <1>1, <1>2, <1>5, <1>8, <2>1 DEF InHeader, Takes
<1>9. CASE k \notin {"open", "comment", "close"} /\ s.inComment
  <2>1. r = s
    BY <1>2, <1>9
  <2>2. EndsWithin(t, n + 1, h)
    <3>1. PICK j \in n + 1..h : t[j] \in {"close", "comment"}
      BY <1>3, <1>9 DEF EndsWithin
    <3>2. j \in n + 1 + 1..h
      BY <1>1, <1>9, <3>1
    <3> QED
      BY <3>1, <3>2 DEF EndsWithin
  <2> QED
    BY <1>1, <1>3, <1>9, <2>1, <2>2 DEF InHeader, Takes
<1>10. CASE k \in {"kept", "keptOpen"} /\ ~s.inComment
  <2>1. ~Plain(t, n + 1)
    BY <1>10 DEF Plain, FreeOf
  <2> QED
    BY <1>10, <2>1
<1>11. CASE k \notin {"open", "comment", "kept", "keptOpen"} /\ ~s.inComment
  <2>1. k \notin Bare
    <3> SUFFICES ASSUME k \in Bare PROVE FALSE
      OBVIOUS
    <3>1. n + 1 - 1 = n /\ \A j \in 1..n : t[j] \notin {"importOpen", "keptOpen"}
      BY DEF Plain, FreeOf
    <3>2. \E a \in 1..n : t[a] = "open" /\ ~EndsWithin(t, a, n)
      BY <1>1, <3>1 DEF EndsAt
    <3> QED
      BY <1>3, <1>11, <3>2
  <2>2. k \in Passed
    BY <1>1, <1>11, <2>1 DEF LineKinds, Bare, Passed
  <2>3. r.start = n + 1 /\ ~r.inComment /\ ~r.stop
    BY <1>2, <1>11, <2>2
  <2>4. \A a \in 1..n + 1 : ~(t[a] = "open" /\ ~EndsWithin(t, a, n + 1))
    BY <1>3, <1>4, <1>5, <1>11
  <2> QED
    BY <1>1, <2>3, <2>4 DEF InHeader, Takes
<1> QED
  BY <1>6, <1>7, <1>8, <1>9, <1>10, <1>11

LEMMA ScanTakesOn ==
  ASSUME NEW t \in Seq(LineKinds), NEW h \in 0..Len(t), EndsAt(t, 1, h),
         NEW n \in Nat, n + 1 <= Len(t),
         NEW s, NEW r, OneTurn(s, t[n + 1], n + 1, r), ScanTakes(t, h, s, n)
  PROVE  ScanTakes(t, h, r, n + 1)
<1> DEFINE k == t[n + 1]
<1>1. /\ s \in ScanState /\ r \in ScanState /\ s.start \in Nat /\ r.start \in Nat
      /\ k \in LineKinds /\ h \in Nat
  BY DEF ScanTakes, OneTurn, ScanState
<1>2. n + 1 <= h /\ Plain(t, n) =>
        /\ Plain(t, n + 1) => InHeader(t, h, r, n + 1)
        /\ k \notin {"kept", "keptOpen"} => Takes(t, h, r, n + 1, n + 1)
  <2> SUFFICES ASSUME n + 1 <= h, Plain(t, n)
               PROVE /\ Plain(t, n + 1) => InHeader(t, h, r, n + 1)
                     /\ k \notin {"kept", "keptOpen"} =>
                          Takes(t, h, r, n + 1, n + 1)
    OBVIOUS
  <2>1. InHeader(t, h, s, n)
    BY <1>1 DEF ScanTakes
  <2> QED
    BY <1>1, <2>1, StaysInHeader
<1>3. Plain(t, n + 1) => Plain(t, n)
  BY DEF Plain, FreeOf
<1>4. ASSUME NEW i \in 1..h, i <= n, Takes(t, h, s, n, i)
      PROVE Takes(t, h, r, n + 1, i)
  <2>1. CASE s.stop
    BY <1>4, <2>1 DEF Takes, OneTurn
  <2>2. CASE ~s.stop /\ s.inComment /\ EndsWithin(t, n, h)
            /\ k \notin {"open", "comment", "close"}
    <3>1. r = s
      BY <2>2 DEF OneTurn
    <3>2. PICK j \in n + 1..h : t[j] \in {"close", "comment"}
      BY <2>2 DEF EndsWithin
    <3>3. j \in n + 1 + 1..h
      BY <1>1, <2>2, <3>2
    <3>4. EndsWithin(t, n + 1, h)
      BY <3>2, <3>3 DEF EndsWithin
    <3> QED
      BY <2>2, <3>1, <3>4 DEF Takes
  <2>3. CASE ~s.stop /\ s.inComment /\ k \in {"open", "comment", "close"}
    <3>1. r.start = n + 1
      BY <2>3 DEF OneTurn
    <3> QED
      BY <1>4, <3>1 DEF Takes
  <2>4. CASE ~s.stop /\ s.start >= i
    <3>1. r.start = s.start \/ r.start = n + 1
      BY <1>1, <2>4 DEF OneTurn, LineKinds, Passed, Stopping
    <3> QED
      BY <1>1, <1>4, <2>4, <3>1 DEF Takes
  <2> QED
    BY <1>4, <2>1, <2>2, <2>3, <2>4 DEF Takes
<1>5. ASSUME NEW i \in 1..h, i <= n + 1, Plainly(t, i)
      PROVE Takes(t, h, r, n + 1, i)
  <2>1. CASE i <= n
    BY <1>4, <1>5, <2>1 DEF ScanTakes
  <2>2. CASE i = n + 1
    <3>1. i - 1 = n /\ n + 1 <= h
      BY <1>1, <2>2
    <3> QED
      BY <1>2, <1>5, <2>2, <3>1 DEF Plainly
  <2> QED
    BY <1>1, <1>5, <2>1, <2>2
<1> QED
  BY <1>1, <1>2, <1>3, <1>5 DEF ScanTakes

(* By induction over the lines: what is taken when the loop has ended.     *)
LEMMA ScanEnds ==
  ASSUME NEW t \in Seq(LineKinds), Complete(t),
         NEW h, h = HeaderLength(t),
         NEW taken, taken = Scanned(t)[Len(t)].start
  PROVE  /\ h \in 0..Len(t) /\ taken \in 0..Len(t)
         /\ \A i \in 1..h : Plainly(t, i) => i <= taken
         /\ /\ FreeOf(t, h, {"comment"})
            /\ h < Len(t) => t[h + 1] # "hidden"
            => taken <= h
<1> DEFINE L == Len(t)
           s(n) == Scanned(t)[n]
           one == /\ FreeOf(t, h, {"comment"})
                  /\ h < Len(t) => t[h + 1] # "hidden"
           Good(n) == /\ s(n).start <= n
                      /\ ScanTakes(t, h, s(n), n)
                      /\ one => ScanGoes(t, h, s(n), n)
           S == {n \in Nat : n <= L => Good(n)}
<1>1. EndsAt(t, 1, h) /\ L \in Nat /\ h \in 0..L
  <2>1. EndsAt(t, 1, h) /\ L \in Nat
    BY HeaderIs
  <2> QED
    BY <2>1 DEF EndsAt
<1>2. s(0) = Begin
  <2>1. 0 \in 0..L
    BY <1>1
  <2> QED
    BY <2>1, ScannedIs
<1>3. \A n \in Nat : n + 1 <= L /\ s(n) \in ScanState =>
        OneTurn(s(n), t[n + 1], n + 1, s(n + 1))
  <2> SUFFICES ASSUME NEW n \in Nat, n + 1 <= L, s(n) \in ScanState
               PROVE OneTurn(s(n), t[n + 1], n + 1, s(n + 1))
    OBVIOUS
  <2>1. /\ n + 1 \in 0..L /\ n + 1 # 0 /\ n + 1 - 1 = n
        /\ n + 1 \in Nat /\ t[n + 1] \in LineKinds
    BY <1>1
  <2>2. s(n + 1) = Turn(s(n), t[n + 1], n + 1)
    BY <2>1, ScannedIs
  <2> HIDE DEF s
  <2> QED
    BY <2>1, <2>2, TurnMeans
<1> HIDE DEF s
<1>4. 0 \in S
  <2>1. Begin \in ScanState /\ Begin.start = 0
        /\ ~Begin.inComment /\ ~Begin.stop
    BY DEF Begin, ScanState
  <2>2. ScanGoes(t, h, s(0), 0)
    BY <1>1, <1>2, <2>1 DEF ScanGoes
  <2>3. ScanTakes(t, h, s(0), 0)
    BY <1>1, <1>2, <2>1 DEF ScanTakes, InHeader
  <2> QED
    BY <1>2, <2>1, <2>2, <2>3
<1>5. \A n \in Nat : n \in S => n + 1 \in S
  <2> SUFFICES ASSUME NEW n \in Nat, Good(n), n + 1 <= L PROVE Good(n + 1)
    BY <1>1
  <2>1. s(n) \in ScanState /\ s(n).start \in Nat
    BY DEF ScanTakes, ScanState
  <2>2. OneTurn(s(n), t[n + 1], n + 1, s(n + 1))
    BY <1>3, <2>1
  <2>3. s(n + 1).start <= n + 1
    <3>1. s(n + 1).start = s(n).start \/ s(n + 1).start = n + 1
      <4>1. t[n + 1] \in LineKinds
        BY <1>1
      <4> QED
        BY <2>2, <4>1 DEF OneTurn, LineKinds, Passed, Stopping
    <3> QED
      BY <2>1, <3>1
  <2>4. ScanTakes(t, h, s(n + 1), n + 1)
    BY <1>1, <2>2, ScanTakesOn
  <2>5. one => ScanGoes(t, h, s(n + 1), n + 1)
    BY <1>1, <2>2, ScanGoesOn
  <2> QED
    BY <2>3, <2>4, <2>5
<1>6. Good(L)
  <2>1. Nat \subseteq S
    <3> HIDE DEF S
    <3> QED
      BY <1>4, <1>5, SetInduction
  <2> QED
    BY <1>1, <2>1
<1>7. taken = s(L).start /\ taken \in 0..L
  <2>1. taken = s(L).start
    BY DEF s
  <2> QED
    BY <1>1, <1>6, <2>1 DEF ScanTakes, ScanState
<1>8. \A i \in 1..h : Plainly(t, i) => i <= taken
  <2>1. ~EndsWithin(t, L, h)
    BY <1>1 DEF EndsWithin
  <2> QED
    BY <1>1, <1>6, <1>7, <2>1 DEF ScanTakes, Takes
<1>9. one => taken <= h
  BY <1>6, <1>7 DEF ScanGoes
<1> QED
  BY <1>1, <1>7, <1>8, <1>9

(* What the script downloads is complete, so its header is stripped.       *)
LEMMA TypesStrip == TypeOK => StripsTheHeader
<1> SUFFICES ASSUME TypeOK, text # None PROVE StripsTheHeader
  BY DEF StripsTheHeader
<1> DEFINE h == HeaderLength(text)
           start == Scanned(text)[Len(text)].start
<1>1. text \in Seq(LineKinds) /\ Complete(text)
  <2>1. CASE text \in Texts
    BY <2>1, UpdateAssumption, TextsAreComplete
  <2>2. CASE text = <<>>
    BY <2>2 DEF Complete
  <2> QED
    BY <2>1, <2>2 DEF TypeOK
<1>2. /\ h \in 0..Len(text) /\ start \in 0..Len(text)
      /\ \A i \in 1..h : Plainly(text, i) => i <= start
      /\ /\ FreeOf(text, h, {"comment"})
         /\ h < Len(text) => text[h + 1] # "hidden"
         => start <= h
  <2> HIDE DEF h, start
  <2>1. h = HeaderLength(text) /\ start = Scanned(text)[Len(text)].start
    BY DEF h, start
  <2> QED
    BY <1>1, <2>1, ScanEnds
<1>3. Taken = start
  <2> HIDE DEF start
  <2>1. StripFileHeader(text) = SubSeq(text, start + 1, Len(text))
    BY DEF StripFileHeader, start
  <2>2. Len(SubSeq(text, start + 1, Len(text))) = Len(text) - start
    BY <1>1, <1>2
  <2> QED
    BY <1>1, <1>2, <2>1, <2>2 DEF Taken
<1> HIDE DEF start, h
<1>4. ASSUME NEW i \in 1..h, FreeOf(text, i - 1, {"comment", "importOpen"}),
             FreeOf(text, i, {"kept", "keptOpen"})
      PROVE i <= Taken
  <2>1. \A j \in 1..i - 1 : j \in 1..i
    BY <1>2
  <2>2. Plainly(text, i)
    BY <1>2, <1>4, <2>1 DEF Plainly, Plain, FreeOf
  <2> QED
    BY <1>2, <1>3, <2>2
<1>5. /\ FreeOf(text, h, {"comment"})
      /\ h < Len(text) => text[h + 1] # "hidden"
      => Taken <= h
  BY <1>2, <1>3
<1> QED
  BY <1>4, <1>5 DEF StripsTheHeader, h

(* stripFileHeader takes every line of the header of a complete file up to *)
(* the first it keeps (an "export type { A } from"), the first comment of  *)
(* one line, or the first line of an import or export of several; and      *)
(* nothing of what follows the header, unless the header has a comment of  *)
(* one line, or a declaration it takes for none follows at once.           *)
THEOREM HeadersAreStripped == Spec => []StripsTheHeader
BY TypeCorrect, TypesStrip, PTL
=============================================================================
