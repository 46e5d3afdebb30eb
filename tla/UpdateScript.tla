---------------------------- MODULE UpdateScript ----------------------------
(***************************************************************************)
(* The script that brings the repository to the current release of         *)
(* Playwright (update_pw.mjs): a sequence of commands, downloads and       *)
(* rewritten files, of which any may throw and end it.  Releases come out  *)
(* while it runs, and it is started again after a failure.                 *)
(*                                                                         *)
(* A version is a number.  A line of a type definition file is its kind,   *)
(* as far as stripFileHeader or the syntax tells lines apart.              *)
(***************************************************************************)
EXTENDS Integers, SequencesExt

CONSTANTS Texts,       \* the contents a downloaded file may have
          None,
          MaxReleases, \* bound: releases to all registries together
          MaxStarts    \* bound: how often the script is started

(* "open" begins a block comment, "close" ends one, "comment" does both;   *)
(* "skipped" is blank, a // comment, or a complete import, or export that  *)
(* declares nothing, which stripFileHeader takes; "kept" is one it leaves, *)
(* as "export type { A } from"; "importOpen" and "keptOpen" are the same,  *)
(* with more lines up to a "tail"; "hidden" begins a declaration the       *)
(* pattern takes for none, as "export abstract class"; "decl" is any other *)
(* line.  A line has one of these, and nothing after the end of a comment. *)
LineKinds == {"open", "close", "comment", "skipped", "kept", "importOpen",
              "keptOpen", "tail", "hidden", "decl"}

ASSUME UpdateAssumption ==
  /\ Texts \subseteq Seq(LineKinds)
  /\ MaxReleases \in Nat /\ MaxStarts \in Nat
  /\ None \notin Nat

VARIABLES latest,  \* latest[g]: the version registry g serves
          step,    \* the step the script is at, 0 when it is not running
          here,    \* was it started in the repository's own directory?
          atStart, \* history: latest when it was started
          ended,   \* how the last start ended
          starts,  \* how often it was started
          buffer,  \* typesBuffer: the parts so far
          text,    \* the file just downloaded
          version, \* the version just asked for
          package, \* package[f]: what package.json of folder f asks for
          lock,    \* lock[f]: what is installed in folder f
          types,   \* types.txt
          image,   \* image[l]: PLAYWRIGHT_VERSION in the Dockerfile of l
          badge    \* the version on the badge of README.md

files == <<package, lock, types, image, badge>>
work == <<buffer, text, version>>
vars == <<latest, step, here, atStart, ended, starts, work, files>>

Folders == {"frontend", "e2e"}
Registry == [csharp |-> "nuget", java |-> "maven", javascript |-> "npm",
             python |-> "pypi"]
Langs == DOMAIN Registry
Registries == {Registry[l] : l \in Langs}

(* The parts of types.txt in order; the first, of @types/node@18, follows  *)
(* no release.                                                             *)
Parts == <<"globals", "protocol", "structs", "types", "test">>
Stripped == {"globals", "structs", "types"}
Served(p) == IF p = "globals" THEN 0 ELSE latest["npm"]

UpdateDependencies(f) == <<[do |-> "upgrade", of |-> f],
                           [do |-> "install", of |-> f]>>
AddPart(p) == <<[do |-> "download", of |-> p], [do |-> "append", of |-> p]>>
UpdateFrontendTypes ==
  AddPart("globals") \o AddPart("protocol") \o AddPart("structs")
  \o AddPart("types") \o AddPart("test") \o <<[do |-> "write", of |-> "types"]>>
UpdateWorker(l) == <<[do |-> "ask", of |-> l], [do |-> "rewrite", of |-> l]>>
UpdateMainReadMeBadge == <<[do |-> "ask", of |-> "javascript"],
                           [do |-> "rewrite", of |-> "badge"]>>

(* Mutant: the badge is written with the version asked for last.           *)
ScriptAsksOnce ==
  UpdateDependencies("frontend") \o UpdateDependencies("e2e")
  \o UpdateFrontendTypes
  \o UpdateWorker("csharp") \o UpdateWorker("java")
  \o UpdateWorker("javascript") \o UpdateWorker("python")
  \o <<[do |-> "rewrite", of |-> "badge"]>>

(* The steps that can fail by themselves, in the order of the script.      *)
Script ==
  UpdateDependencies("frontend") \o UpdateDependencies("e2e")
  \o UpdateFrontendTypes
  \o UpdateWorker("csharp") \o UpdateWorker("java")
  \o UpdateWorker("javascript") \o UpdateWorker("python")
  \o UpdateMainReadMeBadge

Part == [part : {Parts[i] : i \in DOMAIN Parts}, version : Nat]

TypeOK ==
  /\ latest \in [Registries -> Nat] /\ atStart \in [Registries -> Nat]
  /\ step \in 0..Len(Script)
  /\ here \in BOOLEAN
  /\ ended \in {"never", "failed", "done"}
  /\ starts \in 0..MaxStarts
  /\ buffer \in Seq(Part) /\ types \in Seq(Part)
  /\ text \in Texts \cup {<<>>, None}
  /\ version \in Nat \cup {None}
  /\ package \in [Folders -> Nat] /\ lock \in [Folders -> Nat]
  /\ image \in [Langs -> Nat] /\ badge \in Nat

Init ==
  /\ latest = [g \in Registries |-> 0] /\ atStart = latest
  /\ step = 0 /\ here = TRUE /\ ended = "never" /\ starts = 0
  /\ buffer = <<>> /\ text = None /\ version = None
  /\ package = [f \in Folders |-> 0] /\ lock = package
  /\ types = [i \in DOMAIN Parts |-> [part |-> Parts[i], version |-> 0]]
  /\ image = [l \in Langs |-> 0] /\ badge = 0

-----------------------------------------------------------------------------
(* stripFileHeader                                                         *)

Starts(k) == k \in {"open", "comment"}
Ends(k) == k \in {"close", "comment"}
Skipped(k) == k \in {"skipped", "importOpen", "hidden"}

(* Mutant: the lines of a comment are told from declarations no more.      *)
TurnByLine(s, k, i) ==
  IF s.stop THEN s
  ELSE IF Starts(k) \/ Ends(k) \/ Skipped(k)
  THEN [s EXCEPT !.start = i] ELSE [s EXCEPT !.stop = TRUE]

(* One turn of the loop: line i is of kind k.  A line that starts a        *)
(* comment is not looked at for the end of it.                             *)
Turn(s, k, i) ==
  CASE s.stop -> s
    [] ~s.stop /\ Starts(k) -> [s EXCEPT !.inComment = TRUE, !.start = i]
    [] ~s.stop /\ ~Starts(k) /\ s.inComment ->
         IF Ends(k) THEN [s EXCEPT !.inComment = FALSE, !.start = i] ELSE s
    [] ~s.stop /\ ~Starts(k) /\ ~s.inComment /\ Skipped(k) ->
         [s EXCEPT !.start = i]
    [] OTHER -> [s EXCEPT !.stop = TRUE]

(* Scanned(t)[i]: the loop's variables after i lines.                      *)
Scanned(t) ==
  LET state[i \in 0..Len(t)] ==
        IF i = 0 THEN [start |-> 0, inComment |-> FALSE, stop |-> FALSE]
        ELSE Turn(state[i - 1], t[i], i)
  IN state

StripFileHeader(t) == SubSeq(t, Scanned(t)[Len(t)].start + 1, Len(t))

-----------------------------------------------------------------------------
(* The steps.  What cannot fail by itself goes with the step before it.    *)

At(do, of) == step # 0 /\ Script[step] = [do |-> do, of |-> of]

Continue ==
  /\ step' = IF step = Len(Script) THEN 0 ELSE step + 1
  /\ ended' = IF step = Len(Script) THEN "done" ELSE ended
  /\ UNCHANGED <<latest, here, atStart, starts>>

(* npm-check-updates writes the newest release into package.json.          *)
Upgrade(f) ==
  /\ At("upgrade", f)
  /\ package' = [package EXCEPT ![f] = latest["npm"]]
  /\ Continue
  /\ UNCHANGED <<work, lock, types, image, badge>>

(* npm install.  What package.json asks for is the least release of a      *)
(* range ("^1.57.0"): what is installed stays if it is in the range, and   *)
(* else gives way to one that is, which may have come out since.           *)
Install(f) ==
  /\ At("install", f)
  /\ \E v \in IF lock[f] >= package[f] THEN {lock[f]}
               ELSE package[f]..latest["npm"] :
       lock' = [lock EXCEPT ![f] = v]
  /\ Continue
  /\ UNCHANGED <<work, package, types, image, badge>>

(* Mutant: a download that is not ok is taken for the file.                *)
DownloadUnchecked(p) ==
  /\ At("download", p)
  /\ text' \in IF p \in Stripped THEN Texts \cup {<<"error">>} ELSE {<<>>}
  /\ buffer' = Append(buffer, [part |-> p, version |-> Served(p)])
  /\ Continue
  /\ UNCHANGED <<version, files>>

(* getNpmFile.  What the file says matters where its header is stripped.   *)
Download(p) ==
  /\ At("download", p)
  /\ text' \in IF p \in Stripped THEN Texts ELSE {<<>>}
  /\ buffer' = Append(buffer, [part |-> p, version |-> Served(p)])
  /\ Continue
  /\ UNCHANGED <<version, files>>

(* Mutant: the part is appended to the file and not to the buffer alone.   *)
AppendPartToFile(p) ==
  /\ At("append", p)
  /\ text' = None
  /\ types' = buffer
  /\ Continue
  /\ UNCHANGED <<buffer, version, package, lock, image, badge>>

(* The part is in typesBuffer, its header stripped.                        *)
AppendPart(p) ==
  /\ At("append", p)
  /\ text' = None
  /\ Continue
  /\ UNCHANGED <<buffer, version, files>>

(* The path of types.txt is relative to where the script was started.      *)
WriteTypes ==
  /\ At("write", "types")
  /\ here
  /\ types' = buffer
  /\ buffer' = <<>>
  /\ Continue
  /\ UNCHANGED <<text, version, package, lock, image, badge>>

GetVersionForLanguageBinding(l) ==
  /\ At("ask", l)
  /\ version' = latest[Registry[l]]
  /\ Continue
  /\ UNCHANGED <<buffer, text, files>>

(* The paths of the Dockerfiles are relative too.                          *)
RewriteDockerfile(l) ==
  /\ At("rewrite", l)
  /\ here
  /\ image' = [image EXCEPT ![l] = version]
  /\ Continue
  /\ UNCHANGED <<work, package, lock, types, badge>>

RewriteBadge ==
  /\ At("rewrite", "badge")
  /\ badge' = version
  /\ version' = None
  /\ Continue
  /\ UNCHANGED <<buffer, text, package, lock, types, image>>

Start ==
  /\ step = 0
  /\ starts < MaxStarts
  /\ step' = 1
  /\ starts' = starts + 1
  /\ here' \in BOOLEAN
  /\ atStart' = latest
  /\ UNCHANGED <<latest, ended, work, files>>

(* A command fails, a download is not ok, the network is down, a file is   *)
(* missing: the step throws, and with it the script ends.                  *)
Throw ==
  /\ step # 0
  /\ step' = 0
  /\ ended' = "failed"
  /\ buffer' = <<>> /\ text' = None /\ version' = None
  /\ UNCHANGED <<latest, here, atStart, starts, files>>

(* Playwright is released to a registry; the bindings follow at their own  *)
(* pace.                                                                   *)
Total(n) == n["npm"] + n["maven"] + n["pypi"] + n["nuget"]

Release(g) ==
  /\ Total(latest) < MaxReleases
  /\ latest' = [latest EXCEPT ![g] = @ + 1]
  /\ UNCHANGED <<step, here, atStart, ended, starts, work, files>>

Next ==
  \/ Start \/ Throw \/ WriteTypes \/ RewriteBadge
  \/ \E f \in Folders : Upgrade(f) \/ Install(f)
  \/ \E i \in DOMAIN Parts : Download(Parts[i]) \/ AppendPart(Parts[i])
  \/ \E l \in Langs : GetVersionForLanguageBinding(l) \/ RewriteDockerfile(l)
  \/ \E g \in Registries : Release(g)

Spec == Init /\ [][Next]_vars

-----------------------------------------------------------------------------
(* Properties                                                              *)

(* The header of a file by the syntax: the complete comments, imports and  *)
(* exports, and blank lines, that it begins with.                          *)
ClosesAt(t, i, kinds) == SelectInSubSeq(t, i + 1, Len(t), LAMBDA k : k \in kinds)

ElementEnd(t, i) ==
  CASE t[i] \in {"skipped", "kept", "comment"} -> i
    [] t[i] = "open" -> ClosesAt(t, i, {"close", "comment"})
    [] t[i] \in {"importOpen", "keptOpen"} -> ClosesAt(t, i, {"tail"})
    [] OTHER -> 0

(* HeaderEnds(t)[i]: the last line of the elements that begin with line i. *)
HeaderEnds(t) ==
  LET end[i \in 1..Len(t) + 1] ==
        IF i = Len(t) + 1 THEN Len(t)
        ELSE IF ElementEnd(t, i) = 0 THEN i - 1 ELSE end[ElementEnd(t, i) + 1]
  IN end

HeaderLength(t) == HeaderEnds(t)[1]

(* Syntactically complete: comments, imports and exports end, and a        *)
(* comment within an import or export ends there.                          *)
EndsWithin(t, i, last) == \E j \in i + 1..last : t[j] \in {"close", "comment"}

Complete(t) ==
  \A i \in DOMAIN t :
    /\ t[i] = "open" => EndsWithin(t, i, Len(t))
    /\ t[i] \in {"importOpen", "keptOpen"} =>
         /\ ElementEnd(t, i) # 0
         /\ \A j \in i + 1..ElementEnd(t, i) :
              t[j] = "open" => EndsWithin(t, j, ElementEnd(t, i) - 1)

ASSUME TextsAreComplete == \A t \in Texts : Complete(t)

(* The first n lines are of none of the kinds.                             *)
FreeOf(t, n, kinds) == \A i \in 1..n : t[i] \notin kinds

(* How many lines stripFileHeader takes of the file just downloaded.       *)
Taken == Len(text) - Len(StripFileHeader(text))

(* stripFileHeader "removes import statements, reference directives,       *)
(* copyright headers, and export statements from the beginning": how far   *)
(* that is so.  Every line of the header is taken up to the first export   *)
(* that it keeps, up to the first comment of one line, after which it goes *)
(* on as if in a comment, and up to the first line of an import or export  *)
(* of several, of which it leaves the rest.  Nothing behind the header is  *)
(* taken, unless the header has a comment of one line, or a declaration    *)
(* that hides from the pattern follows it at once.                         *)
StripsTheHeader ==
  text # None =>
    LET header == HeaderLength(text)
    IN /\ \A i \in 1..header :
            /\ FreeOf(text, i - 1, {"comment", "importOpen"})
            /\ FreeOf(text, i, {"kept", "keptOpen"})
            => i <= Taken
       /\ /\ FreeOf(text, header, {"comment"})
          /\ header < Len(text) => text[header + 1] # "hidden"
          => Taken <= header

(* types.txt has all its parts in order, whatever download failed: it is   *)
(* the former file or the new one.                                         *)
TypesAreWhole ==
  [i \in DOMAIN types |-> types[i].part] = Parts

(* When the script ends well, no file it is there to update is older than  *)
(* the release that was current when it was started, whatever came out     *)
(* meanwhile and however earlier starts ended; what is installed may be    *)
(* newer than what package.json asks for, and never older.                 *)
DoneIsCurrent ==
  ended = "done" /\ step = 0 =>
    /\ \A l \in Langs : image[l] >= atStart[Registry[l]]
    /\ \A f \in Folders : package[f] >= atStart["npm"] /\ lock[f] >= package[f]
    /\ \A i \in DOMAIN types \ {1} : types[i].version >= atStart["npm"]
    /\ badge >= image["javascript"]
=============================================================================
