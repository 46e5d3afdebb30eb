----------------------------- MODULE Execution -----------------------------
(***************************************************************************)
(* What a page of the frontend does when code is run: the Run button and   *)
(* Ctrl+Enter, the turnstile, the request to the control service, the      *)
(* spinner and the panel that shows the answer (components/App,            *)
(* RightPanel, ResponseFile and runCode of utils.ts).  An event handler or *)
(* the continuation of an await is one step, with the render it causes.    *)
(*                                                                         *)
(* The executions of a page are numbered as they are started.  Of an       *)
(* answer only the fields are kept whose value can show: a success that is *)
(* true, an error and an output that are not empty, a video among the      *)
(* files.  Where code comes from is the matter of Playground.              *)
(***************************************************************************)
EXTENDS Integers

CONSTANTS Langs,         \* the languages of the editor
          Pools,         \* SUPPORTED_LANGUAGES of the control service
          Codes,         \* the texts the editor may hold
          None,
          MaxExecutions  \* bound: executions of one page

(* runCode: tests are run as JavaScript.                                   *)
PoolOf(l) == IF l = "playwright-test" THEN "javascript" ELSE l

Fields == {"success", "error", "output", "video", "message"}

ASSUME ExecutionAssumption ==
  /\ \A l \in Langs : PoolOf(l) \in Pools
  /\ MaxExecutions \in Nat
  /\ None \notin Nat
  /\ None \notin [code : Codes, lang : Langs]
  /\ None \notin [of : Nat, fields : SUBSET Fields]

VARIABLES code, lang,  \* the state of CodeContext
          panel,       \* rightPanelMode: "examples" or "output"
          loading,     \* is the spinner shown?
          resp,        \* the answer shown, and of which execution
          video,       \* whose video the page's video element has loaded
          started,     \* executions started: 1..started
          pc,          \* pc[x]: what execution x waits for
          asked,       \* asked[x]: the code and language x was clicked for
          request,     \* request[x]: what x has sent
          over         \* history: over[x]: executions that x overtook

context == <<code, lang>>
view == <<panel, loading, resp, video>>
vars == <<context, view, started, pc, asked, request, over>>

Executions == 1..MaxExecutions
Waiting == {"token", "request"}
InFlight == {x \in Executions : pc[x] \in Waiting}

(* The answers of handleRun: what cannot be decoded or validated, no       *)
(* worker and the timeout; a run that ended well and one that did not; an  *)
(* error it returns, of which echo makes a message.  In front of it are a  *)
(* gateway without a service and one that limits the rate.                 *)
Refusals == [status : {400, 401, 503}, json : {TRUE}, fields : {{"error"}}]
Successes == [status : {200}, json : {TRUE},
              fields : {{"success"} \cup f : f \in SUBSET {"output", "video"}}]
Failures == [status : {400}, json : {TRUE},
             fields : {{"error"}, {"error", "output"}}]
Errors == [status : {500}, json : {TRUE}, fields : {{"message"}}]
Gateways == [status : {429, 502}, json : {FALSE}, fields : {{}}]

Replies == Refusals \cup Successes \cup Failures \cup Errors \cup Gateways

TypeOK ==
  /\ code \in Codes /\ lang \in Langs
  /\ panel \in {"examples", "output"} /\ loading \in BOOLEAN
  /\ resp = None \/ resp \in [of : 1..started, fields : SUBSET Fields]
  /\ video = None \/ video \in 1..started
  /\ started \in 0..MaxExecutions
  /\ pc \in [Executions -> Waiting \cup {"idle", "shown", "threw"}]
  /\ asked \in [Executions -> [code : Codes, lang : Langs] \cup {None}]
  /\ request \in [Executions -> [code : Codes, language : Pools] \cup {None}]
  /\ over \in [Executions -> SUBSET Executions]
  /\ \A x \in Executions :
       /\ pc[x] = "idle" <=> x > started
       /\ pc[x] \in Waiting => asked[x] # None

Init ==
  /\ code \in Codes /\ lang \in Langs
  /\ panel = "examples" /\ loading = FALSE
  /\ resp = None /\ video = None
  /\ started = 0
  /\ pc = [x \in Executions |-> "idle"]
  /\ asked = [x \in Executions |-> None] /\ request = asked
  /\ over = [x \in Executions |-> {}]

-----------------------------------------------------------------------------
(* The right panel                                                         *)

(* RightOutputPanel: the sections it shows of an answer.                   *)
Sections(r) == r.fields \cap {"success", "error", "output", "video"}

(* ResponseFile, as React renders it: a video element that stays in place  *)
(* keeps what it has loaded, whatever its source is now; any other is new. *)
Render(p, r) ==
  /\ panel' = p
  /\ resp' = r
  /\ video' = IF p = "examples" \/ r = None THEN None
              ELSE IF "video" \notin Sections(r) THEN None
              ELSE IF video # None THEN video ELSE r.of

(* RightPanel: the button that shows the other of the two.                 *)
TogglePanel ==
  /\ Render(IF panel = "output" THEN "examples" ELSE "output", resp)
  /\ UNCHANGED <<context, loading, started, pc, asked, request, over>>

-----------------------------------------------------------------------------
(* App                                                                     *)

(* The next execution, with the state of the last render; the turnstile    *)
(* may throw, or not be there.                                             *)
Begin ==
  LET x == started + 1
  IN /\ started < MaxExecutions
     /\ started' = x
     /\ over' = [over EXCEPT ![x] = InFlight]
     /\ \/ /\ pc' = [pc EXCEPT ![x] = "token"]
           /\ asked' = [asked EXCEPT ![x] = [code |-> code, lang |-> lang]]
        \/ /\ pc' = [pc EXCEPT ![x] = "threw"]
           /\ UNCHANGED asked
     /\ UNCHANGED <<context, request>>

(* Mutant: the former answer stays until the next one.                     *)
ExecuteKeepsAnswer == Begin /\ loading' = TRUE /\ Render(panel, resp)

(* Mutant: the spinner is left to what comes later.                        *)
ExecuteQuietly == Begin /\ Render(panel, None) /\ UNCHANGED loading

(* handleExecution up to the token.                                        *)
Execute == Begin /\ loading' = TRUE /\ Render(panel, None)

(* The spinner covers the Run button, and not the keyboard.                *)
ClickRun == ~loading /\ Execute

CtrlEnter == Execute

(* Mutant: the language is sent as it is.                                  *)
TokenArrivesUnmapped(x) ==
  /\ pc[x] = "token"
  /\ pc' = [pc EXCEPT ![x] = "request"]
  /\ request' = [request EXCEPT ![x] = [code |-> asked[x].code,
                                        language |-> asked[x].lang]]
  /\ UNCHANGED <<context, view, started, asked, over>>

(* The turnstile calls back, with a token or the empty one: runCode sends. *)
TokenArrives(x) ==
  /\ pc[x] = "token"
  /\ pc' = [pc EXCEPT ![x] = "request"]
  /\ request' = [request EXCEPT ![x] = [code |-> asked[x].code,
                                        language |-> PoolOf(asked[x].lang)]]
  /\ UNCHANGED <<context, view, started, asked, over>>

Settle(x, how) ==
  /\ pc[x] = "request"
  /\ pc' = [pc EXCEPT ![x] = how]
  /\ asked' = [asked EXCEPT ![x] = None]
  /\ request' = [request EXCEPT ![x] = None]
  /\ UNCHANGED <<context, started, over>>

(* What runCode makes of a reply.                                          *)
RunCode(reply) ==
  IF reply.status # 200 /\ ~reply.json THEN {"error"} ELSE reply.fields

(* Mutant: the spinner stays when the answer is an error.                  *)
AnswerOrSpin(x, reply) ==
  /\ Settle(x, "shown")
  /\ Render("output", [of |-> x, fields |-> RunCode(reply)])
  /\ loading' = (loading /\ "error" \in RunCode(reply))

(* handleExecution once runCode has returned.                              *)
Answer(x, reply) ==
  /\ Settle(x, "shown")
  /\ Render("output", [of |-> x, fields |-> RunCode(reply)])
  /\ loading' = FALSE

(* The fetch fails or the body is no JSON: handleExecution ends there.     *)
Throws(x) ==
  /\ Settle(x, "threw")
  /\ UNCHANGED view

-----------------------------------------------------------------------------
(* CodeContext, as far as it matters here                                  *)

Edit(c) ==
  /\ c # code
  /\ code' = c
  /\ UNCHANGED <<lang, view, started, pc, asked, request, over>>

SwitchLanguage(l, c) ==
  /\ l # lang
  /\ lang' = l /\ code' = c
  /\ Render("examples", resp)
  /\ UNCHANGED <<loading, started, pc, asked, request, over>>

Next ==
  \/ ClickRun \/ CtrlEnter \/ TogglePanel
  \/ \E c \in Codes : Edit(c) \/ \E l \in Langs : SwitchLanguage(l, c)
  \/ \E x \in Executions :
       \/ TokenArrives(x) \/ Throws(x)
       \/ \E reply \in Replies : Answer(x, reply)

(* The browser settles every request: the control service answers within   *)
(* its timeouts, or the connection ends.  The turnstile promises nothing.  *)
Fairness ==
  \A x \in Executions :
    WF_vars(Throws(x) \/ \E reply \in Replies : Answer(x, reply))

Spec == Init /\ [][Next]_vars

FairSpec == Spec /\ Fairness

-----------------------------------------------------------------------------
(* Properties                                                              *)

Overtaken(x) == x \in over[started]

(* The answer shown is that of the latest execution, or of one that it     *)
(* overtook: setResponse(null) takes away what was shown before.           *)
ShownIsLatest ==
  resp # None => resp.of = started \/ Overtaken(resp.of)

(* While the latest execution waits the spinner is shown, unless one that  *)
(* it overtook has answered meanwhile: setLoading(false) is anybody's.     *)
SpinnerCoversLatest ==
  started > 0 /\ ~loading /\ pc[started] \in Waiting =>
    resp # None /\ Overtaken(resp.of)

(* The spinner is shown for nothing only when the latest execution threw.  *)
StaysOnlyIfThrown ==
  loading /\ InFlight = {} => pc[started] = "threw"

(* The video shown is that of the answer shown, unless two executions      *)
(* overlapped and one answer took the place of the other.                  *)
VideoIsOfTheAnswer ==
  video # None =>
    video = resp.of \/ video \in over[resp.of] \/ resp.of \in over[video]

(* The spinner ends, or the turnstile never answers the latest execution,  *)
(* or that threw: nothing else leaves it there.                            *)
SpinnerEnds ==
  loading ~> ~loading \/ pc[started] \in {"token", "threw"}
=============================================================================
