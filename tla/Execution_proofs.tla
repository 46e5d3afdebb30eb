-------------------------- MODULE Execution_proofs --------------------------
(***************************************************************************)
(* Proofs about Execution: whose answer and video a page shows, when its   *)
(* spinner goes and stays, and what it sends, for any number of executions *)
(* and any codes and languages.                                            *)
(***************************************************************************)
EXTENDS Execution, TLAPS

USE DEF Executions, Waiting, Overtaken

Overlap(x, y) == x \in over[y] \/ y \in over[x]

(* Executions that are out overlap each other and are the latest or        *)
(* overtaken by it.                                                        *)
Together ==
  \A x \in InFlight :
    /\ x = started \/ Overtaken(x)
    /\ \A y \in InFlight : x = y \/ Overlap(x, y)

(* What is shown overlaps all that is out, since a start takes it away.    *)
ShownOverlaps ==
  /\ resp # None => \A x \in InFlight : Overlap(resp.of, x)
  /\ video # None => resp # None /\ \A x \in InFlight : Overlap(video, x)

(* Only an answer ends the spinner, and it is that of one that was out.    *)
SpinnerOfLatest == loading => started > 0 /\ pc[started] \in Waiting \cup {"threw"}

IInv ==
  /\ TypeOK
  /\ Together
  /\ ShownOverlaps
  /\ SpinnerOfLatest
  /\ ShownIsLatest
  /\ SpinnerCoversLatest
  /\ VideoIsOfTheAnswer

-----------------------------------------------------------------------------
(* Types                                                                   *)

(* runCode returns an object with no other fields than the known ones.     *)
LEMMA RunCodeType ==
  ASSUME NEW reply \in Replies
  PROVE  RunCode(reply) \in SUBSET Fields
<1>1. CASE reply \in Refusals
  BY <1>1 DEF Refusals, RunCode, Fields
<1>2. CASE reply \in Successes
  <2>1. reply.status = 200
    BY <1>2 DEF Successes
  <2>2. reply.fields \in {{"success"} \cup f : f \in SUBSET {"output", "video"}}
    BY <1>2 DEF Successes
  <2> QED BY <2>1, <2>2 DEF RunCode, Fields
<1>3. CASE reply \in Failures
  BY <1>3 DEF Failures, RunCode, Fields
<1>4. CASE reply \in Errors
  BY <1>4 DEF Errors, RunCode, Fields
<1>5. CASE reply \in Gateways
  BY <1>5 DEF Gateways, RunCode, Fields
<1> QED BY <1>1, <1>2, <1>3, <1>4, <1>5 DEF Replies

(* What is shown next has its types when the answer to show has.           *)
LEMMA RenderType ==
  ASSUME TypeOK, NEW p \in {"examples", "output"}, NEW r, Render(p, r),
         r = None \/ r \in [of : 1..started', fields : SUBSET Fields],
         started' \in Nat, started <= started'
  PROVE  /\ panel' \in {"examples", "output"}
         /\ resp' = None \/ resp' \in [of : 1..started', fields : SUBSET Fields]
         /\ video' = None \/ video' \in 1..started'
BY DEF TypeOK, Render, Sections

(* A start keeps the types.                                                *)
LEMMA ExecuteType ==
  ASSUME TypeOK, Execute PROVE TypeOK'
<1> DEFINE x == started + 1
<1>1. x \in Executions /\ started \in Nat /\ started' = x
  BY ExecutionAssumption DEF TypeOK, Execute, Begin
<1>2. /\ panel' \in {"examples", "output"}
      /\ resp' = None
      /\ video' = None
  BY DEF TypeOK, Execute, Render
<1>3. /\ pc' \in [Executions -> Waiting \cup {"idle", "shown", "threw"}]
      /\ asked' \in [Executions -> [code : Codes, lang : Langs] \cup {None}]
      /\ over' \in [Executions -> SUBSET Executions]
  BY <1>1 DEF TypeOK, Execute, Begin, InFlight
<1>4. ASSUME NEW y \in Executions
      PROVE  /\ pc'[y] = "idle" <=> y > started'
             /\ pc'[y] \in Waiting => asked'[y] # None
  <2>1. CASE y = x
    BY <1>1, <2>1, ExecutionAssumption DEF TypeOK, Execute, Begin
  <2>2. CASE y # x
    <3>1. pc'[y] = pc[y] /\ asked'[y] = asked[y]
      BY <1>1, <2>2 DEF TypeOK, Execute, Begin
    <3>2. y > started' <=> y > started
      BY <1>1, <2>2, ExecutionAssumption
    <3> QED BY <3>1, <3>2 DEF TypeOK
  <2> QED BY <2>1, <2>2
<1> QED BY <1>1, <1>2, <1>3, <1>4 DEF TypeOK, Execute, Begin, context

(* So does sending the request of a click.                                 *)
LEMMA TokenType ==
  ASSUME TypeOK, NEW x \in Executions, TokenArrives(x) PROVE TypeOK'
<1>1. asked[x] \in [code : Codes, lang : Langs]
  BY DEF TypeOK, TokenArrives
<1>2. PoolOf(asked[x].lang) \in Pools
  BY <1>1, ExecutionAssumption
<1> QED BY <1>1, <1>2 DEF TypeOK, TokenArrives, context, view

(* The end of an execution takes back what it was asked for.               *)
LEMMA SettleType ==
  ASSUME TypeOK, NEW x \in Executions, NEW how \in {"shown", "threw"},
         Settle(x, how)
  PROVE  /\ code' \in Codes /\ lang' \in Langs /\ started' \in 0..MaxExecutions
         /\ pc' \in [Executions -> Waiting \cup {"idle", "shown", "threw"}]
         /\ asked' \in [Executions -> [code : Codes, lang : Langs] \cup {None}]
         /\ request' \in [Executions -> [code : Codes, language : Pools] \cup {None}]
         /\ over' \in [Executions -> SUBSET Executions]
         /\ \A y \in Executions :
              /\ pc'[y] = "idle" <=> y > started'
              /\ pc'[y] \in Waiting => asked'[y] # None
BY DEF TypeOK, Settle, context

(* Every step keeps the types.                                             *)
LEMMA TypeStep ==
  ASSUME TypeOK, [Next]_vars PROVE TypeOK'
<1>1. CASE ClickRun \/ CtrlEnter
  BY <1>1, ExecuteType DEF ClickRun, CtrlEnter
<1>2. CASE TogglePanel
  <2>1. started' = started /\ started \in Nat
    BY <1>2 DEF TypeOK, TogglePanel
  <2>2. /\ panel' \in {"examples", "output"}
        /\ resp' = None \/ resp' \in [of : 1..started', fields : SUBSET Fields]
        /\ video' = None \/ video' \in 1..started'
    BY <1>2, <2>1, RenderType DEF TypeOK, TogglePanel
  <2> QED BY <1>2, <2>1, <2>2 DEF TypeOK, TogglePanel, context
<1>3. ASSUME NEW c \in Codes, Edit(c) PROVE TypeOK'
  BY <1>3 DEF TypeOK, Edit, view
<1>4. ASSUME NEW c \in Codes, NEW l \in Langs, SwitchLanguage(l, c) PROVE TypeOK'
  <2>1. started' = started /\ started \in Nat
    BY <1>4 DEF TypeOK, SwitchLanguage
  <2>2. /\ panel' \in {"examples", "output"}
        /\ resp' = None \/ resp' \in [of : 1..started', fields : SUBSET Fields]
        /\ video' = None \/ video' \in 1..started'
    BY <1>4, <2>1, RenderType DEF TypeOK, SwitchLanguage
  <2> QED BY <1>4, <2>1, <2>2 DEF TypeOK, SwitchLanguage
<1>5. ASSUME NEW x \in Executions, TokenArrives(x) PROVE TypeOK'
  BY <1>5, TokenType
<1>6. ASSUME NEW x \in Executions, Throws(x) PROVE TypeOK'
  BY <1>6, SettleType DEF TypeOK, Throws, view, Settle
<1>7. ASSUME NEW x \in Executions, NEW reply \in Replies, Answer(x, reply)
      PROVE  TypeOK'
  <2>1. started' = started /\ started \in Nat /\ x \in 1..started'
    BY <1>7 DEF TypeOK, Answer, Settle
  <2>2. [of |-> x, fields |-> RunCode(reply)] \in [of : 1..started', fields : SUBSET Fields]
    BY <2>1, RunCodeType
  <2>3. /\ panel' \in {"examples", "output"}
        /\ resp' = None \/ resp' \in [of : 1..started', fields : SUBSET Fields]
        /\ video' = None \/ video' \in 1..started'
    BY <1>7, <2>1, <2>2, RenderType DEF Answer
  <2> QED BY <1>7, <2>3, SettleType DEF TypeOK, Answer
<1>8. CASE UNCHANGED vars
  BY <1>8 DEF TypeOK, vars, context, view
<1> QED BY <1>1, <1>2, <1>3, <1>4, <1>5, <1>6, <1>7, <1>8 DEF Next

-----------------------------------------------------------------------------
(* What a step may do to what is shown and what is out: start an           *)
(* execution, show an answer, or leave both as they are.                   *)

Quiet ==
  /\ started' = started /\ over' = over /\ loading' = loading
  /\ resp' = resp
  /\ video' = None \/ (resp # None /\ video' \in {video, resp.of})
  /\ \A y \in Executions :
       /\ pc'[y] \in Waiting => pc[y] \in Waiting
       /\ pc[y] \in Waiting \cup {"threw"} => pc'[y] \in Waiting \cup {"threw"}

LEMMA StepKinds ==
  ASSUME TypeOK, ShownOverlaps, [Next]_vars
  PROVE  \/ Execute
         \/ \E x \in Executions, reply \in Replies : Answer(x, reply)
         \/ Quiet
<1>1. CASE ClickRun \/ CtrlEnter
  BY <1>1 DEF ClickRun, CtrlEnter
<1>2. CASE TogglePanel
  BY <1>2 DEF TogglePanel, Quiet, Render, ShownOverlaps
<1>3. ASSUME NEW c \in Codes, Edit(c) PROVE Quiet
  BY <1>3 DEF Edit, Quiet, view, ShownOverlaps
<1>4. ASSUME NEW c \in Codes, NEW l \in Langs, SwitchLanguage(l, c) PROVE Quiet
  BY <1>4 DEF SwitchLanguage, Quiet, Render
<1>5. ASSUME NEW x \in Executions, TokenArrives(x) PROVE Quiet
  BY <1>5 DEF TokenArrives, Quiet, view, ShownOverlaps, TypeOK
<1>6. ASSUME NEW x \in Executions, Throws(x) PROVE Quiet
  BY <1>6 DEF Throws, Settle, Quiet, view, ShownOverlaps, TypeOK
<1>7. CASE UNCHANGED vars
  BY <1>7 DEF vars, Quiet, view, ShownOverlaps
<1> QED BY <1>1, <1>2, <1>3, <1>4, <1>5, <1>6, <1>7 DEF Next

LEMMA ExecuteStep ==
  ASSUME TypeOK, Execute
  PROVE  /\ started' = started + 1 /\ started' \in Executions
         /\ started' \notin InFlight
         /\ InFlight' \subseteq InFlight \cup {started'}
         /\ over'[started'] = InFlight
         /\ \A y \in Executions \ {started'} : over'[y] = over[y]
         /\ pc'[started'] \in {"token", "threw"}
         /\ loading' = TRUE /\ resp' = None /\ video' = None
<1>1. started' = started + 1 /\ started' \in Executions
  BY ExecutionAssumption DEF TypeOK, Execute, Begin
<1>2. pc[started'] = "idle"
  BY <1>1 DEF TypeOK
<1>3. /\ over'[started'] = InFlight
      /\ \A y \in Executions \ {started'} : over'[y] = over[y]
  BY <1>1 DEF TypeOK, Execute, Begin
<1>4. /\ pc'[started'] \in {"token", "threw"}
      /\ \A y \in Executions \ {started'} : pc'[y] = pc[y]
  BY <1>1 DEF TypeOK, Execute, Begin
<1>5. started' \notin InFlight
  BY <1>2 DEF InFlight
<1>6. InFlight' \subseteq InFlight \cup {started'}
  BY <1>4 DEF InFlight
<1>7. loading' = TRUE /\ resp' = None /\ video' = None
  BY DEF Execute, Render
<1> QED BY <1>1, <1>3, <1>4, <1>5, <1>6, <1>7

LEMMA AnswerStep ==
  ASSUME TypeOK, NEW x \in Executions, NEW reply \in Replies, Answer(x, reply)
  PROVE  /\ started' = started /\ over' = over /\ loading' = FALSE
         /\ x \in InFlight /\ InFlight' = InFlight \ {x}
         /\ resp' # None /\ resp'.of = x
         /\ video' \in {None, video, x}
<1>1. RunCode(reply) \in SUBSET Fields
  BY RunCodeType
<1>2. [of |-> x, fields |-> RunCode(reply)] # None
  BY <1>1, ExecutionAssumption
<1>3. x \in InFlight /\ InFlight' = InFlight \ {x}
  BY DEF TypeOK, Answer, Settle, InFlight
<1> QED BY <1>2, <1>3 DEF Answer, Settle, Render

LEMMA QuietStep ==
  ASSUME Quiet PROVE InFlight' \subseteq InFlight
BY DEF Quiet, InFlight

-----------------------------------------------------------------------------
(* Every step keeps the parts of the invariant                             *)

LEMMA TogetherStep ==
  ASSUME TypeOK, ShownOverlaps, Together, [Next]_vars PROVE Together'
<1>1. CASE Execute
  <2> SUFFICES ASSUME NEW y \in InFlight'
               PROVE  /\ y = started' \/ y \in over'[started']
                      /\ \A z \in InFlight' : y = z \/ y \in over'[z] \/ z \in over'[y]
    BY DEF Together, Overlap
  <2>1. y = started' \/ y \in over'[started']
    BY <1>1, ExecuteStep
  <2>2. ASSUME NEW z \in InFlight' PROVE y = z \/ y \in over'[z] \/ z \in over'[y]
    <3>1. CASE y = started' \/ z = started'
      BY <1>1, <3>1, ExecuteStep
    <3>2. CASE y # started' /\ z # started'
      <4>1. y \in InFlight /\ z \in InFlight
        BY <1>1, <3>2, ExecuteStep
      <4>2. over'[y] = over[y] /\ over'[z] = over[z]
        BY <1>1, <3>2, <4>1, ExecuteStep DEF InFlight
      <4> QED BY <4>1, <4>2 DEF Together, Overlap
    <3> QED BY <3>1, <3>2
  <2> QED BY <2>1, <2>2
<1>2. ASSUME NEW x \in Executions, NEW reply \in Replies, Answer(x, reply)
      PROVE  Together'
  BY <1>2, AnswerStep DEF Together, Overlap
<1>3. CASE Quiet
  BY <1>3, QuietStep DEF Quiet, Together, Overlap
<1> QED BY <1>1, <1>2, <1>3, StepKinds

LEMMA ShownOverlapsStep ==
  ASSUME TypeOK, ShownOverlaps, Together, [Next]_vars PROVE ShownOverlaps'
<1>1. CASE Execute
  BY <1>1, ExecuteStep DEF ShownOverlaps
<1>2. ASSUME NEW x \in Executions, NEW reply \in Replies, Answer(x, reply)
      PROVE  ShownOverlaps'
  <2>1. \A y \in InFlight' : Overlap(x, y)'
    BY <1>2, AnswerStep DEF Together, Overlap
  <2>2. video # None => \A y \in InFlight' : Overlap(video, y)
    BY <1>2, AnswerStep DEF ShownOverlaps
  <2> QED BY <1>2, <2>1, <2>2, AnswerStep DEF ShownOverlaps, Overlap
<1>3. CASE Quiet
  BY <1>3, QuietStep DEF Quiet, ShownOverlaps, Overlap
<1> QED BY <1>1, <1>2, <1>3, StepKinds

LEMMA ShownIsLatestStep ==
  ASSUME TypeOK, ShownOverlaps, Together, ShownIsLatest, [Next]_vars
  PROVE  ShownIsLatest'
<1>1. CASE Execute
  BY <1>1, ExecuteStep DEF ShownIsLatest
<1>2. ASSUME NEW x \in Executions, NEW reply \in Replies, Answer(x, reply)
      PROVE  ShownIsLatest'
  BY <1>2, AnswerStep DEF Together, ShownIsLatest
<1>3. CASE Quiet
  BY <1>3 DEF Quiet, ShownIsLatest
<1> QED BY <1>1, <1>2, <1>3, StepKinds

LEMMA VideoStep ==
  ASSUME TypeOK, ShownOverlaps, VideoIsOfTheAnswer, [Next]_vars
  PROVE  VideoIsOfTheAnswer'
<1>1. CASE Execute
  BY <1>1, ExecuteStep DEF VideoIsOfTheAnswer
<1>2. ASSUME NEW x \in Executions, NEW reply \in Replies, Answer(x, reply)
      PROVE  VideoIsOfTheAnswer'
  BY <1>2, AnswerStep DEF ShownOverlaps, Overlap, VideoIsOfTheAnswer
<1>3. CASE Quiet
  BY <1>3 DEF Quiet, VideoIsOfTheAnswer
<1> QED BY <1>1, <1>2, <1>3, StepKinds

LEMMA SpinnerStep ==
  ASSUME TypeOK, ShownOverlaps, Together, SpinnerOfLatest, SpinnerCoversLatest,
         [Next]_vars
  PROVE  SpinnerOfLatest' /\ SpinnerCoversLatest'
<1>1. CASE Execute
  <2>1. started' > 0
    BY <1>1, ExecuteStep, ExecutionAssumption
  <2> QED BY <1>1, <2>1, ExecuteStep DEF SpinnerOfLatest, SpinnerCoversLatest
<1>2. ASSUME NEW x \in Executions, NEW reply \in Replies, Answer(x, reply)
      PROVE  SpinnerOfLatest' /\ SpinnerCoversLatest'
  <2>1. SpinnerOfLatest'
    BY <1>2, AnswerStep DEF SpinnerOfLatest
  <2>2. pc'[started'] \in Waiting => x # started'
    BY <1>2 DEF TypeOK, Answer, Settle
  <2>3. SpinnerCoversLatest'
    BY <1>2, <2>2, AnswerStep DEF Together, SpinnerCoversLatest
  <2> QED BY <2>1, <2>3
<1>3. CASE Quiet
  <2>1. started > 0 => started \in Executions
    BY ExecutionAssumption DEF TypeOK
  <2> QED BY <1>3, <2>1 DEF Quiet, SpinnerOfLatest, SpinnerCoversLatest
<1> QED BY <1>1, <1>2, <1>3, StepKinds

-----------------------------------------------------------------------------
(* The invariant                                                           *)

LEMMA InvInit == Init => IInv
<1> SUFFICES ASSUME Init PROVE IInv
  OBVIOUS
<1>1. TypeOK
  <2>1. started = 0 /\ 0 \in 0..MaxExecutions
    BY ExecutionAssumption DEF Init
  <2>2. \A x \in Executions : pc[x] = "idle" /\ x > started
    BY <2>1 DEF Init
  <2>3. /\ pc \in [Executions -> Waiting \cup {"idle", "shown", "threw"}]
        /\ asked \in [Executions -> [code : Codes, lang : Langs] \cup {None}]
        /\ request \in [Executions -> [code : Codes, language : Pools] \cup {None}]
        /\ over \in [Executions -> SUBSET Executions]
    <3>1. pc \in [Executions -> Waiting \cup {"idle", "shown", "threw"}]
      BY DEF Init
    <3>2. asked \in [Executions -> [code : Codes, lang : Langs] \cup {None}]
      BY DEF Init
    <3>3. request \in [Executions -> [code : Codes, language : Pools] \cup {None}]
      BY DEF Init
    <3>4. over \in [Executions -> SUBSET Executions]
      BY DEF Init
    <3> QED BY <3>1, <3>2, <3>3, <3>4
  <2>4. /\ code \in Codes /\ lang \in Langs
        /\ panel \in {"examples", "output"} /\ loading \in BOOLEAN
        /\ resp = None /\ video = None
    BY DEF Init
  <2> QED BY <2>1, <2>2, <2>3, <2>4 DEF TypeOK
<1>2. InFlight = {}
  BY DEF Init, InFlight
<1> QED BY <1>1, <1>2
        DEF Init, IInv, Together, ShownOverlaps, SpinnerOfLatest, ShownIsLatest,
            SpinnerCoversLatest, VideoIsOfTheAnswer

LEMMA InvStep == IInv /\ [Next]_vars => IInv'
<1> SUFFICES ASSUME IInv, [Next]_vars PROVE IInv'
  OBVIOUS
<1> USE DEF IInv
<1>1. TypeOK'
  BY TypeStep
<1>2. Together' /\ ShownOverlaps'
  BY TogetherStep, ShownOverlapsStep
<1>3. ShownIsLatest' /\ VideoIsOfTheAnswer'
  BY ShownIsLatestStep, VideoStep
<1>4. SpinnerOfLatest' /\ SpinnerCoversLatest'
  BY SpinnerStep
<1> QED BY <1>1, <1>2, <1>3, <1>4

(* The invariant holds: Init establishes it and every step keeps it, part by*)
(* part, whichever executions overlap and whatever the handlers are answered.*)
THEOREM Invariant == Spec => []IInv
BY InvInit, InvStep, PTL DEF Spec

(* The variables keep their types: in particular nothing is shown that was *)
(* not asked for, and only what a pool can run is sent.                    *)
THEOREM TypeCorrect == Spec => []TypeOK
<1>1. IInv => TypeOK
  BY DEF IInv
<1> QED BY <1>1, Invariant, PTL

(* However many executions overlap and in whatever order they are answered *)
(* (App/index.tsx), the answer shown is that of the latest or of one that  *)
(* the latest overtook.                                                    *)
THEOREM AnswersAreRecent == Spec => []ShownIsLatest
<1>1. IInv => ShownIsLatest
  BY DEF IInv
<1> QED BY <1>1, Invariant, PTL

(* A video is shown with another answer than its own (ResponseFile) only   *)
(* when the executions of the two overlapped.                              *)
THEOREM VideosAreOwn == Spec => []VideoIsOfTheAnswer
<1>1. IInv => VideoIsOfTheAnswer
  BY DEF IInv
<1> QED BY <1>1, Invariant, PTL

(* The spinner goes before the latest execution has its answer only when   *)
(* one that it overtook was answered.                                      *)
THEOREM SpinnerCovers == Spec => []SpinnerCoversLatest
<1>1. IInv => SpinnerCoversLatest
  BY DEF IInv
<1> QED BY <1>1, Invariant, PTL

(* The spinner stays although nothing is out only when the latest          *)
(* execution threw: every other end of handleExecution takes it away.      *)
THEOREM SpinnerStays == Spec => []StaysOnlyIfThrown
<1>1. IInv => StaysOnlyIfThrown
  <2> SUFFICES ASSUME IInv, loading, InFlight = {} PROVE pc[started] = "threw"
    BY DEF StaysOnlyIfThrown
  <2>1. started \in Executions /\ pc[started] \in Waiting \cup {"threw"}
    BY ExecutionAssumption DEF IInv, TypeOK, SpinnerOfLatest
  <2> QED BY <2>1 DEF InFlight
<1> QED BY <1>1, Invariant, PTL
=============================================================================
