------------------------------- MODULE TurnProofs -------------------------------
(***************************************************************************)
(* Proofs about TurnLoop for any calls, lanes, failure modes, budgets and  *)
(* clients: ToolCallsSafe and TurnOutcomeSafe.  The first part is about    *)
(* the calls of one attempt: the stage of a call decides where its task    *)
(* and its outcome are (At), and of two live calls whose lanes overlap one *)
(* waits for the other (Waits).  The second part is about the loop around  *)
(* them: what an attempt may take with it into the next (Carried) and what *)
(* every attempt was paid with (Paid).                                     *)
(*                                                                         *)
(* The third part is about HookBus, whose dispatches the turn awaits, for  *)
(* any sessions, tasks and registrations: HookSafe.  The uses of a         *)
(* one-shot hook and the dispatches that still hold it are together at     *)
(* most the tasks (HkOnce), only a record that can have no active copy any *)
(* more loses its claim on them (HkCopied), and what a dispatch called and *)
(* will call stays in the order of the sources (Ranked).                   *)
(***************************************************************************)
EXTENDS TurnLoop, HookBus, FiniteSetTheorems, TLAPS, WellFoundedInduction

\* Where the task and the outcome of a call are at each stage.
At(c) ==
  /\ tcStage[c] \in Stages \ {"observed", "resolved_non_executable", "illegal"}
  /\ tcStage[c] = "none" <=> c \notin Elems(tcObserved)
  /\ c \in tcResolving => tcStage[c] = "resolving"
  /\ tcStage[c] \in {"none", "resolving"} => tcTask[c] = "none" /\ tcOutcome[c] = "none"
  /\ tcStage[c] = "queued" =>
        tcTask[c] \in {"created", "waiting", "done"} /\ tcOutcome[c] = "none"
  /\ tcStage[c] = "running" => tcTask[c] = "running" /\ tcOutcome[c] = "none"
  /\ tcStage[c] \in {"terminal_pending_replay", "replayed"} =>
        tcTask[c] \in {"none", "done"} /\ tcOutcome[c] # "none"

\* A call waits for calls that were scheduled before it; of two overlapping live calls
\* one waits for the other; and a call that runs waits for none that is live.
Waits ==
  \A c, d \in Call :
    /\ d \in tcDeps[c] => tcTask[d] # "none"
    /\ c # d /\ c \in Live /\ d \in Live /\ LanesOverlap(c, d) =>
          c \in tcDeps[d] \/ d \in tcDeps[c]
    /\ tcTask[c] = "running" /\ d \in tcDeps[c] => d \notin Live

ToolInd == ToolsTypeOK /\ (\A c \in Call : At(c)) /\ Waits

----
(* The calls of one attempt *)

LEMMA ElemsAppend ==
  ASSUME NEW s \in Seq(Call), NEW c \in Call
  PROVE  Append(s, c) \in Seq(Call) /\ Elems(Append(s, c)) = Elems(s) \cup {c}
<1>1. Append(s, c) \in Seq(Call) /\ Len(Append(s, c)) = Len(s) + 1
  OBVIOUS
<1>2. \A i \in 1 .. Len(s) : Append(s, c)[i] = s[i]
  OBVIOUS
<1>3. Append(s, c)[Len(s) + 1] = c
  OBVIOUS
<1> QED BY <1>1, <1>2, <1>3 DEF Elems

LEMMA OverlapIsMutual ==
  ASSUME NEW c \in Call, NEW d \in Call, LanesOverlap(c, d)
  PROVE  LanesOverlap(d, c)
BY DEF LanesOverlap

\* Calls whose lanes do not overlap may run at once.
LEMMA ApartIsSafe ==
  ASSUME NEW c \in Call, NEW d \in Call, ~ LanesOverlap(c, d)
  PROVE  /\ {c, d} \subseteq Safe
         /\ c \in ReadOnly \/ Paths[c] # {}
         /\ Paths[c] \cap Paths[d] = {}
<1>1. LaneKind(c) # "exclusive" /\ LaneKind(d) # "exclusive"
  BY DEF LanesOverlap
<1>2. c \in Safe /\ (Paths[c] # {} \/ c \in ReadOnly)
  BY <1>1 DEF LaneKind
<1>3. d \in Safe
  BY <1>1 DEF LaneKind
<1>4. LaneKind(c) = "concurrent" => Paths[c] = {}
  BY <1>2 DEF LaneKind
<1>5. LaneKind(d) = "concurrent" => Paths[d] = {}
  BY <1>1, <1>3 DEF LaneKind
<1>6. Paths[c] \cap Paths[d] = {}
  BY <1>4, <1>5 DEF LanesOverlap
<1> QED BY <1>2, <1>3, <1>6

LEMMA ToolIndGivesSafe ==
  ASSUME ToolInd
  PROVE  LanesExclusive /\ LifecycleLegal /\ StartedIsAnswered
<1>1. LanesExclusive
  <2>1. SUFFICES ASSUME NEW c \in Call, NEW d \in Call, c # d,
                        tcTask[c] = "running", tcTask[d] = "running"
                 PROVE  /\ {c, d} \subseteq Safe
                        /\ c \in ReadOnly \/ Paths[c] # {}
                        /\ Paths[c] \cap Paths[d] = {}
    BY DEF LanesExclusive
  <2>2. c \in Live /\ d \in Live
    BY <2>1 DEF Live
  <2>3. ~ LanesOverlap(c, d)
    BY <2>1, <2>2 DEF ToolInd, Waits
  <2> QED BY <2>3, ApartIsSafe
<1>2. LifecycleLegal
  BY DEF ToolInd, At, LifecycleLegal
<1>3. StartedIsAnswered
  <2>1. SUFFICES ASSUME NEW c \in Call, tcTask[c] = "done", tcOutcome[c] = "none"
                 PROVE  tcStage[c] = "queued"
    BY DEF StartedIsAnswered
  <2> QED BY <2>1 DEF ToolInd, At, Stages
<1> QED BY <1>1, <1>2, <1>3

\* Two facts every step of the tools keeps, which the loop relies on: nothing is replayed
\* but by finalize, and only interrupt() gives its reason to the signal.
Unnoted ==
  /\ \A c \in Call : tcStage'[c] = "replayed" => tcStage[c] = "replayed"
  /\ tcReason' = "interrupt" => tcReason = "interrupt"

\* A step of the task of one scheduled call: its own entries change, it does not become
\* live again, and it runs only when nothing it waits for is live.
TaskMoves(c) ==
  /\ tcTask' \in [Call -> TaskStates] /\ tcOutcome' \in [Call -> Outcomes]
  /\ tcStage' \in [Call -> Stages]
  /\ \A d \in Call \ {c} : /\ tcTask'[d] = tcTask[d]
                           /\ tcOutcome'[d] = tcOutcome[d]
                           /\ tcStage'[d] = tcStage[d]
  /\ UNCHANGED <<tcObserved, tcResolving, tcDeps>>
  /\ c \in Live
  /\ \/ tcTask'[c] = "waiting" /\ tcStage'[c] = "queued" /\ tcOutcome'[c] = "none"
     \/ /\ tcTask'[c] = "running" /\ tcStage'[c] = "running" /\ tcOutcome'[c] = "none"
        /\ tcDeps[c] \cap Live = {}
     \/ tcTask'[c] = "done" /\ tcStage'[c] = "queued" /\ tcOutcome'[c] = "none"
     \/ /\ tcTask'[c] = "done" /\ tcStage'[c] = "terminal_pending_replay"
        /\ tcOutcome'[c] # "none"
  /\ tcCancel' \in SUBSET Call /\ tcReason' \in Reasons
  /\ tcReason' = "interrupt" => tcReason = "interrupt"

LEMMA TaskMovesKeeps ==
  ASSUME ToolInd, NEW c \in Call, TaskMoves(c)
  PROVE  ToolInd' /\ Unnoted
<1>1. ToolsTypeOK'
  BY DEF ToolInd, ToolsTypeOK, TaskMoves
<1>2. c \notin tcResolving /\ c \in Elems(tcObserved)
  BY DEF ToolInd, At, TaskMoves, Live, Stages
<1>3. \A d \in Call : At(d)'
  <2>1. SUFFICES ASSUME NEW d \in Call PROVE At(d)'
    OBVIOUS
  <2>2. CASE d = c
    BY <1>2, <2>2 DEF TaskMoves, At, Elems, Stages
  <2>3. CASE d # c
    BY <2>3 DEF ToolInd, TaskMoves, At, Elems
  <2> QED BY <2>2, <2>3
<1>4. Live' \subseteq Live
  BY DEF TaskMoves, Live
<1>5. Waits'
  <2>1. SUFFICES ASSUME NEW x \in Call, NEW y \in Call
                 PROVE  /\ y \in tcDeps'[x] => tcTask'[y] # "none"
                        /\ x # y /\ x \in Live' /\ y \in Live' /\ LanesOverlap(x, y) =>
                              x \in tcDeps'[y] \/ y \in tcDeps'[x]
                        /\ tcTask'[x] = "running" /\ y \in tcDeps'[x] => y \notin Live'
    BY DEF Waits, LanesOverlap, LaneKind
  <2>2. tcDeps' = tcDeps
    BY DEF TaskMoves
  <2>3. y \in tcDeps[x] => tcTask'[y] # "none"
    BY DEF ToolInd, Waits, TaskMoves
  <2>4. x # y /\ x \in Live' /\ y \in Live' /\ LanesOverlap(x, y) =>
          x \in tcDeps[y] \/ y \in tcDeps[x]
    BY <1>4 DEF ToolInd, Waits
  <2>5. tcTask'[x] = "running" /\ y \in tcDeps[x] => y \notin Live
    <3>1. CASE x = c
      BY <3>1 DEF TaskMoves
    <3>2. CASE x # c
      BY <3>2 DEF TaskMoves, ToolInd, Waits
    <3> QED BY <3>1, <3>2
  <2> QED BY <1>4, <2>2, <2>3, <2>4, <2>5
<1>6. Unnoted
  BY DEF TaskMoves, Unnoted
<1> QED BY <1>1, <1>3, <1>5, <1>6 DEF ToolInd

\* The transitions of the lifecycle projection the executor makes.
LEMMA Projections ==
  /\ Project(Project("none", "envelope_observed"), "resolution_started") = "resolving"
  /\ Project(Project("resolving", "resolved_executable"), "execution_queued") = "queued"
  /\ Project(Project("resolving", "resolved_refused"), "outcome_recorded") =
        "terminal_pending_replay"
  /\ Project("queued", "execution_started") = "running"
  /\ Project("queued", "outcome_recorded") = "terminal_pending_replay"
  /\ Project("running", "outcome_recorded") = "terminal_pending_replay"
  /\ Project("terminal_pending_replay", "replay_committed") = "replayed"
BY DEF Project

LEMMA CancelledIsLive ==
  ASSUME NEW S
  PROVE  CancelledWith(S) \in SUBSET Call
BY DEF CancelledWith, Live

LEMMA EndCallMoves ==
  ASSUME ToolInd, NEW c \in Call, c \in Live, NEW status \in Outcomes \ {"none"},
         NEW stage \in {"queued", "running"}, EndCall(c, status, stage)
  PROVE  TaskMoves(c)
<1>1. tcOutcome' = [tcOutcome EXCEPT ![c] = status] /\ tcTask' = [tcTask EXCEPT ![c] = "done"]
  BY DEF EndCall, RecordOutcome
<1>2. tcStage' = [tcStage EXCEPT ![c] = "terminal_pending_replay"]
  BY Projections DEF EndCall
<1>3. PICK cancelled \in SUBSET Call : cancelled = CancelledWith(Cascade(c))
  BY CancelledIsLive
<1>4. tcCancel' \in SUBSET Call /\ tcReason' \in Reasons
      /\ (tcReason' = "interrupt" => tcReason = "interrupt")
  BY <1>3 DEF EndCall, ToolInd, ToolsTypeOK, Reasons
<1>5. UNCHANGED <<tcObserved, tcResolving, tcDeps>>
  BY DEF EndCall
<1>6. /\ tcTask' \in [Call -> TaskStates] /\ tcOutcome' \in [Call -> Outcomes]
      /\ tcStage' \in [Call -> Stages]
  BY <1>1, <1>2 DEF ToolInd, ToolsTypeOK, TaskStates, Outcomes, Stages
<1> QED BY <1>1, <1>2, <1>4, <1>5, <1>6 DEF TaskMoves, ToolInd, ToolsTypeOK

LEMMA LiveStages ==
  ASSUME ToolInd, NEW c \in Call
  PROVE  /\ tcTask[c] \in {"created", "waiting"} =>
              c \in Live /\ tcStage[c] = "queued" /\ tcOutcome[c] = "none"
         /\ tcTask[c] = "running" =>
              c \in Live /\ tcStage[c] = "running" /\ tcOutcome[c] = "none"
BY DEF ToolInd, At, Live, Stages

LEMMA StartExecutionMoves ==
  ASSUME ToolInd, NEW c \in Call, tcTask[c] \in {"created", "waiting"},
         tcDeps[c] \cap Live = {}, StartExecution(c)
  PROVE  TaskMoves(c)
<1>1. c \in Live /\ tcStage[c] = "queued" /\ tcOutcome[c] = "none"
  BY LiveStages
<1>2. Project(tcStage[c], "execution_started") = "running"
  BY <1>1, Projections
<1>3. CASE tcReason # "none" /\ c \in Interruptible
  <2>1. EndCall(c, "cancelled", "running")
    BY <1>2, <1>3 DEF StartExecution
  <2> QED BY <1>1, <2>1, EndCallMoves DEF Outcomes
<1>4. CASE ~ (tcReason # "none" /\ c \in Interruptible)
  <2>1. /\ tcTask' = [tcTask EXCEPT ![c] = "running"]
        /\ tcStage' = [tcStage EXCEPT ![c] = "running"]
        /\ UNCHANGED <<tcObserved, tcResolving, tcDeps, tcCancel, tcOutcome, tcReason>>
    BY <1>2, <1>4 DEF StartExecution
  <2> QED BY <1>1, <2>1 DEF TaskMoves, ToolInd, ToolsTypeOK, TaskStates, Stages
<1> QED BY <1>3, <1>4

LEMMA ResolveKeeps ==
  ASSUME ToolInd, NEW c \in Call, ResolveToolCall(c)
  PROVE  ToolInd' /\ Unnoted
<1>1. /\ tcStage[c] = "resolving" /\ tcTask[c] = "none" /\ tcOutcome[c] = "none"
      /\ c \in Elems(tcObserved)
  BY DEF ToolInd, At, ResolveToolCall
<1>2. c \notin Live
  BY <1>1 DEF Live
<1>3. /\ tcResolving' = {} /\ UNCHANGED <<tcObserved, tcCancel, tcReason>>
  BY DEF ResolveToolCall
<1>4. CASE c \in Refused
  <2>1. /\ tcOutcome' = [tcOutcome EXCEPT ![c] = "denied"]
        /\ tcStage' = [tcStage EXCEPT ![c] = "terminal_pending_replay"]
        /\ UNCHANGED <<tcTask, tcDeps>>
    BY <1>1, <1>4, Projections DEF ResolveToolCall
  <2>2. ToolsTypeOK'
    BY <1>3, <2>1 DEF ToolInd, ToolsTypeOK, Outcomes, Stages
  <2>3. \A d \in Call : At(d)'
    <3>1. SUFFICES ASSUME NEW d \in Call PROVE At(d)'
      OBVIOUS
    <3>2. CASE d = c
      BY <1>1, <1>3, <2>1, <3>2 DEF ToolInd, ToolsTypeOK, At, Elems, Stages
    <3>3. CASE d # c
      BY <1>3, <2>1, <3>3 DEF ToolInd, ToolsTypeOK, At, Elems
    <3> QED BY <3>2, <3>3
  <2>4. Waits'
    BY <2>1 DEF ToolInd, Waits, Live, LanesOverlap, LaneKind
  <2>5. Unnoted
    BY <1>3, <2>1 DEF Unnoted, ToolInd, ToolsTypeOK
  <2> QED BY <2>2, <2>3, <2>4, <2>5 DEF ToolInd
<1>5. CASE c \notin Refused
  <2>1. /\ tcDeps' = [tcDeps EXCEPT ![c] = Dependencies(c)]
        /\ tcTask' = [tcTask EXCEPT ![c] = "created"]
        /\ tcStage' = [tcStage EXCEPT ![c] = "queued"]
        /\ UNCHANGED tcOutcome
    BY <1>1, <1>5, Projections DEF ResolveToolCall
  <2>2. ToolsTypeOK'
    BY <1>3, <2>1 DEF ToolInd, ToolsTypeOK, TaskStates, Stages, Dependencies, Live
  <2>3. \A d \in Call : At(d)'
    <3>1. SUFFICES ASSUME NEW d \in Call PROVE At(d)'
      OBVIOUS
    <3>2. CASE d = c
      BY <1>1, <1>3, <2>1, <3>2 DEF ToolInd, ToolsTypeOK, At, Elems, Stages
    <3>3. CASE d # c
      BY <1>3, <2>1, <3>3 DEF ToolInd, ToolsTypeOK, At, Elems
    <3> QED BY <3>2, <3>3
  <2>4. Live' = Live \cup {c}
    BY <2>1 DEF Live, ToolInd, ToolsTypeOK
  <2>5. Waits'
    <3>1. SUFFICES ASSUME NEW x \in Call, NEW y \in Call
                   PROVE  /\ y \in tcDeps'[x] => tcTask'[y] # "none"
                          /\ x # y /\ x \in Live' /\ y \in Live' /\ LanesOverlap(x, y) =>
                                x \in tcDeps'[y] \/ y \in tcDeps'[x]
                          /\ tcTask'[x] = "running" /\ y \in tcDeps'[x] => y \notin Live'
      BY DEF Waits, LanesOverlap, LaneKind
    <3>2. CASE x = c
      <4>1. tcDeps'[x] = Dependencies(c) /\ tcTask'[x] = "created"
        BY <2>1, <3>2 DEF ToolInd, ToolsTypeOK
      <4>2. y \in Dependencies(c) => tcTask'[y] # "none"
        BY <2>1 DEF Dependencies, Live, ToolInd, ToolsTypeOK
      <4>3. y # c /\ y \in Live' /\ LanesOverlap(c, y) => y \in Dependencies(c)
        BY <2>4, OverlapIsMutual DEF Dependencies
      <4> QED BY <3>2, <4>1, <4>2, <4>3
    <3>3. CASE x # c
      <4>1. tcDeps'[x] = tcDeps[x] /\ tcTask'[x] = tcTask[x]
        BY <2>1, <3>3 DEF ToolInd, ToolsTypeOK
      <4>2. c \notin tcDeps[x]
        BY <1>1 DEF ToolInd, Waits
      <4>3. y \in tcDeps[x] => tcTask'[y] # "none" /\ (y \in Live' <=> y \in Live)
        BY <2>1, <2>4, <4>2 DEF ToolInd, ToolsTypeOK, Waits
      <4>4. x \in Live' /\ LanesOverlap(x, y) /\ y = c => x \in tcDeps'[y]
        BY <2>1, <2>4, <3>3 DEF Dependencies, ToolInd, ToolsTypeOK
      <4>5. y # c => tcDeps'[y] = tcDeps[y] /\ (y \in Live' <=> y \in Live)
        BY <2>1, <2>4 DEF ToolInd, ToolsTypeOK
      <4>6. x \in Live' <=> x \in Live
        BY <2>4, <3>3
      <4> QED BY <4>1, <4>3, <4>4, <4>5, <4>6 DEF ToolInd, Waits
    <3> QED BY <3>2, <3>3
  <2>6. Unnoted
    BY <1>3, <2>1 DEF Unnoted, ToolInd, ToolsTypeOK
  <2> QED BY <2>2, <2>3, <2>5, <2>6 DEF ToolInd
<1> QED BY <1>4, <1>5

LEMMA TaskStepKeeps ==
  ASSUME ToolInd, TaskStep
  PROVE  /\ ToolInd' /\ Unnoted
         /\ ~ AllCallsEnded
<1>1. PICK c \in Call : \/ ResolveToolCall(c)
                        \/ BeginCall(c)
                        \/ CancelUnstarted(c)
                        \/ ProceedCall(c)
                        \/ CancelWaiting(c)
                        \/ \E status \in {"success", "error"} : FinishCall(c, status)
                        \/ CancelRunningCall(c)
  BY DEF TaskStep
<1>2. CASE ResolveToolCall(c)
  <2>1. ~ AllCallsEnded
    BY <1>2 DEF ResolveToolCall, AllCallsEnded
  <2> QED BY <1>2, <2>1, ResolveKeeps
<1>3. CASE ~ ResolveToolCall(c)
  <2>1. TaskMoves(c)
    <3>1. CASE BeginCall(c)
      <4>1. tcTask[c] = "created"
        BY <3>1 DEF BeginCall, FirstInLine
      <4>2. CASE tcDeps[c] = {}
        BY <3>1, <4>1, <4>2, StartExecutionMoves DEF BeginCall
      <4>3. CASE tcDeps[c] # {}
        <5>1. /\ tcTask' = [tcTask EXCEPT ![c] = "waiting"]
              /\ UNCHANGED <<tcObserved, tcResolving, tcDeps, tcCancel, tcOutcome, tcStage,
                             tcReason>>
          BY <3>1, <4>3 DEF BeginCall
        <5> QED BY <4>1, <5>1, LiveStages DEF TaskMoves, ToolInd, ToolsTypeOK, TaskStates
      <4> QED BY <4>2, <4>3
    <3>2. CASE CancelUnstarted(c)
      <4>1. /\ tcTask[c] = "created"
            /\ tcTask' = [tcTask EXCEPT ![c] = "done"]
            /\ tcCancel' = tcCancel \ {c}
            /\ UNCHANGED <<tcObserved, tcResolving, tcDeps, tcOutcome, tcStage, tcReason>>
        BY <3>2 DEF CancelUnstarted, FirstInLine
      <4> QED BY <4>1, LiveStages DEF TaskMoves, ToolInd, ToolsTypeOK, TaskStates
    <3>3. CASE ProceedCall(c)
      BY <3>3, StartExecutionMoves DEF ProceedCall, DepsDone
    <3>4. CASE CancelWaiting(c)
      <4>1. tcStage[c] = "queued" /\ c \in Live /\ EndCall(c, "cancelled", tcStage[c])
        BY <3>4, LiveStages DEF CancelWaiting
      <4> QED BY <4>1, EndCallMoves DEF Outcomes
    <3>5. CASE \E status \in {"success", "error"} : FinishCall(c, status)
      <4>1. PICK status \in {"success", "error"} : FinishCall(c, status)
        BY <3>5
      <4>2. tcStage[c] = "running" /\ c \in Live /\ EndCall(c, status, tcStage[c])
        BY <4>1, LiveStages DEF FinishCall
      <4> QED BY <4>2, EndCallMoves DEF Outcomes
    <3>6. CASE CancelRunningCall(c)
      <4>1. tcStage[c] = "running" /\ c \in Live /\ EndCall(c, "cancelled", tcStage[c])
        BY <3>6, LiveStages DEF CancelRunningCall
      <4> QED BY <4>1, EndCallMoves DEF Outcomes
    <3> QED BY <1>1, <1>3, <3>1, <3>2, <3>3, <3>4, <3>5, <3>6
  <2>2. ~ AllCallsEnded
    BY <2>1 DEF TaskMoves, AllCallsEnded
  <2> QED BY <2>1, <2>2, TaskMovesKeeps
<1> QED BY <1>2, <1>3

LEMMA ObserveKeeps ==
  ASSUME ToolInd, NEW c \in Call, MarkObserved(c), ObserveToolCall(c)
  PROVE  ToolInd' /\ Unnoted
<1>1. tcStage[c] = "none" /\ tcTask[c] = "none" /\ tcOutcome[c] = "none"
  BY DEF ToolInd, At, MarkObserved
<1>2. /\ tcResolving' = {c}
      /\ tcObserved' = Append(tcObserved, c)
      /\ tcStage' = [tcStage EXCEPT ![c] = "resolving"]
      /\ UNCHANGED <<tcTask, tcDeps, tcCancel, tcOutcome, tcReason>>
  BY <1>1, Projections DEF ObserveToolCall
<1>3. tcObserved' \in Seq(Call) /\ Elems(tcObserved') = Elems(tcObserved) \cup {c}
  BY <1>2, ElemsAppend DEF ToolInd, ToolsTypeOK
<1>4. ToolsTypeOK'
  BY <1>2, <1>3 DEF ToolInd, ToolsTypeOK, Stages
<1>5. \A d \in Call : At(d)'
  <2>1. SUFFICES ASSUME NEW d \in Call PROVE At(d)'
    OBVIOUS
  <2>2. Elems(tcObserved)' = Elems(tcObserved) \cup {c}
    BY <1>3 DEF Elems
  <2>3. CASE d = c
    BY <1>1, <1>2, <2>2, <2>3 DEF ToolInd, ToolsTypeOK, At, Stages
  <2>4. CASE d # c
    BY <1>2, <2>2, <2>4 DEF ToolInd, ToolsTypeOK, At
  <2> QED BY <2>3, <2>4
<1>6. Waits'
  BY <1>2 DEF ToolInd, Waits, Live, LanesOverlap, LaneKind
<1>7. Unnoted
  BY <1>2 DEF Unnoted, ToolInd, ToolsTypeOK
<1> QED BY <1>4, <1>5, <1>6, <1>7 DEF ToolInd

\* Steps that leave the calls as they are: resolve_tool_call raises, and interrupt().
LEMMA StoppedKeeps ==
  ASSUME ToolInd, tcResolving' \in SUBSET tcResolving, tcCancel' \in SUBSET Call,
         tcReason' \in Reasons,
         UNCHANGED <<tcObserved, tcTask, tcDeps, tcOutcome, tcStage>>
  PROVE  ToolInd'
<1>1. ToolsTypeOK'
  BY DEF ToolInd, ToolsTypeOK
<1>2. \A d \in Call : At(d)'
  BY DEF ToolInd, At, Elems
<1>3. Waits'
  BY DEF ToolInd, Waits, Live, LanesOverlap, LaneKind
<1> QED BY <1>1, <1>2, <1>3 DEF ToolInd

LEMMA SelectKeeps ==
  ASSUME SelectToolExecutor
  PROVE  ToolInd' /\ \A c \in Call : tcStage'[c] # "replayed"
<1> USE DEF SelectToolExecutor
<1>1. ToolsTypeOK'
  BY DEF ToolsTypeOK, TaskStates, Outcomes, Stages, Reasons
<1>2. Elems(tcObserved)' = {}
  BY DEF Elems
<1>3. \A d \in Call : At(d)'
  BY <1>2 DEF At, Stages
<1>4. Waits'
  BY DEF Waits, Live
<1> QED BY <1>1, <1>3, <1>4 DEF ToolInd

LEMMA ReplayKeeps ==
  ASSUME ToolInd, ReplayOutcomes, \A c \in Call : tcStage[c] # "replayed"
  PROVE  ToolInd' /\ AllCallsEnded'
<1>1. /\ Live = {} /\ tcResolving = {}
      /\ UNCHANGED <<tcObserved, tcResolving, tcTask, tcDeps, tcCancel, tcOutcome, tcReason>>
  BY DEF ReplayOutcomes, AllCallsEnded
<1>2. \A c \in Call : c \in Answered => tcStage[c] = "terminal_pending_replay"
  BY DEF ToolInd, At, Answered, Stages
<1>3. \A c \in Call : tcStage'[c] = IF c \in Answered THEN "replayed" ELSE tcStage[c]
  BY <1>2, Projections DEF ReplayOutcomes
<1>4. tcStage' \in [Call -> Stages]
  <2>1. tcStage' = [c \in Call |-> tcStage'[c]]
    BY DEF ReplayOutcomes
  <2> QED BY <1>3, <2>1 DEF ToolInd, ToolsTypeOK, Stages
<1>5. ToolsTypeOK'
  BY <1>1, <1>4 DEF ToolInd, ToolsTypeOK
<1>6. \A c \in Call : At(c)'
  <2>1. SUFFICES ASSUME NEW c \in Call PROVE At(c)'
    OBVIOUS
  <2>2. Elems(tcObserved)' = Elems(tcObserved)
    BY <1>1 DEF Elems
  <2>3. CASE c \in Answered
    <3>1. tcStage'[c] = "replayed" /\ tcStage[c] = "terminal_pending_replay"
      BY <1>2, <1>3, <2>3
    <3>2. tcTask[c] \in {"none", "done"} /\ tcOutcome[c] # "none" /\ c \in Elems(tcObserved)
      BY <3>1 DEF ToolInd, At
    <3> QED BY <1>1, <2>2, <3>1, <3>2 DEF At, Stages
  <2>4. CASE c \notin Answered
    BY <1>1, <1>3, <2>2, <2>4 DEF ToolInd, At
  <2> QED BY <2>3, <2>4
<1>7. Waits'
  BY <1>1 DEF ToolInd, Waits, Live, LanesOverlap, LaneKind
<1>8. AllCallsEnded'
  BY <1>1 DEF AllCallsEnded, Live
<1> QED BY <1>5, <1>6, <1>7, <1>8 DEF ToolInd

----
(* The loop *)

TurnMessage == [role : ApiRoles, uses : SUBSET (Nat \X Call), results : SUBSET (Nat \X Call),
                text : BOOLEAN]
Recoveries == [retries : [Failure -> Nat], compactions : [Failure -> Nat]]

Types ==
  /\ TurnTypeOK
  /\ tnTranscript \in Seq(TurnMessage)
  /\ tnRecovery \in Recoveries
  /\ tnHookContinues \in Nat

\* What holds of the calls, the terminal reason and the signal in each phase: only an
\* attempt that is over has replayed, the stop phase has no calls, and the next attempt is
\* prepared when every call of a message that kept its calls has ended.
Carried ==
  /\ tnPhase \notin {"prepare", "terminal"} => \A c \in Call : tcStage[c] # "replayed"
  /\ tnPhase = "stop" => tnCalls = <<>>
  /\ tnPhase = "prepare" /\ tnCalls # <<>> => AllCallsEnded
  /\ tnPhase # "terminal" => tnTerminal = "none"
  /\ tcReason = "interrupt" => tnInterrupted # "none"

\* What a budget has paid for: a counter goes on counting when a hook continues, but the
\* budget pays no more than it has.
Counted(failure, counters, budget) ==
  IF failure \notin Failure THEN 0
  ELSE IF counters[failure] < budget THEN counters[failure] ELSE budget

Spent(recovery) ==
  Counted("output_limit", recovery.retries, RetryBudget)
    + Counted("provider_overload", recovery.retries, RetryBudget)
    + Counted("context_limit", recovery.compactions, CompactionBudget)

\* Every attempt, the one that is about to be prepared included, was paid for.
Attempts == tnIteration + (IF tnPhase = "prepare" THEN 1 ELSE 0)
Paid == Attempts <= MaxTurns + Spent(tnRecovery) + tnHookContinues

TurnInd ==
  /\ Types /\ ToolInd /\ Carried /\ StartedIsReplayed
  /\ Paid /\ FailureIsReported /\ InterruptEndsTurn

LEMMA CountedType ==
  ASSUME NEW failure, NEW counters \in [Failure -> Nat], NEW budget \in Nat
  PROVE  Counted(failure, counters, budget) \in Nat /\ Counted(failure, counters, budget) <= budget
BY DEF Counted

LEMMA SpentBounded ==
  ASSUME NEW recovery \in Recoveries
  PROVE  Spent(recovery) \in Nat /\ Spent(recovery) <= 2 * RetryBudget + CompactionBudget
<1>1. recovery.retries \in [Failure -> Nat] /\ recovery.compactions \in [Failure -> Nat]
  BY DEF Recoveries
<1>2. RetryBudget \in Nat /\ CompactionBudget \in Nat
  BY TurnAssumption
<1>3. PICK a, b, c \in Nat : /\ a = Counted("output_limit", recovery.retries, RetryBudget)
                             /\ b = Counted("provider_overload", recovery.retries, RetryBudget)
                             /\ c = Counted("context_limit", recovery.compactions, CompactionBudget)
                             /\ a <= RetryBudget /\ b <= RetryBudget /\ c <= CompactionBudget
  BY <1>1, <1>2, CountedType
<1> QED BY <1>2, <1>3 DEF Spent

\* The decisions of the policy and of the hook that follows it.
Decisions == [action : {"halt", "compact_and_retry", "retry_with_override", "rebuild_request",
                        "continue_same_turn"},
              reason : TerminalReasons \cup {"none"}]

\* A continuation that a budget pays for.
Budgeted(decision) ==
  \/ MayCompact /\ decision.action = "compact_and_retry"
  \/ MayRetry /\ decision.action \in {"retry_with_override", "rebuild_request"}

\* What the policy decides: a halt has a reason, "end_turn" only after a whole attempt; and
\* what it continues was neither exhausted, unavailable nor interrupted, and is budgeted if
\* it failed.
Decided(decision, exhausted, unavailable) ==
  /\ decision \in Decisions
  /\ decision.action = "halt" => decision.reason # "none"
  /\ decision.reason = "end_turn" => tnFailure = "none" /\ tnStop = "end_turn"
  /\ decision.action # "halt" =>
        /\ ~ exhausted /\ ~ unavailable /\ ~ AttemptInterrupted /\ decision.reason = "none"
        /\ tnFailure # "none" => Budgeted(decision)

LEMMA EvaluateDecides ==
  ASSUME Types, NEW exhausted \in BOOLEAN, NEW unavailable \in BOOLEAN, NEW disposition
  PROVE  Decided(Evaluate(exhausted, unavailable, disposition), exhausted, unavailable)
<1>1. PICK decision : decision = Evaluate(exhausted, unavailable, disposition)
  OBVIOUS
<1>2. tnStop \in {"end_turn", "incomplete"}
  BY DEF Types, TurnTypeOK
<1>3. TerminalReasonFor(tnFailure) \in {"prompt_too_long", "incomplete", "error"}
  BY DEF TerminalReasonFor
<1>4. \/ decision = Halt("max_turns") \/ decision = Halt("interrupted") \/ decision = Halt("blocked")
      \/ decision = Halt(TerminalReasonFor(tnFailure))
      \/ decision = Halt(tnStop) /\ tnFailure = "none"
      \/ /\ ~ exhausted /\ ~ unavailable /\ ~ AttemptInterrupted
         /\ \/ MayCompact /\ decision = Continue("compact_and_retry")
            \/ MayRetry /\ decision = Continue("retry_with_override")
            \/ MayRetry /\ decision = Continue("rebuild_request")
            \/ tnFailure = "none" /\ decision = Continue("continue_same_turn")
  BY <1>1 DEF Evaluate
<1>5. Decided(decision, exhausted, unavailable)
  BY <1>2, <1>3, <1>4 DEF Decided, Decisions, TerminalReasons, Halt, Continue, Budgeted
<1> QED BY <1>1, <1>5

LEMMA CounterCounts ==
  ASSUME NEW counters \in [Failure -> Nat], NEW failure \in Failure, NEW n \in Nat
  PROVE  /\ [counters EXCEPT ![failure] = n] \in [Failure -> Nat]
         /\ \A f \in Failure :
               [counters EXCEPT ![failure] = n][f] = IF f = failure THEN n ELSE counters[f]
OBVIOUS

LEMMA AfterDecisionSpends ==
  ASSUME Types, NEW decision \in Decisions
  PROVE  /\ AfterDecision(decision) \in Recoveries
         /\ Spent(AfterDecision(decision)) >= Spent(tnRecovery)
         /\ tnFailure # "none" /\ Budgeted(decision) =>
               Spent(AfterDecision(decision)) >= Spent(tnRecovery) + 1
<1>1. PICK r, q : r = tnRecovery.retries /\ q = tnRecovery.compactions
  OBVIOUS
<1>2. r \in [Failure -> Nat] /\ q \in [Failure -> Nat]
  BY <1>1 DEF Types, Recoveries
<1>3. tnFailure \in Failure \cup {"none"} /\ RetryBudget \in Nat /\ CompactionBudget \in Nat
  BY TurnAssumption DEF Types, TurnTypeOK
<1>4. PICK after : after = AfterDecision(decision)
  OBVIOUS
<1>5. CASE tnFailure = "none" \/ decision.action = "halt"
  <2>1. after = tnRecovery
    BY <1>4, <1>5 DEF AfterDecision
  <2>2. tnFailure = "none" \/ ~ Budgeted(decision)
    BY <1>5 DEF Budgeted
  <2>3. Spent(tnRecovery) \in Nat
    BY SpentBounded DEF Types
  <2> QED BY <1>4, <2>1, <2>2, <2>3 DEF Types
<1>6. CASE tnFailure \in Failure /\ decision.action = "compact_and_retry"
            /\ ~ (tnFailure = "none" \/ decision.action = "halt")
  <2>1. PICK n \in Nat : n = q[tnFailure]
    BY <1>2, <1>6
  <2>2. after = [tnRecovery EXCEPT !.compactions = [q EXCEPT ![tnFailure] = n + 1]]
    BY <1>1, <1>4, <1>6, <2>1 DEF AfterDecision
  <2>3. PICK p : p = [q EXCEPT ![tnFailure] = n + 1]
    OBVIOUS
  <2>4. p \in [Failure -> Nat] /\ \A f \in Failure : p[f] = IF f = tnFailure THEN n + 1 ELSE q[f]
    BY <1>2, <2>1, <2>3, <1>6, CounterCounts
  <2>5. after \in Recoveries /\ after.retries = r /\ after.compactions = p
    BY <1>1, <1>2, <2>2, <2>3, <2>4 DEF Types, Recoveries
  <2>6. Counted("context_limit", p, CompactionBudget) >= Counted("context_limit", q, CompactionBudget)
    BY <1>2, <1>3, <2>1, <2>4 DEF Counted
  <2>7. ASSUME Budgeted(decision)
        PROVE  Counted("context_limit", p, CompactionBudget) >=
                   Counted("context_limit", q, CompactionBudget) + 1
    <3>1. tnFailure = "context_limit" /\ q[tnFailure] < CompactionBudget
      BY <1>1, <1>6, <2>7 DEF Budgeted, MayCompact
    <3> QED BY <1>2, <1>3, <1>6, <2>1, <2>4, <3>1 DEF Counted
  <2>8. PICK a, b, c, d \in Nat : /\ a = Counted("output_limit", r, RetryBudget)
                                  /\ b = Counted("provider_overload", r, RetryBudget)
                                  /\ c = Counted("context_limit", q, CompactionBudget)
                                  /\ d = Counted("context_limit", p, CompactionBudget)
    BY <1>2, <1>3, <2>4, CountedType
  <2>9. Spent(tnRecovery) = a + b + c /\ Spent(after) = a + b + d
    BY <1>1, <2>5, <2>8 DEF Spent
  <2> QED BY <1>4, <2>5, <2>6, <2>7, <2>8, <2>9
<1>7. CASE tnFailure \in Failure /\ decision.action # "compact_and_retry"
            /\ ~ (tnFailure = "none" \/ decision.action = "halt")
  <2>1. PICK n \in Nat : n = r[tnFailure]
    BY <1>2, <1>7
  <2>2. after = [tnRecovery EXCEPT !.retries = [r EXCEPT ![tnFailure] = n + 1]]
    BY <1>1, <1>4, <1>7, <2>1 DEF AfterDecision
  <2>3. PICK p : p = [r EXCEPT ![tnFailure] = n + 1]
    OBVIOUS
  <2>4. p \in [Failure -> Nat] /\ \A f \in Failure : p[f] = IF f = tnFailure THEN n + 1 ELSE r[f]
    BY <1>2, <2>1, <2>3, <1>7, CounterCounts
  <2>5. after \in Recoveries /\ after.retries = p /\ after.compactions = q
    BY <1>1, <1>2, <2>2, <2>3, <2>4 DEF Types, Recoveries
  <2>6. /\ Counted("output_limit", p, RetryBudget) >= Counted("output_limit", r, RetryBudget)
        /\ Counted("provider_overload", p, RetryBudget) >= Counted("provider_overload", r, RetryBudget)
    BY <1>2, <1>3, <2>1, <2>4 DEF Counted
  <2>7. ASSUME Budgeted(decision)
        PROVE  Counted("output_limit", p, RetryBudget) + Counted("provider_overload", p, RetryBudget)
                 >= Counted("output_limit", r, RetryBudget)
                      + Counted("provider_overload", r, RetryBudget) + 1
    <3>1. tnFailure \in {"output_limit", "provider_overload"} /\ r[tnFailure] < RetryBudget
      BY <1>1, <1>7, <2>7 DEF Budgeted, MayRetry
    <3> QED BY <1>2, <1>3, <1>7, <2>1, <2>4, <3>1 DEF Counted
  <2>8. PICK a, b, c, d, e \in Nat : /\ a = Counted("output_limit", r, RetryBudget)
                                     /\ b = Counted("provider_overload", r, RetryBudget)
                                     /\ c = Counted("context_limit", q, CompactionBudget)
                                     /\ d = Counted("output_limit", p, RetryBudget)
                                     /\ e = Counted("provider_overload", p, RetryBudget)
    BY <1>2, <1>3, <2>4, CountedType
  <2>9. Spent(tnRecovery) = a + b + c /\ Spent(after) = d + e + c
    BY <1>1, <2>5, <2>8 DEF Spent
  <2> QED BY <1>4, <2>5, <2>6, <2>7, <2>8, <2>9
<1> QED BY <1>3, <1>5, <1>6, <1>7

LEMMA LeastNatural ==
  ASSUME NEW S \in SUBSET Nat, S # {}
  PROVE  \E x \in S : \A y \in S : x <= y
<1>1. PICK x \in S : \A y \in S : ~ (<<y, x>> \in OpToRel(<, Nat))
  BY NatLessThanWellFounded, WFMin, Zenon
<1>2. \A y \in S : ~ (y < x)
  BY <1>1, Zenon DEF OpToRel
<1> QED BY <1>2

\* The transcript has a last leading system message, so a compaction yields messages.
LEMMA CompactedType ==
  ASSUME NEW ms \in Seq(TurnMessage)
  PROVE  Compacted(ms) \in Seq(TurnMessage)
<1> DEFINE Pinned(n) == /\ \A i \in 1 .. n : ms[i].role = "system"
                        /\ n < Len(ms) => ms[n + 1].role # "system"
           ends == {n \in 0 .. Len(ms) : n < Len(ms) => ms[n + 1].role # "system"}
<1>1. \E n \in 0 .. Len(ms) : Pinned(n)
  <2>1. ends \in SUBSET Nat /\ Len(ms) \in ends
    OBVIOUS
  <2>2. PICK n \in ends : \A m \in ends : n <= m
    BY <2>1, LeastNatural, Zenon
  <2>3. ASSUME NEW i \in 1 .. n PROVE ms[i].role = "system"
    <3>1. i - 1 \in 0 .. Len(ms) /\ i - 1 < n /\ (i - 1) + 1 = i
      BY <2>1
    <3>2. i - 1 \notin ends
      BY <2>2, <3>1
    <3> QED BY <3>1, <3>2
  <2> QED BY <2>3
<1> DEFINE pinned == CHOOSE n \in 0 .. Len(ms) : Pinned(n)
           cut == Len(ms) - KeepRecent
<1>2. pinned \in 0 .. Len(ms)
  BY <1>1, Zenon
<1>3. Compacted(ms) = IF (tnForceCompaction \/ Len(ms) > CompactAbove) /\ cut > pinned
                      THEN SubSeq(ms, 1, pinned) \o <<SystemText>> \o SubSeq(ms, cut + 1, Len(ms))
                      ELSE ms
  BY DEF Compacted
<1> HIDE DEF pinned
<1>4. ASSUME cut > pinned
      PROVE  /\ SubSeq(ms, 1, pinned) \in Seq(TurnMessage)
             /\ SubSeq(ms, cut + 1, Len(ms)) \in Seq(TurnMessage)
  <2>1. KeepRecent \in Nat
    BY TurnAssumption
  <2> QED BY <1>2, <1>4, <2>1
<1>5. SystemText \in TurnMessage
  BY DEF SystemText, Message, TurnMessage, ApiRoles
<1> HIDE DEF cut
<1> QED BY <1>3, <1>4, <1>5

\* The results of a message are results of every transcript it is part of.
LEMMA ResultsAreHeld ==
  ASSUME NEW a \in Seq(TurnMessage), NEW m \in TurnMessage, NEW b \in Seq(TurnMessage),
         NEW id \in m.results
  PROVE  id \in AllResults(a \o <<m>> \o b)
<1>1. PICK ms : ms = a \o <<m>> \o b
  OBVIOUS
<1>2. Len(a) + 1 \in DOMAIN ms /\ ms[Len(a) + 1] = m
  BY <1>1
<1>3. id \in AllResults(ms)
  BY <1>2 DEF AllResults
<1> QED BY <1>1, <1>3

LEMMA EndKeeps ==
  ASSUME TurnInd, NEW reason \in TerminalReasons, EndTurn(reason),
         ToolInd', tcReason' = tcReason, tnTranscript' \in Seq(TurnMessage),
         tnRecovery' \in Recoveries, Spent(tnRecovery') >= Spent(tnRecovery),
         tnForceCompaction' \in BOOLEAN,
         UNCHANGED <<tnClient, tnIteration, tnCalls, tnPendingUse, tnFailure, tnStop, tnAbort,
                     tnHookContinues, tnInterrupted>>,
         reason = "end_turn" => \/ tnFailure = "none" /\ tnStop = "end_turn"
                                \/ tnInterrupted # "none" /\ ~ AttemptInterrupted
  PROVE  TurnInd'
<1>1. tnPhase' = "terminal" /\ tnTerminal' = reason
  BY DEF EndTurn
<1>2. Types'
  BY <1>1 DEF TurnInd, Types, TurnTypeOK, ToolInd, Phases
<1>3. Carried'
  BY <1>1 DEF TurnInd, Carried
<1>4. StartedIsReplayed' /\ InterruptEndsTurn'
  BY <1>1 DEF StartedIsReplayed, InterruptEndsTurn
<1>5. FailureIsReported'
  BY <1>1 DEF FailureIsReported, AttemptInterrupted
<1>6. Paid'
  <2>1. PICK n, s, t \in Nat : n = tnIteration /\ s = Spent(tnRecovery) /\ t = Spent(tnRecovery')
    BY SpentBounded DEF TurnInd, Types, TurnTypeOK
  <2>2. tnHookContinues \in Nat /\ MaxTurns \in Nat
    BY TurnAssumption DEF TurnInd, Types
  <2>3. n <= MaxTurns + s + tnHookContinues
    BY <2>1, <2>2 DEF TurnInd, Paid, Attempts
  <2>4. Spent(tnRecovery)' = t
    BY <2>1 DEF Spent, Counted
  <2> QED BY <1>1, <2>1, <2>2, <2>3, <2>4 DEF Paid, Attempts
<1> QED BY <1>2, <1>3, <1>4, <1>5, <1>6 DEF TurnInd

LEMMA FinishKeeps ==
  ASSUME TurnInd, tnPhase = "stream", ToolInd', tcReason' = tcReason, tcStage' = tcStage,
         NEW stopped \in BOOLEAN, NEW calls \in Seq(Call), NEW pendingUse \in BOOLEAN,
         NEW failure \in Failure \cup {"none"}, NEW abort \in Reasons,
         FinishAttempt(stopped, calls, pendingUse, failure, abort)
  PROVE  TurnInd'
<1>0. <<>> \in Seq(Call)
  OBVIOUS
<1>1. PICK kept \in Seq(Call) : kept = IF stopped \/ abort = "tool_failure" THEN calls ELSE <<>>
  BY <1>0, Zenon
<1>2. /\ tnPhase' = "post_model" /\ tnCalls' = kept /\ tnPendingUse' = pendingUse
      /\ tnFailure' = failure /\ tnAbort' = abort
      /\ tnStop' = IF stopped THEN "end_turn" ELSE "incomplete"
      /\ UNCHANGED <<tnClient, tnIteration, tnForceCompaction, tnRecovery, tnTerminal,
                     tnHookContinues, tnInterrupted>>
  BY <1>1 DEF FinishAttempt
<1>3. tnTranscript' \in Seq(TurnMessage)
  <2>1. PICK uses : uses = {Id(c) : c \in Range(kept)}
    OBVIOUS
  <2>2. uses \in SUBSET (Nat \X Call)
    BY <1>1, <2>1 DEF Range, Id, TurnInd, Types, TurnTypeOK
  <2>3. PICK text \in BOOLEAN : text = (kept = <<>>)
    OBVIOUS
  <2>4. Message("assistant", uses, {}, text) \in TurnMessage
    BY <2>2 DEF Message, TurnMessage, ApiRoles
  <2>5. \/ tnTranscript' = tnTranscript
        \/ tnTranscript' = Append(tnTranscript, Message("assistant", uses, {}, text))
    BY <1>1, <2>1, <2>3 DEF FinishAttempt
  <2> QED BY <2>4, <2>5 DEF TurnInd, Types
<1>4. Types'
  BY <1>2, <1>3 DEF TurnInd, Types, TurnTypeOK, ToolInd, Phases
<1>5. Carried'
  BY <1>2 DEF TurnInd, Carried
<1>6. StartedIsReplayed' /\ InterruptEndsTurn'
  BY <1>2 DEF StartedIsReplayed, InterruptEndsTurn
<1>7. FailureIsReported'
  BY <1>2 DEF FailureIsReported, TurnInd, Carried
<1>8. Paid'
  BY <1>2 DEF TurnInd, Paid, Attempts, Spent, Counted
<1> QED BY <1>2, <1>4, <1>5, <1>6, <1>7, <1>8 DEF TurnInd

----
(* The steps of the loop *)

LEMMA PrepareKeeps ==
  ASSUME TurnInd, PrepareAttempt
  PROVE  TurnInd'
<1>1. /\ tnPhase = "prepare" /\ tnPhase' = "stream" /\ tnIteration' = tnIteration + 1
      /\ tnForceCompaction' = FALSE /\ tnTranscript' = Compacted(tnTranscript)
      /\ tnCalls' = <<>> /\ tnPendingUse' = FALSE
      /\ tnFailure' = "none" /\ tnStop' = "end_turn" /\ tnAbort' = "none"
      /\ SelectToolExecutor
      /\ UNCHANGED <<tnClient, tnRecovery, tnTerminal, tnHookContinues, tnInterrupted>>
  BY DEF PrepareAttempt, FreshAttempt
<1>2. ToolInd' /\ \A c \in Call : tcStage'[c] # "replayed"
  BY <1>1, SelectKeeps
<1>3. tnTranscript' \in Seq(TurnMessage)
  BY <1>1, CompactedType DEF TurnInd, Types
<1>4. Types'
  <2>1. <<>> \in Seq(Call)
    OBVIOUS
  <2>2. tnIteration' \in Nat /\ tnCalls' \in Seq(Call)
    BY <1>1, <2>1 DEF TurnInd, Types, TurnTypeOK
  <2>3. ToolsTypeOK'
    BY <1>2 DEF ToolInd
  <2>4. tnAbort' \in Reasons /\ tnPhase' \in Phases
    BY <1>1 DEF Reasons, Phases
  <2> QED BY <1>1, <1>3, <2>2, <2>3, <2>4 DEF TurnInd, Types, TurnTypeOK
<1>5. Carried'
  BY <1>1, <1>2 DEF TurnInd, Carried, SelectToolExecutor
<1>6. StartedIsReplayed' /\ InterruptEndsTurn'
  BY <1>1 DEF StartedIsReplayed, InterruptEndsTurn
<1>7. FailureIsReported'
  BY <1>1 DEF FailureIsReported, TurnInd, Carried
<1>8. Paid'
  <2>1. Spent(tnRecovery)' = Spent(tnRecovery)
    BY <1>1 DEF Spent, Counted
  <2>2. tnIteration \in Nat
    BY DEF TurnInd, Types, TurnTypeOK
  <2> QED BY <1>1, <2>1, <2>2 DEF TurnInd, Paid, Attempts
<1> QED BY <1>2, <1>4, <1>5, <1>6, <1>7, <1>8 DEF TurnInd

\* A step of the calls, unless the loop prepares an attempt after one that kept its calls.
LEMMA CallsKeep ==
  ASSUME TurnInd, ToolInd', Unnoted, tnPhase = "prepare" => tnCalls = <<>>, UNCHANGED turnVars
  PROVE  TurnInd'
<1>1. Types'
  BY DEF TurnInd, Types, TurnTypeOK, ToolInd, turnVars
<1>2. Carried'
  BY DEF TurnInd, Carried, Unnoted, turnVars
<1>3. StartedIsReplayed' /\ InterruptEndsTurn' /\ FailureIsReported'
  BY DEF StartedIsReplayed, InterruptEndsTurn, FailureIsReported, AttemptInterrupted, TurnInd,
         turnVars
<1>4. Paid'
  BY DEF TurnInd, Paid, Attempts, Spent, Counted, turnVars
<1> QED BY <1>1, <1>2, <1>3, <1>4 DEF TurnInd

LEMMA StreamKeeps ==
  ASSUME TurnInd, NEW c \in Call, StreamToolCall(c)
  PROVE  TurnInd'
<1>1. /\ tnPhase = "stream" /\ tnCalls' = Append(tnCalls, c)
      /\ UNCHANGED <<tnPhase, tnClient, tnIteration, tnTranscript, tnPendingUse, tnFailure,
                     tnStop, tnAbort, tnForceCompaction, tnRecovery, tnTerminal,
                     tnHookContinues, tnInterrupted>>
  BY DEF StreamToolCall
<1>2. ToolInd' /\ Unnoted
  <2>1. CASE Tier = "full_streaming" /\ MarkObserved(c)
    <3>1. ObserveToolCall(c)
      BY <2>1 DEF StreamToolCall
    <3> QED BY <2>1, <3>1, ObserveKeeps DEF TurnInd
  <2>2. CASE ~ (Tier = "full_streaming" /\ MarkObserved(c))
    <3>1. UNCHANGED tcVars
      BY <2>2 DEF StreamToolCall
    <3>2. Unnoted
      BY <3>1 DEF tcVars, Unnoted
    <3>3. tcReason \in Reasons /\ tcCancel \in SUBSET Call
      BY DEF TurnInd, ToolInd, ToolsTypeOK
    <3> QED BY <3>1, <3>2, <3>3, StoppedKeeps DEF TurnInd, tcVars
  <2> QED BY <2>1, <2>2
<1>3. tnCalls' \in Seq(Call)
  BY <1>1 DEF TurnInd, Types, TurnTypeOK
<1>4. Types'
  BY <1>1, <1>2, <1>3 DEF TurnInd, Types, TurnTypeOK, ToolInd
<1>5. Carried'
  BY <1>1, <1>2 DEF TurnInd, Carried, Unnoted
<1>6. StartedIsReplayed' /\ InterruptEndsTurn'
  BY <1>1 DEF StartedIsReplayed, InterruptEndsTurn
<1>7. FailureIsReported'
  BY <1>1 DEF FailureIsReported, TurnInd, Carried
<1>8. Paid'
  BY <1>1 DEF TurnInd, Paid, Attempts, Spent, Counted
<1> QED BY <1>2, <1>4, <1>5, <1>6, <1>7, <1>8 DEF TurnInd

LEMMA SameTools ==
  ASSUME ToolInd, UNCHANGED tcVars
  PROVE  ToolInd' /\ tcReason' = tcReason /\ tcStage' = tcStage /\ Unnoted
<1>1. tcReason \in Reasons /\ tcCancel \in SUBSET Call
  BY DEF ToolInd, ToolsTypeOK
<1> QED BY <1>1, StoppedKeeps DEF tcVars, Unnoted

LEMMA ClientFailures ==
  ASSUME Types
  PROVE  tnClient.failures \in SUBSET Failure /\ "internal_error" \in Failure
BY TurnAssumption DEF Types, TurnTypeOK

LEMMA EndStreamKeeps ==
  ASSUME TurnInd, EndStream
  PROVE  TurnInd'
<1>1. tnPhase = "stream" /\ UNCHANGED tcVars
  BY DEF EndStream
<1>2. ToolInd' /\ tcReason' = tcReason /\ tcStage' = tcStage
  BY <1>1, SameTools DEF TurnInd
<1>3. PICK failure \in tnClient.failures \cup {"none"} :
         \/ FinishAttempt(TRUE, tnCalls, FALSE, failure, tcReason)
         \/ FinishAttempt(FALSE, tnCalls, FALSE, failure, tcReason)
         \/ \E c \in Call : FinishAttempt(TRUE, Append(tnCalls, c), TRUE, failure, tcReason)
  BY DEF EndStream
<1>4. failure \in Failure \cup {"none"}
  BY ClientFailures DEF TurnInd
<1>5. tnCalls \in Seq(Call) /\ tcReason \in Reasons
  BY DEF TurnInd, Types, TurnTypeOK, ToolsTypeOK
<1>6. CASE \/ FinishAttempt(TRUE, tnCalls, FALSE, failure, tcReason)
           \/ FinishAttempt(FALSE, tnCalls, FALSE, failure, tcReason)
  BY <1>1, <1>2, <1>4, <1>5, <1>6, FinishKeeps
<1>7. CASE \E c \in Call : FinishAttempt(TRUE, Append(tnCalls, c), TRUE, failure, tcReason)
  <2>1. PICK c \in Call : FinishAttempt(TRUE, Append(tnCalls, c), TRUE, failure, tcReason)
    BY <1>7
  <2>2. Append(tnCalls, c) \in Seq(Call)
    BY <1>5
  <2> QED BY <1>1, <1>2, <1>4, <1>5, <2>1, <2>2, FinishKeeps
<1> QED BY <1>3, <1>6, <1>7

LEMMA EndCompletionKeeps ==
  ASSUME TurnInd, EndCompletion
  PROVE  TurnInd'
<1>1. tnPhase = "stream" /\ UNCHANGED tcVars
  BY DEF EndCompletion
<1>2. ToolInd' /\ tcReason' = tcReason /\ tcStage' = tcStage
  BY <1>1, SameTools DEF TurnInd
<1>3. tcReason \in Reasons /\ "none" \in Reasons
  BY DEF TurnInd, Types, TurnTypeOK, ToolsTypeOK, Reasons
<1>4. CASE \E calls \in SeqOf(Call, MaxMessageCalls), abort \in {"none", tcReason},
              failure \in tnClient.failures \cup {"none"} :
              FinishAttempt(TRUE, calls, FALSE, failure, abort)
  <2>1. PICK calls \in SeqOf(Call, MaxMessageCalls), abort \in {"none", tcReason},
             failure \in tnClient.failures \cup {"none"} :
             FinishAttempt(TRUE, calls, FALSE, failure, abort)
    BY <1>4
  <2>2. calls \in Seq(Call)
    <3>1. PICK m \in 0 .. MaxMessageCalls : calls \in [1 .. m -> Call]
      BY DEF SeqOf
    <3> QED BY <3>1, TurnAssumption
  <2>3. failure \in Failure \cup {"none"}
    BY ClientFailures DEF TurnInd
  <2> QED BY <1>1, <1>2, <1>3, <2>1, <2>2, <2>3, FinishKeeps
<1>5. CASE \E failure \in tnClient.failures : FinishAttempt(FALSE, <<>>, FALSE, failure, tcReason)
  <2>1. PICK failure \in tnClient.failures : FinishAttempt(FALSE, <<>>, FALSE, failure, tcReason)
    BY <1>5
  <2>2. failure \in Failure \cup {"none"} /\ <<>> \in Seq(Call)
    BY ClientFailures DEF TurnInd
  <2> QED BY <1>1, <1>2, <1>3, <2>1, <2>2, FinishKeeps
<1> QED BY <1>4, <1>5 DEF EndCompletion

LEMMA ResolutionFailsStreamKeeps ==
  ASSUME TurnInd, ResolutionFailsStream
  PROVE  TurnInd'
<1>1. /\ tnPhase = "stream" /\ tcResolving' = {}
      /\ UNCHANGED <<tcObserved, tcTask, tcDeps, tcCancel, tcOutcome, tcStage, tcReason>>
      /\ FinishAttempt(FALSE, tnCalls, FALSE, "internal_error", tcReason)
  BY DEF ResolutionFailsStream
<1>2. tcReason \in Reasons /\ tcCancel \in SUBSET Call /\ tnCalls \in Seq(Call)
  BY DEF TurnInd, Types, TurnTypeOK, ToolsTypeOK
<1>3. ToolInd'
  BY <1>1, <1>2, StoppedKeeps DEF TurnInd
<1>4. "internal_error" \in Failure \cup {"none"}
  BY TurnAssumption
<1> QED BY <1>1, <1>2, <1>3, <1>4, FinishKeeps

\* The end of a turn that the policy decided on.
LEMMA HaltKeeps ==
  ASSUME TurnInd, NEW decision, NEW exhausted \in BOOLEAN, NEW unavailable \in BOOLEAN,
         Decided(decision, exhausted, unavailable),
         decision.action = "halt" \/ unavailable \/ tcReason = "interrupt",
         EndTurn(TerminalReason(decision)), tnRecovery' = AfterDecision(decision),
         ToolInd', tcReason' = tcReason, tnTranscript' \in Seq(TurnMessage),
         tnForceCompaction' \in BOOLEAN,
         UNCHANGED <<tnClient, tnIteration, tnCalls, tnPendingUse, tnFailure, tnStop, tnAbort,
                     tnHookContinues, tnInterrupted>>
  PROVE  TurnInd'
<1>1. decision \in Decisions
  BY DEF Decided
<1>2. decision.reason \in TerminalReasons \cup {"none"}
  BY <1>1 DEF Decisions
<1>3. PICK reason : reason = TerminalReason(decision)
  OBVIOUS
<1>4. reason \in TerminalReasons
  BY <1>2, <1>3 DEF TerminalReason, TerminalReasons
<1>5. tnRecovery' \in Recoveries /\ Spent(tnRecovery') >= Spent(tnRecovery)
  BY <1>1, AfterDecisionSpends DEF TurnInd
<1>6. reason = "end_turn" => \/ tnFailure = "none" /\ tnStop = "end_turn"
                             \/ tnInterrupted # "none" /\ ~ AttemptInterrupted
  <2>1. CASE decision.reason = "none"
    <3>1. decision.action # "halt" /\ ~ unavailable /\ ~ AttemptInterrupted
      BY <2>1 DEF Decided
    <3>2. tnInterrupted # "none"
      BY <3>1 DEF TurnInd, Carried
    <3> QED BY <3>1, <3>2
  <2>2. CASE decision.reason # "none"
    BY <1>3, <2>2 DEF TerminalReason, Decided
  <2> QED BY <2>1, <2>2
<1> QED BY <1>3, <1>4, <1>5, <1>6, EndKeeps

LEMMA PostModelKeeps ==
  ASSUME TurnInd, PostModelResponse
  PROVE  TurnInd'
<1>1. /\ tnPhase = "post_model"
      /\ UNCHANGED <<tcVars, tnClient, tnIteration, tnForceCompaction, tnHookContinues,
                     tnInterrupted>>
      /\ UNCHANGED <<tnCalls, tnPendingUse, tnFailure, tnStop, tnAbort>>
  BY DEF PostModelResponse, attemptVars
<1>2. ToolInd' /\ tcReason' = tcReason /\ tcStage' = tcStage
  BY <1>1, SameTools DEF TurnInd
<1>3. tnTranscript' \in Seq(TurnMessage)
  <2>1. PICK text \in TurnMessage : text = UserText
    BY DEF UserText, Message, TurnMessage, ApiRoles
  <2>2. tnTranscript' = tnTranscript \o <<>> \/ tnTranscript' = tnTranscript \o <<UserText>>
    BY Zenon DEF PostModelResponse
  <2>3. tnTranscript' = tnTranscript \o <<>> \/ tnTranscript' = tnTranscript \o <<text>>
    BY <2>1, <2>2, Zenon
  <2>4. tnTranscript \in Seq(TurnMessage)
    BY DEF TurnInd, Types
  <2> QED BY <2>1, <2>3, <2>4
<1>4. CASE /\ tnPhase' \in {"stop", "tools"}
           /\ tnPhase' = "stop" => tnCalls = <<>>
           /\ UNCHANGED <<tnTerminal, tnRecovery>>
  <2>1. Types'
    BY <1>1, <1>2, <1>3, <1>4 DEF TurnInd, Types, TurnTypeOK, ToolInd, Phases
  <2>2. Carried'
    BY <1>1, <1>2, <1>4 DEF TurnInd, Carried
  <2>3. StartedIsReplayed' /\ InterruptEndsTurn'
    BY <1>4 DEF StartedIsReplayed, InterruptEndsTurn
  <2>4. FailureIsReported'
    BY <1>1, <1>4 DEF FailureIsReported, TurnInd, Carried
  <2>5. Paid'
    BY <1>1, <1>4 DEF TurnInd, Paid, Attempts, Spent, Counted
  <2> QED BY <1>2, <2>1, <2>2, <2>3, <2>4, <2>5 DEF TurnInd
<1>5. CASE tcReason = "interrupt" \/ Tier = "none"
  <2>1. CASE tnCalls = <<>>
    BY <1>4, <2>1 DEF PostModelResponse
  <2>2. CASE tnCalls # <<>>
    <3>1. PICK decision : decision = Evaluate(FALSE, tcReason # "interrupt", "allow_terminal")
      OBVIOUS
    <3>2. EndTurn(TerminalReason(decision)) /\ tnRecovery' = AfterDecision(decision)
      BY <1>5, <2>2, <3>1 DEF PostModelResponse
    <3>3. PICK unavailable \in BOOLEAN : unavailable = (tcReason # "interrupt")
      OBVIOUS
    <3>4. Decided(decision, FALSE, unavailable)
      BY <3>1, <3>3, EvaluateDecides DEF TurnInd
    <3>5. unavailable \/ tcReason = "interrupt"
      BY <3>3
    <3>6. tnForceCompaction' \in BOOLEAN
      BY <1>1 DEF TurnInd, Types, TurnTypeOK
    <3> QED BY <1>1, <1>2, <1>3, <3>2, <3>4, <3>5, <3>6, HaltKeeps
  <2> QED BY <2>1, <2>2
<1>6. CASE ~ (tcReason = "interrupt" \/ Tier = "none")
  BY <1>4, <1>6 DEF PostModelResponse
<1> QED BY <1>5, <1>6

LEMMA StopKeeps ==
  ASSUME TurnInd, StopPhase
  PROVE  TurnInd'
<1>1. /\ tnPhase = "stop"
      /\ UNCHANGED <<tcVars, tnClient, tnIteration, tnInterrupted>>
      /\ UNCHANGED <<tnCalls, tnPendingUse, tnFailure, tnStop, tnAbort>>
  BY DEF StopPhase, attemptVars
<1>2. ToolInd' /\ tcReason' = tcReason /\ tcStage' = tcStage
  BY <1>1, SameTools DEF TurnInd
<1>3. PICK disposition \in {"allow_terminal", "continue_same_turn", "block_session"},
           hook \in {"unmatched", "matched", "blocked"} :
          LET candidate == Evaluate(FALSE, FALSE, disposition)
              decision == ApplyRecoveryHook(candidate, hook)
              asked == tnFailure = "none" \/ candidate.action = "halt"
          IN  /\ tnRecovery' = AfterDecision(decision)
              /\ tnForceCompaction' = (decision.action = "compact_and_retry")
              /\ IF decision.action = "halt"
                 THEN EndTurn(TerminalReason(decision)) /\ UNCHANGED <<tnHookContinues,
                                                                       tnTranscript>>
                 ELSE /\ tnPhase' = "prepare"
                      /\ asked => tnHookContinues < MaxHookContinues
                      /\ tnHookContinues' = IF asked THEN tnHookContinues + 1
                                            ELSE tnHookContinues
                      /\ tnTranscript' = IF candidate.action = "retry_with_override"
                                         THEN Append(tnTranscript, UserText)
                                         ELSE tnTranscript
                      /\ UNCHANGED tnTerminal
  BY DEF StopPhase
<1>4. PICK candidate, decision : /\ candidate = Evaluate(FALSE, FALSE, disposition)
                                 /\ decision = ApplyRecoveryHook(candidate, hook)
  OBVIOUS
<1>5. Decided(candidate, FALSE, FALSE)
  BY <1>4, EvaluateDecides DEF TurnInd
<1>6. PICK asked \in BOOLEAN : asked <=> (tnFailure = "none" \/ candidate.action = "halt")
  OBVIOUS
<1>7. /\ tnRecovery' = AfterDecision(decision)
      /\ tnForceCompaction' = (decision.action = "compact_and_retry")
      /\ IF decision.action = "halt"
         THEN EndTurn(TerminalReason(decision)) /\ UNCHANGED <<tnHookContinues, tnTranscript>>
         ELSE /\ tnPhase' = "prepare"
              /\ tnHookContinues' = IF asked THEN tnHookContinues + 1 ELSE tnHookContinues
              /\ tnTranscript' = IF candidate.action = "retry_with_override"
                                 THEN Append(tnTranscript, UserText)
                                 ELSE tnTranscript
              /\ UNCHANGED tnTerminal
  BY <1>3, <1>4, <1>6
<1>8. \/ decision = candidate
      \/ decision = Halt("blocked")
      \/ candidate.action = "halt" /\ decision = Continue("rebuild_request")
  BY <1>4 DEF ApplyRecoveryHook
<1>9. decision \in Decisions
  BY <1>5, <1>8 DEF Decided, Decisions, Halt, Continue, TerminalReasons
<1>10. tnForceCompaction' \in BOOLEAN
  BY <1>7
<1>11. CASE decision.action = "halt"
  <2>1. Decided(decision, FALSE, FALSE)
    BY <1>5, <1>8, <1>9, <1>11 DEF Decided, Halt, Continue
  <2>2. /\ EndTurn(TerminalReason(decision)) /\ tnRecovery' = AfterDecision(decision)
        /\ UNCHANGED <<tnHookContinues, tnTranscript>>
    BY <1>7, <1>11
  <2>3. tnTranscript' \in Seq(TurnMessage)
    BY <2>2 DEF TurnInd, Types
  <2> QED BY <1>1, <1>2, <1>10, <1>11, <2>1, <2>2, <2>3, HaltKeeps
<1>12. CASE decision.action # "halt"
  <2>1. /\ tnPhase' = "prepare" /\ UNCHANGED tnTerminal
        /\ tnHookContinues' = IF asked THEN tnHookContinues + 1 ELSE tnHookContinues
    BY <1>7, <1>12
  <2>2. tnTranscript' \in Seq(TurnMessage)
    <3>1. PICK text \in TurnMessage : text = UserText
      BY DEF UserText, Message, TurnMessage, ApiRoles
    <3>2. tnTranscript' = tnTranscript \/ tnTranscript' = Append(tnTranscript, text)
      BY <1>7, <1>12, <3>1
    <3> QED BY <3>1, <3>2 DEF TurnInd, Types
  <2>3. tnRecovery' \in Recoveries
    BY <1>7, <1>9, AfterDecisionSpends DEF TurnInd
  <2>4. Types'
    <3>1. tnHookContinues' \in Nat
      BY <2>1 DEF TurnInd, Types
    <3> QED BY <1>1, <1>2, <1>10, <2>1, <2>2, <2>3, <3>1
            DEF TurnInd, Types, TurnTypeOK, ToolInd, Phases
  <2>5. tnCalls' = <<>>
    BY <1>1 DEF TurnInd, Carried
  <2>6. Carried'
    BY <1>1, <1>2, <2>1, <2>5 DEF TurnInd, Carried
  <2>7. StartedIsReplayed'
    BY <2>5 DEF StartedIsReplayed
  <2>8. FailureIsReported'
    BY <1>1, <2>1 DEF FailureIsReported, TurnInd, Carried
  <2>9. InterruptEndsTurn'
    <3>1. CASE asked
      BY <2>1, <3>1 DEF InterruptEndsTurn, TurnInd, Types
    <3>2. CASE ~ asked
      <4>1. ~ AttemptInterrupted
        BY <1>5, <1>6, <3>2 DEF Decided
      <4> QED BY <1>1, <4>1 DEF InterruptEndsTurn, AttemptInterrupted
    <3> QED BY <3>1, <3>2
  <2>10. Paid'
    <3>1. PICK s, t \in Nat : s = Spent(tnRecovery) /\ t = Spent(tnRecovery')
      BY <2>3, SpentBounded DEF TurnInd, Types
    <3>2. t >= s
      BY <1>7, <1>9, <3>1, AfterDecisionSpends DEF TurnInd
    <3>3. ~ asked => t >= s + 1
      <4>1. SUFFICES ASSUME ~ asked PROVE t >= s + 1
        OBVIOUS
      <4>2. candidate.action # "halt" /\ tnFailure # "none"
        BY <1>6, <4>1, Zenon
      <4>3. decision = candidate
        BY <1>8, <1>12, <4>2 DEF Halt
      <4>4. Budgeted(decision)
        BY <1>5, <4>2, <4>3 DEF Decided
      <4> QED BY <1>7, <1>9, <3>1, <4>2, <4>4, AfterDecisionSpends DEF TurnInd
    <3>4. tnIteration <= MaxTurns + s + tnHookContinues
      BY <1>1, <3>1 DEF TurnInd, Types, TurnTypeOK, Paid, Attempts
    <3>5. Spent(tnRecovery)' = t
      BY <3>1 DEF Spent, Counted
    <3>6. tnIteration \in Nat /\ tnHookContinues \in Nat /\ MaxTurns \in Nat
      BY TurnAssumption DEF TurnInd, Types, TurnTypeOK
    <3> QED BY <1>1, <2>1, <3>1, <3>2, <3>3, <3>4, <3>5, <3>6 DEF Paid, Attempts
  <2> QED BY <1>2, <2>4, <2>6, <2>7, <2>8, <2>9, <2>10 DEF TurnInd
<1> QED BY <1>11, <1>12

LEMMA FinalizeObserveKeeps ==
  ASSUME TurnInd, FinalizeObserve
  PROVE  TurnInd'
<1>1. tnPhase = "tools" /\ UNCHANGED turnVars
  BY DEF FinalizeObserve
<1>2. PICK i \in DOMAIN tnCalls : MarkObserved(tnCalls[i]) /\ ObserveToolCall(tnCalls[i])
  BY DEF FinalizeObserve
<1>3. tnCalls[i] \in Call
  BY <1>2 DEF TurnInd, Types, TurnTypeOK
<1>4. ToolInd' /\ Unnoted
  BY <1>2, <1>3, ObserveKeeps DEF TurnInd
<1> QED BY <1>1, <1>4, CallsKeep

LEMMA RunTasksKeeps ==
  ASSUME TurnInd, RunTasks
  PROVE  TurnInd'
<1>1. ToolInd' /\ Unnoted /\ ~ AllCallsEnded /\ UNCHANGED turnVars
  BY TaskStepKeeps DEF TurnInd, RunTasks
<1>2. tnPhase = "prepare" => tnCalls = <<>>
  BY <1>1 DEF TurnInd, Carried
<1> QED BY <1>1, <1>2, CallsKeep

LEMMA ResolutionFailsTurnKeeps ==
  ASSUME TurnInd, ResolutionFailsTurn
  PROVE  TurnInd'
<1>1. /\ tcResolving' = {} /\ EndTurn("error")
      /\ UNCHANGED <<tcObserved, tcTask, tcDeps, tcCancel, tcOutcome, tcStage, tcReason>>
      /\ UNCHANGED <<tnClient, tnIteration, tnTranscript, tnForceCompaction, tnRecovery,
                     tnHookContinues, tnInterrupted>>
      /\ UNCHANGED <<tnCalls, tnPendingUse, tnFailure, tnStop, tnAbort>>
  BY DEF ResolutionFailsTurn, attemptVars
<1>2. tcReason \in Reasons /\ tcCancel \in SUBSET Call
  BY DEF TurnInd, Types, TurnTypeOK, ToolsTypeOK
<1>3. ToolInd'
  BY <1>1, <1>2, StoppedKeeps DEF TurnInd
<1>4. /\ tnTranscript' \in Seq(TurnMessage) /\ tnRecovery' \in Recoveries
      /\ tnForceCompaction' \in BOOLEAN
  BY <1>1 DEF TurnInd, Types, TurnTypeOK
<1>5. Spent(tnRecovery') >= Spent(tnRecovery)
  BY <1>1, SpentBounded DEF TurnInd, Types
<1>6. "error" \in TerminalReasons
  BY DEF TerminalReasons
<1> QED BY <1>1, <1>3, <1>4, <1>5, <1>6, EndKeeps

LEMMA LoopRaisesKeeps ==
  ASSUME TurnInd, LoopRaises
  PROVE  TurnInd'
<1>1. /\ EndTurn("error")
      /\ UNCHANGED <<tcVars, tnClient, tnIteration, tnTranscript, tnForceCompaction, tnRecovery,
                     tnHookContinues, tnInterrupted>>
      /\ UNCHANGED <<tnCalls, tnPendingUse, tnFailure, tnStop, tnAbort>>
  BY DEF LoopRaises, attemptVars
<1>2. ToolInd' /\ tcReason' = tcReason
  BY <1>1, SameTools DEF TurnInd
<1>3. /\ tnTranscript' \in Seq(TurnMessage) /\ tnRecovery' \in Recoveries
      /\ tnForceCompaction' \in BOOLEAN
  BY <1>1 DEF TurnInd, Types, TurnTypeOK
<1>4. Spent(tnRecovery') >= Spent(tnRecovery)
  BY <1>1, SpentBounded DEF TurnInd, Types
<1>5. "error" \in TerminalReasons
  BY DEF TerminalReasons
<1> QED BY <1>1, <1>2, <1>3, <1>4, <1>5, EndKeeps

LEMMA InterruptKeeps ==
  ASSUME TurnInd, Interrupt
  PROVE  TurnInd'
<1>1. /\ tnPhase # "terminal" /\ tnInterrupted' \in {"stream", "other"}
      /\ UNCHANGED <<tnPhase, tnClient, tnIteration, tnTranscript, tnForceCompaction,
                     tnRecovery, tnTerminal, tnHookContinues>>
      /\ UNCHANGED <<tnCalls, tnPendingUse, tnFailure, tnStop, tnAbort>>
  BY DEF Interrupt, attemptVars
<1>2. ToolInd' /\ UNCHANGED <<tcResolving, tcTask, tcStage>>
  <2>1. CASE tnPhase = "prepare"
    BY <2>1, SameTools DEF Interrupt, TurnInd, tcVars
  <2>2. CASE tnPhase # "prepare"
    <3>1. /\ tcReason' = "interrupt"
          /\ tcCancel' = tcCancel \cup CancelledWith(Live)
          /\ UNCHANGED <<tcObserved, tcResolving, tcTask, tcDeps, tcOutcome, tcStage>>
      BY <2>2 DEF Interrupt, InterruptTools
    <3>2. tcCancel' \in SUBSET Call
      BY <3>1, CancelledIsLive DEF TurnInd, ToolInd, ToolsTypeOK
    <3>3. tcReason' \in Reasons
      BY <3>1 DEF Reasons
    <3> QED BY <3>1, <3>2, <3>3, StoppedKeeps DEF TurnInd
  <2> QED BY <2>1, <2>2
<1>3. Types'
  BY <1>1, <1>2 DEF TurnInd, Types, TurnTypeOK, ToolInd
<1>4. Carried'
  BY <1>1, <1>2 DEF TurnInd, Carried, AllCallsEnded, Live
<1>5. StartedIsReplayed'
  BY <1>1, <1>2 DEF TurnInd, StartedIsReplayed, Id, AllResults
<1>6. InterruptEndsTurn'
  BY <1>1 DEF TurnInd, InterruptEndsTurn
<1>7. FailureIsReported'
  BY <1>1 DEF FailureIsReported, TurnInd, Carried
<1>8. Paid'
  BY <1>1 DEF TurnInd, Paid, Attempts, Spent, Counted
<1> QED BY <1>2, <1>3, <1>4, <1>5, <1>6, <1>7, <1>8 DEF TurnInd

LEMMA FinalizeToolsKeeps ==
  ASSUME TurnInd, FinalizeTools
  PROVE  TurnInd'
<1>1. /\ tnPhase = "tools" /\ ReplayOutcomes
      /\ UNCHANGED <<tnClient, tnIteration, tnHookContinues, tnInterrupted>>
      /\ UNCHANGED <<tnCalls, tnPendingUse, tnFailure, tnStop, tnAbort>>
  BY DEF FinalizeTools, attemptVars
<1>2. ToolInd' /\ AllCallsEnded'
  BY <1>1, ReplayKeeps DEF TurnInd, Carried
<1>3. tcReason' = tcReason /\ tcObserved' = tcObserved /\ tcOutcome' = tcOutcome
  BY <1>1 DEF ReplayOutcomes
<1>4. PICK exhausted \in BOOLEAN : exhausted <=> tnIteration >= MaxTurns
  OBVIOUS
<1>5. PICK decision : decision = Evaluate(tnIteration >= MaxTurns, FALSE, "allow_terminal")
  OBVIOUS
<1>6. PICK nudge : nudge = IF decision.action = "retry_with_override" THEN <<UserText>> ELSE <<>>
  OBVIOUS
<1>7. PICK results : results = IF Answered = {} THEN <<>>
                               ELSE <<Message("user", {}, {Id(c) : c \in Answered}, FALSE)>>
  OBVIOUS
<1>8. /\ tnTranscript' = tnTranscript \o results \o nudge
      /\ tnRecovery' = AfterDecision(decision)
      /\ tnForceCompaction' = (decision.action = "compact_and_retry")
      /\ IF decision.action = "halt"
         THEN EndTurn(TerminalReason(decision))
         ELSE tnPhase' = "prepare" /\ UNCHANGED tnTerminal
  BY <1>5, <1>6, <1>7, Zenon DEF FinalizeTools
<1>9. Decided(decision, exhausted, FALSE)
  <2>1. (tnIteration >= MaxTurns) \in BOOLEAN
    OBVIOUS
  <2>2. Decided(decision, tnIteration >= MaxTurns, FALSE)
    BY <1>5, <2>1, EvaluateDecides DEF TurnInd
  <2> QED BY <1>4, <2>2 DEF Decided
<1>10. PICK text \in TurnMessage : text = UserText
  BY DEF UserText, Message, TurnMessage, ApiRoles
<1>11. nudge \in Seq(TurnMessage)
  <2>1. nudge = <<>> \/ nudge = <<text>>
    BY <1>6, <1>10, Zenon
  <2>2. <<>> \in Seq(TurnMessage) /\ <<text>> \in Seq(TurnMessage)
    OBVIOUS
  <2> QED BY <2>1, <2>2, Zenon
<1>12. PICK answers \in TurnMessage :
          /\ answers = Message("user", {}, {Id(c) : c \in Answered}, FALSE)
          /\ \A c \in Answered : Id(c) \in answers.results
  <2>1. {Id(c) : c \in Answered} \in SUBSET (Nat \X Call)
    BY DEF Answered, Elems, Id, TurnInd, Types, TurnTypeOK, ToolsTypeOK
  <2>2. PICK ids \in SUBSET (Nat \X Call) : ids = {Id(c) : c \in Answered}
    BY <2>1
  <2>3. PICK answers : answers = Message("user", {}, ids, FALSE)
    OBVIOUS
  <2>4. answers \in TurnMessage /\ answers.results = ids
    BY <2>3 DEF Message, TurnMessage, ApiRoles
  <2>5. \A c \in Answered : Id(c) \in ids
    BY <2>2
  <2> QED BY <2>2, <2>3, <2>4, <2>5
<1>13. results \in Seq(TurnMessage)
  <2>1. results = <<>> \/ results = <<answers>>
    BY <1>7, <1>12, Zenon
  <2>2. <<>> \in Seq(TurnMessage) /\ <<answers>> \in Seq(TurnMessage)
    OBVIOUS
  <2> QED BY <2>1, <2>2, Zenon
<1>14. tnTranscript \in Seq(TurnMessage)
  BY DEF TurnInd, Types
<1>15. tnTranscript' \in Seq(TurnMessage)
  BY <1>8, <1>11, <1>13, <1>14
<1>16. tnForceCompaction' \in BOOLEAN
  BY <1>8
<1>17. decision \in Decisions
  BY <1>9 DEF Decided
<1>18. CASE decision.action = "halt"
  BY <1>1, <1>2, <1>3, <1>8, <1>9, <1>15, <1>16, <1>18, HaltKeeps
<1>19. CASE decision.action # "halt"
  <2>1. tnPhase' = "prepare" /\ UNCHANGED tnTerminal /\ tnRecovery' = AfterDecision(decision)
    BY <1>8, <1>19
  <2>2. ~ exhausted /\ ~ AttemptInterrupted /\ (tnFailure # "none" => Budgeted(decision))
    BY <1>9, <1>19 DEF Decided
  <2>3. tnRecovery' \in Recoveries
    BY <2>1, <1>17, AfterDecisionSpends DEF TurnInd
  <2>4. Types'
    BY <1>1, <1>2, <1>15, <1>16, <2>1, <2>3 DEF TurnInd, Types, TurnTypeOK, ToolInd, Phases
  <2>5. Carried'
    BY <1>1, <1>2, <1>3, <2>1 DEF TurnInd, Carried
  <2>6. StartedIsReplayed'
    <3>1. SUFFICES ASSUME NEW c \in Call,
                          tcStage'[c] \in {"running", "terminal_pending_replay", "replayed"}
                   PROVE  Id(c)' \in AllResults(tnTranscript)'
      BY DEF StartedIsReplayed
    <3>2. tcOutcome'[c] # "none" /\ c \in Elems(tcObserved)'
      <4>1. tcTask'[c] # "running"
        BY <1>2 DEF AllCallsEnded, Live
      <4> QED BY <1>2, <3>1, <4>1 DEF ToolInd, At
    <3>3. c \in Answered
      BY <1>3, <3>2 DEF Answered, Elems
    <3>4. results = <<answers>>
      BY <1>7, <1>12, <3>3, Zenon
    <3>5. Id(c) \in AllResults(tnTranscript \o <<answers>> \o nudge)
      BY <1>11, <1>12, <1>14, <3>3, ResultsAreHeld
    <3>6. Id(c)' = Id(c)
      BY <1>1 DEF Id
    <3>7. AllResults(tnTranscript)' = AllResults(tnTranscript \o <<answers>> \o nudge)
      BY <1>8, <3>4 DEF AllResults
    <3> QED BY <3>5, <3>6, <3>7
  <2>7. FailureIsReported'
    BY <1>1, <2>1 DEF FailureIsReported, TurnInd, Carried
  <2>8. InterruptEndsTurn'
    BY <1>1, <2>2 DEF InterruptEndsTurn, AttemptInterrupted
  <2>9. Paid'
    <3>1. PICK s, t \in Nat : s = Spent(tnRecovery) /\ t = Spent(tnRecovery')
      BY <2>3, SpentBounded DEF TurnInd, Types
    <3>2. tnFailure # "none" => t >= s + 1
      BY <1>17, <2>1, <2>2, <3>1, AfterDecisionSpends DEF TurnInd
    <3>3. tnIteration <= MaxTurns + s + tnHookContinues
      BY <1>1, <3>1 DEF TurnInd, Types, TurnTypeOK, Paid, Attempts
    <3>4. Spent(tnRecovery)' = t
      BY <3>1 DEF Spent, Counted
    <3>5. tnIteration \in Nat /\ tnHookContinues \in Nat /\ MaxTurns \in Nat
      BY TurnAssumption DEF TurnInd, Types, TurnTypeOK
    <3>6. tnIteration < MaxTurns
      BY <1>4, <2>2, <3>5
    <3> QED BY <1>1, <2>1, <3>4, <3>5, <3>6 DEF Paid, Attempts
  <2> QED BY <1>2, <2>4, <2>5, <2>6, <2>7, <2>8, <2>9 DEF TurnInd
<1> QED BY <1>18, <1>19

----
(* The theorems *)

LEMMA TurnInitInd ==
  ASSUME TurnInit
  PROVE  TurnInd
<1>1. ToolInd
  <2>1. ToolsTypeOK
    BY DEF TurnInit, ToolsFresh, ToolsTypeOK, TaskStates, Outcomes, Stages, Reasons
  <2>2. \A c \in Call : At(c)
    BY DEF TurnInit, ToolsFresh, At, Elems, Stages
  <2>3. Waits
    BY DEF TurnInit, ToolsFresh, Waits, Live
  <2> QED BY <2>1, <2>2, <2>3 DEF ToolInd
<1>2. tnTranscript \in Seq(TurnMessage)
  <2>1. PICK first : first = Message("assistant", {<<0, c>> : c \in Call}, {}, FALSE)
    OBVIOUS
  <2>2. first \in TurnMessage /\ UserText \in TurnMessage
    BY <2>1 DEF UserText, Message, TurnMessage, ApiRoles
  <2>3. tnTranscript = <<first, UserText>>
    BY <2>1 DEF TurnInit
  <2> QED BY <2>2, <2>3
<1>3. /\ tnPhase = "prepare" /\ tnClient \in Clients /\ tnIteration = 0 /\ tnCalls = <<>>
      /\ tnPendingUse = FALSE /\ tnFailure = "none" /\ tnStop = "end_turn" /\ tnAbort = "none"
      /\ tnForceCompaction = FALSE /\ tnTerminal = "none" /\ tnHookContinues = 0
      /\ tnInterrupted = "none"
      /\ tnRecovery = [retries |-> [f \in Failure |-> 0], compactions |-> [f \in Failure |-> 0]]
  BY DEF TurnInit
<1>4. tnRecovery \in Recoveries
  BY <1>3 DEF Recoveries
<1>5. Types
  <2>1. <<>> \in Seq(Call)
    OBVIOUS
  <2>2. ToolsTypeOK
    BY <1>1 DEF ToolInd
  <2>3. tnPhase \in Phases /\ tnAbort \in Reasons
    BY <1>3 DEF Phases, Reasons
  <2> QED BY <1>2, <1>3, <1>4, <2>1, <2>2, <2>3 DEF Types, TurnTypeOK
<1>6. Carried
  BY <1>3 DEF Carried, TurnInit, ToolsFresh
<1>7. StartedIsReplayed /\ FailureIsReported /\ InterruptEndsTurn
  BY <1>3 DEF StartedIsReplayed, FailureIsReported, InterruptEndsTurn
<1>8. Paid
  <2>1. Spent(tnRecovery) \in Nat
    BY <1>4, SpentBounded
  <2> QED BY <1>3, <2>1, TurnAssumption DEF Paid, Attempts
<1> QED BY <1>1, <1>5, <1>6, <1>7, <1>8 DEF TurnInd

LEMMA TurnNextInd ==
  ASSUME TurnInd, [TurnNext]_tnVars
  PROVE  TurnInd'
<1>1. CASE UNCHANGED tnVars
  <2>1. UNCHANGED tcVars /\ UNCHANGED turnVars
    BY <1>1 DEF tnVars
  <2>2. ToolInd' /\ tcReason' = tcReason /\ UNCHANGED <<tcResolving, tcTask, tcStage>>
    BY <2>1, SameTools DEF TurnInd, tcVars
  <2>3. Types'
    BY <2>1, <2>2 DEF TurnInd, Types, TurnTypeOK, ToolInd, turnVars
  <2>4. Carried'
    BY <2>1, <2>2 DEF TurnInd, Carried, AllCallsEnded, Live, turnVars
  <2>5. StartedIsReplayed' /\ InterruptEndsTurn' /\ FailureIsReported'
    BY <2>1, <2>2 DEF TurnInd, StartedIsReplayed, Id, AllResults, InterruptEndsTurn,
                      FailureIsReported, AttemptInterrupted, turnVars
  <2>6. Paid'
    BY <2>1 DEF TurnInd, Paid, Attempts, Spent, Counted, turnVars
  <2> QED BY <2>2, <2>3, <2>4, <2>5, <2>6 DEF TurnInd
<1>2. CASE TurnStep
  BY <1>2, PrepareKeeps, EndStreamKeeps, EndCompletionKeeps, PostModelKeeps, StopKeeps,
     FinalizeObserveKeeps, FinalizeToolsKeeps DEF TurnStep
<1>3. CASE \E c \in Call : StreamToolCall(c)
  BY <1>3, StreamKeeps
<1>4. CASE ResolutionFailsStream \/ ResolutionFailsTurn \/ LoopRaises \/ Interrupt \/ RunTasks
  BY <1>4, ResolutionFailsStreamKeeps, ResolutionFailsTurnKeeps, LoopRaisesKeeps,
     InterruptKeeps, RunTasksKeeps
<1> QED BY <1>1, <1>2, <1>3, <1>4 DEF TurnNext

(* The inductive invariant of a turn: where each call, its task and its    *)
(* outcome are, which live call waits for which, what the loop carries     *)
(* from one attempt to the next and what each attempt was paid with        *)
(* (_run_turn_stream_impl, tool_orchestration.py).                         *)
THEOREM TurnInductive == TurnSpec => []TurnInd
<1>1. TurnInit => TurnInd
  BY TurnInitInd
<1>2. TurnInd /\ [TurnNext]_tnVars => TurnInd'
  BY TurnNextInd
<1> QED BY <1>1, <1>2, PTL DEF TurnSpec

(* However the calls of a message overlap, fail, cascade and are           *)
(* cancelled, and whenever interrupt() comes, exclusive calls run alone,   *)
(* no lifecycle transition is illegal, what was started is answered, and   *)
(* the next request holds every answer (_derive_lane,                      *)
(* _dependencies_for_lane, _run_scheduled_call, finalize).                 *)
THEOREM ToolCallsSafety == TurnSpec => []ToolCallsSafe
<1>1. TurnInd => ToolCallsSafe
  <2>1. SUFFICES ASSUME TurnInd PROVE ToolCallsSafe
    OBVIOUS
  <2>2. LanesExclusive /\ LifecycleLegal /\ StartedIsAnswered
    BY <2>1, ToolIndGivesSafe DEF TurnInd
  <2> QED BY <2>1, <2>2 DEF TurnInd, Types, ToolCallsSafe
<1> QED BY <1>1, TurnInductive, PTL

(* However attempts fail, retry, compact, are continued by hooks and are   *)
(* interrupted, every attempt is paid for by a turn, a budget or a hook, a *)
(* turn that failed is not reported as end_turn, and an interrupt that was *)
(* noted is followed by no request that no hook asked for                  *)
(* (DefaultRecoveryPolicy.evaluate, _run_turn_stream_impl).                *)
THEOREM TurnOutcomeSafety == TurnSpec => []TurnOutcomeSafe
<1>1. TurnInd => TurnOutcomeSafe
  <2>1. SUFFICES ASSUME TurnInd PROVE TurnOutcomeSafe
    OBVIOUS
  <2>2. AttemptsBounded
    <3>1. PICK s \in Nat : s = Spent(tnRecovery) /\ s <= 2 * RetryBudget + CompactionBudget
      BY <2>1, SpentBounded DEF TurnInd, Types
    <3>2. /\ tnIteration \in Nat /\ tnHookContinues \in Nat /\ MaxTurns \in Nat
          /\ RetryBudget \in Nat /\ CompactionBudget \in Nat
      BY <2>1, TurnAssumption DEF TurnInd, Types, TurnTypeOK
    <3>3. tnIteration <= MaxTurns + s + tnHookContinues
      BY <2>1, <3>1, <3>2 DEF TurnInd, Paid, Attempts
    <3> QED BY <3>1, <3>2, <3>3 DEF AttemptsBounded
  <2> QED BY <2>1, <2>2 DEF TurnInd, TurnOutcomeSafe
<1> QED BY <1>1, TurnInductive, PTL

----
(* The hook bus *)

HkEffects == [name : Nat, input : BOOLEAN, go : BOOLEAN, stop : {"none", "continue", "halt"}]

HkRuns == [session : HkSessions \cup {None}, phase : {"PreToolUse", "Stop"},
           todo : Seq(Nat), used : Seq(HkEffects)]

HkRecordSet ==
  [request : HkRequests, session : HkSessions \cup {None}, turn : Nat, activeFrom : Nat,
   state : {"pending", "active", "released", "expired", "rejected"}, parent : Nat]

\* The records a running dispatch has called or will call.
Names(run) == {run.todo[i] : i \in DOMAIN run.todo} \cup {run.used[i].name : i \in DOMAIN run.used}
Holders(r) == {d \in HkDispatchers : r \in Names(hkDispatch[d])}

HkTyped ==
  /\ hkRecords \in Seq(HkRecordSet)
  /\ \A r \in 1 .. Len(hkRecords) : hkRecords[r].parent \in 0 .. Len(hkRecords)
  /\ hkFired \in Seq(Nat) /\ Len(hkFired) = Len(hkRecords)
  /\ hkTurn \in [HkSessions -> Nat]
  /\ hkDispatch \in [HkDispatchers -> HkRuns]
  /\ \A d \in HkDispatchers : Names(hkDispatch[d]) \subseteq 1 .. Len(hkRecords)

\* What a dispatch called and will call is ordered by the sources.
Ranked(run) ==
  /\ \A i, j \in DOMAIN run.used : i <= j => SourceOf(run.used[i].name) <= SourceOf(run.used[j].name)
  /\ \A i \in DOMAIN run.used, j \in DOMAIN run.todo : SourceOf(run.used[i].name) <= SourceOf(run.todo[j])
  /\ \A i, j \in DOMAIN run.todo : i <= j => SourceOf(run.todo[i]) <= SourceOf(run.todo[j])

\* Only pending and released records have copies, one for a session.
CopyOf(a, t) ==
  /\ hkRecords[t].state \in {"pending", "released"}
  /\ hkRecords[t].state = "released" => hkRecords[a].state # "active"
  /\ \A b \in 1 .. Len(hkRecords) :
        hkRecords[b].parent = t /\ hkRecords[b].session = hkRecords[a].session => a = b

HkCopied ==
  \A a \in 1 .. Len(hkRecords) :
    hkRecords[a].parent # None => CopyOf(a, hkRecords[a].parent)

\* The uses of a one-shot record and the dispatches that may still use it.
HkOnce ==
  \A r \in 1 .. Len(hkRecords) :
    hkRecords[r].request.once =>
      /\ hkRecords[r].state = "active" => hkFired[r] = 0
      /\ hkFired[r] + Cardinality(Holders(r)) <= Cardinality(HkDispatchers)

HkInd ==
  /\ HkTyped
  /\ \A d \in HkDispatchers : Ranked(hkDispatch[d])
  /\ HkCopied
  /\ HkOnce

----
\* The last record in the order of ranks and names.
LEMMA LastInOrder ==
  ASSUME NEW n \in Nat, NEW T \in SUBSET (1 .. n), T # {}, NEW rank, \A x \in T : rank[x] \in 0 .. 4
  PROVE  \E m \in T : \A x \in T : x # m => Precedes(rank, x, m)
<1> DEFINE Gaps == {g \in Nat : \E x \in T : g = 4 - rank[x]}
<1>1. Gaps # {}
  <2>1. PICK x \in T : TRUE
    OBVIOUS
  <2>2. 4 - rank[x] \in Gaps
    BY <2>1
  <2> QED BY <2>2
<1>2. PICK g \in Gaps : \A h \in Gaps : g <= h
  BY <1>1, LeastNatural
<1>3. PICK y \in T : g = 4 - rank[y]
  BY <1>2
<1>4. \A x \in T : rank[x] <= rank[y]
  <2> TAKE x \in T
  <2>1. 4 - rank[x] \in Gaps
    OBVIOUS
  <2> QED BY <1>2, <1>3, <2>1
<1> DEFINE Backs == {b \in Nat : \E x \in T : rank[x] = rank[y] /\ b = n - x}
<1>5. n - y \in Backs
  OBVIOUS
<1>6. PICK b \in Backs : \A c \in Backs : b <= c
  BY <1>5, LeastNatural
<1>7. PICK m \in T : rank[m] = rank[y] /\ b = n - m
  BY <1>6
<1>8. \A x \in T : rank[x] = rank[y] => x <= m
  <2> TAKE x \in T
  <2> HAVE rank[x] = rank[y]
  <2>1. n - x \in Backs
    OBVIOUS
  <2> QED BY <1>6, <1>7, <2>1
<1> QED BY <1>4, <1>7, <1>8 DEF Precedes

\* The records can be put in that order.
LEMMA OrderExists ==
  ASSUME NEW n \in Nat, NEW S \in SUBSET (1 .. n), NEW rank, \A x \in S : rank[x] \in 0 .. 4
  PROVE  \E s \in SetToSeqs(S) : \A i, j \in DOMAIN s : i < j => Precedes(rank, s[i], s[j])
<1> DEFINE Ordered(T) == \E s \in SetToSeqs(T) : \A i, j \in DOMAIN s : i < j => Precedes(rank, s[i], s[j])
           Bad == {k \in Nat : \E T \in SUBSET S : Cardinality(T) = k /\ ~Ordered(T)}
<1>1. \A T \in SUBSET S : IsFiniteSet(T) /\ Cardinality(T) \in Nat
  <2>1. IsFiniteSet(1 .. n)
    BY FS_Interval
  <2> QED BY <2>1, FS_Subset, FS_CardinalityType
<1>2. ASSUME ~Ordered(S) PROVE FALSE
  <2>1. Cardinality(S) \in Bad
    BY <1>1, <1>2
  <2> HIDE DEF Ordered
  <2>2. PICK k \in Bad : \A j \in Bad : k <= j
    BY <2>1, LeastNatural
  <2>3. PICK T \in SUBSET S : Cardinality(T) = k /\ ~Ordered(T)
    BY <2>2
  <2>4. CASE T = {}
    <3>1. Cardinality(T) = 0
      BY <2>4, FS_EmptySet
    <3>2. <<>> \in SetToSeqs(T)
      BY <2>4, <3>1 DEF SetToSeqs
    <3> QED BY <2>3, <3>2 DEF Ordered
  <2>5. CASE T # {}
    <3>1. PICK m \in T : \A x \in T : x # m => Precedes(rank, x, m)
      BY <2>5, LastInOrder
    <3> DEFINE U == T \ {m}
    <3>2. Cardinality(U) = k - 1 /\ k - 1 \in Nat
      <4>1. IsFiniteSet(T) /\ Cardinality(U) \in Nat
        BY <1>1, <2>3
      <4>2. Cardinality(U) = k - 1
        BY <2>3, <3>1, <4>1, FS_RemoveElement
      <4> QED BY <4>1, <4>2
    <3>3. k - 1 \notin Bad
      BY <2>2, <3>2
    <3>4. Ordered(U)
      BY <3>2, <3>3
    <3>5. PICK s \in SetToSeqs(U) : \A i, j \in DOMAIN s : i < j => Precedes(rank, s[i], s[j])
      BY <3>4 DEF Ordered
    <3>6. /\ s \in [1 .. k - 1 -> U]
          /\ \A i, j \in 1 .. k - 1 : i # j => s[i] # s[j]
      BY <3>2, <3>5 DEF SetToSeqs
    <3>7. PICK t : t = [i \in 1 .. k |-> IF i = k THEN m ELSE s[i]]
      OBVIOUS
    <3>8. \A i \in 1 .. k : i # k => i \in 1 .. k - 1 /\ t[i] = s[i] /\ t[i] \in T /\ t[i] # m
      BY <3>2, <3>6, <3>7
    <3>9. t \in [1 .. k -> T] /\ \A i, j \in 1 .. k : i # j => t[i] # t[j]
      <4>1. k \in 1 .. k /\ t[k] = m
        BY <3>2, <3>7
      <4>2. \A i \in 1 .. k : t[i] \in T
        BY <3>8, <4>1
      <4>3. t \in [1 .. k -> T]
        BY <3>7, <4>2
      <4>4. ASSUME NEW i \in 1 .. k, NEW j \in 1 .. k, i # j PROVE t[i] # t[j]
        BY <3>6, <3>8, <4>1, <4>4
      <4> QED BY <4>3, <4>4
    <3>10. t \in SetToSeqs(T)
      BY <2>3, <3>9 DEF SetToSeqs
    <3>11. ASSUME NEW i \in 1 .. k, NEW j \in 1 .. k, i < j PROVE Precedes(rank, t[i], t[j])
      <4>1. i # k /\ i \in 1 .. k - 1
        BY <3>2, <3>11
      <4>2. CASE j = k
        BY <3>1, <3>7, <3>8, <4>1, <4>2
      <4>3. CASE j # k
        BY <3>5, <3>6, <3>8, <3>11, <4>1, <4>3
      <4> QED BY <4>2, <4>3
    <3> QED BY <2>3, <3>9, <3>10, <3>11 DEF Ordered
  <2> QED BY <2>4, <2>5
<1> QED BY <1>2

LEMMA InOrderFacts ==
  ASSUME NEW n \in Nat, NEW S \in SUBSET (1 .. n), NEW rank, \A x \in S : rank[x] \in 0 .. 4
  PROVE  \E k \in Nat :
           /\ InOrder(S, rank) \in [1 .. k -> S]
           /\ \A i, j \in 1 .. k : i # j => InOrder(S, rank)[i] # InOrder(S, rank)[j]
           /\ \A x \in S : \E i \in 1 .. k : InOrder(S, rank)[i] = x
           /\ \A i, j \in 1 .. k : i <= j => rank[InOrder(S, rank)[i]] <= rank[InOrder(S, rank)[j]]
<1>1. PICK s : s = InOrder(S, rank)
  OBVIOUS
<1>2. s \in SetToSeqs(S) /\ \A i, j \in DOMAIN s : i < j => Precedes(rank, s[i], s[j])
  BY <1>1, OrderExists DEF InOrder
<1>3. IsFiniteSet(S) /\ Cardinality(S) \in Nat
  <2>1. IsFiniteSet(1 .. n)
    BY FS_Interval
  <2> QED BY <2>1, FS_Subset, FS_CardinalityType
<1>4. PICK k \in Nat : k = Cardinality(S)
  BY <1>3
<1>5. s \in [1 .. k -> S] /\ \A i, j \in 1 .. k : i # j => s[i] # s[j]
  BY <1>2, <1>4 DEF SetToSeqs
<1>6. s \in Injection(1 .. k, S)
  BY <1>5 DEF Injection, IsInjective
<1>7. Cardinality(1 .. k) = Cardinality(S)
  BY <1>4, FS_Interval
<1>8. s \in Surjection(1 .. k, S)
  BY <1>3, <1>6, <1>7, FS_Injection
<1>9. \A x \in S : \E i \in 1 .. k : s[i] = x
  BY <1>8 DEF Surjection
<1>10. ASSUME NEW i \in 1 .. k, NEW j \in 1 .. k, i <= j PROVE rank[s[i]] <= rank[s[j]]
  <2>1. s[i] \in S /\ s[j] \in S /\ DOMAIN s = 1 .. k
    BY <1>5
  <2>2. rank[s[i]] \in 0 .. 4 /\ rank[s[j]] \in 0 .. 4
    BY <2>1
  <2>3. CASE i = j
    BY <2>2, <2>3
  <2>4. CASE i # j
    <3>1. i < j
      BY <1>10, <2>4
    <3>2. Precedes(rank, s[i], s[j])
      BY <1>2, <2>1, <3>1
    <3> QED BY <2>2, <3>2 DEF Precedes
  <2> QED BY <2>3, <2>4
<1> QED BY <1>1, <1>5, <1>9, <1>10

LEMMA SourceRanks ==
  ASSUME NEW r \in HkRecordSet
  PROVE  SourcePrecedence(r.request.source) \in 0 .. 4
<1>1. r.request.source \in {"config", "host", "definition", "session", "turn"}
  BY HkAssumption DEF HkRecordSet
<1> QED BY <1>1 DEF SourcePrecedence

\* A new record, made of a request.
LEMMA NewRecord ==
  ASSUME NEW request \in HkRequests, NEW session \in HkSessions \cup {None}, NEW turn \in Nat,
         NEW state \in {"pending", "active", "rejected"}, NEW parent \in Nat
  PROVE  /\ HkRecord(request, session, turn, state, parent) \in HkRecordSet
         /\ HkRecord(request, session, turn, state, parent).request = request
         /\ HkRecord(request, session, turn, state, parent).session = session
         /\ HkRecord(request, session, turn, state, parent).state = state
         /\ HkRecord(request, session, turn, state, parent).parent = parent
BY DEF HkRecord, HkRecordSet, None

\* q names the templates that a session is missing, k of them, and they are copied.
Copying(session, k, q) ==
  /\ \A i, j \in 1 .. k : i # j => q[i] # q[j]
  /\ \A i \in 1 .. k :
       /\ hkRecords[q[i]].state = "pending"
       /\ \A r \in 1 .. Len(hkRecords) : hkRecords[r].parent = q[i] => hkRecords[r].session # session
  /\ Materialized(session) \in Seq(HkRecordSet)
  /\ Len(Materialized(session)) = Len(hkRecords) + k
  /\ \A r \in 1 .. Len(hkRecords) : Materialized(session)[r] = hkRecords[r]
  /\ \A i \in 1 .. k : Materialized(session)[Len(hkRecords) + i]
       = HkRecord(hkRecords[q[i]].request, session, None, "active", q[i])

LEMMA MaterializedFacts ==
  ASSUME HkTyped, NEW session \in HkSessions
  PROVE  \E k \in Nat : \E q \in [1 .. k -> 1 .. Len(hkRecords)] : Copying(session, k, q)
<1>1. PICK n \in Nat : n = Len(hkRecords) /\ DOMAIN hkRecords = 1 .. n
  BY DEF HkTyped
<1>2. PICK S : S = MissingTemplates(session)
  OBVIOUS
<1>3. S \in SUBSET (1 .. n)
  BY <1>1, <1>2 DEF MissingTemplates
<1>4. PICK rank : rank = [t \in S |-> 0]
  OBVIOUS
<1>5. PICK q : q = InOrder(S, rank)
  OBVIOUS
<1>6. \A x \in S : rank[x] \in 0 .. 4
  BY <1>4
<1>a. \E k \in Nat :
           /\ InOrder(S, rank) \in [1 .. k -> S]
           /\ \A i, j \in 1 .. k : i # j => InOrder(S, rank)[i] # InOrder(S, rank)[j]
           /\ \A x \in S : \E i \in 1 .. k : InOrder(S, rank)[i] = x
           /\ \A i, j \in 1 .. k : i <= j => rank[InOrder(S, rank)[i]] <= rank[InOrder(S, rank)[j]]
  BY <1>3, <1>6, InOrderFacts
<1>7. PICK k \in Nat : q \in [1 .. k -> S] /\ \A i, j \in 1 .. k : i # j => q[i] # q[j]
  BY <1>5, <1>a
<1>8. PICK f : f = [i \in 1 .. k |-> HkRecord(hkRecords[q[i]].request, session, None, "active", q[i])]
  OBVIOUS
<1>9. Materialized(session) = hkRecords \o f
  BY <1>2, <1>4, <1>5, <1>7, <1>8 DEF Materialized
<1>10. \A i \in 1 .. k : q[i] \in S /\ q[i] \in 1 .. n
  BY <1>3, <1>7
<1>11. \A i \in 1 .. k : /\ hkRecords[q[i]].state = "pending"
                         /\ \A r \in 1 .. n : hkRecords[r].parent = q[i] => hkRecords[r].session # session
  BY <1>1, <1>2, <1>10 DEF MissingTemplates
<1>12. \A i \in 1 .. k : f[i] \in HkRecordSet
  <2> TAKE i \in 1 .. k
  <2>1. hkRecords[q[i]] \in HkRecordSet
    BY <1>1, <1>10 DEF HkTyped
  <2>2. hkRecords[q[i]].request \in HkRequests
    BY <2>1 DEF HkRecordSet
  <2>3. q[i] \in Nat /\ None \in Nat
    BY <1>10 DEF None
  <2> QED BY <1>8, <2>2, <2>3, NewRecord
<1>13. f \in Seq(HkRecordSet) /\ Len(f) = k
  BY <1>8, <1>12
<1>14. hkRecords \in Seq(HkRecordSet)
  BY DEF HkTyped
<1>15. /\ hkRecords \o f \in Seq(HkRecordSet)
       /\ Len(hkRecords \o f) = n + k
       /\ \A r \in 1 .. n : (hkRecords \o f)[r] = hkRecords[r]
       /\ \A i \in 1 .. k : (hkRecords \o f)[n + i] = f[i]
  BY <1>1, <1>13, <1>14
<1>16. q \in [1 .. k -> 1 .. n]
  BY <1>3, <1>7
<1>17. Copying(session, k, q)
  BY <1>1, <1>7, <1>8, <1>9, <1>11, <1>15 DEF Copying
<1> QED BY <1>1, <1>16, <1>17

\* The registry takes new records at its end: pending or rejected ones, or copies.
Extension(n, k) ==
  /\ n = Len(hkRecords)
  /\ hkRecords' \in Seq(HkRecordSet)
  /\ Len(hkRecords') = n + k
  /\ \A r \in 1 .. n : hkRecords'[r] = hkRecords[r]
  /\ \A r \in n + 1 .. n + k :
       hkRecords'[r].parent # None =>
         /\ hkRecords'[r].parent \in 1 .. n
         /\ hkRecords[hkRecords'[r].parent].state = "pending"
         /\ \A b \in 1 .. n + k : /\ hkRecords'[b].parent = hkRecords'[r].parent
                                  /\ hkRecords'[b].session = hkRecords'[r].session
                                  => b = r
  /\ hkFired' \in Seq(Nat) /\ Len(hkFired') = n + k
  /\ \A r \in 1 .. n : hkFired'[r] = hkFired[r]
  /\ \A r \in n + 1 .. n + k : hkFired'[r] = 0

Extended == \E n, k \in Nat : Extension(n, k)

LEMMA MaterializedExtends ==
  ASSUME HkTyped, NEW session \in HkSessions, hkRecords' = Materialized(session),
         hkFired' = FiredFor(Materialized(session))
  PROVE  Extended
<1>1. PICK n \in Nat : n = Len(hkRecords) /\ DOMAIN hkRecords = 1 .. n
  BY DEF HkTyped
<1>a. PICK k \in Nat : \E q \in [1 .. k -> 1 .. n] : Copying(session, k, q)
  BY <1>1, MaterializedFacts
<1>b. PICK q \in [1 .. k -> 1 .. n] : Copying(session, k, q)
  BY <1>a
<1>2. /\ \A i, j \in 1 .. k : i # j => q[i] # q[j]
      /\ \A i \in 1 .. k :
                /\ hkRecords[q[i]].state = "pending"
                /\ \A r \in 1 .. n : hkRecords[r].parent = q[i] => hkRecords[r].session # session
      /\ hkRecords' \in Seq(HkRecordSet)
      /\ Len(hkRecords') = n + k
      /\ \A r \in 1 .. n : hkRecords'[r] = hkRecords[r]
      /\ \A i \in 1 .. k : hkRecords'[n + i]
                = HkRecord(hkRecords[q[i]].request, session, None, "active", q[i])
  BY <1>1, <1>b DEF Copying
<1>3. \A i \in 1 .. k : hkRecords'[n + i].parent = q[i] /\ hkRecords'[n + i].session = session
  <2> TAKE i \in 1 .. k
  <2>1. hkRecords'[n + i] = HkRecord(hkRecords[q[i]].request, session, None, "active", q[i])
    BY <1>2
  <2> QED BY <2>1 DEF HkRecord
<1>4. ASSUME NEW r \in n + 1 .. n + k
      PROVE  /\ hkRecords'[r].parent \in 1 .. n
             /\ hkRecords[hkRecords'[r].parent].state = "pending"
             /\ \A b \in 1 .. n + k : /\ hkRecords'[b].parent = hkRecords'[r].parent
                                      /\ hkRecords'[b].session = hkRecords'[r].session
                                      => b = r
  <2>1. PICK i \in 1 .. k : r = n + i
    <3>1. r - n \in 1 .. k /\ r = n + (r - n)
      OBVIOUS
    <3> QED BY <3>1
  <2>2. hkRecords'[r].parent = q[i] /\ hkRecords'[r].session = session
    BY <1>3, <2>1
  <2>3. ASSUME NEW b \in 1 .. n + k, hkRecords'[b].parent = q[i], hkRecords'[b].session = session
        PROVE  b = r
    <3>1. CASE b \in 1 .. n
      <4>1. hkRecords[b].parent = q[i] /\ hkRecords[b].session = session
        BY <1>2, <2>3, <3>1
      <4> QED BY <1>2, <3>1, <4>1
    <3>2. CASE b \notin 1 .. n
      <4>1. b - n \in 1 .. k /\ b = n + (b - n)
        BY <3>2
      <4>2. PICK j \in 1 .. k : b = n + j
        BY <4>1
      <4>3. q[j] = q[i]
        BY <1>3, <2>3, <4>2
      <4>4. i = j
        BY <1>2, <4>3
      <4> QED BY <2>1, <4>2, <4>4
    <3> QED BY <3>1, <3>2
  <2> QED BY <1>2, <2>2, <2>3
<1>5. DOMAIN hkFired = 1 .. n /\ hkFired \in Seq(Nat)
  BY <1>1 DEF HkTyped
<1>6. hkFired' = [r \in 1 .. n + k |-> IF r \in 1 .. n THEN hkFired[r] ELSE 0]
  <2>1. DOMAIN Materialized(session) = 1 .. n + k
    BY <1>2
  <2> QED BY <1>5, <2>1 DEF FiredFor
<1>7. \A r \in 1 .. n + k : hkFired'[r] \in Nat
  BY <1>5, <1>6
<1>8. hkFired' \in Seq(Nat) /\ Len(hkFired') = n + k
  BY <1>6, <1>7
<1>9. (\A r \in 1 .. n : hkFired'[r] = hkFired[r]) /\ (\A r \in n + 1 .. n + k : hkFired'[r] = 0)
  BY <1>6
<1>10. Extension(n, k)
  BY <1>1, <1>2, <1>4, <1>8, <1>9 DEF Extension
<1> QED BY <1>10 DEF Extended

\* How every step treats the registry and the uses, but for the end of a dispatch.
RecordsKept ==
  /\ HkCopied'
  /\ hkRecords' \in Seq(HkRecordSet)
  /\ \A r \in 1 .. Len(hkRecords') : hkRecords'[r].parent \in 0 .. Len(hkRecords')
  /\ hkFired' \in Seq(Nat) /\ Len(hkFired') = Len(hkRecords')
  /\ Len(hkRecords) <= Len(hkRecords')
  /\ \A r \in 1 .. Len(hkRecords) :
       /\ hkRecords'[r].request = hkRecords[r].request
       /\ hkRecords'[r].state = "active" => hkRecords[r].state = "active"
       /\ hkFired'[r] = hkFired[r]
  /\ \A r \in 1 .. Len(hkRecords') : r \notin 1 .. Len(hkRecords) => hkFired'[r] = 0

LEMMA ExtendedKeeps ==
  ASSUME HkInd, Extended
  PROVE  RecordsKept
<1>a. PICK n, k \in Nat : Extension(n, k)
  BY DEF Extended
<1>1. /\ n = Len(hkRecords)
      /\ hkRecords' \in Seq(HkRecordSet)
      /\ Len(hkRecords') = n + k
      /\ \A r \in 1 .. n : hkRecords'[r] = hkRecords[r]
      /\ \A r \in n + 1 .. n + k :
           hkRecords'[r].parent # None =>
                 /\ hkRecords'[r].parent \in 1 .. n
                 /\ hkRecords[hkRecords'[r].parent].state = "pending"
                 /\ \A b \in 1 .. n + k : /\ hkRecords'[b].parent = hkRecords'[r].parent
                                          /\ hkRecords'[b].session = hkRecords'[r].session
                                          => b = r
      /\ hkFired' \in Seq(Nat) /\ Len(hkFired') = n + k
      /\ \A r \in 1 .. n : hkFired'[r] = hkFired[r]
      /\ \A r \in n + 1 .. n + k : hkFired'[r] = 0
  BY <1>a DEF Extension
<1>2. \A r \in 1 .. n + k : r \notin 1 .. n => r \in n + 1 .. n + k
  OBVIOUS
<1>3. \A r \in 1 .. n : hkRecords[r].parent \in 0 .. n
  BY <1>1 DEF HkInd, HkTyped
<1>4. \A r \in 1 .. n + k : hkRecords'[r].parent \in 0 .. n
  <2> TAKE r \in 1 .. n + k
  <2>1. CASE r \in 1 .. n
    BY <1>1, <1>3, <2>1
  <2>2. CASE r \notin 1 .. n
    BY <1>1, <1>2, <2>2 DEF None
  <2> QED BY <2>1, <2>2
<1>5. ASSUME NEW a \in 1 .. n + k, hkRecords'[a].parent # None
      PROVE  CopyOf(a, hkRecords[a].parent)'
  <2>1. PICK t \in 1 .. n : t = hkRecords'[a].parent
    BY <1>4, <1>5 DEF None
  <2>2. hkRecords'[t] = hkRecords[t]
    BY <1>1
  <2>3. /\ hkRecords'[t].state \in {"pending", "released"}
        /\ hkRecords'[t].state = "released" => hkRecords'[a].state # "active"
        /\ \A b \in 1 .. n + k : /\ hkRecords'[b].parent = t
                                 /\ hkRecords'[b].session = hkRecords'[a].session
                                 => a = b
    <3>1. CASE a \notin 1 .. n
      BY <1>1, <1>2, <1>5, <2>1, <2>2, <3>1
    <3>2. CASE a \in 1 .. n
      <4>1. hkRecords[a].parent = t /\ hkRecords'[a] = hkRecords[a]
        BY <1>1, <2>1, <3>2
      <4>2. CopyOf(a, t)
        BY <1>1, <1>5, <2>1, <3>2, <4>1 DEF HkInd, HkCopied
      <4>3. /\ hkRecords[t].state \in {"pending", "released"}
            /\ hkRecords[t].state = "released" => hkRecords[a].state # "active"
            /\ \A b \in 1 .. n : /\ hkRecords[b].parent = t
                                 /\ hkRecords[b].session = hkRecords[a].session
                                 => a = b
        BY <1>1, <4>2 DEF CopyOf
      <4>4. ASSUME NEW b \in 1 .. n + k, hkRecords'[b].parent = t,
                   hkRecords'[b].session = hkRecords'[a].session
            PROVE  a = b
        <5>1. CASE b \in 1 .. n
          BY <1>1, <4>1, <4>3, <4>4, <5>1
        <5>2. CASE b \notin 1 .. n
          <6>1. b \in n + 1 .. n + k /\ hkRecords'[b].parent # None
            BY <1>2, <1>5, <2>1, <4>4, <5>2
          <6>2. \A c \in 1 .. n + k : /\ hkRecords'[c].parent = hkRecords'[b].parent
                                       /\ hkRecords'[c].session = hkRecords'[b].session
                                       => c = b
            BY <1>1, <6>1
          <6> QED BY <2>1, <4>4, <6>2
        <5> QED BY <5>1, <5>2
      <4> QED BY <2>2, <4>1, <4>3, <4>4
    <3> QED BY <3>1, <3>2
  <2> QED BY <1>1, <2>1, <2>3 DEF CopyOf
<1>6. HkCopied'
  <2>1. \A a \in 1 .. Len(hkRecords') : hkRecords'[a].parent # None => CopyOf(a, hkRecords[a].parent)'
    BY <1>1, <1>5
  <2> QED BY <2>1, Zenon DEF HkCopied
<1>7. /\ \A r \in 1 .. Len(hkRecords') : hkRecords'[r].parent \in 0 .. Len(hkRecords')
      /\ Len(hkRecords) <= Len(hkRecords')
  BY <1>1, <1>4
<1>8. \A r \in 1 .. Len(hkRecords') : r \notin 1 .. Len(hkRecords) => hkFired'[r] = 0
  BY <1>1, <1>2
<1> QED BY <1>1, <1>6, <1>7, <1>8 DEF RecordsKept

\* Active records are given up, and a pending template after its copies.
Settled ==
  /\ hkRecords' \in Seq(HkRecordSet) /\ Len(hkRecords') = Len(hkRecords)
  /\ \A r \in 1 .. Len(hkRecords) :
       /\ hkRecords'[r].request = hkRecords[r].request
       /\ hkRecords'[r].session = hkRecords[r].session
       /\ hkRecords'[r].parent = hkRecords[r].parent
       /\ \/ hkRecords'[r].state = hkRecords[r].state
          \/ hkRecords[r].state = "active" /\ hkRecords'[r].state \in {"released", "expired"}
          \/ /\ hkRecords[r].state = "pending" /\ hkRecords'[r].state = "released"
             /\ \A a \in 1 .. Len(hkRecords) :
                  hkRecords[a].parent = r => hkRecords'[a].state # "active"

LEMMA SettledKeeps ==
  ASSUME HkInd, Settled
  PROVE  /\ HkCopied'
         /\ \A r \in 1 .. Len(hkRecords') : hkRecords'[r].parent \in 0 .. Len(hkRecords')
         /\ \A r \in 1 .. Len(hkRecords) :
              hkRecords'[r].state = "active" => hkRecords[r].state = "active"
<1>1. PICK n \in Nat : n = Len(hkRecords) /\ n = Len(hkRecords')
  BY DEF Settled, HkInd, HkTyped
<1>2. \A r \in 1 .. n :
       /\ hkRecords'[r].session = hkRecords[r].session
       /\ hkRecords'[r].parent = hkRecords[r].parent
       /\ \/ hkRecords'[r].state = hkRecords[r].state
          \/ hkRecords[r].state = "active" /\ hkRecords'[r].state \in {"released", "expired"}
          \/ /\ hkRecords[r].state = "pending" /\ hkRecords'[r].state = "released"
             /\ \A a \in 1 .. n :
                  hkRecords[a].parent = r => hkRecords'[a].state # "active"
  BY <1>1 DEF Settled
<1>3. \A r \in 1 .. n : hkRecords[r].parent \in 0 .. n
  BY <1>1 DEF HkInd, HkTyped
<1>4. ASSUME NEW a \in 1 .. n, hkRecords'[a].parent # None
      PROVE  CopyOf(a, hkRecords[a].parent)'
  <2>1. PICK t \in 1 .. n : t = hkRecords[a].parent /\ t = hkRecords'[a].parent
    BY <1>2, <1>3, <1>4 DEF None
  <2>2. CopyOf(a, t)
    BY <1>1, <1>4, <2>1 DEF HkInd, HkCopied
  <2>3. /\ hkRecords[t].state \in {"pending", "released"}
        /\ hkRecords[t].state = "released" => hkRecords[a].state # "active"
        /\ \A b \in 1 .. n : hkRecords[b].parent = t /\ hkRecords[b].session = hkRecords[a].session => a = b
    BY <1>1, <2>2 DEF CopyOf
  <2>4. \A b \in 1 .. n : hkRecords'[b].parent = t /\ hkRecords'[b].session = hkRecords'[a].session => a = b
    BY <1>2, <2>3
  <2>5. hkRecords'[t].state \in {"pending", "released"}
    BY <1>2, <2>3
  <2>6. hkRecords'[t].state = "released" => hkRecords'[a].state # "active"
    BY <1>2, <2>1, <2>3
  <2> QED BY <1>1, <2>1, <2>4, <2>5, <2>6 DEF CopyOf
<1>5. HkCopied'
  <2>1. \A a \in 1 .. Len(hkRecords') : hkRecords'[a].parent # None => CopyOf(a, hkRecords[a].parent)'
    BY <1>1, <1>4
  <2> QED BY <2>1, Zenon DEF HkCopied
<1>6. \A r \in 1 .. n : hkRecords'[r].state = "active" => hkRecords[r].state = "active"
  BY <1>2
<1>7. \A r \in 1 .. n : hkRecords'[r].parent \in 0 .. n
  BY <1>2, <1>3
<1> QED BY <1>1, <1>5, <1>6, <1>7

LEMMA SettledRecordsKept ==
  ASSUME HkInd, Settled, hkFired' = hkFired
  PROVE  RecordsKept
<1>1. Len(hkRecords') = Len(hkRecords) /\ Len(hkRecords) \in Nat /\ hkRecords' \in Seq(HkRecordSet)
  BY DEF Settled, HkInd, HkTyped
<1>2. \A r \in 1 .. Len(hkRecords) : hkRecords'[r].request = hkRecords[r].request
  BY DEF Settled
<1>3. hkFired' \in Seq(Nat) /\ Len(hkFired') = Len(hkRecords')
  BY <1>1 DEF HkInd, HkTyped
<1> QED BY <1>1, <1>2, <1>3, SettledKeeps DEF RecordsKept

LEMMA WithStateFacts ==
  ASSUME HkTyped, NEW rs, NEW state \in {"released", "expired"}
  PROVE  /\ WithState(rs, state) \in Seq(HkRecordSet)
         /\ Len(WithState(rs, state)) = Len(hkRecords)
         /\ \A r \in 1 .. Len(hkRecords) :
              /\ WithState(rs, state)[r].request = hkRecords[r].request
              /\ WithState(rs, state)[r].session = hkRecords[r].session
              /\ WithState(rs, state)[r].parent = hkRecords[r].parent
              /\ WithState(rs, state)[r].state
                   = IF r \in rs /\ hkRecords[r].state = "active" THEN state ELSE hkRecords[r].state
<1>1. PICK n \in Nat : n = Len(hkRecords) /\ DOMAIN hkRecords = 1 .. n
  BY DEF HkTyped
<1>2. PICK m : m = WithState(rs, state)
  OBVIOUS
<1>3. m = [r \in 1 .. n |-> IF r \in rs /\ hkRecords[r].state = "active"
                            THEN [hkRecords[r] EXCEPT !.state = state] ELSE hkRecords[r]]
  BY <1>1, <1>2 DEF WithState
<1>4. \A r \in 1 .. n : hkRecords[r] \in HkRecordSet
  BY <1>1 DEF HkTyped
<1>5. ASSUME NEW r \in 1 .. n
      PROVE  /\ m[r] \in HkRecordSet
             /\ m[r].request = hkRecords[r].request
             /\ m[r].session = hkRecords[r].session
             /\ m[r].parent = hkRecords[r].parent
             /\ m[r].state
                  = IF r \in rs /\ hkRecords[r].state = "active" THEN state ELSE hkRecords[r].state
  <2>1. PICK c \in HkRecordSet : c = hkRecords[r]
    BY <1>4
  <2>2. /\ [c EXCEPT !.state = state] \in HkRecordSet
        /\ [c EXCEPT !.state = state].request = c.request
        /\ [c EXCEPT !.state = state].session = c.session
        /\ [c EXCEPT !.state = state].parent = c.parent
        /\ [c EXCEPT !.state = state].state = state
    BY <2>1 DEF HkRecordSet
  <2>3. m[r] = IF r \in rs /\ c.state = "active" THEN [c EXCEPT !.state = state] ELSE c
    BY <1>3, <2>1
  <2> QED BY <2>1, <2>2, <2>3
<1>6. m \in Seq(HkRecordSet) /\ Len(m) = n
  <2>1. \A r \in 1 .. n : m[r] \in HkRecordSet
    BY <1>5
  <2>2. m \in [1 .. n -> HkRecordSet]
    BY <1>3, <2>1, Zenon
  <2> QED BY <2>2
<1>7. n = Len(hkRecords)
  BY <1>1
<1>8. m \in Seq(HkRecordSet) /\ Len(m) = Len(hkRecords)
  BY <1>6, <1>7
<1>9. \A r \in 1 .. Len(hkRecords) :
        /\ m[r].request = hkRecords[r].request
        /\ m[r].session = hkRecords[r].session
        /\ m[r].parent = hkRecords[r].parent
        /\ m[r].state
             = IF r \in rs /\ hkRecords[r].state = "active" THEN state ELSE hkRecords[r].state
  BY <1>5, <1>7
<1> QED BY <1>2, <1>8, <1>9

LEMMA WithStateSettles ==
  ASSUME HkTyped, NEW rs, NEW state \in {"released", "expired"}, hkRecords' = WithState(rs, state)
  PROVE  Settled
<1>1. \A r \in 1 .. Len(hkRecords) :
              /\ hkRecords'[r].request = hkRecords[r].request
              /\ hkRecords'[r].session = hkRecords[r].session
              /\ hkRecords'[r].parent = hkRecords[r].parent
              /\ hkRecords'[r].state
                   = IF r \in rs /\ hkRecords[r].state = "active" THEN state ELSE hkRecords[r].state
  BY WithStateFacts
<1>2. hkRecords' \in Seq(HkRecordSet) /\ Len(hkRecords') = Len(hkRecords)
  BY WithStateFacts
<1> QED BY <1>1, <1>2 DEF Settled

LEMMA RankedKept ==
  ASSUME NEW run, Names(run) \subseteq 1 .. Len(hkRecords), Ranked(run),
         \A r \in 1 .. Len(hkRecords) : hkRecords'[r].request = hkRecords[r].request
  PROVE  Ranked(run)'
<1>1. \A r \in Names(run) : SourceOf(r)' = SourceOf(r)
  <2> TAKE r \in Names(run)
  <2>1. hkRecords'[r].request = hkRecords[r].request
    OBVIOUS
  <2> QED BY <2>1 DEF SourceOf
<1>2. /\ \A i \in DOMAIN run.used : SourceOf(run.used[i].name)' = SourceOf(run.used[i].name)
      /\ \A i \in DOMAIN run.todo : SourceOf(run.todo[i])' = SourceOf(run.todo[i])
  BY <1>1 DEF Names
<1> QED BY <1>2 DEF Ranked

\* The dispatches of a one-shot record are finitely many.
LEMMA HoldersCount ==
  ASSUME NEW S, NEW T \in SUBSET S, IsFiniteSet(S)
  PROVE  Cardinality(S) \in Nat /\ Cardinality(T) \in Nat /\ Cardinality(T) <= Cardinality(S)
BY FS_Subset, FS_CardinalityType

\* A one-shot record that was not used, or that nobody new holds.
LEMMA OnceKept ==
  ASSUME HkOnce, HkTyped, hkFired' \in Seq(Nat), Len(hkFired') = Len(hkRecords'),
         Len(hkRecords') \in Nat,
         \A r \in 1 .. Len(hkRecords') :
           hkFired'[r] # 0 /\ hkRecords'[r].request.once =>
              /\ r \in 1 .. Len(hkRecords)
              /\ hkRecords'[r].request = hkRecords[r].request
              /\ hkRecords'[r].state = "active" => hkRecords[r].state = "active"
              /\ hkFired'[r] = hkFired[r]
              /\ Holders(r)' \subseteq Holders(r)
  PROVE  HkOnce'
<1>1. IsFiniteSet(HkDispatchers)
  BY HkAssumption
<1>2. ASSUME NEW r \in 1 .. Len(hkRecords'), hkRecords'[r].request.once
      PROVE  /\ hkRecords'[r].state = "active" => hkFired'[r] = 0
             /\ hkFired'[r] + Cardinality(Holders(r)') <= Cardinality(HkDispatchers)
  <2>1. Holders(r)' \in SUBSET HkDispatchers /\ Holders(r) \in SUBSET HkDispatchers
    BY DEF Holders
  <2>2. /\ Cardinality(HkDispatchers) \in Nat
        /\ Cardinality(Holders(r)') \in Nat
        /\ Cardinality(Holders(r)') <= Cardinality(HkDispatchers)
    BY <1>1, <2>1, HoldersCount
  <2>3. CASE hkFired'[r] = 0
    BY <2>2, <2>3
  <2>4. CASE /\ r \in 1 .. Len(hkRecords)
             /\ hkRecords'[r].request = hkRecords[r].request
             /\ hkRecords'[r].state = "active" => hkRecords[r].state = "active"
             /\ hkFired'[r] = hkFired[r]
             /\ Holders(r)' \subseteq Holders(r)
    <3>1. IsFiniteSet(Holders(r)) /\ Cardinality(Holders(r)) \in Nat
      BY <1>1, <2>1, FS_Subset, FS_CardinalityType
    <3>2. Cardinality(Holders(r)') <= Cardinality(Holders(r))
      BY <2>4, <3>1, HoldersCount
    <3>3. /\ hkRecords[r].state = "active" => hkFired[r] = 0
          /\ hkFired[r] + Cardinality(Holders(r)) <= Cardinality(HkDispatchers)
      BY <1>2, <2>4 DEF HkOnce
    <3>4. hkFired[r] \in Nat
      BY <2>4 DEF HkTyped
    <3> QED BY <2>2, <2>4, <3>1, <3>2, <3>3, <3>4
  <2> QED BY <1>2, <2>3, <2>4
<1> QED BY <1>2 DEF HkOnce

\* Steps that leave the dispatches alone.
LEMMA DispatchesKept ==
  ASSUME HkInd, RecordsKept, hkDispatch' = hkDispatch, hkTurn' \in [HkSessions -> Nat]
  PROVE  HkInd'
<1>1. HkTyped'
  <2>1. Len(hkRecords) \in Nat /\ Len(hkRecords') \in Nat /\ Len(hkRecords) <= Len(hkRecords')
    BY DEF HkInd, HkTyped, RecordsKept
  <2>2. \A d \in HkDispatchers : Names(hkDispatch[d]) \subseteq 1 .. Len(hkRecords')
    <3> TAKE d \in HkDispatchers
    <3>1. Names(hkDispatch[d]) \subseteq 1 .. Len(hkRecords)
      BY DEF HkInd, HkTyped
    <3> QED BY <2>1, <3>1
  <2>3. \A d \in HkDispatchers : Names(hkDispatch'[d]) \subseteq 1 .. Len(hkRecords')
    BY <2>2
  <2> QED BY <2>3 DEF HkInd, HkTyped, RecordsKept
<1>2. ASSUME NEW d \in HkDispatchers PROVE Ranked(hkDispatch[d])'
  <2>1. PICK run : run = hkDispatch[d]
    OBVIOUS
  <2>2. Names(run) \subseteq 1 .. Len(hkRecords) /\ Ranked(run)
    BY <2>1 DEF HkInd, HkTyped
  <2>3. Ranked(run)'
    BY <2>2, RankedKept DEF RecordsKept
  <2>4. hkDispatch'[d] = run
    BY <2>1
  <2> QED BY <2>3, <2>4
<1>3. \A r : Holders(r)' = Holders(r)
  BY DEF Holders
<1>4. HkOnce'
  <2>1. \A r \in 1 .. Len(hkRecords') :
           \/ hkFired'[r] = 0
           \/ /\ r \in 1 .. Len(hkRecords)
              /\ hkRecords'[r].request = hkRecords[r].request
              /\ hkRecords'[r].state = "active" => hkRecords[r].state = "active"
              /\ hkFired'[r] = hkFired[r]
              /\ Holders(r)' \subseteq Holders(r)
    BY <1>3 DEF RecordsKept
  <2>2. HkOnce /\ HkTyped /\ hkFired' \in Seq(Nat) /\ Len(hkFired') = Len(hkRecords') /\ Len(hkRecords') \in Nat
    BY DEF HkInd, RecordsKept
  <2> QED BY <2>1, <2>2, OnceKept
<1> QED BY <1>1, <1>2, <1>4 DEF HkInd, RecordsKept

LEMMA AppendFacts ==
  ASSUME NEW S, NEW q \in Seq(S), NEW e \in S
  PROVE  /\ Append(q, e) \in Seq(S)
         /\ Len(Append(q, e)) = Len(q) + 1
         /\ \A i \in 1 .. Len(q) : Append(q, e)[i] = q[i]
         /\ Append(q, e)[Len(q) + 1] = e
OBVIOUS

LEMMA FunctionIsSeq ==
  ASSUME NEW S, NEW n \in Nat, NEW f \in [1 .. n -> S]
  PROVE  f \in Seq(S) /\ Len(f) = n /\ DOMAIN f = 1 .. n
OBVIOUS

LEMMA HkRegister ==
  ASSUME HkInd, NEW request \in HkRequests, NEW session \in HkSessions,
         NEW turn \in {None, hkTurn[session]}, RegisterRequest(request, session, turn)
  PROVE  HkInd'
<1>1. PICK n \in Nat : n = Len(hkRecords) /\ n = Len(hkFired)
  BY DEF HkInd, HkTyped
<1>2. turn \in Nat
  BY DEF HkInd, HkTyped, None
<1>3. PICK home \in HkSessions \cup {None}, state \in {"pending", "active", "rejected"} :
         /\ hkRecords' = Append(hkRecords, HkRecord(request, home, turn, state, None))
         /\ hkFired' = Append(hkFired, 0)
         /\ UNCHANGED <<hkBound, hkOpen, hkTurn, hkDispatch>>
  BY DEF RegisterRequest
<1>4. PICK new \in HkRecordSet : new = HkRecord(request, home, turn, state, None) /\ new.parent = None
  BY <1>2, NewRecord DEF None
<1>5. /\ hkRecords' \in Seq(HkRecordSet) /\ Len(hkRecords') = n + 1
      /\ \A r \in 1 .. n : hkRecords'[r] = hkRecords[r]
      /\ hkRecords'[n + 1] = new
  <2>1. hkRecords \in Seq(HkRecordSet) /\ hkRecords' = Append(hkRecords, new)
    BY <1>3, <1>4 DEF HkInd, HkTyped
  <2>2. /\ Append(hkRecords, new) \in Seq(HkRecordSet)
        /\ Len(Append(hkRecords, new)) = Len(hkRecords) + 1
        /\ \A i \in 1 .. Len(hkRecords) : Append(hkRecords, new)[i] = hkRecords[i]
        /\ Append(hkRecords, new)[Len(hkRecords) + 1] = new
    BY <2>1, AppendFacts
  <2> QED BY <1>1, <2>1, <2>2
<1>6. /\ hkFired' \in Seq(Nat) /\ Len(hkFired') = n + 1
      /\ \A r \in 1 .. n : hkFired'[r] = hkFired[r]
      /\ hkFired'[n + 1] = 0
  <2>1. hkFired \in Seq(Nat)
    BY DEF HkInd, HkTyped
  <2> QED BY <1>1, <1>3, <2>1
<1>7. \A r \in n + 1 .. n + 1 : r = n + 1
  OBVIOUS
<1>8. Extension(n, 1)
  BY <1>1, <1>4, <1>5, <1>6, <1>7 DEF Extension
<1>9. RecordsKept
  BY <1>8, ExtendedKeeps DEF Extended
<1> QED BY <1>3, <1>9, DispatchesKept DEF HkInd, HkTyped

LEMMA HkOpenSession ==
  ASSUME HkInd, NEW session \in HkSessions, OpenSession(session)
  PROVE  HkInd'
<1>1. hkRecords' = Materialized(session) /\ hkFired' = FiredFor(Materialized(session))
  BY DEF OpenSession
<1>2. Extended
  BY <1>1, MaterializedExtends DEF HkInd
<1>3. RecordsKept
  BY <1>2, ExtendedKeeps
<1>4. hkDispatch' = hkDispatch /\ hkTurn' \in [HkSessions -> Nat]
  BY DEF OpenSession, HkInd, HkTyped
<1> QED BY <1>3, <1>4, DispatchesKept

LEMMA HkReleases ==
  ASSUME HkInd, NEW session \in HkSessions,
         ReleaseOwner(session) \/ ClearSession(session) \/ ReleaseTurn(session)
  PROVE  HkInd'
<1>1. \E rs : \E state \in {"released", "expired"} : hkRecords' = WithState(rs, state)
  <2>1. CASE ReleaseOwner(session)
    BY <2>1 DEF ReleaseOwner
  <2>2. CASE ClearSession(session)
    BY <2>2 DEF ClearSession
  <2>3. CASE ReleaseTurn(session)
    BY <2>3 DEF ReleaseTurn
  <2> QED BY <2>1, <2>2, <2>3
<1>2. Settled
  BY <1>1, WithStateSettles DEF HkInd
<1>3. hkFired' = hkFired /\ hkDispatch' = hkDispatch
  BY DEF ReleaseOwner, ClearSession, ReleaseTurn
<1>4. hkTurn' \in [HkSessions -> Nat]
  <2>1. hkTurn \in [HkSessions -> Nat]
    BY DEF HkInd, HkTyped
  <2>2. hkTurn' = hkTurn \/ hkTurn' = [hkTurn EXCEPT ![session] = @ + 1]
    BY DEF ReleaseOwner, ClearSession, ReleaseTurn
  <2> QED BY <2>1, <2>2
<1>5. RecordsKept
  BY <1>2, <1>3, SettledRecordsKept
<1> QED BY <1>3, <1>4, <1>5, DispatchesKept

LEMMA HkReleaseRegistration ==
  ASSUME HkInd, NEW r \in DOMAIN hkRecords, ReleaseRegistration(r)
  PROVE  HkInd'
<1>1. PICK n \in Nat : n = Len(hkRecords) /\ DOMAIN hkRecords = 1 .. n
  BY DEF HkInd, HkTyped
<1>2. PICK m : m = WithState(Copies(r), "released")
  OBVIOUS
<1>3. /\ m \in Seq(HkRecordSet) /\ Len(m) = n
      /\ \A a \in 1 .. n :
           /\ m[a].request = hkRecords[a].request
           /\ m[a].session = hkRecords[a].session
           /\ m[a].parent = hkRecords[a].parent
           /\ m[a].state = IF a \in Copies(r) /\ hkRecords[a].state = "active"
                           THEN "released" ELSE hkRecords[a].state
  BY <1>1, <1>2, WithStateFacts DEF HkInd
<1>4. PICK c \in HkRecordSet : c = m[r]
  BY <1>1, <1>3
<1>a. PICK d : d = [c EXCEPT !.state = "released"]
  OBVIOUS
<1>5. /\ d \in HkRecordSet
      /\ d.request = c.request /\ d.session = c.session
      /\ d.parent = c.parent /\ d.state = "released"
  BY <1>4, <1>a DEF HkRecordSet
<1>6. hkRecords' = [m EXCEPT ![r] = d]
  BY <1>2, <1>4, <1>a DEF ReleaseRegistration
<1>7. /\ hkRecords' \in Seq(HkRecordSet) /\ Len(hkRecords') = n
      /\ \A a \in 1 .. n : hkRecords'[a] = IF a = r THEN d ELSE m[a]
  <2>1. m \in Seq(HkRecordSet) /\ Len(m) = n /\ DOMAIN m = 1 .. n
    BY <1>3
  <2>2. hkRecords' \in Seq(HkRecordSet) /\ DOMAIN hkRecords' = 1 .. n
    <3>1. m \in [1 .. n -> HkRecordSet]
      BY <2>1
    <3>2. [m EXCEPT ![r] = d] \in [1 .. n -> HkRecordSet]
      BY <1>5, <3>1
    <3> QED BY <1>6, <3>2, FunctionIsSeq
  <2>3. Len(hkRecords') = n
    BY <2>2
  <2>4. \A a \in 1 .. n : hkRecords'[a] = IF a = r THEN d ELSE m[a]
    BY <1>6, <2>1
  <2> QED BY <2>2, <2>3, <2>4
<1>8. hkRecords[r].state \in {"pending", "active"}
  BY DEF ReleaseRegistration
<1>9. ASSUME NEW a \in 1 .. n
      PROVE  /\ hkRecords'[a].request = hkRecords[a].request
             /\ hkRecords'[a].session = hkRecords[a].session
             /\ hkRecords'[a].parent = hkRecords[a].parent
             /\ \/ hkRecords'[a].state = hkRecords[a].state
                \/ hkRecords[a].state = "active" /\ hkRecords'[a].state \in {"released", "expired"}
                \/ /\ hkRecords[a].state = "pending" /\ hkRecords'[a].state = "released"
                   /\ \A b \in 1 .. n :
                        hkRecords[b].parent = a => hkRecords'[b].state # "active"
  <2>1. CASE a # r
    <3>1. hkRecords'[a] = m[a]
      BY <1>7, <2>1
    <3> QED BY <1>3, <3>1
  <2>2. CASE a = r
    <3>1. hkRecords'[a] = d
      BY <1>7, <2>2
    <3>2. \A b \in 1 .. n : hkRecords[b].parent = r => hkRecords'[b].state # "active"
      <4> TAKE b \in 1 .. n
      <4> HAVE hkRecords[b].parent = r
      <4>1. b \in Copies(r)
        BY <1>1 DEF Copies
      <4>2. m[b].state # "active"
        BY <1>3, <4>1
      <4> QED BY <1>5, <1>7, <4>2
    <3>3. /\ d.request = hkRecords[a].request
          /\ d.session = hkRecords[a].session
          /\ d.parent = hkRecords[a].parent
          /\ d.state = "released"
      BY <1>3, <1>4, <1>5, <2>2
    <3> QED BY <1>8, <2>2, <3>1, <3>2, <3>3
  <2> QED BY <2>1, <2>2
<1>10. Settled
  BY <1>1, <1>7, <1>9 DEF Settled
<1>11. hkFired' = hkFired /\ hkDispatch' = hkDispatch /\ hkTurn' \in [HkSessions -> Nat]
  BY DEF ReleaseRegistration, HkInd, HkTyped
<1>12. RecordsKept
  BY <1>10, <1>11, SettledRecordsKept
<1> QED BY <1>11, <1>12, DispatchesKept

----
(* Dispatches *)

\* One dispatch goes on; what it called or will call is among what it had.
LEMMA DispatchMoves ==
  ASSUME HkInd, UNCHANGED <<hkRecords, hkFired, hkTurn>>, NEW d \in HkDispatchers, NEW run \in HkRuns,
         hkDispatch' = [hkDispatch EXCEPT ![d] = run], Names(run) \subseteq Names(hkDispatch[d]),
         Ranked(run)
  PROVE  HkInd'
<1>1. /\ hkRecords' = hkRecords /\ hkFired' = hkFired /\ hkTurn' = hkTurn
      /\ hkDispatch \in [HkDispatchers -> HkRuns]
  BY DEF HkInd, HkTyped
<1>2. /\ hkDispatch' \in [HkDispatchers -> HkRuns]
      /\ hkDispatch'[d] = run
      /\ \A e \in HkDispatchers : e # d => hkDispatch'[e] = hkDispatch[e]
  BY <1>1
<1>3. \A e \in HkDispatchers : Names(hkDispatch'[e]) \subseteq Names(hkDispatch[e])
  BY <1>2
<1>4. HkTyped'
  <2>1. \A e \in HkDispatchers : Names(hkDispatch[e]) \subseteq 1 .. Len(hkRecords)
    BY DEF HkInd, HkTyped
  <2>2. \A e \in HkDispatchers : Names(hkDispatch'[e]) \subseteq 1 .. Len(hkRecords')
    BY <1>1, <1>3, <2>1
  <2> QED BY <1>1, <1>2, <2>2 DEF HkInd, HkTyped
<1>5. ASSUME NEW e \in HkDispatchers PROVE Ranked(hkDispatch[e])'
  <2>1. PICK r : r = hkDispatch'[e]
    OBVIOUS
  <2>2. Ranked(r)
    BY <1>2, <2>1 DEF HkInd
  <2>3. Ranked(r)'
    BY <1>1, <2>2 DEF Ranked, SourceOf
  <2> QED BY <2>1, <2>3
<1>6. \A r : Holders(r)' \subseteq Holders(r)
  BY <1>3 DEF Holders
<1>7. HkOnce'
  <2>1. HkOnce /\ HkTyped /\ hkFired' \in Seq(Nat) /\ Len(hkFired') = Len(hkRecords') /\ Len(hkRecords') \in Nat
    BY <1>1 DEF HkInd, HkTyped
  <2> QED BY <1>1, <1>6, <2>1, OnceKept
<1>8. HkCopied'
  <2>1. HkCopied
    BY DEF HkInd
  <2> QED BY <1>1, <2>1 DEF HkCopied, CopyOf
<1> QED BY <1>4, <1>5, <1>7, <1>8 DEF HkInd

LEMMA SanitizedType ==
  ASSUME HkTyped, NEW r \in 1 .. Len(hkRecords)
  PROVE  Sanitized(r) \in HkEffects /\ Sanitized(r).name = r
<1>1. hkRecords[r].request \in HkRequests
  <2>1. hkRecords[r] \in HkRecordSet
    BY DEF HkTyped
  <2> QED BY <2>1 DEF HkRecordSet
<1>2. PICK e : e = hkRecords[r].request.effect
  OBVIOUS
<1>3. e \in [input : BOOLEAN, go : BOOLEAN, stop : {"none", "continue", "halt"}]
  BY <1>1, <1>2, HkAssumption
<1>4. r \in Nat
  BY DEF HkTyped
<1> QED BY <1>2, <1>3, <1>4 DEF Sanitized, HkEffects

LEMMA RunFacts ==
  ASSUME HkInd, NEW d \in HkDispatchers
  PROVE  /\ hkDispatch[d] \in HkRuns /\ Names(hkDispatch[d]) \subseteq 1 .. Len(hkRecords)
         /\ Ranked(hkDispatch[d])
BY DEF HkInd, HkTyped

LEMMA NoDispatchFacts ==
  NoDispatch \in HkRuns /\ Names(NoDispatch) = {} /\ Ranked(NoDispatch)
<1>1. NoDispatch.todo = <<>> /\ NoDispatch.used = <<>>
  BY DEF NoDispatch
<1>2. NoDispatch \in HkRuns
  BY DEF NoDispatch, HkRuns
<1> QED BY <1>1, <1>2 DEF Names, Ranked

\* The first handler is done, with an effect or without one.
LEMMA HkHandlerReturns ==
  ASSUME HkInd, NEW d \in HkDispatchers, HandlerReturns(d)
  PROVE  HkInd'
<1>1. PICK run \in HkRuns : /\ run = hkDispatch[d] /\ Names(run) \subseteq 1 .. Len(hkRecords)
                            /\ Ranked(run)
  BY RunFacts
<1>2. run.todo \in Seq(Nat) /\ run.todo # <<>> /\ run.used \in Seq(HkEffects)
  BY <1>1 DEF HandlerReturns, HkRuns
<1>3. 1 \in DOMAIN run.todo /\ Head(run.todo) = run.todo[1] /\ Head(run.todo) \in Names(run)
  BY <1>2 DEF Names
<1>4. PICK effect \in HkEffects : effect = Sanitized(Head(run.todo)) /\ effect.name = run.todo[1]
  BY <1>1, <1>3, SanitizedType DEF HkInd
<1>5. PICK todo, used : todo = Tail(run.todo) /\ used = Append(run.used, effect)
  OBVIOUS
<1>6. /\ todo \in Seq(Nat) /\ used \in Seq(HkEffects)
      /\ \A i \in DOMAIN todo : i + 1 \in DOMAIN run.todo /\ todo[i] = run.todo[i + 1]
      /\ DOMAIN used = 1 .. Len(run.used) + 1 /\ DOMAIN run.used = 1 .. Len(run.used)
      /\ \A i \in 1 .. Len(run.used) : used[i] = run.used[i]
      /\ used[Len(run.used) + 1] = effect
      /\ Len(run.used) \in Nat
  <2>1. /\ used \in Seq(HkEffects) /\ Len(used) = Len(run.used) + 1
        /\ \A i \in 1 .. Len(run.used) : used[i] = run.used[i]
        /\ used[Len(run.used) + 1] = effect
    BY <1>2, <1>5, AppendFacts
  <2>2. /\ todo \in Seq(Nat)
        /\ \A i \in DOMAIN todo : i + 1 \in DOMAIN run.todo /\ todo[i] = run.todo[i + 1]
    BY <1>2, <1>5
  <2> QED BY <1>2, <2>1, <2>2
<1>7. PICK next : next = [run EXCEPT !.todo = todo, !.used = used]
  OBVIOUS
<1>8. next \in HkRuns /\ next.todo = todo /\ next.used = used
  BY <1>6, <1>7 DEF HkRuns
<1>9. hkDispatch' = [hkDispatch EXCEPT ![d] = next]
  BY <1>1, <1>4, <1>5, <1>7 DEF HandlerReturns
<1>10. Names(next) \subseteq Names(run)
  <2>1. \A i \in DOMAIN todo : todo[i] \in Names(run)
    BY <1>6 DEF Names
  <2>2. \A i \in DOMAIN used : used[i].name \in Names(run)
    <3> TAKE i \in DOMAIN used
    <3>1. CASE i \in DOMAIN run.used
      BY <1>6, <3>1 DEF Names
    <3>2. CASE i \notin DOMAIN run.used
      <4>1. i = Len(run.used) + 1
        BY <1>6, <3>2
      <4> QED BY <1>3, <1>4, <1>6, <4>1
    <3> QED BY <3>1, <3>2
  <2> QED BY <1>8, <2>1, <2>2 DEF Names
<1>11. Ranked(next)
  <2>1. /\ \A i, j \in DOMAIN run.used : i <= j => SourceOf(run.used[i].name) <= SourceOf(run.used[j].name)
        /\ \A i \in DOMAIN run.used, j \in DOMAIN run.todo : SourceOf(run.used[i].name) <= SourceOf(run.todo[j])
        /\ \A i, j \in DOMAIN run.todo : i <= j => SourceOf(run.todo[i]) <= SourceOf(run.todo[j])
    BY <1>1 DEF Ranked
  <2>2. \A i \in DOMAIN used : i \notin DOMAIN run.used => i = Len(run.used) + 1
    BY <1>6
  <2>3. SourceOf(effect.name) <= SourceOf(effect.name)
    BY <1>3, <1>4, <2>1
  <2>4. \A i, j \in DOMAIN used : i <= j => SourceOf(used[i].name) <= SourceOf(used[j].name)
    <3> TAKE i, j \in DOMAIN used
    <3> HAVE i <= j
    <3>1. CASE i \in DOMAIN run.used /\ j \in DOMAIN run.used
      BY <1>6, <2>1, <3>1
    <3>2. CASE i \in DOMAIN run.used /\ j \notin DOMAIN run.used
      BY <1>3, <1>4, <1>6, <2>1, <2>2, <3>2
    <3>3. CASE i \notin DOMAIN run.used
      <4>1. j = i
        BY <1>6, <2>2, <3>3
      <4> QED BY <1>6, <2>2, <2>3, <3>3, <4>1
    <3> QED BY <3>1, <3>2, <3>3
  <2>5. \A i \in DOMAIN used, j \in DOMAIN todo : SourceOf(used[i].name) <= SourceOf(todo[j])
    <3> TAKE i \in DOMAIN used, j \in DOMAIN todo
    <3>1. j + 1 \in DOMAIN run.todo /\ todo[j] = run.todo[j + 1] /\ 1 <= j + 1
      BY <1>6
    <3>2. CASE i \in DOMAIN run.used
      BY <1>6, <2>1, <3>1, <3>2
    <3>3. CASE i \notin DOMAIN run.used
      BY <1>3, <1>4, <1>6, <2>1, <2>2, <3>1, <3>3
    <3> QED BY <3>2, <3>3
  <2>6. \A i, j \in DOMAIN todo : i <= j => SourceOf(todo[i]) <= SourceOf(todo[j])
    <3> TAKE i, j \in DOMAIN todo
    <3> HAVE i <= j
    <3>1. i \in Nat /\ j \in Nat
      BY <1>6
    <3>2. i + 1 <= j + 1
      BY <3>1
    <3> QED BY <1>6, <2>1, <3>2
  <2> QED BY <1>8, <2>4, <2>5, <2>6 DEF Ranked
<1>12. UNCHANGED <<hkRecords, hkFired, hkTurn>>
  BY DEF HandlerReturns
<1> QED BY <1>1, <1>8, <1>9, <1>10, <1>11, <1>12, DispatchMoves

LEMMA HkHandlerFails ==
  ASSUME HkInd, NEW d \in HkDispatchers, HandlerFails(d)
  PROVE  HkInd'
<1>1. PICK run \in HkRuns : /\ run = hkDispatch[d] /\ Names(run) \subseteq 1 .. Len(hkRecords)
                            /\ Ranked(run)
  BY RunFacts
<1>2. run.todo \in Seq(Nat) /\ run.todo # <<>> /\ run.used \in Seq(HkEffects)
  BY <1>1 DEF HandlerFails, HkRuns
<1>3. PICK todo : todo = Tail(run.todo)
  OBVIOUS
<1>4. /\ todo \in Seq(Nat)
      /\ \A i \in DOMAIN todo : i + 1 \in DOMAIN run.todo /\ todo[i] = run.todo[i + 1]
      /\ DOMAIN todo \subseteq Nat
  BY <1>2, <1>3
<1>5. PICK next : next = [run EXCEPT !.todo = todo]
  OBVIOUS
<1>6. next \in HkRuns /\ next.todo = todo /\ next.used = run.used
  BY <1>4, <1>5 DEF HkRuns
<1>7. hkDispatch' = [hkDispatch EXCEPT ![d] = next]
  BY <1>1, <1>3, <1>5 DEF HandlerFails
<1>8. Names(next) \subseteq Names(run)
  <2>1. \A i \in DOMAIN todo : todo[i] \in Names(run)
    BY <1>4 DEF Names
  <2> QED BY <1>6, <2>1 DEF Names
<1>9. Ranked(next)
  <2>1. /\ \A i, j \in DOMAIN run.used : i <= j => SourceOf(run.used[i].name) <= SourceOf(run.used[j].name)
        /\ \A i \in DOMAIN run.used, j \in DOMAIN run.todo : SourceOf(run.used[i].name) <= SourceOf(run.todo[j])
        /\ \A i, j \in DOMAIN run.todo : i <= j => SourceOf(run.todo[i]) <= SourceOf(run.todo[j])
    BY <1>1 DEF Ranked
  <2>2. \A i \in DOMAIN run.used, j \in DOMAIN todo : SourceOf(run.used[i].name) <= SourceOf(todo[j])
    BY <1>4, <2>1
  <2>3. \A i, j \in DOMAIN todo : i <= j => SourceOf(todo[i]) <= SourceOf(todo[j])
    <3> TAKE i, j \in DOMAIN todo
    <3> HAVE i <= j
    <3>1. i \in Nat /\ j \in Nat
      BY <1>4
    <3>2. i + 1 <= j + 1
      BY <3>1
    <3> QED BY <1>4, <2>1, <3>2
  <2> QED BY <1>6, <2>1, <2>2, <2>3 DEF Ranked
<1>10. UNCHANGED <<hkRecords, hkFired, hkTurn>>
  BY DEF HandlerFails
<1> QED BY <1>1, <1>6, <1>7, <1>8, <1>9, <1>10, DispatchMoves

LEMMA HkDispatchCancelled ==
  ASSUME HkInd, NEW d \in HkDispatchers, DispatchCancelled(d)
  PROVE  HkInd'
<1>1. /\ hkDispatch' = [hkDispatch EXCEPT ![d] = NoDispatch]
      /\ UNCHANGED <<hkRecords, hkFired, hkTurn>>
  BY DEF DispatchCancelled
<1> QED BY <1>1, NoDispatchFacts, DispatchMoves

\* The active hooks of a session, by their precedence.
LEMMA HkBeginDispatch ==
  ASSUME HkInd, NEW d \in HkDispatchers, NEW session \in HkSessions, NEW payload \in HkPayloads,
         BeginDispatch(d, session, payload)
  PROVE  HkInd'
<1>1. PICK records : records = Materialized(session)
  OBVIOUS
<1>2. hkRecords' = records /\ hkFired' = FiredFor(records)
  BY <1>1 DEF BeginDispatch
<1>3. Extended
  BY <1>1, <1>2, MaterializedExtends DEF HkInd
<1>4. RecordsKept
  BY <1>3, ExtendedKeeps
<1>5. PICK n \in Nat : n = Len(records) /\ records \in Seq(HkRecordSet) /\ DOMAIN records = 1 .. n
  BY <1>2, <1>4 DEF RecordsKept
<1>6. PICK active : active = {r \in DOMAIN records :
                      /\ records[r].session = session
                      /\ records[r].state = "active"
                      /\ records[r].request.phase = payload.phase
                      /\ Visible(records[r], hkTurn[session], payload.child)}
  OBVIOUS
<1>7. active \in SUBSET (1 .. n) /\ \A r \in active : records[r].state = "active"
  BY <1>5, <1>6
<1>8. PICK rank : rank = [r \in active |-> SourcePrecedence(records[r].request.source)]
  OBVIOUS
<1>9. \A r \in active : rank[r] \in 0 .. 4
  BY <1>5, <1>7, <1>8, SourceRanks
<1>10. PICK todo : todo = InOrder(active, rank)
  OBVIOUS
<1>11. PICK k \in Nat : /\ todo \in [1 .. k -> active]
                        /\ \A i, j \in 1 .. k : i <= j => rank[todo[i]] <= rank[todo[j]]
  <2>1. \E k \in Nat :
           /\ InOrder(active, rank) \in [1 .. k -> active]
           /\ \A i, j \in 1 .. k : i # j => InOrder(active, rank)[i] # InOrder(active, rank)[j]
           /\ \A x \in active : \E i \in 1 .. k : InOrder(active, rank)[i] = x
           /\ \A i, j \in 1 .. k : i <= j => rank[InOrder(active, rank)[i]] <= rank[InOrder(active, rank)[j]]
    BY <1>7, <1>9, InOrderFacts
  <2> QED BY <1>10, <2>1
<1>12. todo \in Seq(Nat) /\ DOMAIN todo = 1 .. k /\ \A i \in 1 .. k : todo[i] \in active
  <2>1. todo \in Seq(active) /\ DOMAIN todo = 1 .. k
    BY <1>11, FunctionIsSeq
  <2>2. \A i \in 1 .. k : todo[i] \in active /\ todo[i] \in Nat
    <3>1. \A i \in 1 .. k : todo[i] \in active
      BY <1>11
    <3>2. \A r \in active : r \in Nat
      BY <1>7
    <3> QED BY <3>1, <3>2
  <2>3. todo \in [1 .. k -> Nat]
    BY <1>11, <2>2
  <2> QED BY <2>1, <2>2, <2>3, FunctionIsSeq
<1>13. PICK run : run = [session |-> session, phase |-> payload.phase, todo |-> todo, used |-> <<>>]
  OBVIOUS
<1>14. run \in HkRuns /\ run.todo = todo /\ run.used = <<>>
  <2>1. payload.phase \in {"PreToolUse", "Stop"}
    BY HkAssumption
  <2> QED BY <1>12, <1>13, <2>1 DEF HkRuns
<1>15. hkDispatch' = [hkDispatch EXCEPT ![d] = run] /\ hkTurn' = hkTurn
  BY <1>1, <1>6, <1>8, <1>10, <1>13 DEF BeginDispatch, InOrderOfPrecedence
<1>16. Names(run) \subseteq active
  BY <1>12, <1>14 DEF Names
<1>17. /\ hkDispatch \in [HkDispatchers -> HkRuns]
       /\ \A e \in HkDispatchers : Names(hkDispatch[e]) \subseteq 1 .. Len(hkRecords)
  BY DEF HkInd, HkTyped
<1>18. /\ hkDispatch' \in [HkDispatchers -> HkRuns]
       /\ hkDispatch'[d] = run
       /\ \A e \in HkDispatchers : e # d => hkDispatch'[e] = hkDispatch[e]
  BY <1>14, <1>15, <1>17
<1>19. Len(hkRecords') = n /\ Len(hkRecords) \in Nat /\ Len(hkRecords) <= n
  BY <1>2, <1>4, <1>5 DEF RecordsKept, HkInd, HkTyped
<1>20. HkTyped'
  <2>1. ASSUME NEW e \in HkDispatchers PROVE Names(hkDispatch'[e]) \subseteq 1 .. n
    <3>1. CASE e = d
      BY <1>7, <1>16, <1>18, <3>1
    <3>2. CASE e # d
      BY <1>17, <1>18, <1>19, <3>2
    <3> QED BY <3>1, <3>2
  <2>2. hkTurn' \in [HkSessions -> Nat]
    BY <1>15 DEF HkInd, HkTyped
  <2> QED BY <1>18, <1>19, <2>1, <2>2, <1>4 DEF HkTyped, RecordsKept
<1>21. ASSUME NEW e \in HkDispatchers PROVE Ranked(hkDispatch[e])'
  <2>1. PICK r : r = hkDispatch'[e]
    OBVIOUS
  <2>2. CASE e # d
    <3>1. Names(r) \subseteq 1 .. Len(hkRecords) /\ Ranked(r)
      BY <1>17, <1>18, <2>1, <2>2 DEF HkInd
    <3>2. Ranked(r)'
      BY <1>4, <3>1, RankedKept DEF RecordsKept
    <3> QED BY <2>1, <3>2
  <2>3. CASE e = d
    <3>1. r.todo = todo /\ r.used = <<>>
      BY <1>14, <1>18, <2>1, <2>3
    <3>2. \A x \in active : SourceOf(x)' = rank[x]
      BY <1>2, <1>8 DEF SourceOf
    <3>3. \A i, j \in 1 .. k : i <= j => SourceOf(todo[i])' <= SourceOf(todo[j])'
      BY <1>11, <1>12, <3>2
    <3>4. Ranked(r)'
      BY <1>12, <3>1, <3>3 DEF Ranked
    <3> QED BY <2>1, <3>4
  <2> QED BY <2>2, <2>3
<1>22. HkOnce'
  <2>1. ASSUME NEW r \in 1 .. Len(hkRecords'), hkFired'[r] # 0, hkRecords'[r].request.once
        PROVE  /\ r \in 1 .. Len(hkRecords)
               /\ hkRecords'[r].request = hkRecords[r].request
               /\ hkRecords'[r].state = "active" => hkRecords[r].state = "active"
               /\ hkFired'[r] = hkFired[r]
               /\ Holders(r)' \subseteq Holders(r)
    <3>1. /\ r \in 1 .. Len(hkRecords)
          /\ hkRecords'[r].request = hkRecords[r].request
          /\ hkRecords'[r].state = "active" => hkRecords[r].state = "active"
          /\ hkFired'[r] = hkFired[r]
      BY <1>4, <2>1 DEF RecordsKept
    <3>2. hkRecords[r].state # "active"
      BY <2>1, <3>1 DEF HkInd, HkOnce
    <3>3. r \notin Names(run)
      BY <1>2, <1>7, <1>16, <3>1, <3>2
    <3>4. Holders(r)' \subseteq Holders(r)
      BY <1>18, <3>3 DEF Holders
    <3> QED BY <3>1, <3>4
  <2>2. HkOnce /\ HkTyped /\ hkFired' \in Seq(Nat) /\ Len(hkFired') = Len(hkRecords') /\ Len(hkRecords') \in Nat
    BY <1>4, <1>19 DEF HkInd, RecordsKept
  <2> QED BY <2>1, <2>2, OnceKept
<1> QED BY <1>4, <1>20, <1>21, <1>22 DEF HkInd, RecordsKept

\* A dispatch that ends used each of its one-shot records once more and holds none.
LEMMA HkFinishDispatch ==
  ASSUME HkInd, NEW d \in HkDispatchers, FinishDispatch(d)
  PROVE  HkInd'
<1>1. PICK run \in HkRuns : /\ run = hkDispatch[d] /\ Names(run) \subseteq 1 .. Len(hkRecords)
                            /\ Ranked(run)
  BY RunFacts
<1>2. PICK n \in Nat : n = Len(hkRecords) /\ n = Len(hkFired) /\ DOMAIN hkFired = 1 .. n
  BY DEF HkInd, HkTyped
<1>3. PICK once : once = UsedOnce(run)
  OBVIOUS
<1>4. \A r \in once : hkRecords[r].request.once /\ r \in Names(run)
  BY <1>3 DEF UsedOnce, Names
<1>5. /\ hkRecords' = WithState(once, "expired")
      /\ hkDispatch' = [hkDispatch EXCEPT ![d] = NoDispatch]
      /\ hkFired' = [r \in DOMAIN hkFired |-> IF r \in once THEN hkFired[r] + 1 ELSE hkFired[r]]
      /\ hkTurn' = hkTurn
  BY <1>1, <1>3 DEF FinishDispatch
<1>6. /\ hkRecords' \in Seq(HkRecordSet) /\ Len(hkRecords') = n
      /\ \A r \in 1 .. n :
              /\ hkRecords'[r].request = hkRecords[r].request
              /\ hkRecords'[r].state
                   = IF r \in once /\ hkRecords[r].state = "active" THEN "expired" ELSE hkRecords[r].state
  BY <1>2, <1>5, WithStateFacts DEF HkInd
<1>7. Settled
  BY <1>5, WithStateSettles DEF HkInd
<1>8. /\ HkCopied'
      /\ \A r \in 1 .. n : hkRecords'[r].parent \in 0 .. n
  BY <1>6, <1>7, SettledKeeps
<1>9. hkFired' \in Seq(Nat) /\ Len(hkFired') = n
      /\ \A r \in 1 .. n : hkFired'[r] = IF r \in once THEN hkFired[r] + 1 ELSE hkFired[r]
  <2>1. \A r \in 1 .. n : hkFired[r] \in Nat
    BY <1>2 DEF HkInd, HkTyped
  <2>2. hkFired' \in [1 .. n -> Nat]
    BY <1>2, <1>5, <2>1
  <2> QED BY <1>2, <1>5, <2>2, FunctionIsSeq
<1>10. /\ hkDispatch \in [HkDispatchers -> HkRuns]
       /\ \A e \in HkDispatchers : Names(hkDispatch[e]) \subseteq 1 .. n
  BY <1>2 DEF HkInd, HkTyped
<1>11. /\ hkDispatch' \in [HkDispatchers -> HkRuns]
       /\ hkDispatch'[d] = NoDispatch
       /\ \A e \in HkDispatchers : e # d => hkDispatch'[e] = hkDispatch[e]
  BY <1>5, <1>10, NoDispatchFacts
<1>12. HkTyped'
  <2>1. \A e \in HkDispatchers : Names(hkDispatch'[e]) \subseteq 1 .. n
    BY <1>10, <1>11, NoDispatchFacts
  <2>2. hkTurn' \in [HkSessions -> Nat]
    BY <1>5 DEF HkInd, HkTyped
  <2> QED BY <1>6, <1>8, <1>9, <1>11, <2>1, <2>2 DEF HkTyped
<1>13. ASSUME NEW e \in HkDispatchers PROVE Ranked(hkDispatch[e])'
  <2>1. PICK r : r = hkDispatch'[e]
    OBVIOUS
  <2>2. Names(r) \subseteq 1 .. Len(hkRecords) /\ Ranked(r)
    BY <1>2, <1>10, <1>11, <2>1, NoDispatchFacts DEF HkInd
  <2>3. Ranked(r)'
    BY <1>2, <1>6, <2>2, RankedKept
  <2> QED BY <2>1, <2>3
<1>14. \A r : Holders(r)' = Holders(r) \ {d}
  BY <1>11, NoDispatchFacts DEF Holders
<1>15. HkOnce'
  <2>1. SUFFICES ASSUME NEW r \in 1 .. n, hkRecords[r].request.once
                 PROVE  /\ hkRecords'[r].state = "active" => hkFired'[r] = 0
                        /\ hkFired'[r] + Cardinality(Holders(r)') <= Cardinality(HkDispatchers)
    BY <1>6 DEF HkOnce
  <2>2. /\ hkRecords[r].state = "active" => hkFired[r] = 0
        /\ hkFired[r] + Cardinality(Holders(r)) <= Cardinality(HkDispatchers)
    BY <1>2, <2>1 DEF HkInd, HkOnce
  <2>3. IsFiniteSet(HkDispatchers) /\ Cardinality(HkDispatchers) \in Nat
    BY HkAssumption, FS_CardinalityType
  <2>4. IsFiniteSet(Holders(r)) /\ Cardinality(Holders(r)) \in Nat
    <3>1. Holders(r) \in SUBSET HkDispatchers
      BY DEF Holders
    <3> QED BY <2>3, <3>1, FS_Subset, FS_CardinalityType
  <2>5. Cardinality(Holders(r) \ {d})
          = IF d \in Holders(r) THEN Cardinality(Holders(r)) - 1 ELSE Cardinality(Holders(r))
    BY <2>4, FS_RemoveElement
  <2>6. Holders(r)' = Holders(r) \ {d}
    BY <1>14
  <2>7. hkFired[r] \in Nat
    BY <1>2 DEF HkInd, HkTyped
  <2>8. CASE r \in once
    <3>1. d \in Holders(r)
      BY <1>1, <1>4, <2>8 DEF Holders
    <3>2. hkFired'[r] = hkFired[r] + 1 /\ hkRecords'[r].state # "active"
      BY <1>6, <1>9, <2>8
    <3> QED BY <2>2, <2>3, <2>4, <2>5, <2>6, <2>7, <3>1, <3>2
  <2>9. CASE r \notin once
    <3>1. hkFired'[r] = hkFired[r] /\ hkRecords'[r].state = hkRecords[r].state
      BY <1>6, <1>9, <2>9
    <3> QED BY <2>2, <2>3, <2>4, <2>5, <2>6, <2>7, <3>1
  <2> QED BY <2>8, <2>9
<1> QED BY <1>8, <1>12, <1>13, <1>15 DEF HkInd

LEMMA HkInitial ==
  ASSUME HkInit
  PROVE  HkInd
<1>1. hkRecords = <<>> /\ hkFired = <<>>
  BY DEF HkInit
<1>2. \A d \in HkDispatchers : hkDispatch[d] = NoDispatch
  BY DEF HkInit
<1>3. hkDispatch \in [HkDispatchers -> HkRuns]
  BY NoDispatchFacts DEF HkInit
<1>4. hkTurn \in [HkSessions -> Nat]
  BY DEF HkInit
<1>5. HkTyped
  BY <1>1, <1>2, <1>3, <1>4, NoDispatchFacts DEF HkTyped
<1>6. \A d \in HkDispatchers : Ranked(hkDispatch[d])
  BY <1>2, NoDispatchFacts
<1>7. Len(hkRecords) = 0
  BY <1>1
<1>8. HkCopied /\ HkOnce
  BY <1>7 DEF HkCopied, HkOnce
<1> QED BY <1>5, <1>6, <1>8 DEF HkInd

LEMMA HkStep ==
  ASSUME HkInd, [HkNext]_hkVars
  PROVE  HkInd'
<1>1. CASE UNCHANGED hkVars
  <2>1. /\ hkRecords' = hkRecords /\ hkFired' = hkFired /\ hkTurn' = hkTurn /\ hkDispatch' = hkDispatch
    BY <1>1 DEF hkVars
  <2> QED BY <2>1 DEF HkInd, HkTyped, HkCopied, CopyOf, HkOnce, Holders, Ranked, SourceOf
<1>2. CASE HkNext
  <2>1. ASSUME NEW request \in HkRequests, NEW session \in HkSessions, NEW turn \in {None, hkTurn[session]},
               RegisterRequest(request, session, turn)
        PROVE  HkInd'
    BY <2>1, HkRegister
  <2>2. ASSUME BindCallback PROVE HkInd'
    <3>1. hkRecords' = hkRecords /\ hkFired' = hkFired /\ hkTurn' = hkTurn /\ hkDispatch' = hkDispatch
      BY <2>2 DEF BindCallback
    <3> QED BY <3>1 DEF HkInd, HkTyped, HkCopied, CopyOf, HkOnce, Holders, Ranked, SourceOf
  <2>3. ASSUME NEW session \in HkSessions, OpenSession(session) PROVE HkInd'
    BY <2>3, HkOpenSession
  <2>4. ASSUME NEW session \in HkSessions,
               ReleaseOwner(session) \/ ClearSession(session) \/ ReleaseTurn(session)
        PROVE  HkInd'
    BY <2>4, HkReleases
  <2>5. ASSUME NEW r \in DOMAIN hkRecords, ReleaseRegistration(r) PROVE HkInd'
    BY <2>5, HkReleaseRegistration
  <2>6. ASSUME NEW d \in HkDispatchers, NEW session \in HkSessions, NEW payload \in HkPayloads,
               BeginDispatch(d, session, payload)
        PROVE  HkInd'
    BY <2>6, HkBeginDispatch
  <2>7. ASSUME NEW d \in HkDispatchers, HandlerReturns(d) PROVE HkInd'
    BY <2>7, HkHandlerReturns
  <2>8. ASSUME NEW d \in HkDispatchers, HandlerFails(d) PROVE HkInd'
    BY <2>8, HkHandlerFails
  <2>9. ASSUME NEW d \in HkDispatchers, DispatchCancelled(d) PROVE HkInd'
    BY <2>9, HkDispatchCancelled
  <2>10. ASSUME NEW d \in HkDispatchers, FinishDispatch(d) PROVE HkInd'
    BY <2>10, HkFinishDispatch
  <2> QED BY <1>2, <2>1, <2>2, <2>3, <2>4, <2>5, <2>6, <2>7, <2>8, <2>9, <2>10, Zenon DEF HkNext
<1> QED BY <1>1, <1>2

\* The strongest disposition is at least as strong as every other.
LEMMA StrongestStop ==
  ASSUME NEW used \in Seq(HkEffects), NEW phase \in {"PreToolUse", "Stop"}, NEW i \in DOMAIN used
  PROVE  /\ AggregateStop(used, phase) \in {"allow", "continue", "block", "halt"}
         /\ StopRank(DispositionOf(used[i], phase)) <= StopRank(AggregateStop(used, phase))
         /\ DispositionOf(used[i], phase) \in {"none", "continue", "block", "halt"}
<1>1. PICK given : given = {"allow"} \cup ({DispositionOf(used[j], phase) : j \in DOMAIN used} \ {"none"})
  OBVIOUS
<1>2. \A j \in DOMAIN used : DispositionOf(used[j], phase) \in {"none", "continue", "block", "halt"}
  <2> TAKE j \in DOMAIN used
  <2>1. used[j] \in HkEffects
    OBVIOUS
  <2>2. used[j].stop \in {"none", "continue", "halt"}
    BY <2>1 DEF HkEffects
  <2> QED BY <2>2 DEF DispositionOf
<1>3. given \subseteq {"allow", "continue", "block", "halt"} /\ "allow" \in given
  BY <1>1, <1>2
<1>4. /\ StopRank("none") = 0 /\ StopRank("allow") = 0 /\ StopRank("continue") = 1
      /\ StopRank("block") = 2 /\ StopRank("halt") = 3
  BY DEF StopRank
<1>5. \E stop \in given : \A other \in given : StopRank(other) <= StopRank(stop)
  BY <1>3, <1>4
<1>6. PICK stop : stop = AggregateStop(used, phase)
  OBVIOUS
<1>7. stop \in given /\ \A other \in given : StopRank(other) <= StopRank(stop)
  BY <1>1, <1>5, <1>6 DEF AggregateStop
<1>8. StopRank(DispositionOf(used[i], phase)) <= StopRank(stop)
  <2>1. CASE DispositionOf(used[i], phase) = "none"
    BY <1>3, <1>4, <1>7, <2>1
  <2>2. CASE DispositionOf(used[i], phase) # "none"
    BY <1>1, <1>7, <2>2
  <2> QED BY <2>1, <2>2
<1> QED BY <1>2, <1>3, <1>6, <1>7, <1>8

\* The rewrite that is returned is the last one.
LEMMA LastRewrite ==
  ASSUME NEW used \in Seq(HkEffects), NEW phase, NEW i \in DOMAIN used, used[i].input
  PROVE  \E k \in DOMAIN used : i <= k /\ AggregateDispatchResult(used, phase).input = used[k].name
<1>1. PICK n \in Nat : DOMAIN used = 1 .. n
  OBVIOUS
<1>2. PICK rewrites : rewrites = {j \in DOMAIN used : used[j].input}
  OBVIOUS
<1>3. i \in rewrites /\ rewrites \in SUBSET (1 .. n)
  BY <1>1, <1>2
<1> DEFINE Backs == {b \in Nat : \E j \in rewrites : b = n - j}
<1>4. n - i \in Backs /\ Backs \in SUBSET Nat
  BY <1>3
<1>5. PICK b \in Backs : \A c \in Backs : b <= c
  BY <1>4, LeastNatural
<1>6. PICK l \in rewrites : b = n - l
  BY <1>5
<1>7. \A j \in rewrites : j <= l
  <2> TAKE j \in rewrites
  <2>1. n - j \in Backs
    BY <1>3
  <2> QED BY <1>3, <1>5, <1>6, <2>1
<1>8. PICK k : k = CHOOSE x \in rewrites : \A j \in rewrites : j <= x
  OBVIOUS
<1>9. k \in rewrites /\ \A j \in rewrites : j <= k
  BY <1>6, <1>7, <1>8
<1>10. AggregateDispatchResult(used, phase).input = used[k].name
  BY <1>2, <1>3, <1>8 DEF AggregateDispatchResult
<1> QED BY <1>2, <1>3, <1>9, <1>10

LEMMA HkIndSafe ==
  ASSUME HkInd
  PROVE  HookSafe
<1>1. PICK n \in Nat : n = Len(hkRecords) /\ DOMAIN hkRecords = 1 .. n /\ DOMAIN hkFired = 1 .. n
  BY DEF HkInd, HkTyped
<1>2. \A r \in 1 .. n : hkRecords[r] \in HkRecordSet
  BY <1>1 DEF HkInd, HkTyped
<1>3. \A r \in 1 .. n : hkRecords[r].parent \in 0 .. n
  BY <1>1 DEF HkInd, HkTyped
<1>4. ASSUME NEW d \in HkDispatchers
      PROVE  /\ hkDispatch[d] \in HkRuns /\ Names(hkDispatch[d]) \subseteq 1 .. n
             /\ Ranked(hkDispatch[d])
  BY <1>1, RunFacts
<1>5. HkTypeOK
  <2>1. \A r \in DOMAIN hkRecords :
          /\ hkRecords[r].state \in {"pending", "active", "released", "expired", "rejected"}
          /\ hkRecords[r].session \in HkSessions \cup {None}
          /\ hkRecords[r].parent \in DOMAIN hkRecords \cup {None}
    BY <1>1, <1>2, <1>3 DEF HkRecordSet, None
  <2>2. ASSUME NEW d \in HkDispatchers PROVE ToSet(hkDispatch[d].todo) \subseteq DOMAIN hkRecords
    BY <1>1, <1>4 DEF Names, ToSet
  <2> QED BY <1>1, <2>1, <2>2 DEF HkTypeOK
<1>6. TemplatesAreCopiedOnce
  <2>1. ASSUME NEW t \in 1 .. n, NEW a \in Copies(t)
        PROVE  a \in 1 .. n /\ hkRecords[a].parent = t /\ CopyOf(a, t)
    <3>1. a \in 1 .. n /\ hkRecords[a].parent = t
      BY <1>1 DEF Copies
    <3>2. t # None
      BY DEF None
    <3> QED BY <1>1, <3>1, <3>2 DEF HkInd, HkCopied
  <2>2. ASSUME NEW t \in 1 .. n, NEW a \in Copies(t), NEW b \in Copies(t),
               hkRecords[a].session = hkRecords[b].session
        PROVE  a = b
    BY <1>1, <2>1, <2>2 DEF CopyOf
  <2>3. ASSUME NEW t \in 1 .. n, hkRecords[t].state = "released", NEW copy \in Copies(t)
        PROVE  hkRecords[copy].state # "active"
    BY <2>1, <2>3 DEF CopyOf
  <2> QED BY <1>1, <2>2, <2>3 DEF TemplatesAreCopiedOnce
<1>7. OnceIsBounded
  <2>1. ASSUME NEW r \in 1 .. n, hkRecords[r].request.once
        PROVE  hkFired[r] <= Cardinality(HkDispatchers)
    <3>1. hkFired[r] + Cardinality(Holders(r)) <= Cardinality(HkDispatchers)
      BY <1>1, <2>1 DEF HkInd, HkOnce
    <3>2. hkFired[r] \in Nat
      BY <1>1 DEF HkInd, HkTyped
    <3>3. Holders(r) \in SUBSET HkDispatchers
      BY DEF Holders
    <3>4. Cardinality(HkDispatchers) \in Nat /\ Cardinality(Holders(r)) \in Nat
      BY <3>3, HoldersCount, HkAssumption
    <3> QED BY <3>1, <3>2, <3>4
  <2> QED BY <1>1, <2>1 DEF OnceIsBounded
<1>8. HighestSourceWins
  <2>1. SUFFICES ASSUME NEW d \in Answering, NEW i \in DOMAIN hkDispatch[d].used, hkDispatch[d].used[i].input
                 PROVE  SourceOf(hkDispatch[d].used[i].name) <= SourceOf(ResultOf(d).input)
    BY DEF HighestSourceWins
  <2>2. d \in HkDispatchers
    BY DEF Answering
  <2>3. PICK run \in HkRuns : run = hkDispatch[d] /\ Ranked(run)
    BY <1>4, <2>2
  <2>4. run.used \in Seq(HkEffects)
    BY DEF HkRuns
  <2>5. PICK k \in DOMAIN run.used :
          i <= k /\ AggregateDispatchResult(run.used, run.phase).input = run.used[k].name
    BY <2>1, <2>3, <2>4, LastRewrite
  <2>6. SourceOf(run.used[i].name) <= SourceOf(run.used[k].name)
    BY <2>1, <2>3, <2>5 DEF Ranked
  <2> QED BY <2>3, <2>5, <2>6 DEF ResultOf
<1>9. VetoStands
  <2>1. SUFFICES ASSUME NEW d \in Answering, NEW i \in DOMAIN hkDispatch[d].used
                 PROVE  /\ /\ ~hkDispatch[d].used[i].go
                           /\ hkDispatch[d].used[i].stop # "continue"
                           => ~ResultOf(d).go
                        /\ hkDispatch[d].used[i].stop = "halt" => ResultOf(d).stop = "halt"
    BY DEF VetoStands
  <2>2. d \in HkDispatchers
    BY DEF Answering
  <2>3. PICK run \in HkRuns : run = hkDispatch[d]
    BY <1>4, <2>2
  <2>4. run.used \in Seq(HkEffects) /\ run.phase \in {"PreToolUse", "Stop"}
    BY DEF HkRuns
  <2>5. PICK effect \in HkEffects : effect = run.used[i]
    BY <2>1, <2>3, <2>4
  <2>6. effect.stop \in {"none", "continue", "halt"} /\ effect.go \in BOOLEAN
    BY DEF HkEffects
  <2>7. PICK stop : stop = AggregateStop(run.used, run.phase)
    OBVIOUS
  <2>8. /\ stop \in {"allow", "continue", "block", "halt"}
        /\ StopRank(DispositionOf(effect, run.phase)) <= StopRank(stop)
    BY <2>1, <2>3, <2>4, <2>5, <2>7, StrongestStop
  <2>9. /\ ResultOf(d).go = IF run.phase = "Stop" THEN stop \notin {"block", "halt"}
                            ELSE \A j \in DOMAIN run.used : run.used[j].go
        /\ ResultOf(d).stop = stop
    BY <2>3, <2>7 DEF ResultOf, AggregateDispatchResult
  <2>10. /\ StopRank("allow") = 0 /\ StopRank("continue") = 1
         /\ StopRank("block") = 2 /\ StopRank("halt") = 3
    BY DEF StopRank
  <2>11. effect.stop = "halt" => stop = "halt"
    <3>1. effect.stop = "halt" => DispositionOf(effect, run.phase) = "halt"
      BY DEF DispositionOf
    <3> QED BY <2>8, <2>10, <3>1
  <2>12. ASSUME ~effect.go, effect.stop # "continue" PROVE ~ResultOf(d).go
    <3>1. CASE run.phase = "Stop"
      <4>1. DispositionOf(effect, run.phase) \in {"block", "halt"}
        BY <2>6, <2>12, <3>1 DEF DispositionOf
      <4>2. stop \in {"block", "halt"}
        BY <2>8, <2>10, <4>1
      <4> QED BY <2>9, <3>1, <4>2
    <3>2. CASE run.phase # "Stop"
      BY <2>1, <2>3, <2>5, <2>9, <2>12, <3>2
    <3> QED BY <3>1, <3>2
  <2> QED BY <2>3, <2>5, <2>9, <2>11, <2>12
<1> QED BY <1>5, <1>6, <1>7, <1>8, <1>9 DEF HookSafe

THEOREM HookSafety == HkSpec => []HookSafe
<1>1. HkInit => HkInd
  BY HkInitial
<1>2. HkInd /\ [HkNext]_hkVars => HkInd'
  BY HkStep
<1>3. HkInd => HookSafe
  BY HkIndSafe
<1> QED BY <1>1, <1>2, <1>3, PTL DEF HkSpec
=================================================================================
