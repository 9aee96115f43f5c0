----------------------------- MODULE ToolCalls -----------------------------
(***************************************************************************)
(* The tool executor of one model attempt (tool_orchestration.py,          *)
(* tool_executors.py, tool_resolution.py): the tool calls of one assistant *)
(* message are observed in order, resolved (policy, validation, hooks and  *)
(* permissions), scheduled as asyncio tasks that wait for the earlier      *)
(* calls whose lane overlaps theirs, executed, cancelled by an interrupt   *)
(* or by a failing sibling, and replayed in order once all have ended.     *)
(*                                                                         *)
(* A step is what the event loop runs between two awaits.  A task that is  *)
(* cancelled before its first step never enters its body, and cancelling   *)
(* a task that waits in asyncio.gather cancels what it gathers; both are   *)
(* modelled, because both decide which calls get an outcome.               *)
(***************************************************************************)
EXTENDS Naturals, Sequences, FiniteSets

CONSTANTS
    Call,          \* the tool_use ids a message may hold
    Safe,          \* calls whose tool is concurrency_safe
    ReadOnly,      \* calls whose tool is read_only
    Paths,         \* Paths[c]: conflict keys of the target paths
    Refused,       \* calls that resolve to denied or invalid
    Fatal,         \* calls whose failure_mode is FATAL
    CancelRunning, \* ... with cancel_running_siblings
    BlockQueued,   \* ... with block_queued_siblings
    AbortStream,   \* ... with abort_model_stream
    Interruptible  \* calls whose interrupt_behavior is CANCEL

ASSUME ToolAssumption ==
    /\ IsFiniteSet(Call)
    /\ Safe \subseteq Call /\ ReadOnly \subseteq Call /\ Refused \subseteq Call
    /\ Fatal \subseteq Call /\ CancelRunning \subseteq Fatal
    /\ BlockQueued \subseteq Fatal /\ AbortStream \subseteq Fatal
    /\ Interruptible \subseteq Call
    /\ \E Keys \in SUBSET UNION {Paths[c] : c \in Call} : Paths \in [Call -> SUBSET Keys]

VARIABLES
    tcObserved,   \* the calls observed by the orchestrator, in replay order
    tcResolving,  \* the call resolve_tool_call is awaited for, as a set
    tcTask,       \* tcTask[c]: where the asyncio task of c is
    tcDeps,       \* tcDeps[c]: the calls whose tasks c gathers before it starts
    tcCancel,     \* tasks with a cancellation that is not delivered yet
    tcOutcome,    \* tcOutcome[c]: the recorded status, or "none"
    tcStage,      \* tcStage[c]: the projected lifecycle stage
    tcReason      \* reason on the abort signal and on the tool context

tcVars == <<tcObserved, tcResolving, tcTask, tcDeps, tcCancel, tcOutcome, tcStage, tcReason>>

TaskStates == {"none", "created", "waiting", "running", "done"}
Outcomes == {"none", "success", "error", "denied", "cancelled"}
Stages == {"none", "observed", "resolving", "queued", "resolved_non_executable", "running",
           "terminal_pending_replay", "replayed", "illegal"}
Reasons == {"none", "interrupt", "tool_failure"}

Elems(s) == {s[i] : i \in 1 .. Len(s)}
Live == {c \in Call : tcTask[c] \in {"created", "waiting", "running"}}

----
(* Lanes *)

LaneKind(c) ==
    CASE c \notin Safe -> "exclusive"
      [] c \in Safe /\ Paths[c] # {} -> "conflict"
      [] c \in Safe /\ Paths[c] = {} /\ c \in ReadOnly -> "concurrent"
      [] OTHER -> "exclusive"

\* Mutant: an exclusive lane excludes only exclusive ones.
LanesOverlapIfBothExclusive(c, d) ==
    \/ LaneKind(c) = "exclusive" /\ LaneKind(d) = "exclusive"
    \/ Paths[c] \cap Paths[d] # {}

LanesOverlap(c, d) ==
    \/ "exclusive" \in {LaneKind(c), LaneKind(d)}
    \/ /\ "concurrent" \notin {LaneKind(c), LaneKind(d)}
       /\ Paths[c] \cap Paths[d] # {}

\* Mutant: the call waits for itself.
DependenciesWithSelf(c) == {d \in Live \cup {c} : LanesOverlap(d, c)}

\* The tasks a new call has to wait for: earlier, unfinished, overlapping.
Dependencies(c) == {d \in Live : LanesOverlap(d, c)}

----
(* The lifecycle stage, projected from the events; anything else raises. *)

Project(stage, event) ==
    CASE event = "envelope_observed" /\ stage = "none" -> "observed"
      [] event = "resolution_started" /\ stage = "observed" -> "resolving"
      [] event = "resolved_executable" /\ stage = "resolving" -> "queued"
      [] event = "resolved_refused" /\ stage = "resolving" -> "resolved_non_executable"
      [] event = "execution_queued" /\ stage = "queued" -> "queued"
      [] event = "execution_started" /\ stage = "queued" -> "running"
      [] event = "outcome_recorded"
            /\ stage \in {"running", "queued", "resolved_non_executable"}
            -> "terminal_pending_replay"
      [] event = "replay_committed" /\ stage = "terminal_pending_replay" -> "replayed"
      [] OTHER -> "illegal"

----
(* Cancellation *)

(* task.cancel() on every task of S: a task suspended in its gather passes *)
(* the cancellation on to the tasks it gathers.                            *)
CancelledWith(S) ==
    LET reach[n \in Nat] ==
            IF n = 0 THEN S
            ELSE reach[n - 1] \cup
                 UNION {tcDeps[c] : c \in {d \in reach[n - 1] : tcTask[d] = "waiting"}}
    IN  reach[Cardinality(Call)] \cap Live

(* The siblings a failed call takes down (_maybe_cascade_failure); the     *)
(* failed call itself is about to end and is left out.                     *)
Cascade(c) ==
    {d \in Live \ {c} : IF tcTask[d] = "running" THEN c \in CancelRunning
                                                 ELSE c \in BlockQueued}

----
(* The handlers *)

ToolsFresh ==
    /\ tcObserved = <<>>
    /\ tcResolving = {}
    /\ tcTask = [c \in Call |-> "none"]
    /\ tcDeps = [c \in Call |-> {}]
    /\ tcCancel = {}
    /\ tcOutcome = [c \in Call |-> "none"]
    /\ tcStage = [c \in Call |-> "none"]
    /\ tcReason = "none"

(* A new attempt gets a new executor, tool context and abort signal. *)
SelectToolExecutor ==
    /\ tcObserved' = <<>>
    /\ tcResolving' = {}
    /\ tcTask' = [c \in Call |-> "none"]
    /\ tcDeps' = [c \in Call |-> {}]
    /\ tcCancel' = {}
    /\ tcOutcome' = [c \in Call |-> "none"]
    /\ tcStage' = [c \in Call |-> "none"]
    /\ tcReason' = "none"

\* Mutant: a call is handed over twice.
MarkObservedAgain(c) == TRUE

\* _mark_observed: a tool_use id is handed to the orchestrator once.
MarkObserved(c) == c \notin Elems(tcObserved)

(* observe_tool_call up to the await of resolve_tool_call. *)
ObserveToolCall(c) ==
    /\ tcResolving = {}
    /\ tcResolving' = {c}
    /\ tcObserved' = Append(tcObserved, c)
    /\ tcStage' = [tcStage EXCEPT ![c] = Project(Project(@, "envelope_observed"),
                                                 "resolution_started")]
    /\ UNCHANGED <<tcTask, tcDeps, tcCancel, tcOutcome, tcReason>>

(* The rest of observe_tool_call: a refused call gets its outcome here, an *)
(* executable one its lane, its dependencies and its task.                 *)
ResolveToolCall(c) ==
    /\ c \in tcResolving
    /\ tcResolving' = {}
    /\ IF c \in Refused
       THEN /\ tcOutcome' = [tcOutcome EXCEPT ![c] = "denied"]
            /\ tcStage' = [tcStage EXCEPT ![c] =
                              Project(Project(@, "resolved_refused"), "outcome_recorded")]
            /\ UNCHANGED <<tcTask, tcDeps>>
       ELSE /\ tcDeps' = [tcDeps EXCEPT ![c] = Dependencies(c)]
            /\ tcTask' = [tcTask EXCEPT ![c] = "created"]
            /\ tcStage' = [tcStage EXCEPT ![c] =
                              Project(Project(@, "resolved_executable"), "execution_queued")]
            /\ UNCHANGED tcOutcome
    /\ UNCHANGED <<tcObserved, tcCancel, tcReason>>

\* Mutant: a cancelled call gets no outcome.
RecordOutcomeUnlessCancelled(c, status) ==
    /\ tcOutcome' = [tcOutcome EXCEPT ![c] = IF status = "cancelled" THEN @ ELSE status]
    /\ tcTask' = [tcTask EXCEPT ![c] = "done"]

RecordOutcome(c, status) ==
    /\ tcOutcome' = [tcOutcome EXCEPT ![c] = status]
    /\ tcTask' = [tcTask EXCEPT ![c] = "done"]

(* The end of _run_scheduled_call: the outcome is recorded and a fatal     *)
(* failure cascades, without an await between the two.                     *)
EndCall(c, status, stage) ==
    /\ RecordOutcome(c, status)
    /\ tcStage' = [tcStage EXCEPT ![c] = Project(stage, "outcome_recorded")]
    /\ IF c \in Fatal /\ status # "success"
       THEN /\ tcCancel' = (tcCancel \cup CancelledWith(Cascade(c))) \ {c}
            /\ tcReason' = IF c \in AbortStream THEN "tool_failure" ELSE tcReason
       ELSE /\ tcCancel' = tcCancel \ {c}
            /\ UNCHANGED tcReason
    /\ UNCHANGED <<tcObserved, tcResolving, tcDeps>>

(* execute_resolved_tool_call: an interruptible tool does not run once an  *)
(* interrupt was requested.                                                *)
StartExecution(c) ==
    LET started == Project(tcStage[c], "execution_started")
    IN  IF tcReason # "none" /\ c \in Interruptible
        THEN EndCall(c, "cancelled", started)
        ELSE /\ tcTask' = [tcTask EXCEPT ![c] = "running"]
             /\ tcStage' = [tcStage EXCEPT ![c] = started]
             /\ UNCHANGED <<tcObserved, tcResolving, tcDeps, tcCancel, tcOutcome, tcReason>>

(* The first step of a task.  Tasks take their first step in the order in  *)
(* which they were created.                                                *)
FirstInLine(c) ==
    /\ tcTask[c] = "created"
    /\ \A i, j \in 1 .. Len(tcObserved) :
          i < j /\ tcObserved[j] = c => tcTask[tcObserved[i]] # "created"

BeginCall(c) ==
    /\ FirstInLine(c)
    /\ c \notin tcCancel
    /\ IF tcDeps[c] = {}
       THEN StartExecution(c)
       ELSE /\ tcTask' = [tcTask EXCEPT ![c] = "waiting"]
            /\ UNCHANGED <<tcObserved, tcResolving, tcDeps, tcCancel, tcOutcome, tcStage,
                           tcReason>>

(* Cancelled before the first step: the body never runs, so neither does   *)
(* its CancelledError handler, and the call ends without an outcome.       *)
CancelUnstarted(c) ==
    /\ FirstInLine(c)
    /\ c \in tcCancel
    /\ tcTask' = [tcTask EXCEPT ![c] = "done"]
    /\ tcCancel' = tcCancel \ {c}
    /\ UNCHANGED <<tcObserved, tcResolving, tcDeps, tcOutcome, tcStage, tcReason>>

DepsDone(c) == tcDeps[c] \cap Live = {}

(* The gather of the dependencies returns. *)
ProceedCall(c) ==
    /\ tcTask[c] = "waiting"
    /\ DepsDone(c)
    /\ c \notin tcCancel
    /\ StartExecution(c)

(* The gather of a cancelled call raises when all it gathers has ended. *)
CancelWaiting(c) ==
    /\ tcTask[c] = "waiting"
    /\ DepsDone(c)
    /\ c \in tcCancel
    /\ EndCall(c, "cancelled", tcStage[c])

(* The tool returns, raises, or exits non-zero. *)
FinishCall(c, status) ==
    /\ tcTask[c] = "running"
    /\ c \notin tcCancel
    /\ EndCall(c, status, tcStage[c])

(* CancelledError reaches the tool. *)
CancelRunningCall(c) ==
    /\ tcTask[c] = "running"
    /\ c \in tcCancel
    /\ EndCall(c, "cancelled", tcStage[c])

(* interrupt() of the engine: signal, tool context and executor. *)
InterruptTools ==
    /\ tcReason' = "interrupt"
    /\ tcCancel' = tcCancel \cup CancelledWith(Live)
    /\ UNCHANGED <<tcObserved, tcResolving, tcTask, tcDeps, tcOutcome, tcStage>>

(* The orchestrator's finalize after its gather: every recorded outcome is *)
(* replayed.                                                               *)
\* Mutant: finalize does not gather the tasks.
AllCallsResolved == tcResolving = {}
AllCallsEnded == Live = {} /\ tcResolving = {}
Answered == {c \in Elems(tcObserved) : tcOutcome[c] # "none"}

ReplayOutcomes ==
    /\ AllCallsEnded
    /\ tcStage' = [c \in Call |-> IF c \in Answered
                                  THEN Project(tcStage[c], "replay_committed")
                                  ELSE tcStage[c]]
    /\ UNCHANGED <<tcObserved, tcResolving, tcTask, tcDeps, tcCancel, tcOutcome, tcReason>>

TaskStep ==
    \E c \in Call :
        \/ ResolveToolCall(c)
        \/ BeginCall(c)
        \/ CancelUnstarted(c)
        \/ ProceedCall(c)
        \/ CancelWaiting(c)
        \/ \E status \in {"success", "error"} : FinishCall(c, status)
        \/ CancelRunningCall(c)

----
(* Properties *)

ToolsTypeOK ==
    /\ tcObserved \in Seq(Call)
    /\ tcResolving \in SUBSET Call
    /\ tcTask \in [Call -> TaskStates]
    /\ tcDeps \in [Call -> SUBSET Call]
    /\ tcCancel \in SUBSET Call
    /\ tcOutcome \in [Call -> Outcomes]
    /\ tcStage \in [Call -> Stages]
    /\ tcReason \in Reasons

(* Calls of one message that run at once, however many siblings were       *)
(* cancelled while they waited, are all safe to run concurrently, know     *)
(* what they touch or only read, and share no path                         *)
(* (_derive_lane, _dependencies_for_lane, _run_scheduled_call).            *)
LanesExclusive ==
    \A c, d \in Call :
        c # d /\ tcTask[c] = "running" /\ tcTask[d] = "running" =>
            /\ {c, d} \subseteq Safe
            /\ c \in ReadOnly \/ Paths[c] # {}
            /\ Paths[c] \cap Paths[d] = {}

(* No sequence of observations, cancellations and replays makes            *)
(* project_lifecycle_stage raise LifecycleTransitionError.                 *)
LifecycleLegal == \A c \in Call : tcStage[c] # "illegal"

(* A tool that was started is answered: once its task is done it has an    *)
(* outcome to replay, so no side effect is missing from the transcript.    *)
StartedIsAnswered ==
    \A c \in Call :
        tcTask[c] = "done" /\ tcOutcome[c] = "none" => tcStage[c] = "queued"
=============================================================================
