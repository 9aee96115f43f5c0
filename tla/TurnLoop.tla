------------------------------ MODULE TurnLoop ------------------------------
(***************************************************************************)
(* One turn of the engine (turn_engine/engine.py, _run_turn_stream_impl):  *)
(* attempts are prepared, streamed or completed, finished, and followed by *)
(* a stop phase or by their tool calls; the recovery policy                *)
(* (turn_engine/control_plane.py) then halts the turn or starts another    *)
(* attempt.  The tool calls of an attempt run as in ToolCalls, as tasks of *)
(* the same event loop, and interrupt() may be called between any two      *)
(* steps.                                                                  *)
(*                                                                         *)
(* The model client, the hooks and the tools are the environment: a stream *)
(* may end in any way, a hook may decide anything its result type allows.  *)
(***************************************************************************)
EXTENDS ToolCalls, TurnMessages

CONSTANTS
    MaxTurns,          \* agent.max_turns
    Failure,           \* the failure classes
    RetryBudget,       \* max_output_limit_retries, max_provider_overload_retries
    CompactionBudget,  \* max_compaction_attempts
    Clients,           \* records of a tool executor tier, an invocation mode and
                       \* the failure classes the client reports
    KeepRecent,        \* keep_recent_messages of the compaction policy
    CompactAbove,      \* max_message_count of the compaction policy
    MaxMessageCalls,   \* bound: tool calls of one message
    MaxHookContinues   \* bound: attempts that only a hook asked for

ASSUME TurnAssumption ==
    /\ MaxTurns \in Nat \ {0}
    /\ KeepRecent \in Nat /\ CompactAbove \in Nat
    /\ RetryBudget \in Nat /\ CompactionBudget \in Nat
    /\ MaxMessageCalls \in Nat /\ MaxHookContinues \in Nat
    /\ Failure \subseteq {"context_limit", "output_limit", "provider_overload",
                          "internal_error"}
    /\ "internal_error" \in Failure
    /\ Clients \subseteq [tier : {"full_streaming", "buffered", "none"},
                         mode : {"stream", "buffered_completion"},
                         failures : SUBSET Failure]

VARIABLES
    tnPhase,        \* where the loop is
    tnClient,       \* the client of the turn
    tnIteration,    \* state.iteration
    tnTranscript,   \* state.working_messages
    tnCalls,        \* tool calls of the message streamed so far
    tnPendingUse,   \* pending_tool_use_closed_at_message_stop
    tnFailure,      \* failure class of the attempt
    tnStop,         \* its stop reason, as far as the policy tells them apart
    tnAbort,        \* its abort reason, captured when the stream ended
    tnForceCompaction, \* the force_compaction flag of the private context
    tnRecovery,     \* retry and compaction counters by failure class
    tnTerminal,     \* the reason of the terminal event, or "none"
    tnHookContinues,
    tnInterrupted   \* when interrupt() was called: "none", "stream" or "other"

turnVars == <<tnPhase, tnClient, tnIteration, tnTranscript, tnCalls, tnPendingUse,
              tnFailure, tnStop, tnAbort, tnForceCompaction, tnRecovery, tnTerminal, tnHookContinues,
              tnInterrupted>>
attemptVars == <<tnCalls, tnPendingUse, tnFailure, tnStop, tnAbort>>
tnVars == <<tcVars, turnVars>>

Tier == tnClient.tier
InvocationMode == tnClient.mode
Phases == {"prepare", "stream", "post_model", "stop", "tools", "terminal"}
TerminalReasons == {"end_turn", "interrupted", "max_turns", "blocked", "prompt_too_long",
                    "incomplete", "error"}
Id(c) == <<tnIteration, c>>

Message(role, uses, results, text) ==
    [role |-> role, uses |-> uses, results |-> results, text |-> text]
UserText == Message("user", {}, {}, TRUE)
SystemText == Message("system", {}, {}, TRUE)

----
(* The recovery policy *)

Halt(reason) == [action |-> "halt", reason |-> reason]
Continue(action) == [action |-> action, reason |-> "none"]

\* Mutant: an unclassified failure has no reason.
TerminalReasonForSilently(failure) ==
    CASE failure = "context_limit" -> "prompt_too_long"
      [] failure = "output_limit" -> "incomplete"
      [] OTHER -> "none"

TerminalReasonFor(failure) ==
    CASE failure = "context_limit" -> "prompt_too_long"
      [] failure = "output_limit" -> "incomplete"
      [] OTHER -> "error"

MayCompact == tnFailure = "context_limit"
              /\ tnRecovery.compactions[tnFailure] < CompactionBudget
MayRetry == tnFailure \in {"output_limit", "provider_overload"}
            /\ tnRecovery.retries[tnFailure] < RetryBudget

\* Mutant: a failure is looked at first.
AttemptInterruptedUnlessFailed == tnAbort = "interrupt" /\ tnFailure = "none"
AttemptInterrupted == tnAbort = "interrupt"

(* DefaultRecoveryPolicy.evaluate on the normalised attempt. *)
Evaluate(maxTurnsExhausted, executorUnavailable, disposition) ==
    IF maxTurnsExhausted THEN Halt("max_turns")
    ELSE IF AttemptInterrupted THEN Halt("interrupted")
    ELSE IF executorUnavailable THEN Halt("blocked")
    ELSE IF tnFailure # "none" THEN
        CASE MayCompact -> Continue("compact_and_retry")
          [] MayRetry /\ tnFailure = "output_limit" -> Continue("retry_with_override")
          [] MayRetry /\ tnFailure = "provider_overload" -> Continue("rebuild_request")
          [] OTHER -> Halt(TerminalReasonFor(tnFailure))
    ELSE IF disposition = "continue_same_turn" THEN Continue("continue_same_turn")
    ELSE IF disposition = "block_session" THEN Halt("blocked")
    ELSE IF tnCalls # <<>> THEN Continue("continue_same_turn")
    ELSE Halt(tnStop)

(* A RecoveryDecision hook can block the turn, and one that merely matched *)
(* turns a halt into a new request.                                        *)
ApplyRecoveryHook(decision, hook) ==
    CASE hook = "blocked" -> Halt("blocked")
      [] hook = "matched" /\ decision.action = "halt" -> Continue("rebuild_request")
      [] OTHER -> decision

\* Mutant: the action is reported.
TerminalReasonAsAction(decision) == decision.action

(* A halted turn without a terminal reason ends as end_turn. *)
TerminalReason(decision) ==
    IF decision.reason = "none" THEN "end_turn" ELSE decision.reason

\* Mutant: the attempt is not counted.
AfterDecisionForgotten(decision) == tnRecovery

AfterDecision(decision) ==
    IF tnFailure = "none" \/ decision.action = "halt" THEN tnRecovery
    ELSE IF decision.action = "compact_and_retry"
         THEN [tnRecovery EXCEPT !.compactions[tnFailure] = @ + 1]
         ELSE [tnRecovery EXCEPT !.retries[tnFailure] = @ + 1]

----
(* Preparing and streaming an attempt *)

(* The turn before this one was interrupted and left its calls unanswered. *)
TurnInit ==
    /\ ToolsFresh
    /\ tnPhase = "prepare"
    /\ tnClient \in Clients
    /\ tnIteration = 0
    /\ tnTranscript = <<Message("assistant", {<<0, c>> : c \in Call}, {}, FALSE), UserText>>
    /\ tnCalls = <<>>
    /\ tnPendingUse = FALSE
    /\ tnFailure = "none" /\ tnStop = "end_turn" /\ tnAbort = "none"
    /\ tnRecovery = [retries |-> [f \in Failure |-> 0], compactions |-> [f \in Failure |-> 0]]
    /\ tnForceCompaction = FALSE
    /\ tnTerminal = "none"
    /\ tnHookContinues = 0
    /\ tnInterrupted = "none"

(* Compaction replaces what lies between the leading system messages and   *)
(* the recent ones by a summary, when the recovery asked for it or the     *)
(* transcript has become too long; nothing pairs the uses and the results  *)
(* that the cut separates until the request is built.                      *)
Compacted(ms) ==
    LET pinned == CHOOSE n \in 0 .. Len(ms) :
                      /\ \A i \in 1 .. n : ms[i].role = "system"
                      /\ n < Len(ms) => ms[n + 1].role # "system"
        cut == Len(ms) - KeepRecent
    IN  IF (tnForceCompaction \/ Len(ms) > CompactAbove) /\ cut > pinned
        THEN SubSeq(ms, 1, pinned) \o <<SystemText>> \o SubSeq(ms, cut + 1, Len(ms))
        ELSE ms

FreshAttempt ==
    /\ tnCalls' = <<>>
    /\ tnPendingUse' = FALSE
    /\ tnFailure' = "none" /\ tnStop' = "end_turn" /\ tnAbort' = "none"
    /\ SelectToolExecutor

PrepareAttempt ==
    /\ tnPhase = "prepare"
    /\ tnPhase' = "stream"
    /\ tnIteration' = tnIteration + 1
    /\ tnTranscript' = Compacted(tnTranscript)
    /\ tnForceCompaction' = FALSE
    /\ FreshAttempt
    /\ UNCHANGED <<tnClient, tnRecovery, tnTerminal, tnHookContinues, tnInterrupted>>

Request == NormalizeMessagesForApi(tnTranscript)

(* The stream delivers a complete tool_use block; a full streaming executor *)
(* is handed the call at once and the stream waits while it is resolved.   *)
StreamToolCall(c) ==
    /\ tnPhase = "stream"
    /\ InvocationMode = "stream"
    /\ tcResolving = {}
    /\ Len(tnCalls) < MaxMessageCalls
    /\ tnCalls' = Append(tnCalls, c)
    /\ IF Tier = "full_streaming" /\ MarkObserved(c)
       THEN ObserveToolCall(c)
       ELSE UNCHANGED tcVars
    /\ UNCHANGED <<tnPhase, tnClient, tnIteration, tnTranscript, tnPendingUse, tnFailure,
                   tnStop, tnAbort, tnForceCompaction, tnRecovery, tnTerminal,
                   tnHookContinues, tnInterrupted>>

(* _StreamAttemptState.finalize: without a message_stop the message is     *)
(* discarded, unless a failed tool aborted the stream.                     *)
FinishAttempt(stopped, calls, pendingUse, failure, abort) ==
    LET kept == IF stopped \/ abort = "tool_failure" THEN calls ELSE <<>>
    IN  /\ tnPhase' = "post_model"
        /\ tnCalls' = kept
        /\ tnPendingUse' = pendingUse
        /\ tnFailure' = failure
        /\ tnAbort' = abort
        /\ tnStop' = IF stopped THEN "end_turn" ELSE "incomplete"
        /\ tnTranscript' = IF stopped \/ kept # <<>>
                           THEN Append(tnTranscript,
                                       Message("assistant", {Id(c) : c \in Range(kept)}, {},
                                               kept = <<>>))
                           ELSE tnTranscript
        /\ UNCHANGED <<tnClient, tnIteration, tnForceCompaction, tnRecovery, tnTerminal,
                       tnHookContinues, tnInterrupted>>

\* A stream that ends without a failure was stopped, aborted, or cut short.
EndStream ==
    /\ tnPhase = "stream"
    /\ InvocationMode = "stream"
    /\ tcResolving = {}
    /\ UNCHANGED tcVars
    /\ \E failure \in tnClient.failures \cup {"none"} :
          \/ FinishAttempt(TRUE, tnCalls, FALSE, failure, tcReason)
          \/ FinishAttempt(FALSE, tnCalls, FALSE, failure, tcReason)
          \/ \E c \in Call :
                /\ Len(tnCalls) < MaxMessageCalls
                /\ FinishAttempt(TRUE, Append(tnCalls, c), TRUE, failure, tcReason)

(* A buffered completion: the abort reason the engine notes is the one of  *)
(* the moment it made the call; only the client may report a later one.    *)
EndCompletion ==
    /\ tnPhase = "stream"
    /\ InvocationMode = "buffered_completion"
    /\ UNCHANGED tcVars
    /\ \/ \E calls \in SeqOf(Call, MaxMessageCalls), abort \in {"none", tcReason},
             failure \in tnClient.failures \cup {"none"} :
             FinishAttempt(TRUE, calls, FALSE, failure, abort)
       \/ \E failure \in tnClient.failures : FinishAttempt(FALSE, <<>>, FALSE, failure, tcReason)

(* resolve_tool_call raises while the stream waits for it: a failed attempt. *)
ResolutionFailsStream ==
    /\ tnPhase = "stream"
    /\ tcResolving # {}
    /\ tcResolving' = {}
    /\ UNCHANGED <<tcObserved, tcTask, tcDeps, tcCancel, tcOutcome, tcStage, tcReason>>
    /\ FinishAttempt(FALSE, tnCalls, FALSE, "internal_error", tcReason)

----
(* After the attempt *)

EndTurn(reason) ==
    /\ tnPhase' = "terminal"
    /\ tnTerminal' = reason

(* The PostModelResponse hook may inject a message; then the calls, if     *)
(* any, are turned to.  A turn whose attempt was aborted in between, or    *)
(* that has no executor, ends here with its calls unanswered.              *)
PostModelResponse ==
    /\ tnPhase = "post_model"
    /\ \E injected \in {<<>>, <<UserText>>} : tnTranscript' = tnTranscript \o injected
    /\ IF tnCalls = <<>>
       THEN tnPhase' = "stop" /\ UNCHANGED <<tnTerminal, tnRecovery>>
       ELSE IF tcReason = "interrupt" \/ Tier = "none"
            THEN LET decision == Evaluate(FALSE, tcReason # "interrupt", "allow_terminal")
                 IN  /\ EndTurn(TerminalReason(decision))
                     /\ tnRecovery' = AfterDecision(decision)
            ELSE tnPhase' = "tools" /\ UNCHANGED <<tnTerminal, tnRecovery>>
    /\ UNCHANGED <<tcVars, tnClient, tnIteration, attemptVars, tnForceCompaction,
                   tnHookContinues, tnInterrupted>>

(* The stop phase: the Stop hook, the policy and the RecoveryDecision hook. *)
StopPhase ==
    /\ tnPhase = "stop"
    /\ \E disposition \in {"allow_terminal", "continue_same_turn", "block_session"},
          hook \in {"unmatched", "matched", "blocked"} :
          LET candidate == Evaluate(FALSE, FALSE, disposition)
              decision == ApplyRecoveryHook(candidate, hook)
              asked == tnFailure = "none" \/ candidate.action = "halt"
          IN  /\ tnRecovery' = AfterDecision(decision)
              /\ tnForceCompaction' = (decision.action = "compact_and_retry")
              /\ IF decision.action = "halt"
                 THEN EndTurn(TerminalReason(decision)) /\ UNCHANGED <<tnHookContinues,
                                                                       tnTranscript>>
                 ELSE /\ tnPhase' = "prepare"
                      /\ asked => tnHookContinues < MaxHookContinues
                      /\ tnHookContinues' = IF asked THEN tnHookContinues + 1
                                            ELSE tnHookContinues
                      /\ tnTranscript' = IF candidate.action = "retry_with_override"
                                         THEN Append(tnTranscript, UserText)
                                         ELSE tnTranscript
                      /\ UNCHANGED tnTerminal
    /\ UNCHANGED <<tcVars, tnClient, tnIteration, attemptVars, tnInterrupted>>

(* finalize of a buffered or downgraded executor: the calls it has not     *)
(* observed yet are observed in order, each resolved before the next.      *)
Unobserved == {c \in Range(tnCalls) : MarkObserved(c)}
Deferred == Tier # "full_streaming" \/ tnPendingUse

FinalizeObserve ==
    /\ tnPhase = "tools"
    /\ Deferred
    /\ \E i \in DOMAIN tnCalls :
          /\ MarkObserved(tnCalls[i])
          /\ \A h \in 1 .. i - 1 : ~MarkObserved(tnCalls[h])
          /\ ObserveToolCall(tnCalls[i])
    /\ UNCHANGED turnVars

(* resolve_tool_call raises in finalize: the turn ends with an error and   *)
(* the calls that already run are left to themselves.                      *)
ResolutionFailsTurn ==
    /\ tnPhase = "tools"
    /\ tcResolving # {}
    /\ tcResolving' = {}
    /\ EndTurn("error")
    /\ UNCHANGED <<tcObserved, tcTask, tcDeps, tcCancel, tcOutcome, tcStage, tcReason>>
    /\ UNCHANGED <<tnClient, tnIteration, tnTranscript, attemptVars, tnForceCompaction,
                   tnRecovery, tnHookContinues, tnInterrupted>>

(* All calls have ended: their outcomes are replayed as one message and the *)
(* policy decides whether the model is asked again.                        *)
FinalizeTools ==
    /\ tnPhase = "tools"
    /\ Deferred => Unobserved = {}
    /\ ReplayOutcomes
    /\ LET decision == Evaluate(tnIteration >= MaxTurns, FALSE, "allow_terminal")
           results == IF Answered = {} THEN <<>>
                      ELSE <<Message("user", {}, {Id(c) : c \in Answered}, FALSE)>>
           nudge == IF decision.action = "retry_with_override" THEN <<UserText>> ELSE <<>>
       IN  /\ tnTranscript' = tnTranscript \o results \o nudge
           /\ tnRecovery' = AfterDecision(decision)
           /\ tnForceCompaction' = (decision.action = "compact_and_retry")
           /\ IF decision.action = "halt"
              THEN EndTurn(TerminalReason(decision))
              ELSE tnPhase' = "prepare" /\ UNCHANGED tnTerminal
    /\ UNCHANGED <<tnClient, tnIteration, attemptVars, tnHookContinues, tnInterrupted>>

(* Anything else the loop awaits may raise; the handler around it ends the *)
(* turn with an error.                                                     *)
LoopRaises ==
    /\ tnPhase \in {"prepare", "post_model", "stop"}
    /\ EndTurn("error")
    /\ UNCHANGED <<tcVars, tnClient, tnIteration, tnTranscript, attemptVars,
                   tnForceCompaction, tnRecovery, tnHookContinues, tnInterrupted>>

(* interrupt() reaches the signal, the tool context and the executor that  *)
(* the engine holds; while an attempt is prepared it holds none, or those  *)
(* of the attempt before.                                                  *)
Interrupt ==
    /\ tnInterrupted = "none"
    /\ tnPhase # "terminal"
    /\ tnInterrupted' = IF tnPhase = "stream" THEN "stream" ELSE "other"
    /\ IF tnPhase = "prepare" THEN UNCHANGED tcVars ELSE InterruptTools
    /\ UNCHANGED <<tnPhase, tnClient, tnIteration, tnTranscript, attemptVars,
                   tnForceCompaction, tnRecovery, tnTerminal, tnHookContinues>>

\* What tasks a turn leaves behind do later is not followed.
RunTasks == tnPhase # "terminal" /\ TaskStep /\ UNCHANGED turnVars

TurnStep ==
    \/ PrepareAttempt
    \/ EndStream
    \/ EndCompletion
    \/ PostModelResponse
    \/ StopPhase
    \/ FinalizeObserve
    \/ FinalizeTools

TurnNext ==
    \/ TurnStep
    \/ \E c \in Call : StreamToolCall(c)
    \/ ResolutionFailsStream
    \/ ResolutionFailsTurn
    \/ LoopRaises
    \/ Interrupt
    \/ RunTasks

TurnSpec == TurnInit /\ [][TurnNext]_tnVars

(* The event loop runs what is ready, the client answers, hooks return and *)
(* tools end.                                                              *)
TurnFairness == WF_tnVars(TurnStep) /\ WF_tnVars(RunTasks)
TurnFairSpec == TurnSpec /\ TurnFairness

----
(* Properties *)

TurnTypeOK ==
    /\ ToolsTypeOK
    /\ tnPhase \in Phases
    /\ tnClient \in Clients
    /\ tnIteration \in Nat
    /\ tnCalls \in Seq(Call)
    /\ tnPendingUse \in BOOLEAN
    /\ tnFailure \in Failure \cup {"none"}
    /\ tnStop \in {"end_turn", "incomplete"}
    /\ tnAbort \in Reasons
    /\ tnTerminal \in TerminalReasons \cup {"none"}
    /\ tnForceCompaction \in BOOLEAN
    /\ tnInterrupted \in {"none", "stream", "other"}

(* Whatever was cancelled, discarded, projected or compacted before it,    *)
(* every request a provider is sent pairs its tool uses with results       *)
(* (normalize_messages_for_api).                                           *)
RequestIsPaired ==
    tnPhase = "stream" => IsPaired(Request) /\ IsAlternating(Request)

(* The results message of an attempt answers every call that was started,  *)
(* so a tool whose effects happened is not called again in the dark        *)
(* (finalize, _run_scheduled_call).                                        *)
StartedIsReplayed ==
    tnPhase = "prepare" /\ tnCalls # <<>> =>
        \A c \in Call :
            tcStage[c] \in {"running", "terminal_pending_replay", "replayed"} =>
                Id(c) \in AllResults(tnTranscript)

(* Failures, tools and hooks together cannot keep a turn going: an attempt *)
(* needs a turn of the agent, a budget of the policy or a hook.            *)
AttemptsBounded ==
    tnIteration <= MaxTurns + 2 * RetryBudget + CompactionBudget + tnHookContinues

(* A turn is reported as end_turn, which persists memory and schedules     *)
(* extraction, only when its last attempt was whole; the exception is an   *)
(* interrupt the attempt did not note.                                     *)
FailureIsReported ==
    tnTerminal = "end_turn" =>
        \/ tnFailure = "none" /\ tnStop = "end_turn"
        \/ tnInterrupted # "none" /\ ~AttemptInterrupted

(* An interrupt the attempt noted ends the turn: no request follows it     *)
(* unless a hook asked for one.                                            *)
InterruptEndsTurn ==
    tnPhase = "prepare" /\ tnAbort = "interrupt" => tnHookContinues > 0

(* A turn always reaches its terminal event: tasks that wait for each      *)
(* other, cancelled tasks and repeated failures included.                  *)
TurnEnds == <>(tnPhase = "terminal")

(* What the tests of the engine assert of a turn that is interrupted while *)
(* the model streams: it ends as interrupted, unless a hook or an exception *)
(* ended it first (interrupt, _maybe_cascade_failure).                     *)
InterruptIsReported ==
    tnPhase = "terminal" /\ tnInterrupted = "stream" =>
        tnTerminal \in {"interrupted", "blocked", "error"}

(* However calls of a message overlap, fail, cascade and are cancelled,    *)
(* exclusive calls run alone and what was started is answered.             *)
ToolCallsSafe ==
    /\ TurnTypeOK
    /\ LanesExclusive
    /\ LifecycleLegal
    /\ StartedIsAnswered
    /\ StartedIsReplayed

(* However attempts fail, retry, compact and are interrupted, the turn is  *)
(* bounded and reports how it ended.                                       *)
TurnOutcomeSafe ==
    /\ AttemptsBounded
    /\ FailureIsReported
    /\ InterruptEndsTurn
=============================================================================
