--------------------------- MODULE ContextControl ---------------------------
(***************************************************************************)
(* The context control plane of a turn (turn_engine/control_plane.py): the *)
(* messages of the turn are repaired where an artifact is missing, cut to  *)
(* a budget, projected to the last ones and compacted, in this order; what *)
(* remains is the view the model is sent, and what the passes rewrote      *)
(* replaces the transcript of the session (session_runtime/controller.py). *)
(* Artifacts are kept in the store of the transcript and may be purged by  *)
(* its owner at any time (session_runtime/transcript.py).                  *)
(*                                                                         *)
(* A message has at most one tool_use or tool_result block, named by the   *)
(* id of the message that holds the use; covers is the set of messages a   *)
(* compaction summary was made from.                                       *)
(***************************************************************************)
EXTENDS TurnMessages

CONSTANTS
    CxConfigs,     \* records of projection_max_messages, max_message_count and
                   \* keep_recent_messages; 0: no limit
    MaxRecorded,   \* bound: messages recorded in the session
    MaxDecisions   \* bound: decisions of a budget plan

ASSUME CxAssumption ==
    /\ CxConfigs \subseteq [project : Nat, compactAbove : Nat, keep : Nat]
    /\ MaxRecorded \in Nat /\ MaxDecisions \in Nat

VARIABLES
    cxPhase,       \* where the session and its turn are
    cxConfig,
    cxNext,        \* the id of the next message
    cxTranscript,  \* the messages of the session, in memory and in the store
    cxWorking,     \* state.working_messages
    cxView,        \* prepared_context.active_messages
    cxArtifacts,   \* the artifacts the store can load
    cxPurged       \* a purge removed artifacts before the transcript that refers to
                   \* them replaced the one of the session

cxVars == <<cxPhase, cxConfig, cxNext, cxTranscript, cxWorking, cxView, cxArtifacts, cxPurged>>

Forms == {"none", "inline", "summary", "external", "degraded"}

CxMessage(id, role, uses, results) ==
    [id |-> id, role |-> role, uses |-> uses, results |-> results,
     text |-> uses = {} /\ results = {},
     form |-> IF results = {} THEN "none" ELSE "inline",
     ref |-> 0, summarized |-> FALSE, covers |-> {}]

Ids(ms) == {ms[i].id : i \in DOMAIN ms}
Covered(ms) == UNION {ms[i].covers : i \in DOMAIN ms}
Artifact(m) == <<m.id, m.ref>>
IsCandidate(m) == m.results # {}

----
(* The passes *)

\* Mutant: the placeholder is a form of its own.
DegradeAsMissing(m) == [m EXCEPT !.form = IF m.summarized THEN "summary" ELSE "missing"]

(* resolve_spillover_references: a result whose artifact cannot be loaded  *)
(* is replaced, its summary first, wherever its content is.                *)
Degrade(m) == [m EXCEPT !.form = IF m.summarized THEN "summary" ELSE "degraded"]
IsMissing(m) == m.ref # 0 /\ Artifact(m) \notin cxArtifacts
AnyMissing(ms) == \E i \in DOMAIN ms : IsMissing(ms[i])

ResolveSpillover(ms) ==
    IF AnyMissing(ms)
    THEN EnsureToolResultPairing(
            [i \in DOMAIN ms |-> IF IsMissing(ms[i]) THEN Degrade(ms[i]) ELSE ms[i]])
    ELSE ms

(* apply_budget_plan: a decision on a result of the plan, whatever it is,  *)
(* has the content persisted unless its artifact is there.                 *)
WithArtifact(m) ==
    IF m.ref # 0 /\ Artifact(m) \in cxArtifacts THEN m ELSE [m EXCEPT !.ref = @ + 1]

Decided(m, decision) ==
    LET kept == WithArtifact(m)
    IN  CASE decision = "inline" -> kept
          [] decision = "summarize" -> [kept EXCEPT !.form = "summary", !.summarized = TRUE]
          [] decision = "externalize" -> [kept EXCEPT !.form = "external"]

ApplyPlan(ms, plan) ==
    IF DOMAIN plan = {} THEN ms
    ELSE EnsureToolResultPairing(
            [i \in DOMAIN ms |-> IF ms[i].id \in DOMAIN plan
                                 THEN Decided(ms[i], plan[ms[i].id])
                                 ELSE ms[i]])

Plans(ms) ==
    LET candidates == {ms[i].id : i \in {j \in DOMAIN ms : IsCandidate(ms[j])}}
    IN  UNION {[chosen -> {"inline", "summarize", "externalize"}] :
                  chosen \in {s \in SUBSET candidates : Cardinality(s) <= MaxDecisions}}

\* An effect of the plan is a decision that changes a block.
HasEffect(plan) == \E id \in DOMAIN plan : plan[id] # "inline"

(* apply_projection_pass: the leading system messages, the latest user     *)
(* message, pinned messages and the tail stay; a projection that breaks an *)
(* invariant is not used.                                                  *)
RequiresPin(m) == m.covers # {} \/ m.ref # 0
LatestUser(ms) == {i \in DOMAIN ms : /\ ms[i].role = "user"
                                     /\ \A j \in i + 1 .. Len(ms) : ms[j].role # "user"}

Selected(ms) ==
    {i \in DOMAIN ms : \/ ms[i].role = "system"
                       \/ RequiresPin(ms[i])
                       \/ i > Len(ms) - cxConfig.project}
    \cup LatestUser(ms)

Pick(ms, indexes) ==
    LET picked == SetToSortSeq(indexes, LAMBDA i, j : i < j)
    IN  [k \in DOMAIN picked |-> ms[picked[k]]]

InvariantsHold(ms, projected) ==
    \A i \in DOMAIN ms :
        ms[i].role = "system" \/ RequiresPin(ms[i]) \/ i \in LatestUser(ms)
            => ms[i].id \in Ids(projected)

\* Mutant: the tail is taken as it is.
ProjectTail(ms) ==
    IF cxConfig.project = 0 \/ Len(ms) <= cxConfig.project THEN ms
    ELSE Pick(ms, Selected(ms))

Project(ms) ==
    IF cxConfig.project = 0 \/ Len(ms) <= cxConfig.project THEN ms
    ELSE LET projected == EnsureToolResultPairing(Pick(ms, Selected(ms)))
         IN  IF InvariantsHold(ms, projected) THEN projected ELSE ms

(* prepare_turn of the compaction manager: what lies between the leading   *)
(* system messages and the recent ones becomes a summary.                  *)
Compacts(ms) ==
    LET pinned == CHOOSE n \in 0 .. Len(ms) :
                      /\ \A i \in 1 .. n : ms[i].role = "system"
                      /\ n < Len(ms) => ms[n + 1].role # "system"
        cut == Len(ms) - cxConfig.keep
    IN  IF cxConfig.compactAbove # 0 /\ Len(ms) > cxConfig.compactAbove /\ cut > pinned
        THEN {<<pinned, cut>>} ELSE {}

\* Mutant: the summary names the messages of its own level only.
CompactShallow(ms, id) ==
    IF Compacts(ms) = {} THEN ms
    ELSE LET pc == CHOOSE x \in Compacts(ms) : TRUE
         IN  SubSeq(ms, 1, pc[1])
             \o <<[CxMessage(id, "system", {}, {}) EXCEPT
                      !.covers = Ids(SubSeq(ms, pc[1] + 2, pc[2]))]>>
             \o SubSeq(ms, pc[2] + 1, Len(ms))
Compact(ms, id) ==
    IF Compacts(ms) = {} THEN ms
    ELSE LET pc == CHOOSE x \in Compacts(ms) : TRUE
             gone == SubSeq(ms, pc[1] + 1, pc[2])
         IN  SubSeq(ms, 1, pc[1])
             \o <<[CxMessage(id, "system", {}, {}) EXCEPT
                      !.covers = Ids(gone) \cup Covered(gone)]>>
             \o SubSeq(ms, pc[2] + 1, Len(ms))

----
(* The session *)

CxInit ==
    /\ cxPhase = "idle"
    /\ cxConfig = CHOOSE config \in CxConfigs : TRUE
    /\ cxNext = 1
    /\ cxTranscript = <<>> /\ cxWorking = <<>> /\ cxView = <<>>
    /\ cxArtifacts = {}
    /\ cxPurged = FALSE

\* A session has one configuration, read at its first turn.
Configured == IF cxNext = 1 THEN CxConfigs ELSE {cxConfig}

(* _record_message: appended to the messages and to the store. *)
RecordMessages(new) ==
    /\ cxNext + Len(new) <= MaxRecorded + 1
    /\ cxNext' = cxNext + Len(new)
    /\ cxTranscript' = cxTranscript \o new

(* A prompt is admitted and starts a turn on the messages of the session. *)
AdmitPrompt ==
    LET prompt == <<CxMessage(cxNext, "user", {}, {})>>
    IN  /\ cxPhase = "idle"
        /\ cxConfig' \in Configured
        /\ RecordMessages(prompt)
        /\ cxWorking' = cxTranscript \o prompt
        /\ cxPhase' = "prepare"
        /\ UNCHANGED <<cxView, cxArtifacts, cxPurged>>

(* prepare() and what the turn does with it. *)
PrepareContext(plan) ==
    LET resolved == ResolveSpillover(cxWorking)
        budgeted == ApplyPlan(resolved, plan)
        projected == Project(budgeted)
        compacted == Compact(projected, cxNext)
        rewritten == IF compacted # projected THEN compacted
                     ELSE IF HasEffect(plan) \/ AnyMissing(cxWorking) THEN budgeted
                     ELSE cxWorking
    IN  /\ cxPhase = "prepare"
        /\ cxView' = compacted
        /\ cxWorking' = rewritten
        /\ cxNext' = IF compacted # projected THEN cxNext + 1 ELSE cxNext
        /\ cxArtifacts' = cxArtifacts \cup
              {Artifact(budgeted[i]) : i \in {j \in DOMAIN budgeted :
                                                 budgeted[j].id \in DOMAIN plan}}
        /\ cxPhase' = IF rewritten # cxWorking THEN "rewrite" ELSE "attempt"
        /\ UNCHANGED <<cxConfig, cxTranscript, cxPurged>>

(* _apply_compaction: the session takes the messages of the event. *)
ApplyCompaction ==
    /\ cxPhase = "rewrite"
    /\ cxPhase' = "attempt"
    /\ cxTranscript' = cxWorking
    /\ UNCHANGED <<cxConfig, cxNext, cxWorking, cxView, cxArtifacts, cxPurged>>

(* The attempt answers, which ends the turn, or calls a tool. *)
AttemptAnswers ==
    /\ cxPhase = "attempt"
    /\ RecordMessages(<<CxMessage(cxNext, "assistant", {}, {})>>)
    /\ cxPhase' = "idle"
    /\ UNCHANGED <<cxConfig, cxWorking, cxView, cxArtifacts, cxPurged>>

AttemptCallsTool ==
    LET new == <<CxMessage(cxNext, "assistant", {cxNext}, {}),
                 CxMessage(cxNext + 1, "user", {}, {cxNext})>>
    IN  /\ cxPhase = "attempt"
        /\ RecordMessages(new)
        /\ cxWorking' = cxWorking \o new
        /\ cxPhase' = "prepare"
        /\ UNCHANGED <<cxConfig, cxView, cxArtifacts, cxPurged>>

\* Mutant: only what is replayed by reference counts.
ReferencedByContent ==
    {Artifact(cxTranscript[i]) : i \in {j \in DOMAIN cxTranscript :
                                           cxTranscript[j].form = "external"}}

(* purge_unreferenced_artifacts: what no message of the stored transcript  *)
(* refers to is removed.                                                   *)
Referenced == {Artifact(cxTranscript[i]) : i \in DOMAIN cxTranscript}

PurgeArtifacts ==
    /\ cxArtifacts' = cxArtifacts \cap Referenced
    /\ cxPurged' = (cxPurged \/ (cxArtifacts' # cxArtifacts /\ cxPhase = "rewrite"))
    /\ UNCHANGED <<cxPhase, cxConfig, cxNext, cxTranscript, cxWorking, cxView>>

CxNextStep ==
    \/ AdmitPrompt
    \/ \E plan \in Plans(ResolveSpillover(cxWorking)) : PrepareContext(plan)
    \/ ApplyCompaction
    \/ AttemptAnswers
    \/ AttemptCallsTool
    \/ PurgeArtifacts

CxSpec == CxInit /\ [][CxNextStep]_cxVars

----
(* Properties *)

CxMessages ==
    [id : 1 .. MaxRecorded + 1, role : {"system", "user", "assistant"},
     uses : SUBSET (1 .. MaxRecorded), results : SUBSET (1 .. MaxRecorded), text : BOOLEAN,
     form : Forms, ref : Nat, summarized : BOOLEAN, covers : SUBSET (1 .. MaxRecorded + 1)]

CxTypeOK ==
    /\ cxPhase \in {"idle", "prepare", "rewrite", "attempt"}
    /\ cxConfig \in CxConfigs
    /\ cxNext \in Nat
    /\ \A ms \in {cxTranscript, cxWorking, cxView} : \A i \in DOMAIN ms : ms[i] \in CxMessages

Kept(id) == id \in Ids(cxTranscript) \cup Covered(cxTranscript)

(* Every message the session recorded is in its transcript or behind a     *)
(* summary in it, however often summaries were summarised                  *)
(* (_apply_compaction).                                                    *)
NothingForgotten == cxPhase # "rewrite" => \A id \in 1 .. cxNext - 1 : Kept(id)

(* The same, but for a result that a compaction kept and separated from    *)
(* its use: the message with the id before it is behind a summary, and the *)
(* next plan or repair drops the result (ensure_tool_result_pairing).      *)
OnlyOrphansForgotten ==
    cxPhase # "rewrite" =>
        \A id \in 1 .. cxNext - 1 : Kept(id) \/ id - 1 \in Covered(cxTranscript)

(* Whatever was cut out between them, a result in the view follows its use *)
(* or a summary of it, and a use is followed by its result, so a replayed  *)
(* slot is never dropped (ensure_tool_result_pairing).                     *)
ViewKeepsPairs ==
    \A i \in DOMAIN cxView :
        /\ \A id \in cxView[i].results : id \in Ids(SubSeq(cxView, 1, i - 1)) \cup Covered(cxView)
        /\ \A id \in cxView[i].uses : \E j \in i + 1 .. Len(cxView) : id \in cxView[j].results

(* What a plan moved to the store can be loaded as long as a message of    *)
(* the session refers to it: no content is replaced by a placeholder,      *)
(* except when a purge came between the plan and the rewritten transcript  *)
(* (_reuse_or_persist_artifact, purge_unreferenced_artifacts).             *)
DegradedOnlyByRace ==
    (\E i \in DOMAIN cxView : cxView[i].form = "degraded") => cxPurged

(* However a budget, a projection, compactions and purges follow each      *)
(* other, a recorded message, its pair and its content are kept.           *)
ContextSafe ==
    /\ CxTypeOK
    /\ OnlyOrphansForgotten
    /\ ViewKeepsPairs
    /\ DegradedOnlyByRace
=============================================================================
