---------------------------- MODULE MemoryDocuments ----------------------------
(***************************************************************************)
(* The long-term documents of one conflict key (weavert_memory/manager.py):*)
(* what a turn says is written at once, what the background extraction of  *)
(* the session finds in it later, on the same event loop, and a            *)
(* consolidation reads the documents and merges its proposals on a thread  *)
(* of its own, without a lock that the others know.                        *)
(*                                                                         *)
(* A document is a file; its place in mdDocs is its path. The text of a    *)
(* document is the set of statements it is made of.                        *)
(***************************************************************************)
EXTENDS Naturals, Sequences, FiniteSets

CONSTANTS
    MdKinds,     \* the merge policies of the decisions that share a key: of a
                 \* sentence of a turn, of the background extraction, and whether
                 \* a consolidation proposes topics under it
    Statements,  \* what a turn can say
    Findings,    \* what the background and a consolidation make of it
    MaxTurns     \* bound: turns of the session

(* The policies of what a sentence, or a session, is found to say; a key   *)
(* names a kind of fact, and only the notes of an agent are appended to.   *)
MdPolicies == {"none", "overwrite", "guard", "append"}

ASSUME MdAssumption ==
    /\ MdKinds \subseteq [rule : MdPolicies \ {"append"}, background : MdPolicies \ {"overwrite"},
                         topics : BOOLEAN]
    /\ \A kind \in MdKinds : kind.background = "append" => kind.rule = "none"
    /\ Statements \cap Findings = {}
    /\ MaxTurns \in Nat

VARIABLES
    mdKind,      \* the policies of this key
    mdDocs,      \* the documents, in the order of their paths
    mdHeard,     \* what the session has said, in order
    mdPending,   \* the payload waiting for the extraction task of the session
    mdTask,      \* none, scheduled, running, or dead: cancelled before its first step
    mdTaken,     \* the payload the running task has taken
    mdRun,       \* the consolidation, or NoMerge
    mdStatus,    \* the status in the checkpoint of the last consolidation
    mdDropped,   \* the last extraction task failed or was cancelled
    mdRaced,     \* a consolidation wrote over documents changed since it read them
    mdEchoed     \* the last statement of a turn was already in a document that is
                 \* contested or superseded

mdVars == <<mdKind, mdDocs, mdHeard, mdPending, mdTask, mdTaken, mdRun, mdStatus, mdDropped,
            mdRaced, mdEchoed>>

Document(facts, contested, supersedes) ==
    [facts |-> facts, contested |-> contested, supersedes |-> supersedes]
Decision(policy, facts, contested, supersedes) ==
    [policy |-> policy, doc |-> Document(facts, contested, supersedes)]
NoMerge == [phase |-> "none", snapshot |-> <<>>, written |-> <<>>,
            decision |-> Decision("none", {}, FALSE, {})]

----
(* The rules of _apply_durable_extraction_decision *)

Superseded(docs) == UNION {docs[i].supersedes : i \in DOMAIN docs}
ActiveDocs(docs) == DOMAIN docs \ Superseded(docs)
Settled(docs) == {i \in ActiveDocs(docs) : ~docs[i].contested}
Matching(docs, facts) == {i \in ActiveDocs(docs) : docs[i].facts = facts}
FirstOf(S) == CHOOSE i \in S : \A j \in S : i <= j

(* persist_entries: no file for a text that some file holds. *)
Persist(docs, doc) ==
    IF \E i \in DOMAIN docs : docs[i].facts = doc.facts THEN docs ELSE Append(docs, doc)

\* Mutant: the text of the decision replaces the one of the document.
MergeExistingReplaces(docs, i, found, decision, facts) ==
    [docs EXCEPT ![i] = Document(decision.doc.facts, found.contested \/ decision.doc.contested,
                                 found.supersedes \cup decision.doc.supersedes)]

(* _merge_existing_durable_document: found is the document as it was read, *)
(* which update_document writes back with what the decision adds.          *)
MergeExisting(docs, i, found, decision, facts) ==
    [docs EXCEPT ![i] = Document(facts, found.contested \/ decision.doc.contested,
                                 found.supersedes \cup decision.doc.supersedes)]

\* Mutant: a guarded decision is written next to the documents it contradicts.
StageUncontested(doc) == doc

(* _stage_contested_durable_entry *)
Stage(doc) == [doc EXCEPT !.contested = TRUE]

\* Mutant: everything active is superseded, the first document only.
SupersedesFirst(docs) == IF Settled(docs) = {} THEN {} ELSE {1}

(* The documents an overwriting decision takes the place of. *)
Supersedes(docs) == Settled(docs)

(* The documents after a decision that was made on read, while the files   *)
(* are docs; the two are the same unless a thread lies between.            *)
Apply(read, docs, decision) ==
    LET active == ActiveDocs(read)
        same == Matching(read, decision.doc.facts)
    IN  IF same # {}
          THEN LET i == FirstOf(same)
               IN  IF i \in DOMAIN docs
                   THEN MergeExisting(docs, i, read[i], decision, read[i].facts)
                   ELSE docs
        ELSE IF decision.policy = "overwrite"
          THEN Persist(docs, [decision.doc EXCEPT !.supersedes = Supersedes(read)])
        ELSE IF active = {} THEN Persist(docs, decision.doc)
        ELSE IF decision.policy = "append"
          THEN LET i == FirstOf(active)
               IN  MergeExisting(docs, i, read[i], decision, read[i].facts \cup decision.doc.facts)
        ELSE Persist(docs, Stage(decision.doc))

----
(* A turn and the extraction it schedules *)

(* _merge_background_payload *)
MergePayload(pending, messages) == pending \cup messages

(* record_turn_with_receipts, then schedule_background_extraction: the     *)
(* payload is everything the session has said.                             *)
Turn(statement) ==
    /\ Len(mdHeard) < MaxTurns
    /\ mdHeard' = Append(mdHeard, statement)
    /\ mdDocs' = IF mdKind.rule = "none" THEN mdDocs
                 ELSE Apply(mdDocs, mdDocs, Decision(mdKind.rule, {statement}, FALSE, {}))
    /\ mdEchoed' = \E i \in DOMAIN mdDocs :
                      mdDocs[i].facts = {statement} /\ i \notin Settled(mdDocs)
    /\ mdPending' = MergePayload(mdPending, {statement} \cup {mdHeard[i] : i \in DOMAIN mdHeard})
    /\ mdTask' = IF mdTask = "none" THEN "scheduled" ELSE mdTask
    /\ mdDropped' = (mdDropped /\ mdTask # "none")
    /\ UNCHANGED <<mdKind, mdTaken, mdRun, mdStatus, mdRaced>>

(* _run_background_extraction_queue up to its await *)
BeginExtraction ==
    /\ mdTask = "scheduled"
    /\ mdTask' = "running"
    /\ mdTaken' = mdPending
    /\ mdPending' = {}
    /\ UNCHANGED <<mdKind, mdDocs, mdHeard, mdRun, mdStatus, mdDropped, mdRaced,
                   mdEchoed>>

(* What synthesize_background_memory_decisions may find in a payload. *)
Found(payload) ==
    IF mdKind.background = "append" THEN SUBSET payload
    ELSE {{}} \cup {{finding} : finding \in Findings}

\* Mutant: the task takes one payload.
ContinueExtractionOnce ==
    /\ mdTask' = "none"
    /\ mdTaken' = {}
    /\ UNCHANGED mdPending

(* The loop goes on with what came in the meantime, or the task ends. *)
ContinueExtraction ==
    /\ mdTask' = IF mdPending = {} THEN "none" ELSE "running"
    /\ mdTaken' = mdPending
    /\ mdPending' = {}

(* _execute_background_extraction *)
Extract(facts) ==
    /\ mdTask = "running"
    /\ facts \in Found(mdTaken)
    /\ mdDocs' = IF facts = {} \/ mdKind.background = "none" THEN mdDocs
                 ELSE Apply(mdDocs, mdDocs, Decision(mdKind.background, facts, FALSE, {}))
    /\ ContinueExtraction
    /\ UNCHANGED <<mdKind, mdHeard, mdRun, mdStatus, mdDropped, mdRaced,
                   mdEchoed>>

(* An exception of the extraction, or the cancellation of a waiter of      *)
(* wait_for_background_extraction, ends the task: its payload is gone, one *)
(* that came in the meantime stays.                                        *)
LoseExtraction ==
    /\ mdTask = "running"
    /\ mdTask' = "none"
    /\ mdTaken' = {}
    /\ mdDropped' = TRUE
    /\ UNCHANGED <<mdKind, mdDocs, mdHeard, mdPending, mdRun, mdStatus, mdRaced,
                   mdEchoed>>

(* A waiter cancelled before the task has run cancels it before its try:   *)
(* nothing removes it from _background_tasks_by_key.                       *)
CancelBeforeStart ==
    /\ mdTask = "scheduled"
    /\ mdTask' = "dead"
    /\ mdDropped' = TRUE
    /\ UNCHANGED <<mdKind, mdDocs, mdHeard, mdPending, mdTaken, mdRun, mdStatus, mdRaced,
                   mdEchoed>>

----
(* A consolidation *)

(* _build_consolidation_proposals: a document of two sessions is proposed  *)
(* as it is, with its metadata; a topic is what their summaries share.     *)
Proposals ==
    {Decision("guard", mdDocs[i].facts, mdDocs[i].contested, mdDocs[i].supersedes) :
        i \in DOMAIN mdDocs}
    \cup (IF mdKind.topics THEN {Decision("guard", {f}, FALSE, {}) : f \in Findings} ELSE {})

(* _snapshot_long_term_documents, and the reading half of a decision *)
ReadForMerge(decision) ==
    /\ mdRun.phase = "none"
    /\ mdRun' = [phase |-> "read", snapshot |-> mdDocs, written |-> <<>>, decision |-> decision]
    /\ mdStatus' = "staged"
    /\ UNCHANGED <<mdKind, mdDocs, mdHeard, mdPending, mdTask, mdTaken, mdDropped, mdRaced,
                   mdEchoed>>

(* The writing half *)
WriteMerge ==
    /\ mdRun.phase = "read"
    /\ mdDocs' = Apply(mdRun.snapshot, mdDocs, mdRun.decision)
    /\ mdRun' = [mdRun EXCEPT !.phase = "written", !.written = mdDocs']
    /\ mdRaced' = (mdRaced \/ mdDocs # mdRun.snapshot)
    /\ UNCHANGED <<mdKind, mdStatus, mdHeard, mdPending, mdTask, mdTaken, mdDropped, mdEchoed>>

(* The run has merged its proposals. *)
FinishMerge ==
    /\ mdRun.phase = "written"
    /\ mdRun' = NoMerge
    /\ mdStatus' = "success"
    /\ UNCHANGED <<mdKind, mdDocs, mdHeard, mdPending, mdTask, mdTaken, mdDropped, mdRaced,
                   mdEchoed>>

\* Mutant: only the files that are missing are written again.
RestoreMissing(current, snapshot) ==
    [i \in DOMAIN current \cup DOMAIN snapshot |->
        IF i \in DOMAIN current THEN current[i] ELSE snapshot[i]]

(* _restore_long_term_snapshot: the files of the snapshot with their       *)
(* texts, and no others.                                                   *)
Restore(current, snapshot) == snapshot

(* A later decision of the run fails. *)
RollBackMerge ==
    /\ mdRun.phase = "written"
    /\ mdDocs' = Restore(mdDocs, mdRun.snapshot)
    /\ mdRun' = NoMerge
    /\ mdStatus' = "failed"
    /\ mdRaced' = (mdRaced \/ mdDocs # mdRun.written)
    /\ UNCHANGED <<mdKind, mdHeard, mdPending, mdTask, mdTaken, mdDropped, mdEchoed>>

----
MdInit ==
    /\ mdKind \in MdKinds
    /\ mdDocs = <<>>
    /\ mdHeard = <<>>
    /\ mdPending = {}
    /\ mdTask = "none"
    /\ mdTaken = {}
    /\ mdRun = NoMerge
    /\ mdStatus = "none"
    /\ mdDropped = FALSE
    /\ mdRaced = FALSE
    /\ mdEchoed = FALSE

MdNext ==
    \/ \E statement \in Statements : Turn(statement)
    \/ BeginExtraction
    \/ \E facts \in SUBSET (Statements \cup Findings) : Extract(facts)
    \/ LoseExtraction
    \/ CancelBeforeStart
    \/ \E decision \in Proposals : ReadForMerge(decision)
    \/ WriteMerge
    \/ FinishMerge
    \/ RollBackMerge

MdSpec == MdInit /\ [][MdNext]_mdVars

----
MdTypeOK ==
    /\ mdKind \in MdKinds
    /\ \A i \in DOMAIN mdDocs :
          /\ mdDocs[i].facts \in (SUBSET (Statements \cup Findings)) \ {{}}
          /\ mdDocs[i].contested \in BOOLEAN
          /\ mdDocs[i].supersedes \subseteq DOMAIN mdDocs \ {i}
    /\ mdHeard \in Seq(Statements)
    /\ mdPending \subseteq Statements /\ mdTaken \subseteq Statements
    /\ mdTask \in {"none", "scheduled", "running", "dead"}
    /\ mdStatus \in {"none", "staged", "success", "failed"}
    /\ {mdDropped, mdRaced, mdEchoed} \subseteq BOOLEAN

(* Unless a consolidation wrote between, the documents of a key have at    *)
(* most one settled member: what contradicts it is contested or superseded.*)
OneIsSettled == mdRaced \/ Cardinality(Settled(mdDocs)) <= 1

(* What a turn has confirmed is what the settled document says, until the  *)
(* next one confirms something else (durable_until_superseded). Not when a *)
(* document that is superseded or contested says it already: persist_entries*)
(* finds the text of the superseded file and writes nothing, so the newest *)
(* preference is lost when it is one the user had before; a contested one  *)
(* is confirmed but stays contested.                                       *)
NewestIsSettled ==
    mdRaced \/ mdEchoed \/ mdKind.rule # "overwrite" \/ mdHeard = <<>>
        \/ \E i \in Settled(mdDocs) : mdHeard[Len(mdHeard)] \in mdDocs[i].facts

(* Nothing a document holds is dropped by a later decision: every statement*)
(* a turn has written is in some file.                                     *)
NothingUnlearned ==
    mdRaced \/ mdKind.rule = "none"
        \/ \A n \in DOMAIN mdHeard : \E i \in DOMAIN mdDocs : mdHeard[n] \in mdDocs[i].facts

(* A payload waits only while a task is there that will take it, or the    *)
(* last task of the session was lost.                                      *)
PayloadIsTaken == mdPending = {} \/ mdDropped \/ mdTask \in {"scheduled", "running"}

(* What the memory of a session holds. *)
DocumentsSafe == MdTypeOK /\ OneIsSettled /\ NewestIsSettled /\ NothingUnlearned /\ PayloadIsTaken

(* A consolidation whose checkpoint says that it failed has put back every *)
(* file as it was when it began; the other steps take no statement from a  *)
(* file, but for a merge that writes over what it has read.                *)
FilesAreKept ==
    [][IF mdStatus' = "failed" /\ mdRun # mdRun'
       THEN mdDocs' = mdRun.snapshot
       ELSE \A i \in DOMAIN mdDocs :
               /\ i \in DOMAIN mdDocs'
               /\ mdDocs[i].facts \subseteq mdDocs'[i].facts \/ mdRun.phase = "read"]_mdVars
================================================================================
