--------------------------- MODULE WorkflowLedger ---------------------------
(***************************************************************************)
(* The code assistant's workflow ledger (examples/apps/code_assistant/     *)
(* app.py): which revision of the workspace the results in a session's     *)
(* messages and jobs say was verified and reviewed, the warnings an        *)
(* interactive shell gives of it, and the validation of a scripted run. The *)
(* model keeps the workspace itself next to what the session says of it.   *)
(***************************************************************************)
EXTENDS Naturals, Sequences, FiniteSets
LOCAL INSTANCE SequencesExt

CONSTANTS WlScripts,  \* prompts, how the coding-loop skill runs in them ("inline", "fork", "none"), and the calls
                      \* the model may make, each once, in any order and any batches
          MaxTogether \* bound: calls of a batch

VARIABLE wl  \* the session, its jobs, its shell, and what was really done

(* A call: id; tool; changes (an edit or write whose text differs);        *)
(* checks (bash of a test, build or lint); background; agent; passes (what *)
(* the check or the child found); says ("pass", "fail", "mentions": free   *)
(* text with the word, "silent"); status of the child run; looks (the      *)
(* child reads the repository); lists (it lists the tasks); leaves (it     *)
(* writes one that stays visible); speaks (it ends with a text).           *)

WlInit == \E s \in WlScripts :
    wl = [todo |-> s.calls, prompts |-> s.prompts, skill |-> s.skill, stage |-> "idle", turn |-> 0, clock |-> 0, open |-> <<>>, messages |-> <<>>,
          kids |-> <<>>, job |-> "none", began |-> 0, ended |-> 0, asked |-> {}, tasks |-> {}, warned |-> {},
          version |-> 0, proven |-> {}, read |-> {}, lookedFirst |-> FALSE, edited |-> FALSE, blurred |-> {}]

----
(* What the messages and jobs of a session say                             *)
\* _tool_result_pairs, over a list of messages: [time, turn, call] in the order of the results.
Results(messages) ==
    FlattenSeq([m \in DOMAIN messages |->
        [i \in DOMAIN messages[m].calls |->
            [time |-> messages[m].time, turn |-> messages[m].turn, call |-> messages[m].calls[i]]]])

Material(c) == c.tool \in {"edit", "write"} /\ c.changes

ShellPassed(c) == c.passes /\ ~c.background

\* _phase_outcome_from_summary: any "pass" that no " fail" comes with.
SaysPassed(c) == c.says \in {"pass", "mentions"}

Verifies(c) == (c.tool = "bash" /\ c.checks) \/ c.agent = "verifier"
Verified(c) == IF c.tool = "bash" THEN ShellPassed(c) ELSE SaysPassed(c)

Greatest(S) == IF S = {} THEN 0 ELSE CHOOSE n \in S : \A k \in S : k <= n

\* How many changes a session had recorded by its i-th result, or by a moment.
ChangesBy(rs, i) == Cardinality({k \in 1..i : Material(rs[k].call)})
CoveredAny(rs, time) == ChangesBy(rs, Len(rs))         \* Mutant: whatever the session has changed by now.
CoveredAt(rs, time) == Cardinality({k \in DOMAIN rs : Material(rs[k].call) /\ rs[k].time <= time})

JobCovers(rs) ==
    IF wl.job \in {"none", "running"} THEN 0 ELSE CoveredAt(rs, wl.ended)

\* _build_workflow_ledger
LedgerOf(messages) ==
    LET rs == Results(messages)
        byMessages == {ChangesBy(rs, i) : i \in {k \in DOMAIN rs : Verifies(rs[k].call) /\ Verified(rs[k].call)}}
        byJob == IF wl.job = "passed" THEN {JobCovers(rs)} ELSE {}
    IN  [change |-> ChangesBy(rs, Len(rs)),
         verified |-> Greatest(byMessages \cup byJob),
         reviewed |-> Greatest({ChangesBy(rs, i) :
                          i \in {k \in DOMAIN rs : rs[k].call.agent = "reviewer" /\ SaysPassed(rs[k].call)}})]

\* _workflow_state_from_revisions
StateOf(l) ==
    IF l.change = 0 THEN "clean"
    ELSE IF l.verified < l.change THEN "pending_verification"
    ELSE IF l.reviewed < l.change THEN "pending_review" ELSE "ready_to_summarize"

Ledger == LedgerOf(wl.messages)
Pending == StateOf(Ledger) \in {"pending_verification", "pending_review"}

----
(* A turn: calls in batches, one message of results for each               *)
TakePrompt ==
    /\ wl.stage = "idle" /\ wl.turn < wl.prompts
    /\ wl' = [wl EXCEPT !.stage = "turn", !.turn = @ + 1, !.lookedFirst = FALSE, !.edited = FALSE]

\* What a call does to the workspace, and what the one who made it saw of it.
Edits(w, c) ==
    IF Material(c) \/ (c.tool = "agent" /\ c.changes)
    THEN [w EXCEPT !.version = @ + 1, !.edited = @ \/ Material(c),
                   !.blurred = @ \cup (IF c.tool = "agent" THEN {"child"} ELSE {})
                                 \cup (IF w.job = "running" THEN {"overtaken"} ELSE {})]
    ELSE w

Checks(w, c) ==
    IF c.tool = "bash" /\ c.checks /\ c.background
    THEN [w EXCEPT !.job = "running", !.began = w.version]
    ELSE [w EXCEPT !.proven = IF Verifies(c) /\ c.passes THEN @ \cup {w.version} ELSE @,
                   !.read = IF c.agent = "reviewer" /\ c.passes THEN @ \cup {w.version} ELSE @,
                   !.blurred = IF c.agent \in {"verifier", "reviewer"} /\ ~c.passes /\ SaysPassed(c)
                               THEN @ \cup {"misread"} ELSE @]

Looks(w, c) ==
    IF c.tool \in {"glob", "grep", "read"} \/ (c.agent = "planner" /\ c.looks)
    THEN [w EXCEPT !.lookedFirst = @ \/ ~w.edited] ELSE w

\* A child's run is recorded with the turn that asked for it; a planner's task is in the shared list.
Delegates(w, c) ==
    IF c.tool # "agent" THEN w
    ELSE [w EXCEPT !.kids = Append(@, [agent |-> c.agent, turn |-> w.turn, call |-> c, time |-> w.clock]),
                   !.tasks = IF c.leaves THEN @ \cup {c.id} ELSE @]

Call(c) ==
    /\ wl.stage = "turn" /\ c \in wl.todo /\ Len(wl.open) < MaxTogether
    /\ wl' = LET w == [wl EXCEPT !.todo = @ \ {c}, !.clock = @ + 1, !.open = Append(@, c),
                                 !.asked = @ \cup (IF c.tool \in {"edit", "write", "bash"} THEN {c.tool} ELSE {})
                                             \cup (IF c.agent = "verifier" /\ c.checks THEN {"bash"} ELSE {})]
             IN  Delegates(Looks(Checks(Edits(w, c), c), c), c)

\* The results of a batch are one message, made when its last call has ended.
EndBatch ==
    /\ wl.stage = "turn" /\ wl.open # <<>>
    /\ wl' = [wl EXCEPT !.messages = Append(@, [time |-> wl.clock + 1, turn |-> wl.turn, calls |-> wl.open]),
                        !.open = <<>>, !.clock = @ + 1]

\* A background check ends whatever the session is doing.
JobEnds(passes) ==
    /\ wl.job = "running" /\ wl.stage # "left"
    /\ wl' = [wl EXCEPT !.job = IF passes THEN "passed" ELSE "failed", !.ended = wl.clock + 1, !.clock = @ + 1,
                        !.proven = IF passes /\ wl.began = wl.version THEN @ \cup {wl.version} ELSE @]

\* run_demo and shell_demo after a prompt: a text while the workflow is pending is warned of.
EndTurn(text) ==
    /\ wl.stage = "turn" /\ wl.open = <<>>
    /\ wl' = [wl EXCEPT !.stage = IF text THEN "answered" ELSE "idle",
                        !.warned = IF text /\ Pending THEN @ \cup {wl.turn} ELSE @]

NextPrompt == wl.stage = "answered" /\ wl' = [wl EXCEPT !.stage = "idle"]

\* The /exit command. At the end of the input the shell closes without a word.
Exit ==
    /\ wl.stage = "idle"
    /\ wl' = [wl EXCEPT !.stage = "left", !.todo = {}, !.warned = IF Pending THEN @ \cup {0} ELSE @]

\* A compaction between two turns leaves a summary in the place of the older results.
Compact ==
    /\ wl.stage = "idle" /\ Len(wl.messages) > 1 /\ "compacted" \notin wl.blurred
    /\ wl' = [wl EXCEPT !.messages = Tail(@), !.blurred = @ \cup {"compacted"}]

\* /resume of another session and back: what the shell asked and warned of in this one is behind it.
Reopen ==
    /\ wl.stage = "idle" /\ wl.asked # {}
    /\ wl' = [wl EXCEPT !.asked = {}, !.warned = {}]

WlNext ==
    \/ TakePrompt \/ EndBatch \/ NextPrompt \/ Compact \/ Reopen \/ Exit
    \/ \E c \in wl.todo : Call(c)
    \/ \E b \in BOOLEAN : JobEnds(b) \/ EndTurn(b)

WlSpec == WlInit /\ [][WlNext]_wl

----
(* The validation of a scripted run, of the turn that just ended           *)
OfTurn == SelectSeq(wl.messages, LAMBDA m : m.turn = wl.turn)
TurnResults == Results(OfTurn)
Used(tool) == \E i \in DOMAIN TurnResults : TurnResults[i].call.tool = tool
KidsOf(agent) == SelectSeq(wl.kids, LAMBDA k : k.agent = agent /\ k.turn = wl.turn)

\* _planner_visible_task_ids and _planning_outcome: the best of the planners' runs.
LeftTask(k) == k.call.leaves /\ k.call.id \in wl.tasks
PlanOf(k) ==
    IF ~LeftTask(k) THEN "failed"
    ELSE IF k.call.status = "completed" THEN IF k.call.speaks THEN "completed" ELSE "failed" ELSE "degraded"
Planned == {PlanOf(KidsOf("planner")[i]) : i \in DOMAIN KidsOf("planner")} \ {"failed"}

\* _inspection_outcome: a look whose place comes before that of the first change. The places of a
\* child's results and of the parent's are compared by time alone here: no two steps share one.
FirstChange(rs) ==
    CHOOSE i \in DOMAIN rs : Material(rs[i].call) /\ \A k \in 1..(i - 1) : ~Material(rs[k].call)
Inspected ==
    LET rs == TurnResults
        changed == \E i \in DOMAIN rs : Material(rs[i].call)
        looks(c) == c.tool \in {"glob", "grep", "read"}
    IN  \/ \E i \in DOMAIN rs : looks(rs[i].call) /\ (changed => i < FirstChange(rs))
        \/ \E i \in DOMAIN KidsOf("planner") :
              LET k == KidsOf("planner")[i]
              IN  k.call.looks /\ (changed => k.time < rs[FirstChange(rs)].time)

\* _latest_child_run_status
Completed(agent) == KidsOf(agent) # <<>> /\ KidsOf(agent)[Len(KidsOf(agent))].call.status = "completed"

\* _has_successful_verification_shell asks for a check, not for one that passed.
CheckedInShell ==
    \/ \E i \in DOMAIN TurnResults : TurnResults[i].call.tool = "bash" /\ TurnResults[i].call.checks
    \/ \E i \in DOMAIN KidsOf("verifier") : KidsOf("verifier")[i].call.checks

\* _workflow_validation_result without gaps.
LatestCoveredByEither(l) == l.change > 0 => l.verified >= l.change \/ l.reviewed >= l.change \* Mutant: or.
LatestCovered(l) == l.change > 0 => l.verified >= l.change /\ l.reviewed >= l.change
Ok ==
    /\ wl.skill = "inline" /\ \E i \in DOMAIN KidsOf("planner") : KidsOf("planner")[i].call.lists
    /\ Planned # {} /\ Inspected /\ Used("edit") /\ Used("write") /\ CheckedInShell
    /\ {"edit", "write", "bash"} \subseteq wl.asked
    /\ Completed("reviewer") /\ Completed("verifier")
    /\ wl.tasks # {} /\ LatestCovered(Ledger)

\* run_demo: the report of a prompt that ended with a text.
ReportedOk == wl.stage = "answered" /\ Ok

----
(* Properties                                                              *)
WlTypeOK ==
    /\ wl.stage \in {"idle", "turn", "answered", "left"} /\ wl.turn \in 0..wl.prompts
    /\ wl.job \in {"none", "running", "passed", "failed"}
    /\ Ledger.verified <= Ledger.change /\ Ledger.reviewed <= Ledger.change
    /\ wl.blurred \subseteq {"child", "overtaken", "misread", "compacted"}

\* A workspace that is called ready was verified and reviewed as it stands: the results of calls, of
\* children and of background jobs, in whatever order they arrive, never lend the outcome of an older
\* revision to a newer one - except where the ledger cannot see it: a change a child made, a check that
\* a change overtook, a summary that only mentions the word, results that a compaction removed
\* (_build_workflow_ledger; README.md "invalidate older verification or review coverage").
ReadyIsProven ==
    StateOf(Ledger) = "ready_to_summarize" /\ wl.open = <<>> /\ wl.blurred = {} =>
        wl.version \in wl.proven /\ wl.version \in wl.read

\* Whoever is told nothing at the end of an answer, or on /exit, has a workspace that is unchanged or
\* proven, as far as the ledger can see (_workflow_warnings_for_turn, _workflow_exit_warning).
SilenceIsProven ==
    /\ wl.blurred = {}
    /\ \/ wl.stage = "answered" /\ wl.turn \notin wl.warned
       \/ wl.stage = "left" /\ 0 \notin wl.warned
    => wl.version = 0 \/ wl.version \in (wl.proven \cap wl.read)

\* A run that is reported ok was planned and inspected before its first change, in that turn, and what
\* it leaves was verified and reviewed; a planner called in the batch of the first change is the
\* exception (_workflow_validation_result, _inspection_outcome).
LookedInTime ==
    \/ wl.lookedFirst
    \/ \E i \in DOMAIN wl.messages :
          LET calls == wl.messages[i].calls
          IN  /\ wl.messages[i].turn = wl.turn
              /\ \E j, k \in DOMAIN calls : j < k /\ Material(calls[j]) /\ calls[k].agent = "planner"
OkIsProven ==
    ReportedOk =>
        /\ \E i \in DOMAIN wl.kids : wl.kids[i].turn = wl.turn /\ wl.kids[i].agent = "planner"
        /\ LookedInTime
        /\ wl.blurred = {} => wl.version \in wl.proven /\ wl.version \in wl.read

LedgerSafe == WlTypeOK /\ ReadyIsProven /\ SilenceIsProven /\ OkIsProven
=============================================================================
