---------------------------- MODULE TeamShutdown ----------------------------
(***************************************************************************)
(* Removing a teammate: the runner manager of the team control plane       *)
(* (team_control_plane.py) opens a shutdown workflow, marks the teammate   *)
(* stopping and waits for the workflow to end, while the teammate's drain  *)
(* loop (teammate_orchestration/service.py) claims, runs and finishes its  *)
(* work items and may complete the same workflow.  The workflow itself is  *)
(* that of TeamWorkflows; "remover" and "worker" answer it from inside the *)
(* runtime (_internal_respond), every other responder from outside.        *)
(***************************************************************************)
EXTENDS TeamWorkflows

CONSTANTS TmItems   \* work items in the teammate's mailbox

ASSUME TmAssumption == TmItems \in Nat /\ {"remover", "worker"} \subseteq Responders

VARIABLES
    tmState,   \* state of the teammate's stored snapshot
    tmWf,      \* the snapshot names the shutdown workflow
    tmBusy,    \* the snapshot has work attached
    tmItems,   \* items left in the mailbox
    tmAt,      \* tmAt[p]: where the remover and the drain loop stand
    tmSeen,    \* tmSeen[p]: the snapshot p read before its await
    tmGraceful \* history: the teammate was marked stopping while it was not busy

tmVars == <<tmState, tmWf, tmBusy, tmItems, tmAt, tmSeen, tmGraceful>>
teamVars == <<wfVars, tmVars>>

Parties == {"remover", "worker"}
TmStates == {"idle", "active", "stopping", "stopped", "removed"}
Places == {"off", "loop", "run", "ack", "check", "cs_ack", "cs_done", "cs_write",
           "wait", "failed", "end"}

TmTypeOK ==
    /\ tmState \in TmStates
    /\ tmWf \in BOOLEAN /\ tmBusy \in BOOLEAN /\ tmGraceful \in BOOLEAN
    /\ tmItems \in 0..TmItems
    /\ tmAt \in [Parties -> Places]
    /\ tmSeen \in [Parties -> [wf : BOOLEAN, busy : BOOLEAN]]

TmInit ==
    /\ WfInit
    /\ tmState = "idle"
    /\ tmWf = FALSE
    /\ tmBusy = FALSE
    /\ tmItems = TmItems
    /\ tmAt = [p \in Parties |-> "off"]
    /\ tmSeen = [p \in Parties |-> [wf |-> FALSE, busy |-> FALSE]]
    /\ tmGraceful = FALSE

Snapshot(state, wf, busy) ==
    /\ tmState' = state
    /\ tmWf' = wf
    /\ tmBusy' = busy

Goes(p, place) == tmAt' = [tmAt EXCEPT ![p] = place]
Reads(p, wf, busy) == tmSeen' = [tmSeen EXCEPT ![p] = [wf |-> wf, busy |-> busy]]

----
(* The drain loop.                                                         *)

(* ensure_runner: a message was dispatched to the teammate. *)
EnsureRunner ==
    /\ tmAt["worker"] = "off"
    /\ tmState # "removed"
    /\ tmItems > 0
    /\ Goes("worker", "loop")
    /\ UNCHANGED <<wfVars, tmState, tmWf, tmBusy, tmItems, tmSeen, tmGraceful>>

(* Mutant: a stopping teammate goes on claiming. *)
NextWorkItemStopping ==
    /\ tmAt["worker"] = "loop"
    /\ tmState # "removed"
    /\ \/ /\ tmState = "stopped"
          /\ Goes("worker", IF tmWf /\ ~tmBusy THEN "check" ELSE "off")
          /\ UNCHANGED <<tmState, tmWf, tmBusy, tmItems, tmSeen>>
       \/ /\ tmState # "stopped"
          /\ tmItems = 0
          /\ Snapshot("idle", FALSE, FALSE)
          /\ Goes("worker", "off")
          /\ UNCHANGED <<tmItems, tmSeen>>
       \/ /\ tmState # "stopped"
          /\ tmItems > 0
          /\ tmItems' = tmItems - 1
          /\ Snapshot("active", tmWf, TRUE)
          /\ Reads("worker", tmWf, TRUE)
          /\ Goes("worker", "run")
    /\ UNCHANGED <<wfVars, tmGraceful>>

(* Mutant: an empty mailbox is not noticed. *)
NextWorkItemUnchecked ==
    /\ tmAt["worker"] = "loop"
    /\ tmState # "removed"
    /\ \/ /\ tmState \in {"stopping", "stopped"}
          /\ Goes("worker", IF tmWf /\ ~tmBusy THEN "check" ELSE "off")
          /\ UNCHANGED <<tmState, tmWf, tmBusy, tmItems, tmSeen>>
       \/ /\ tmState \notin {"stopping", "stopped"}
          /\ tmItems = 0
          /\ Snapshot("idle", FALSE, FALSE)
          /\ Goes("worker", "off")
          /\ UNCHANGED <<tmItems, tmSeen>>
       \/ /\ tmState \notin {"stopping", "stopped"}
          /\ tmItems' = tmItems - 1
          /\ Snapshot("active", tmWf, TRUE)
          /\ Reads("worker", tmWf, TRUE)
          /\ Goes("worker", "run")
    /\ UNCHANGED <<wfVars, tmGraceful>>

(* process_next_work_item up to the dispatch.  A stopping teammate claims  *)
(* nothing, and closes its shutdown when no work is attached.  A claim     *)
(* builds its snapshot before the run and keeps it across the run.         *)
NextWorkItem ==
    /\ tmAt["worker"] = "loop"
    /\ tmState # "removed"
    /\ \/ /\ tmState \in {"stopping", "stopped"}
          /\ Goes("worker", IF tmWf /\ ~tmBusy THEN "check" ELSE "off")
          /\ UNCHANGED <<tmState, tmWf, tmBusy, tmItems, tmSeen>>
       \/ /\ tmState \notin {"stopping", "stopped"}
          /\ tmItems = 0
          /\ Snapshot("idle", FALSE, FALSE)
          /\ Goes("worker", "off")
          /\ UNCHANGED <<tmItems, tmSeen>>
       \/ /\ tmState \notin {"stopping", "stopped"}
          /\ tmItems > 0
          /\ tmItems' = tmItems - 1
          /\ Snapshot("active", tmWf, TRUE)
          /\ Reads("worker", tmWf, TRUE)
          /\ Goes("worker", "run")
    /\ UNCHANGED <<wfVars, tmGraceful>>

(* The run ends: the snapshot built before it is written back, over a      *)
(* shutdown begun meanwhile.  A run that raises ends the drain loop too.   *)
(* After a removal the write brings the teammate's snapshot back.          *)
WorkItemEnds ==
    /\ tmAt["worker"] = "run"
    /\ IF tmSeen["worker"].wf
       THEN Snapshot("stopped", TRUE, FALSE) /\ Goes("worker", "check")
       ELSE /\ Snapshot("idle", FALSE, FALSE)
            /\ \/ Goes("worker", "loop")
               \/ Goes("worker", "off")
    /\ UNCHANGED <<wfVars, tmItems, tmSeen, tmGraceful>>

----
(* complete_shutdown of the orchestrator, called by the remover and by the *)
(* drain loop, without the processing lock between them.                   *)

After(p) == IF p = "remover" THEN "wait" ELSE "off"

(* Mutant: an acknowledged shutdown counts as completed. *)
CompleteShutdownEarly(p) ==
    LET due == wfDue /\ ~Closed(wfRec) IN
    /\ tmAt[p] = "check"
    /\ IF tmState = "removed" \/ ~tmWf \/ (p = "remover" /\ tmSeen[p].busy)
       THEN Goes(p, After(p)) /\ UNCHANGED <<wfVars, tmSeen>>
       ELSE /\ Observe
            /\ Reads(p, tmWf, tmBusy)
            /\ Goes(p, CASE Closed(wfRec')              -> "cs_write"
                         [] wfRec'.status = "pending"   -> "cs_ack"
                         [] OTHER                       -> "cs_write")
    /\ UNCHANGED <<tmState, tmWf, tmBusy, tmItems, tmGraceful>>

(* It reads the snapshot and the workflow; get may close an overdue record.*)
CompleteShutdown(p) ==
    LET due == wfDue /\ ~Closed(wfRec) IN
    /\ tmAt[p] = "check"
    /\ IF tmState = "removed" \/ ~tmWf \/ (p = "remover" /\ tmSeen[p].busy)
       THEN Goes(p, After(p)) /\ UNCHANGED <<wfVars, tmSeen>>
       ELSE /\ Observe
            /\ Reads(p, tmWf, tmBusy)
            /\ Goes(p, CASE Closed(wfRec')              -> "cs_write"
                         [] wfRec'.status = "pending"   -> "cs_ack"
                         [] OTHER                       -> "cs_done")
    /\ UNCHANGED <<tmState, tmWf, tmBusy, tmItems, tmGraceful>>

ActionOf(place) == IF place \in {"ack", "cs_ack"} THEN "acknowledge" ELSE "complete"

(* acknowledge_shutdown and complete_shutdown of the workflow service, once*)
(* the lock is free.                                                       *)
Answer(p) ==
    /\ tmAt[p] \in {"ack", "cs_ack", "cs_done"}
    /\ Respond(p, ActionOf(tmAt[p]))
    /\ Goes(p, CASE tmAt[p] = "ack"     -> "check"
                 [] tmAt[p] = "cs_ack"  -> "cs_done"
                 [] tmAt[p] = "cs_done" -> "cs_write")
    /\ UNCHANGED <<tmState, tmWf, tmBusy, tmItems, tmSeen, tmGraceful>>

(* Somebody else answered first: the call raises, and the removal or the   *)
(* drain loop with it.                                                     *)
AnswerRefused(p) ==
    /\ tmAt[p] \in {"ack", "cs_ack", "cs_done"}
    /\ wfPc[p] = "idle"
    /\ wfLock = "nobody"
    /\ ActionOf(tmAt[p]) \notin AllowedActions(wfRec)
    /\ Goes(p, IF p = "remover" THEN "failed" ELSE "off")
    /\ UNCHANGED <<wfVars, tmState, tmWf, tmBusy, tmItems, tmSeen, tmGraceful>>

(* The snapshot read at the start is written as stopped. *)
WriteStopped(p) ==
    /\ tmAt[p] = "cs_write"
    /\ wfPc[p] = "idle"
    /\ Snapshot("stopped", tmSeen[p].wf, FALSE)
    /\ Goes(p, After(p))
    /\ UNCHANGED <<wfVars, tmItems, tmSeen, tmGraceful>>

----
(* remove_member of the runner manager.                                    *)

(* begin_shutdown, get and the decision to acknowledge, without an await.  *)
BeginShutdown ==
    /\ tmAt["remover"] = "off"
    /\ wfPc["requester"] = "created"
    /\ wfRec.kind = "shutdown"
    /\ Snapshot("stopping", TRUE, tmBusy)
    /\ Reads("remover", TRUE, tmBusy)
    /\ tmGraceful' = ~tmBusy
    /\ Observe
    /\ Goes("remover", IF wfRec'.status = "pending" THEN "ack" ELSE "check")
    /\ UNCHANGED tmItems

WaitForTerminal ==
    /\ tmAt["remover"] = "wait"
    /\ AwaitTerminal
    /\ UNCHANGED tmVars

(* Mutant: the drain task is never cancelled. *)
RemoveTeammateOnly ==
    /\ tmAt["remover"] = "wait"
    /\ wfPc["requester"] = "done"
    /\ Snapshot("removed", FALSE, FALSE)
    /\ tmItems' = 0
    /\ tmAt' = [p \in Parties |->
                  IF p = "remover" THEN "end" ELSE tmAt[p]]
    /\ UNCHANGED <<wfVars, tmSeen, tmGraceful>>

(* The end of the removal: a workflow that was forced cancels the drain    *)
(* task; one that was answered leaves it alone.  remove_teammate deletes   *)
(* the snapshot and the mailbox.                                           *)
RemoveTeammate ==
    /\ tmAt["remover"] = "wait"
    /\ wfPc["requester"] = "done"
    /\ Snapshot("removed", FALSE, FALSE)
    /\ tmItems' = 0
    /\ tmAt' = [p \in Parties |->
                  IF p = "remover" THEN "end"
                  ELSE IF wfAnswer \in {"forced_closed", "timed_out"} THEN "off"
                  ELSE tmAt[p]]
    /\ UNCHANGED <<wfVars, tmSeen, tmGraceful>>

----
Party(p) == CompleteShutdown(p) \/ Answer(p) \/ AnswerRefused(p) \/ WriteStopped(p)
                \/ (wfPc[p] = "emit" /\ FinishRespond(p) /\ UNCHANGED tmVars)

RemoveMember == BeginShutdown \/ WaitForTerminal \/ RemoveTeammate

TeamNext ==
    \/ WfService /\ UNCHANGED tmVars
    \/ \E c \in Responders \ Parties : WfAnswers(c) /\ UNCHANGED tmVars
    \/ wfRec.kind = "permission" /\ CrashAndRecover /\ UNCHANGED tmVars
    \/ EnsureRunner
    \/ NextWorkItem
    \/ WorkItemEnds
    \/ \E p \in Parties : Party(p)
    \/ RemoveMember

(* The event loop is fair to every coroutine that can run; a teammate's    *)
(* run may last for ever.                                                  *)
TeamFairness ==
    /\ WfFairness
    /\ WF_teamVars(NextWorkItem)
    /\ \A p \in Parties : WF_teamVars(Party(p))
    /\ WF_teamVars(RemoveMember)

TeamSpec == TmInit /\ [][TeamNext]_teamVars /\ TeamFairness

----
(* While a teammate that was forced out is removed, its run is not left    *)
(* behind: a removal that returned after a forced close has no run.        *)
ForcedOutIsQuiet ==
    tmAt["remover"] = "end" /\ wfAnswer # "completed" => tmAt["worker"] # "run"

(* A snapshot reads stopped only when the shutdown workflow was closed     *)
(* first (tests/test_team_workflows.py: idle shutdown persists a stopped   *)
(* snapshot before cleanup), whichever of the remover and the drain loop   *)
(* wrote it.                                                               *)
StoppedAfterClose ==
    tmState = "stopped" => wfSaid \cap {"complete", "force_close", "deadline_expired"} # {}

(* A teammate that had nothing attached when it was asked to stop starts   *)
(* no item any more, although its drain loop runs beside the removal.      *)
IdleStopsAtOnce == [][tmGraceful /\ tmState # "removed" => tmItems' = tmItems \/ tmState' = "removed"]_teamVars

(* Where a removal comes to rest: it is over, its own call was refused, or *)
(* it waits for a workflow whose deadline was closed by a reader that woke *)
(* nobody and left no deadline task.  However long the run of the teammate *)
(* takes and whoever answers in whatever order, nothing else holds it.     *)
RemovalSettles ==
    tmAt["remover"] # "off" ~>
        \/ tmAt["remover"] \in {"end", "failed"}
        \/ /\ wfPc["requester"] = "parked"
           /\ wfTimer = "none"
           /\ "deadline_expired" \in wfSaid

(* tests/test_team_workflows.py: team deletion waits for an active         *)
(* shutdown's timeout and then is over.  A removal ends.                   *)
RemovalEnds == tmAt["remover"] # "off" ~> tmAt["remover"] \in {"end", "failed"}

(* Whoever answers, reads, closes or forces a workflow in whatever order,  *)
(* its grant had both consents, its history explains it, and a teammate    *)
(* that is stopped or gone was asked to and runs nothing.                  *)
TeamSafe ==
    /\ WfTypeOK
    /\ GrantNeedsBoth
    /\ HistoryExplainsStatus
    /\ TmTypeOK
    /\ ForcedOutIsQuiet
    /\ StoppedAfterClose
=============================================================================
