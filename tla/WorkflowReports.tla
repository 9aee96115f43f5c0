-------------------------- MODULE WorkflowReports --------------------------
(***************************************************************************)
(* A prompt run as a report: WorkflowRunReportStream (runtime_kernel/      *)
(* kernel.py) starts a session, pulls the events of stream_until_idle      *)
(* (session_runtime/controller.py) for whoever iterates, asks for the      *)
(* report or closes the stream, and ends with a report or a failure.       *)
(*                                                                         *)
(* The helper-owned session is closed with the stream, a caller-owned one  *)
(* is shared with other prompts of the caller. A task is cancelled only    *)
(* where it awaits.                                                        *)
(***************************************************************************)
EXTENDS Naturals, Sequences

CONSTANTS WrClients,    \* the tasks that use the stream
          NoClient,
          MaxOthers     \* commands that others queue in a caller-owned session

ASSUME WrAssumption == NoClient \notin WrClients /\ MaxOthers \in Nat

VARIABLES wrOwner,      \* who owns the session, "helper" or "caller"
          wrWaits,      \* is the report to wait for background memory work?
          wrOp,         \* what each task called, "none" if nothing
          wrAt,         \* where in the call it is
          wrLock,       \* the task that holds the lock
          wrStarted, wrAdvanced, wrInterrupts, wrCloses, wrFinished,  \* the stream's flags
          wrReport,     \* the final status of its report, "none" if there is none
          wrFailure,    \* did it record a failure?
          wrFinal,      \* the final status the collector would report
          wrTerminal,   \* the last terminal event collected
          wrStatus,     \* the status of the session
          wrQueue,      \* its queued commands
          wrTurn,       \* whose turn it runs, "none" between two turns
          wrEnded,      \* has that turn produced its terminal event?
          wrDead,       \* was the generator of the session's events ended by an exception?
          wrOthers,     \* commands of others so far
          wrClosings,   \* times the session was closed or discarded
          wrPrompts,    \* times the prompt was queued
          wrIterator,   \* the only task that may iterate
          wrMine,       \* how the turn of the prompt ended: a terminal kind, "cut" if interrupted
          wrGone        \* what was lost on the way: "turn", "finish", "queue", "revived"

streamVars == <<wrStarted, wrAdvanced, wrInterrupts, wrCloses, wrFinished, wrReport, wrFailure,
                wrFinal, wrTerminal>>
sessionVars == <<wrStatus, wrQueue, wrTurn, wrEnded, wrDead, wrOthers, wrClosings, wrPrompts>>
callVars == <<wrOp, wrAt, wrLock, wrIterator>>
ghostVars == <<wrMine, wrGone>>
wrVars == <<wrOwner, wrWaits, callVars, streamVars, sessionVars, ghostVars>>

Ops == {"next", "report", "close", "exit"}
Terminals == {"completed", "failed", "interrupted", "stopped"}

WrInit ==
    /\ wrOwner \in {"helper", "caller"} /\ wrWaits \in BOOLEAN
    /\ wrOp = [c \in WrClients |-> "none"] /\ wrAt = [c \in WrClients |-> "idle"]
    /\ wrLock = NoClient
    /\ wrStarted = FALSE /\ wrAdvanced = FALSE /\ wrInterrupts = FALSE /\ wrCloses = FALSE
    /\ wrFinished = FALSE /\ wrReport = "none" /\ wrFailure = FALSE
    /\ wrFinal = "completed" /\ wrTerminal = "none"
    /\ wrStatus = "IDLE" /\ wrQueue = <<>> /\ wrTurn = "none" /\ wrEnded = FALSE /\ wrDead = FALSE
    /\ wrOthers = 0 /\ wrClosings = 0 /\ wrPrompts = 0
    /\ wrIterator = NoClient /\ wrMine = "none" /\ wrGone = {}

----
(* The session                                                             *)
\* The terminal event decides, then the status of the session.
CloseStatusOfTerminal(terminal, status, fallback) ==  \* Mutant: the status of the session is not looked at.
    IF terminal \in Terminals \ {"completed"} THEN terminal ELSE fallback

CloseStatus(terminal, status, fallback) ==
    IF terminal \in Terminals \ {"completed"} THEN terminal
    ELSE IF status = "INTERRUPTED" THEN "interrupted" ELSE fallback

Running == wrTurn # "none" /\ ~wrEnded

\* A command waits before or behind the others by its priority.
Queued(command) == {<<command>> \o wrQueue, Append(wrQueue, command)}

QueueOther ==
    /\ wrOwner = "caller" /\ wrOthers < MaxOthers
    /\ wrOthers' = wrOthers + 1 /\ wrQueue' \in Queued("other")
    /\ UNCHANGED <<wrOwner, wrWaits, callVars, streamVars, wrStatus, wrTurn, wrEnded, wrDead,
                   wrClosings, wrPrompts, ghostVars>>

\* A turn of somebody else that is interrupted takes the queue behind it along.
Interrupted(now) ==
    /\ wrStatus' = IF now THEN "INTERRUPTED" ELSE wrStatus
    /\ wrGone' = IF now /\ wrTurn = "other" THEN wrGone \cup {"queue"} ELSE wrGone

HostInterrupt ==
    /\ wrTurn # "none" /\ wrStatus \in {"RUNNING", "WAITING"} /\ Interrupted(TRUE)
    /\ UNCHANGED <<wrOwner, wrWaits, callVars, streamVars, wrQueue, wrTurn, wrEnded, wrDead,
                   wrOthers, wrClosings, wrPrompts, wrMine>>

----
(* Calls                                                                   *)
WrCall(c, op) ==
    /\ wrOp[c] = "none"
    /\ op = "next" => wrIterator \in {NoClient, c} \/ wrFinished
    /\ wrIterator' = IF op = "next" /\ wrIterator = NoClient THEN c ELSE wrIterator
    /\ wrOp' = [wrOp EXCEPT ![c] = op] /\ wrAt' = [wrAt EXCEPT ![c] = "lock"]
    /\ UNCHANGED <<wrOwner, wrWaits, wrLock, streamVars, sessionVars, ghostVars>>

GiveBack(c) ==
    /\ wrOp' = [wrOp EXCEPT ![c] = "none"] /\ wrAt' = [wrAt EXCEPT ![c] = "idle"]
    /\ wrLock' = IF wrLock = c THEN NoClient ELSE wrLock
    /\ UNCHANGED wrIterator

Stay(c, at) ==
    /\ wrAt' = [wrAt EXCEPT ![c] = at] /\ wrLock' = c
    /\ UNCHANGED <<wrOp, wrIterator>>

LockFreeAlways(c) == wrLock # c  \* Mutant: the lock is not taken.

LockFree(c) == wrLock = NoClient

Waiting(c) == wrAt[c] = "lock" /\ LockFree(c)
Closing(op) == op \in {"close", "exit"}

\* What ends a call as soon as it has the lock.
EndsAtOnce(op) ==
    \/ wrFailure
    \/ op # "next" /\ wrReport # "none"
    \/ wrStarted /\ wrFinished

\* A stream that is left before it was started discards its session.
DiscardsFailed(op) == op = "exit" /\ ~wrStarted /\ wrReport = "none"  \* Mutant: a start that failed is no reason.

Discards(op) == op = "exit" /\ ~wrStarted /\ wrReport = "none" /\ ~wrFailure

Discard(c) ==
    /\ Waiting(c) /\ Discards(wrOp[c]) /\ GiveBack(c)
    /\ wrCloses' = TRUE /\ wrFinished' = TRUE /\ wrFinal' = "interrupted"
    /\ wrReport' = CloseStatus("none", wrStatus, "interrupted")
    /\ IF wrOwner = "helper"
       THEN wrStatus' = "INTERRUPTED" /\ wrQueue' = <<>> /\ wrClosings' = wrClosings + 1
       ELSE UNCHANGED <<wrStatus, wrQueue, wrClosings>>
    /\ UNCHANGED <<wrOwner, wrWaits, wrStarted, wrAdvanced, wrInterrupts, wrFailure, wrTerminal,
                   wrTurn, wrEnded, wrDead, wrOthers, wrPrompts, ghostVars>>

\* close() interrupts the turn if an event of it was seen and no terminal one.
Enter(c) ==
    LET op == wrOp[c]
        closes == Closing(op) /\ wrStarted /\ ~wrFailure /\ wrReport = "none"
        stops == closes /\ ~wrFinished /\ wrAdvanced /\ wrTerminal = "none" /\ ~wrInterrupts IN
    /\ Waiting(c) /\ ~Discards(op)
    /\ IF EndsAtOnce(op) THEN GiveBack(c) ELSE Stay(c, IF wrStarted THEN "advance" ELSE "starting")
    /\ wrCloses' = (wrCloses \/ closes) /\ wrInterrupts' = (wrInterrupts \/ stops)
    /\ wrStatus' = IF stops THEN "INTERRUPTED" ELSE wrStatus
    /\ wrGone' = wrGone \cup (IF stops /\ wrTurn = "other" THEN {"queue"} ELSE {})
                         \cup (IF ~EndsAtOnce(op) /\ wrFinished THEN {"revived"} ELSE {})
    /\ UNCHANGED <<wrOwner, wrWaits, wrStarted, wrAdvanced, wrFinished, wrReport, wrFailure,
                   wrFinal, wrTerminal, wrQueue, wrTurn, wrEnded, wrDead, wrOthers, wrClosings,
                   wrPrompts, wrMine>>

\* resume(), start() and the prompt into the queue. A discarded stream starts again for next().
StartSucceeds(c) ==
    /\ wrAt[c] = "starting"
    /\ IF wrFinished THEN GiveBack(c) ELSE Stay(c, "advance")
    /\ wrStarted' = TRUE /\ wrStatus' = "READY"
    /\ wrPrompts' = wrPrompts + 1 /\ wrQueue' \in Queued("mine")
    /\ wrCloses' = (wrCloses \/ Closing(wrOp[c]))
    /\ UNCHANGED <<wrOwner, wrWaits, wrAdvanced, wrInterrupts, wrFinished, wrReport, wrFailure,
                   wrFinal, wrTerminal, wrTurn, wrEnded, wrDead, wrOthers, wrClosings, ghostVars>>

\* A failure is recorded; a helper-owned session is closed before it is raised.
Fails(c) ==
    /\ wrFailure' = TRUE /\ wrFinished' = TRUE
    /\ wrFinal' = CloseStatus(wrTerminal, wrStatus, "failed")
    /\ IF wrOwner = "helper" THEN Stay(c, "failing") ELSE GiveBack(c)
    /\ wrStatus' = IF wrOwner = "caller" /\ wrCloses THEN "READY" ELSE wrStatus
    /\ UNCHANGED <<wrOwner, wrWaits, wrStarted, wrAdvanced, wrInterrupts, wrCloses, wrReport,
                   wrTerminal, wrQueue, wrOthers, wrClosings, wrPrompts, wrMine>>

StartFails(c) ==
    /\ wrAt[c] = "starting" /\ Fails(c)
    /\ UNCHANGED <<wrTurn, wrEnded, wrDead, wrGone>>

StreamFails(c) ==
    /\ wrAt[c] = "pulling" /\ Fails(c)
    /\ wrTurn' = "none" /\ wrDead' = TRUE
    /\ wrGone' = IF wrTurn = "other" THEN wrGone \cup {"queue"} ELSE wrGone
    /\ UNCHANGED wrEnded

----
(* Pulling events                                                          *)
\* A turn that is over leaves the session ready; an interrupted one ends the events.
Breaks == wrTurn # "none" /\ wrStatus = "INTERRUPTED"
Over == wrDead \/ (~Running /\ (Breaks \/ wrQueue = <<>>))

\* What a pull waits for: the turn that runs, or the one of the next command.
Pull(c) ==
    /\ wrAt[c] = "advance" /\ ~Over /\ Stay(c, "pulling")
    /\ IF Running THEN UNCHANGED <<wrStatus, wrTurn, wrEnded, wrQueue>>
       ELSE /\ wrTurn' = Head(wrQueue) /\ wrQueue' = Tail(wrQueue)
            /\ wrStatus' = "RUNNING" /\ wrEnded' = FALSE
    /\ UNCHANGED <<wrOwner, wrWaits, streamVars, wrDead, wrOthers, wrClosings, wrPrompts, ghostVars>>

\* next() returns with an event, the other calls go on.
Collected(c) == IF wrOp[c] = "next" THEN GiveBack(c) ELSE Stay(c, "advance")

\* An event that is not the terminal one; a stream that closes interrupts the turn once.
WrEvent(c) ==
    LET stops == Closing(wrOp[c]) /\ ~wrInterrupts IN
    /\ wrAt[c] = "pulling" /\ Collected(c)
    /\ wrAdvanced' = TRUE /\ wrInterrupts' = (wrInterrupts \/ stops) /\ Interrupted(stops)
    /\ UNCHANGED <<wrOwner, wrWaits, wrStarted, wrCloses, wrFinished, wrReport, wrFailure, wrFinal,
                   wrTerminal, wrQueue, wrTurn, wrEnded, wrDead, wrOthers, wrClosings, wrPrompts,
                   wrMine>>

\* A turn that was interrupted may still end as if it had not been.
WrTerminal(c, kind) ==
    LET status == CASE kind = "stopped" -> "WAITING"
                    [] kind = "interrupted" -> "INTERRUPTED"
                    [] OTHER -> wrStatus IN
    /\ wrAt[c] = "pulling" /\ Collected(c)
    /\ wrAdvanced' = TRUE /\ wrEnded' = TRUE /\ wrStatus' = status
    /\ wrTerminal' = kind /\ wrFinal' = CloseStatus(kind, status, wrFinal)
    /\ wrMine' = IF wrTurn = "other" THEN wrMine
                 ELSE IF wrStatus = "INTERRUPTED" THEN "cut" ELSE kind
    /\ wrGone' = IF wrTurn = "other" /\ kind = "interrupted" THEN wrGone \cup {"queue"} ELSE wrGone
    /\ UNCHANGED <<wrOwner, wrWaits, wrStarted, wrInterrupts, wrCloses, wrFinished, wrReport,
                   wrFailure, wrQueue, wrTurn, wrDead, wrOthers, wrClosings, wrPrompts>>

----
(* The report                                                              *)
AfterTurn == IF wrTurn = "none" \/ wrStatus \in {"INTERRUPTED", "WAITING"} THEN wrStatus ELSE "READY"
Reset(status) == IF wrOwner = "caller" /\ wrCloses THEN "READY" ELSE status

\* The events are over. The report takes its status before the session is closed.
End(c) ==
    LET says == CloseStatus(wrTerminal, AfterTurn, wrFinal)
        awaits == wrOwner = "helper" \/ wrWaits IN
    /\ wrAt[c] = "advance" /\ Over
    /\ wrFinished' = TRUE /\ wrTurn' = "none" /\ wrFinal' = says
    /\ IF awaits
       THEN Stay(c, "finishing") /\ wrReport' = wrReport /\ wrStatus' = AfterTurn
       ELSE GiveBack(c) /\ wrReport' = says /\ wrStatus' = Reset(AfterTurn)
    /\ UNCHANGED <<wrOwner, wrWaits, wrStarted, wrAdvanced, wrInterrupts, wrCloses, wrFailure,
                   wrTerminal, wrQueue, wrEnded, wrDead, wrOthers, wrClosings, wrPrompts, ghostVars>>

\* A session that was closed or discarded before is not closed again.
ClosedSession(closes) ==
    LET now == closes /\ wrClosings = 0 IN
    /\ wrClosings' = wrClosings + (IF now THEN 1 ELSE 0)
    /\ wrStatus' = IF now THEN "CLOSED" ELSE wrStatus

\* The session is closed and the background work waited for.
WrFinish(c) ==
    /\ wrAt[c] = "finishing" /\ GiveBack(c)
    /\ wrReport' = wrFinal
    /\ IF wrOwner = "helper" THEN ClosedSession(TRUE) ELSE wrStatus' = Reset(wrStatus) /\ UNCHANGED wrClosings
    /\ UNCHANGED <<wrOwner, wrWaits, wrStarted, wrAdvanced, wrInterrupts, wrCloses, wrFinished,
                   wrFailure, wrFinal, wrTerminal, wrQueue, wrTurn, wrEnded, wrDead, wrOthers,
                   wrPrompts, ghostVars>>

\* close() raised, but not before its finally clause: there is no report and no failure.
CloseFails(c) ==
    /\ wrAt[c] = "finishing" /\ wrOwner = "helper" /\ GiveBack(c)
    /\ ClosedSession(TRUE) /\ wrGone' = wrGone \cup {"finish"}
    /\ UNCHANGED <<wrOwner, wrWaits, streamVars, wrQueue, wrTurn, wrEnded, wrDead, wrOthers,
                   wrPrompts, wrMine>>

FinishFailing(c) ==
    /\ wrAt[c] = "failing" /\ GiveBack(c) /\ ClosedSession(TRUE)
    /\ UNCHANGED <<wrOwner, wrWaits, streamVars, wrQueue, wrTurn, wrEnded, wrDead, wrOthers,
                   wrPrompts, ghostVars>>

\* The task is cancelled where it awaits; close() still runs its finally clause.
Cancel(c) ==
    LET at == wrAt[c] IN
    /\ at \in {"lock", "starting", "pulling", "finishing", "failing"} /\ GiveBack(c)
    /\ wrDead' = (wrDead \/ at = "pulling")
    /\ wrTurn' = IF at = "pulling" THEN "none" ELSE wrTurn
    /\ wrGone' = wrGone \cup (CASE at = "pulling" -> {"turn"}
                                [] at = "finishing" -> {"finish"}
                                [] OTHER -> {})
    /\ ClosedSession(wrOwner = "helper" /\ at \in {"finishing", "failing"})
    /\ UNCHANGED <<wrOwner, wrWaits, streamVars, wrQueue, wrEnded, wrOthers, wrPrompts, wrMine>>

WrNext ==
    \/ QueueOther \/ HostInterrupt
    \/ \E c \in WrClients :
        \/ \E op \in Ops : WrCall(c, op)
        \/ Discard(c) \/ Enter(c) \/ StartSucceeds(c) \/ StartFails(c) \/ StreamFails(c)
        \/ Pull(c) \/ WrEvent(c) \/ (\E kind \in Terminals : WrTerminal(c, kind))
        \/ End(c) \/ WrFinish(c) \/ CloseFails(c) \/ FinishFailing(c) \/ Cancel(c)

WrSpec == WrInit /\ [][WrNext]_wrVars

----
(* Properties                                                              *)
WrTypeOK ==
    /\ wrOwner \in {"helper", "caller"} /\ wrWaits \in BOOLEAN
    /\ wrOp \in [WrClients -> Ops \cup {"none"}]
    /\ wrAt \in [WrClients -> {"idle", "lock", "starting", "advance", "pulling", "finishing", "failing"}]
    /\ {wrLock, wrIterator} \subseteq WrClients \cup {NoClient}
    /\ {wrStarted, wrAdvanced, wrInterrupts, wrCloses, wrFinished, wrFailure, wrEnded, wrDead} \subseteq BOOLEAN
    /\ wrReport \in Terminals \cup {"none"} /\ wrTerminal \in Terminals \cup {"none"}
    /\ wrFinal \in Terminals
    /\ wrStatus \in {"IDLE", "READY", "RUNNING", "WAITING", "INTERRUPTED", "CLOSED"}
    /\ wrQueue \in Seq({"mine", "other"}) /\ wrTurn \in {"none", "mine", "other"}
    /\ wrOthers \in 0..MaxOthers /\ {wrClosings, wrPrompts} \subseteq Nat
    /\ wrMine \in Terminals \cup {"none", "cut"} /\ wrGone \subseteq {"turn", "finish", "queue", "revived"}

\* However many tasks use the stream, the model is asked once.
AskedOnce == wrPrompts <= 1 /\ (wrPrompts = 1 <=> wrStarted)

\* A helper-owned session is closed exactly once, before its end is told; a caller's never.
ClosedWithStream ==
    IF wrOwner = "caller" THEN wrClosings = 0
    ELSE /\ wrClosings <= 1
         /\ wrLock = NoClient => (wrClosings = 1 <=> wrFinished)

\* "completed" is said only of a turn that completed and was not interrupted, unless the
\* task that pulled it was cancelled.
CompletedIsCompleted ==
    wrOwner = "helper" /\ wrReport = "completed" /\ "turn" \notin wrGone => wrMine = "completed"

\* The end of the events is a report or a failure, not both unless a discarded stream was
\* started again, and one of them unless the closing was cut off.
FinishedIsTold ==
    /\ wrReport # "none" /\ wrFailure => "revived" \in wrGone
    /\ wrFinished /\ wrLock = NoClient => wrReport # "none" \/ wrFailure \/ "finish" \in wrGone

\* The prompt is not left in the queue of a finished stream, unless a turn before it was
\* interrupted or failed, or next() started a discarded stream.
PromptIsTaken ==
    wrFinished /\ wrLock = NoClient /\ wrGone \cap {"queue", "turn", "revived"} = {}
        => \A i \in DOMAIN wrQueue : wrQueue[i] # "mine"

ReportsSafe ==
    WrTypeOK /\ AskedOnce /\ ClosedWithStream /\ CompletedIsCompleted /\ FinishedIsTold /\ PromptIsTaken
=============================================================================
