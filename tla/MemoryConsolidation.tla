-------------------------- MODULE MemoryConsolidation --------------------------
(***************************************************************************)
(* The background consolidation of one memory root                         *)
(* (weavert_memory/manager.py, session_artifacts.py): the runtimes that    *)
(* share the root are processes, each with one queue and one thread for    *)
(* it, and what keeps their runs apart is a lock file. The clock ticks in  *)
(* steps longer than the second a timestamp resolves and the age at which  *)
(* an unreadable lock is stale, so what happens between two ticks may have *)
(* one timestamp.                                                          *)
(***************************************************************************)
EXTENDS Naturals, FiniteSets

CONSTANTS
    McProcs,      \* the processes
    McSessions,   \* the sessions, each with its process
    Home,         \* the process of a session
    MinClosed,    \* min_closed_sessions, backlog_threshold
    MaxMcTurns,   \* bound: turns of each session
    MaxMcRuns,    \* bound: locks taken
    MaxMcClock,   \* bound: ticks
    MaxMcCrashes  \* bound: crashes

\* Where the thread of a process is, but for the session whose file it is to write.
McSteps == {"idle", "take", "check", "acquire", "unlink", "fill", "stage", "merge", "mark",
            "release", "report", "settle", "leave"}

ASSUME McAssumption ==
    /\ Home \in [McSessions -> McProcs] /\ McSessions \cap McSteps = {}
    /\ MinClosed \in Nat \ {0}
    /\ MaxMcTurns \in [McSessions -> Nat] /\ MaxMcRuns \in Nat /\ MaxMcClock \in Nat
    /\ MaxMcCrashes \in Nat

VARIABLES
    mcClock,     \* the time
    mcMeta,      \* the metadata file of each session
    mcLock,      \* the lock file: who made it, in which run and when, and whether its
                 \* text is there; or NoLock
    mcSuccess,   \* last_successful_run_at of the manifest, or Never
    mcProc,      \* the queue and the thread of each process
    mcRunCount,  \* runs begun
    mcCrashes,   \* crashes
    mcTold,      \* the turns of each session that a successful run has read
    mcOverrun,   \* sessions written to while a run that had read them went on, or in
                 \* the second of its end
    mcStuck,     \* the runs that died, or failed outside the merge, and left their lock
    mcStolen     \* the lock of a run that went on was removed

mcVars == <<mcClock, mcMeta, mcLock, mcSuccess, mcProc, mcRunCount, mcCrashes, mcTold, mcOverrun,
            mcStuck, mcStolen>>

Never == MaxMcClock + 1
NoLock == [run |-> 0, at |-> 0, valid |-> FALSE]
NoMeta == [status |-> "none", updated |-> 0, consolidated |-> Never, turns |-> 0]
NothingRead == [s \in McSessions |-> 0]
(* read are the turns of the sessions of a run, todo the sessions still to *)
(* be marked, meta the file of the one that is; missed says that the       *)
(* pending payload came too late for the queue, seen the lock it removed.  *)
Quiet == [pc |-> "idle", pending |-> FALSE, missed |-> FALSE, job |-> "none", run |-> 0,
          seen |-> 0, read |-> NothingRead, todo |-> {}, meta |-> NoMeta, end |-> 0]

Locked == mcLock # NoLock

----
(* Sessions, on the event loop of their process *)

(* The manifest of the sessions: ready_for_consolidation *)
Ready(s) == mcMeta[s].status \notin {"none", "active"}

(* _pending_consolidation_sessions *)
Ripe(s) ==
    /\ Ready(s)
    /\ \/ mcMeta[s].consolidated = Never
       \/ mcMeta[s].consolidated < mcMeta[s].updated
Backlog == {s \in McSessions : Ripe(s)}

(* Sessions that a run in flight has read, or that a run has just marked. *)
Overruns(s) ==
    \/ \E p \in McProcs : mcProc[p].read[s] > 0
    \/ mcMeta[s].consolidated # Never /\ mcMeta[s].consolidated >= mcClock

(* Every write to the artifacts of a session says when it was. *)
Written(meta, status) == [meta EXCEPT !.status = status, !.updated = mcClock]

(* A turn: its artifacts, and record_session_memory_deltas *)
RecordTurn(s) ==
    /\ mcMeta[s].turns < MaxMcTurns[s]
    /\ mcMeta' = [mcMeta EXCEPT ![s] = [Written(mcMeta[s], "active") EXCEPT !.turns = @ + 1]]
    /\ mcOverrun' = IF Overruns(s) THEN mcOverrun \cup {s} ELSE mcOverrun
    /\ UNCHANGED <<mcClock, mcLock, mcSuccess, mcProc, mcRunCount, mcCrashes, mcTold, mcStuck,
                   mcStolen>>

(* schedule_background_consolidation: a queue that is on its way out is    *)
(* still in _consolidation_tasks_by_key, so no other is started.           *)
Scheduled(q) ==
    IF q.pc = "idle"
    THEN [q EXCEPT !.pending = TRUE, !.pc = "take", !.job = "pending", !.missed = FALSE]
    ELSE [q EXCEPT !.pending = TRUE, !.missed = (@ \/ q.pc \in {"settle", "leave"})]

(* SessionController.close: update_session_status, then the scheduling. *)
CloseSession(s) ==
    /\ mcMeta[s].status = "active"
    /\ mcMeta' = [mcMeta EXCEPT ![s] = Written(@, "completed")]
    /\ mcOverrun' = IF Overruns(s) THEN mcOverrun \cup {s} ELSE mcOverrun
    /\ mcProc' = [mcProc EXCEPT ![Home[s]] = Scheduled(@)]
    /\ UNCHANGED <<mcClock, mcLock, mcSuccess, mcRunCount, mcCrashes, mcTold, mcStuck, mcStolen>>

----
(* The thread of a process *)

McAt(p, pc) == mcProc[p].pc = pc
Quietly == UNCHANGED <<mcClock, mcMeta, mcRunCount, mcCrashes, mcTold, mcOverrun, mcStuck,
                       mcStolen>>

(* _run_background_consolidation_queue takes the payload, or leaves. *)
Take(p) ==
    /\ McAt(p, "take")
    /\ mcProc' = [mcProc EXCEPT ![p] =
                     IF @.pending THEN [@ EXCEPT !.pending = FALSE, !.pc = "check", !.job = "running",
                                                 !.missed = FALSE]
                     ELSE [@ EXCEPT !.pc = "settle"]]
    /\ Quietly /\ UNCHANGED <<mcLock, mcSuccess>>

(* The manifest is refreshed, which reads the backlog and the lock, then   *)
(* _should_run_consolidation. min_hours_since_last_run passes in a tick.   *)
Check(p) ==
    /\ McAt(p, "check")
    /\ mcProc' = [mcProc EXCEPT ![p].pc =
                     IF /\ ~mcLock.valid
                        /\ Cardinality(Backlog) >= MinClosed
                        /\ mcSuccess = Never \/ mcSuccess < mcClock
                     THEN "acquire" ELSE "take"]
    /\ Quietly /\ UNCHANGED <<mcLock, mcSuccess>>

\* Mutant: an unreadable lock is removed whatever its age.
StaleAnyAge(lock) == TRUE

(* An unreadable lock is stale after a second. *)
McStale(lock) == lock.at < mcClock

(* _acquire_consolidation_lock up to the file it makes: O_EXCL, and at most*)
(* one look at a file that is in the way.                                  *)
Acquire(p) ==
    /\ McAt(p, "acquire")
    /\ mcRunCount < MaxMcRuns
    /\ IF ~Locked
       THEN /\ mcLock' = [run |-> mcRunCount + 1, at |-> mcClock, valid |-> FALSE]
            /\ mcRunCount' = mcRunCount + 1
            /\ mcProc' = [mcProc EXCEPT ![p].pc = "fill", ![p].run = mcRunCount + 1]
       ELSE /\ mcProc' = [mcProc EXCEPT ![p].pc =
                             IF ~mcLock.valid /\ McStale(mcLock) /\ mcProc[p].seen = 0
                             THEN "unlink" ELSE "take",
                                        ![p].seen = IF @ = 0 THEN mcLock.run ELSE 0]
            /\ UNCHANGED <<mcLock, mcRunCount>>
    /\ UNCHANGED <<mcClock, mcMeta, mcSuccess, mcCrashes, mcTold, mcOverrun, mcStuck, mcStolen>>

(* The stale file, or what is in its place by now, is removed. *)
RemoveStale(p) ==
    /\ McAt(p, "unlink")
    /\ mcLock' = NoLock
    /\ mcStolen' = (mcStolen \/ /\ Locked
                                /\ \E q \in McProcs : mcProc[q].run = mcLock.run
                                /\ mcLock.at < mcClock \/ mcLock.run # mcProc[p].seen)
    /\ mcProc' = [mcProc EXCEPT ![p].pc = "acquire"]
    /\ UNCHANGED <<mcClock, mcMeta, mcSuccess, mcRunCount, mcCrashes, mcTold, mcOverrun, mcStuck>>

(* The text of the lock: a file that was removed meanwhile is written to *)
(* all the same, by its descriptor.                                      *)
FillLock(p) ==
    /\ McAt(p, "fill")
    /\ mcLock' = IF mcLock.run = mcProc[p].run THEN [mcLock EXCEPT !.valid = TRUE] ELSE mcLock
    /\ mcProc' = [mcProc EXCEPT ![p].pc = "stage", ![p].seen = 0]
    /\ Quietly /\ UNCHANGED mcSuccess

(* The sessions are read and the proposals built and staged. *)
StageRun(p) ==
    /\ McAt(p, "stage")
    /\ mcProc' = [mcProc EXCEPT ![p].pc = "merge",
                     ![p].read = [s \in McSessions |-> IF Ripe(s) THEN mcMeta[s].turns ELSE 0]]
    /\ Quietly /\ UNCHANGED <<mcLock, mcSuccess>>

(* _merge_consolidation_proposals *)
MergeRun(p) ==
    /\ McAt(p, "merge")
    /\ mcProc' = [mcProc EXCEPT ![p].pc = "mark", ![p].end = mcClock,
                                ![p].todo = {s \in McSessions : mcProc[p].read[s] > 0}]
    /\ Quietly /\ UNCHANGED <<mcLock, mcSuccess>>

\* Mutant: a run that failed marks its sessions as well.
FailMergeMarks(p) ==
    /\ McAt(p, "merge")
    /\ mcProc' = [mcProc EXCEPT ![p].pc = "release", ![p].job = "failed"]
    /\ mcMeta' = [s \in McSessions |-> IF mcProc[p].read[s] = 0 THEN mcMeta[s]
                                      ELSE [mcMeta[s] EXCEPT !.consolidated = mcClock]]
    /\ UNCHANGED <<mcClock, mcLock, mcSuccess, mcRunCount, mcCrashes, mcTold, mcOverrun, mcStuck,
                   mcStolen>>

\* Mutant: the lock of a run that failed is left.
FailMergeKeepsLock(p) ==
    /\ McAt(p, "merge")
    /\ mcProc' = [mcProc EXCEPT ![p].pc = "report", ![p].job = "failed"]
    /\ Quietly /\ UNCHANGED <<mcLock, mcSuccess>>

(* An exception of the merge: the documents are put back. *)
FailMerge(p) ==
    /\ McAt(p, "merge")
    /\ mcProc' = [mcProc EXCEPT ![p].pc = "release", ![p].job = "failed"]
    /\ Quietly /\ UNCHANGED <<mcLock, mcSuccess>>

(* _mark_sessions_consolidated reads the file of a session ... *)
ReadMeta(p, s) ==
    /\ McAt(p, "mark")
    /\ s \in mcProc[p].todo
    /\ mcProc' = [mcProc EXCEPT ![p].pc = s, ![p].meta = mcMeta[s], ![p].todo = @ \ {s}]
    /\ Quietly /\ UNCHANGED <<mcLock, mcSuccess>>

(* ... and writes it. *)
WriteMeta(p, s) ==
    /\ McAt(p, s)
    /\ mcMeta' = [mcMeta EXCEPT ![s] = [mcProc[p].meta EXCEPT !.consolidated = mcProc[p].end]]
    /\ mcTold' = [mcTold EXCEPT ![s] = mcProc[p].read[s]]
    /\ mcProc' = [mcProc EXCEPT ![p].pc = "mark", ![p].meta = NoMeta]
    /\ UNCHANGED <<mcClock, mcLock, mcSuccess, mcRunCount, mcCrashes, mcOverrun, mcStuck, mcStolen>>

(* _release_consolidation_lock: not a lock that reads as the one of another*)
(* run; an unreadable one goes.                                            *)
Releases(lock, run) == ~lock.valid \/ lock.run = run

ReleaseLock(p) ==
    /\ \/ McAt(p, "release")
       \/ McAt(p, "mark") /\ mcProc[p].todo = {}
    /\ LET releases == Locked /\ Releases(mcLock, mcProc[p].run)
       IN  /\ mcLock' = IF releases THEN NoLock ELSE mcLock
           /\ mcStolen' = (mcStolen \/ (releases /\ mcLock.run # mcProc[p].run))
    /\ mcProc' = [mcProc EXCEPT ![p].pc = "report", ![p].run = 0, ![p].read = NothingRead]
    /\ UNCHANGED <<mcClock, mcMeta, mcSuccess, mcRunCount, mcCrashes, mcTold, mcOverrun, mcStuck>>

(* The queue leaves its loop with an exception of the run. *)
Broken(q) ==
    [q EXCEPT !.pc = "settle", !.job = "failed", !.run = 0, !.read = NothingRead, !.todo = {},
              !.missed = q.pending]

\* Mutant: the queue takes one payload.
ReportLeaves(p) ==
    /\ McAt(p, "report")
    /\ IF mcProc[p].job = "failed"
       THEN mcProc' = [mcProc EXCEPT ![p] = Broken(@)] /\ UNCHANGED mcSuccess
       ELSE mcProc' = [mcProc EXCEPT ![p].pc = "settle"] /\ mcSuccess' = mcProc[p].end
    /\ Quietly /\ UNCHANGED mcLock

(* The manifest is refreshed with the run. *)
Report(p) ==
    /\ McAt(p, "report")
    /\ IF mcProc[p].job = "failed"
       THEN mcProc' = [mcProc EXCEPT ![p] = Broken(@)] /\ UNCHANGED mcSuccess
       ELSE mcProc' = [mcProc EXCEPT ![p].pc = "take"] /\ mcSuccess' = mcProc[p].end
    /\ Quietly /\ UNCHANGED mcLock

(* A file that cannot be written, anywhere in the run but in the merge. *)
FailOutsideMerge(p) ==
    /\ mcProc[p].pc \in {"stage", "mark", "release"}
    /\ mcStuck' = mcStuck \cup {mcProc[p].run}
    /\ mcProc' = [mcProc EXCEPT ![p] = Broken(@)]
    /\ UNCHANGED <<mcClock, mcMeta, mcLock, mcSuccess, mcRunCount, mcCrashes, mcTold, mcOverrun,
                   mcStolen>>

(* The queue settles its job ... *)
SettleJob(p) ==
    /\ McAt(p, "settle")
    /\ mcProc' = [mcProc EXCEPT ![p].pc = "leave",
                                ![p].job = IF @ = "failed" THEN @ ELSE "completed"]
    /\ Quietly /\ UNCHANGED <<mcLock, mcSuccess>>

(* ... and goes from _consolidation_tasks_by_key. *)
Leave(p) ==
    /\ McAt(p, "leave")
    /\ mcProc' = [mcProc EXCEPT ![p].pc = "idle"]
    /\ Quietly /\ UNCHANGED <<mcLock, mcSuccess>>

----
(* The environment *)

McCrash(p) ==
    /\ mcCrashes < MaxMcCrashes
    /\ mcCrashes' = mcCrashes + 1
    /\ mcProc' = [mcProc EXCEPT ![p] = Quiet]
    /\ mcStuck' = mcStuck \cup ({mcProc[p].run} \ {0})
    /\ UNCHANGED <<mcClock, mcMeta, mcLock, mcSuccess, mcRunCount, mcTold, mcOverrun, mcStolen>>

Tick ==
    /\ mcClock < MaxMcClock
    /\ mcClock' = mcClock + 1
    /\ UNCHANGED <<mcMeta, mcLock, mcSuccess, mcProc, mcRunCount, mcCrashes, mcTold, mcOverrun,
                   mcStuck, mcStolen>>

----
McInit ==
    /\ mcClock = 0
    /\ mcMeta = [s \in McSessions |-> NoMeta]
    /\ mcLock = NoLock
    /\ mcSuccess = Never
    /\ mcProc = [p \in McProcs |-> Quiet]
    /\ mcRunCount = 0
    /\ mcCrashes = 0
    /\ mcTold = [s \in McSessions |-> 0]
    /\ mcOverrun = {}
    /\ mcStuck = {}
    /\ mcStolen = FALSE

McNext ==
    \/ \E s \in McSessions : RecordTurn(s) \/ CloseSession(s)
    \/ \E p \in McProcs :
          \/ Take(p) \/ Check(p) \/ Acquire(p) \/ RemoveStale(p) \/ FillLock(p)
          \/ StageRun(p) \/ MergeRun(p) \/ FailMerge(p)
          \/ \E s \in McSessions : ReadMeta(p, s) \/ WriteMeta(p, s)
          \/ ReleaseLock(p) \/ Report(p) \/ FailOutsideMerge(p)
          \/ SettleJob(p) \/ Leave(p) \/ McCrash(p)
    \/ Tick

McSpec == McInit /\ [][McNext]_mcVars

----
InRun(p) == mcProc[p].run # 0

McTypeOK ==
    /\ mcClock \in 0..MaxMcClock
    /\ mcMeta \in [McSessions -> [status : {"none", "active", "completed"}, updated : 0..MaxMcClock,
                                  consolidated : 0..Never, turns : Nat]]
    /\ mcLock \in [run : 0..MaxMcRuns, at : 0..MaxMcClock, valid : BOOLEAN]
    /\ mcSuccess \in 0..Never
    /\ \A p \in McProcs :
          /\ mcProc[p].job \in {"none", "pending", "running", "failed", "completed"}
          /\ mcProc[p].todo \subseteq {s \in McSessions : mcProc[p].read[s] > 0}
    /\ mcOverrun \subseteq McSessions
    /\ mcStuck \subseteq 1..MaxMcRuns

(* Two runs never work on the documents at a time, unless the lock of one  *)
(* of them was removed while it went on: its file was old and still empty, *)
(* or the one who found a stale file removed a newer one in its place.     *)
OneRunAtATime == mcStolen \/ \A p, q \in McProcs : InRun(p) /\ InRun(q) => p = q

(* A lock is the one of a run that goes on, or of a run that has died or   *)
(* failed outside its merge: those, once readable, block every later run   *)
(* for good (active_lock, which nothing expires). A failing merge gives    *)
(* its lock back.                                                          *)
LockHasOwner ==
    Locked =>
        \/ mcLock.run \in mcStuck
        \/ \E p \in McProcs : InRun(p) /\ mcProc[p].run = mcLock.run

(* A closed session that no run will read again has had all its turns read *)
(* by a run that merged them. What is written to it while a run that has   *)
(* read it goes on, or in the second it ends, is the exception: the        *)
(* time the run ends hides it, and the mark may write over it.             *)
NoTurnSkipped ==
    \A s \in McSessions \ mcOverrun :
        mcMeta[s].status = "completed" /\ ~Ripe(s) => mcTold[s] = mcMeta[s].turns

(* A payload waits only for a queue that will take it, unless it came when *)
(* the queue had left its loop, or the queue failed: it then waits for the *)
(* next session to close, and its job says that it is done.                *)
ScheduledIsServed ==
    \A p \in McProcs :
        mcProc[p].pending => mcProc[p].missed \/ mcProc[p].pc \notin {"idle", "settle", "leave"}

(* What the consolidation of a memory root keeps. *)
ConsolidationSafe ==
    McTypeOK /\ OneRunAtATime /\ LockHasOwner /\ NoTurnSkipped /\ ScheduledIsServed
================================================================================
