------------------------------ MODULE AgentJobs ------------------------------
(***************************************************************************)
(* Background agent jobs: DefaultJobService (jobs.py) driving the built-in *)
(* AgentJobExecutor (agent_dispatcher.py), the asyncio task that runs the  *)
(* agent, the child-run record that task writes, concurrent stop() calls,  *)
(* and a process crash followed by recover_inflight() over the stores that *)
(* survive it (FileJobStore, FileChildRunStore).                           *)
(*                                                                         *)
(* Everything runs on one event loop, so the code between two awaits is    *)
(* one action.  The awaits at which another coroutine may run are the      *)
(* states of submitter, runner and stopper.                                *)
(***************************************************************************)
EXTENDS Naturals, FiniteSets

CONSTANTS
  Jobs,        \* job ids; each is submitted at most once (uuid4 ids)
  Stoppers,    \* concurrent callers of DefaultJobService.stop
  MaxCrashes   \* bound on process crashes

ASSUME JobsAssumption == MaxCrashes \in Nat

VARIABLES
  job,         \* status in the job store ("none": no record)
  run,         \* status of the child-run record ("none": no record)
  submitter,   \* where the submit() of the job is suspended
  runner,      \* where the background task of the job is suspended
  stopper,     \* the job whose task each stop() call awaits ({}: no call)
  recoveryDue, \* recover_inflight is scheduled and has not run yet
  notified,    \* terminal notifications appended for the job
  crashes      \* crashes so far

vars == <<job, run, submitter, runner, stopper, recoveryDue, notified, crashes>>

----
\* Job statuses and run statuses.

Terminal == {"completed", "failed", "stopped"}
JobStatus == {"none", "pending", "running"} \cup Terminal

TerminalRun == {"completed", "max_turns", "stopped", "failed", "denied"}
RunStatus == {"none", "running"} \cup TerminalRun

\* The awaits of executor.submit: run_store.upsert, then emit_child_run.
SubmitterState == {"idle", "writing", "emitting"}

\* created:     create_task() done, the coroutine has not taken its first step
\* turn:        inside execution_service.run, the turn not yet decided
\* saved:       the terminal run record is stored, its delivery is awaited
\* raise_saved: the same for the failed record of an exception on its way up
\* unwinding:   CancelledError is on its way to the stopped run record
\* stop_saved:  the stopped run record is stored, its delivery is awaited
\* notifying, stop_notifying, fail_notifying: the job is terminal and
\*              host.emit_notification is awaited, in the try body of runner()
\*              or in its handler of CancelledError or of Exception
\* done:        the task ended; crashed: it ended by raising
Notifying == {"notifying", "stop_notifying", "fail_notifying"}

\* The tasks that are not done() yet.
Alive == {"created", "turn", "saved", "raise_saved", "unwinding", "stop_saved"}
           \cup Notifying

RunnerState == {"none", "done", "crashed"} \cup Alive

\* Every variable has its type.
TypeOK ==
  /\ job \in [Jobs -> JobStatus]
  /\ run \in [Jobs -> RunStatus]
  /\ submitter \in [Jobs -> SubmitterState]
  /\ runner \in [Jobs -> RunnerState]
  /\ stopper \in [Stoppers -> SUBSET Jobs]
  /\ recoveryDue \in BOOLEAN
  /\ notified \in [Jobs -> Nat]
  /\ crashes \in Nat

\* validate_job_transition: the statuses each phase may move to.
PermittedNext(phase, current) ==
  IF current = "pending" /\ phase = "start" THEN {"running", "completed", "failed"}
  ELSE IF current = "pending" /\ phase = "stop" THEN {"stopped"}
  ELSE IF current = "running" /\ phase = "stop" THEN {"running", "stopped"}
  ELSE IF current = "running" /\ phase = "recovery" THEN {"running"} \cup Terminal
  ELSE {}

Accepts(phase, current, next) ==
  \/ current = next
  \/ current \notin Terminal /\ next \in PermittedNext(phase, current)

\* The status an apply_*_result leaves: the new one, or the old one when the
\* transition is refused and JobLifecycleError is raised to the caller.
\* (Mutation: the transition is not validated.)
ApplyUnchecked(phase, current, next) == next
Apply(phase, current, next) == IF Accepts(phase, current, next) THEN next ELSE current

\* _job_status_for_agent_result
\* (Mutation: a run cut off by max_turns counts as completed.)
MaxTurnsCompletes(s) ==
  CASE s \in {"completed", "max_turns"} -> "completed"
    [] s = "stopped" -> "stopped"
    [] OTHER -> "failed"
JobStatusForRun(s) ==
  CASE s = "completed" -> "completed"
    [] s \in {"max_turns", "stopped"} -> "stopped"
    [] OTHER -> "failed"

----
Init ==
  /\ job = [j \in Jobs |-> "none"]
  /\ run = [j \in Jobs |-> "none"]
  /\ submitter = [j \in Jobs |-> "idle"]
  /\ runner = [j \in Jobs |-> "none"]
  /\ stopper = [c \in Stoppers |-> {}]
  /\ recoveryDue = TRUE
  /\ notified = [j \in Jobs |-> 0]
  /\ crashes = 0

----
\* DefaultJobService.submit: the pending record is stored, then the executor
\* writes the running child-run record and awaits.
Submit(j) ==
  /\ job[j] = "none"
  /\ job' = [job EXCEPT ![j] = "pending"]
  /\ submitter' = [submitter EXCEPT ![j] = "writing"]
  /\ UNCHANGED <<run, runner, stopper, recoveryDue, notified, crashes>>

WriteRunningRecord(j) ==
  /\ submitter[j] = "writing"
  /\ run' = [run EXCEPT ![j] = "running"]
  /\ submitter' = [submitter EXCEPT ![j] = "emitting"]
  /\ UNCHANGED <<job, runner, stopper, recoveryDue, notified, crashes>>

\* AgentJobExecutor.submit creates the task and returns; submit() applies the
\* start result without another await.  A job stopped in the meantime refuses
\* it, and the task runs on.
FinishSubmit(j) ==
  /\ submitter[j] = "emitting"
  /\ submitter' = [submitter EXCEPT ![j] = "idle"]
  /\ runner' = [runner EXCEPT ![j] = "created"]
  /\ job' = [job EXCEPT ![j] = Apply("start", @, "running")]
  /\ UNCHANGED <<run, stopper, recoveryDue, notified, crashes>>

\* An exception of the executor fails the job and is re-raised.
SubmitRaises(j) ==
  /\ submitter[j] # "idle"
  /\ submitter' = [submitter EXCEPT ![j] = "idle"]
  /\ job' = [job EXCEPT ![j] = Apply("start", @, "failed")]
  /\ UNCHANGED <<run, runner, stopper, recoveryDue, notified, crashes>>

\* submit() is cancelled with its caller: no handler of it catches that.
SubmitCancelled(j) ==
  /\ submitter[j] # "idle"
  /\ submitter' = [submitter EXCEPT ![j] = "idle"]
  /\ UNCHANGED <<job, run, runner, stopper, recoveryDue, notified, crashes>>

----
\* The background task: runner() around execution_service.run.
RunnerStarts(j) ==
  /\ runner[j] = "created"
  /\ runner' = [runner EXCEPT ![j] = "turn"]
  /\ UNCHANGED <<job, run, submitter, stopper, recoveryDue, notified, crashes>>

\* The turn ends (or permission is denied) and the terminal run record is stored.
\* Its delivery (emit_child_run, continuation, SubagentStop hook) is awaited.
TurnEnds(j, s) ==
  /\ runner[j] = "turn"
  /\ run' = [run EXCEPT ![j] = s]
  /\ runner' = [runner EXCEPT ![j] = "saved"]
  /\ UNCHANGED <<job, submitter, stopper, recoveryDue, notified, crashes>>

\* The turn, or the delivery of its record, raises: the record becomes failed,
\* whatever it was, and is delivered again before the exception goes on.
RunRaises(j) ==
  /\ runner[j] \in {"turn", "saved"}
  /\ run' = [run EXCEPT ![j] = "failed"]
  /\ runner' = [runner EXCEPT ![j] = "raise_saved"]
  /\ UNCHANGED <<job, submitter, stopper, recoveryDue, notified, crashes>>

\* apply_recovery_result(outcome), then the notification is appended and emitted;
\* a refused outcome raises out of the task and nothing is appended.
\* (Mutation: the notification is appended even when the outcome is refused.)
SettleUnconditionally(j, outcome, next) ==
  /\ job' = [job EXCEPT ![j] = Apply("recovery", @, outcome)]
  /\ notified' = [notified EXCEPT ![j] = @ + 1]
  /\ runner' = [runner EXCEPT ![j] = next]
  /\ UNCHANGED <<run, submitter, stopper, recoveryDue, crashes>>
Settle(j, outcome, next) ==
  /\ IF Accepts("recovery", job[j], outcome)
     THEN /\ job' = [job EXCEPT ![j] = outcome]
          /\ notified' = [notified EXCEPT ![j] = @ + 1]
          /\ runner' = [runner EXCEPT ![j] = next]
     ELSE /\ runner' = [runner EXCEPT ![j] = "crashed"]
          /\ UNCHANGED <<job, notified>>
  /\ UNCHANGED <<run, submitter, stopper, recoveryDue, crashes>>

\* runner() applies the outcome of the run.  A refused outcome raises
\* JobLifecycleError into runner()'s own handler, which then tries to fail the job.
RunnerApplies(j) ==
  /\ runner[j] = "saved"
  /\ LET outcome == JobStatusForRun(run[j])
     IN  IF Accepts("recovery", job[j], outcome)
         THEN Settle(j, outcome, "notifying")
         ELSE Settle(j, "failed", "fail_notifying")

\* The handler of Exception fails the job: for the exception whose failed record
\* was delivered, and when storing or delivering a record raised again.
RaiseApplies(j) ==
  /\ runner[j] = "raise_saved"
  /\ Settle(j, "failed", "fail_notifying")

RunnerFailsUnsaved(j) ==
  /\ runner[j] \in {"turn", "saved"}
  /\ Settle(j, "failed", "fail_notifying")

\* The host's notification sink raises.  In the try body the handler of Exception
\* then tries to fail the job; in a handler the exception ends the task.
NotifyRaises(j) ==
  \/ runner[j] = "notifying" /\ Settle(j, "failed", "fail_notifying")
  \/ /\ runner[j] \in {"stop_notifying", "fail_notifying"}
     /\ runner' = [runner EXCEPT ![j] = "crashed"]
     /\ UNCHANGED <<job, run, submitter, stopper, recoveryDue, notified, crashes>>

\* The handler of CancelledError stores a stopped run record, awaits its
\* delivery, then stops the job.
\* (Mutation: the stop reason is stored as the run status.)
StoreCancelledRecord(j) ==
  /\ runner[j] = "unwinding"
  /\ run' = [run EXCEPT ![j] = "cancelled"]
  /\ runner' = [runner EXCEPT ![j] = "stop_saved"]
  /\ UNCHANGED <<job, submitter, stopper, recoveryDue, notified, crashes>>
StoreStoppedRecord(j) ==
  /\ runner[j] = "unwinding"
  /\ run' = [run EXCEPT ![j] = "stopped"]
  /\ runner' = [runner EXCEPT ![j] = "stop_saved"]
  /\ UNCHANGED <<job, submitter, stopper, recoveryDue, notified, crashes>>

CancelApplies(j) ==
  /\ runner[j] = "stop_saved"
  /\ Settle(j, "stopped", "stop_notifying")

\* The handler itself raises (run store or delivery): nothing is applied.
CancelHandlerRaises(j) ==
  /\ runner[j] \in {"unwinding", "stop_saved"}
  /\ runner' = [runner EXCEPT ![j] = "crashed"]
  /\ UNCHANGED <<job, run, submitter, stopper, recoveryDue, notified, crashes>>

\* The task ends; the handler of Exception re-raises.
RunnerEnds(j) ==
  /\ runner[j] \in Notifying
  /\ runner' = [runner EXCEPT ![j] = IF @ = "fail_notifying" THEN "crashed" ELSE "done"]
  /\ UNCHANGED <<job, run, submitter, stopper, recoveryDue, notified, crashes>>

----
\* Where task.cancel() can leave a task.  A task that never ran its first step
\* ends at once, outside runner()'s handlers.  The turn may absorb the
\* cancellation (a sidecar join or a tool call turns CancelledError into a
\* result); a second cancellation may hit the handler of the first.
Cancelled(r) ==
  CASE r = "created" -> {"done"}
    [] r = "turn" -> {"turn", "unwinding"}
    [] r \in {"saved", "raise_saved"} -> {"unwinding"}
    [] r = "unwinding" -> {"unwinding", "done"}
    [] r = "stop_saved" -> {"done"}
    [] OTHER -> {r}

\* stop() on a visible, stoppable job.  Without a live task the stop result is
\* applied at once; with one the task is cancelled and awaited.
StopAtOnce(c, j) ==
  /\ stopper[c] = {}
  /\ job[j] \in {"pending", "running"}
  /\ runner[j] \notin Alive
  /\ job' = [job EXCEPT ![j] = Apply("stop", @, "stopped")]
  /\ UNCHANGED <<run, submitter, runner, stopper, recoveryDue, notified, crashes>>

StopCancels(c, j) ==
  /\ stopper[c] = {}
  /\ job[j] \in {"pending", "running"}
  /\ runner[j] \in Alive
  /\ \E r \in Cancelled(runner[j]) : runner' = [runner EXCEPT ![j] = r]
  /\ stopper' = [stopper EXCEPT ![c] = {j}]
  /\ UNCHANGED <<job, run, submitter, recoveryDue, notified, crashes>>

\* The awaited task is done: its exception is raised to the caller, otherwise
\* the stop result is applied to the job as it is now.
\* (Mutation: only a task that ended without an exception wakes the caller.)
StopReturnsIfDone(c, j) ==
  /\ stopper[c] = {j}
  /\ runner[j] = "done"
  /\ stopper' = [stopper EXCEPT ![c] = {}]
  /\ job' = [job EXCEPT ![j] = Apply("stop", @, "stopped")]
  /\ UNCHANGED <<run, submitter, runner, recoveryDue, notified, crashes>>
StopReturns(c, j) ==
  /\ stopper[c] = {j}
  /\ runner[j] \notin Alive
  /\ stopper' = [stopper EXCEPT ![c] = {}]
  /\ job' = IF runner[j] = "crashed" THEN job
            ELSE [job EXCEPT ![j] = Apply("stop", @, "stopped")]
  /\ UNCHANGED <<run, submitter, runner, recoveryDue, notified, crashes>>

----
\* recover_inflight: AgentJobExecutor.recover never suspends, so the loop over
\* the stored records is one step.  A running job without a live task is
\* stopped; run records and pending jobs are left as they are.
\* (Mutations: a lost job is queued again; lost jobs are skipped.)
RecoverRequeues ==
  /\ recoveryDue
  /\ recoveryDue' = FALSE
  /\ job' = [j \in Jobs |-> IF job[j] = "running" /\ runner[j] \notin Alive
                           THEN "pending" ELSE job[j]]
  /\ UNCHANGED <<run, submitter, runner, stopper, notified, crashes>>
RecoverNothing ==
  /\ recoveryDue
  /\ recoveryDue' = FALSE
  /\ UNCHANGED <<job, run, submitter, runner, stopper, notified, crashes>>
RecoverInflight ==
  /\ recoveryDue
  /\ recoveryDue' = FALSE
  /\ job' = [j \in Jobs |->
               IF job[j] = "running" /\ runner[j] \notin Alive
               THEN Apply("recovery", job[j], "stopped") ELSE job[j]]
  /\ UNCHANGED <<run, submitter, runner, stopper, notified, crashes>>

\* The process dies; the stores survive, and the next runtime schedules recovery.
\* (Mutation: the restarted runtime does not schedule recovery.)
CrashUnscheduled ==
  /\ crashes < MaxCrashes
  /\ crashes' = crashes + 1
  /\ submitter' = [j \in Jobs |-> "idle"]
  /\ runner' = [j \in Jobs |-> "none"]
  /\ stopper' = [c \in Stoppers |-> {}]
  /\ UNCHANGED <<job, run, recoveryDue, notified>>
Crash ==
  /\ crashes < MaxCrashes
  /\ crashes' = crashes + 1
  /\ submitter' = [j \in Jobs |-> "idle"]
  /\ runner' = [j \in Jobs |-> "none"]
  /\ stopper' = [c \in Stoppers |-> {}]
  /\ recoveryDue' = TRUE
  /\ UNCHANGED <<job, run, notified>>

RunnerStep(j) ==
  \/ RunnerStarts(j)
  \/ \E s \in TerminalRun \ {"stopped"} : TurnEnds(j, s)
  \/ RunnerApplies(j)
  \/ RaiseApplies(j)
  \/ StoreStoppedRecord(j)
  \/ CancelApplies(j)
  \/ RunnerEnds(j)

SubmitStep(j) == WriteRunningRecord(j) \/ FinishSubmit(j)

Failure(j) ==
  \/ SubmitRaises(j)
  \/ SubmitCancelled(j)
  \/ RunRaises(j)
  \/ RunnerFailsUnsaved(j)
  \/ NotifyRaises(j)
  \/ CancelHandlerRaises(j)

Next ==
  \/ \E j \in Jobs : Submit(j) \/ SubmitStep(j) \/ RunnerStep(j) \/ Failure(j)
  \/ \E c \in Stoppers, j \in Jobs :
       StopAtOnce(c, j) \/ StopCancels(c, j) \/ StopReturns(c, j)
  \/ RecoverInflight
  \/ Crash

Spec == Init /\ [][Next]_vars

\* The event loop runs every ready coroutine: suspended submissions, tasks,
\* awaiting stop() calls and the scheduled recovery all proceed.  That a turn
\* ends is the turn engine's bound on turns; crashes, failures, submissions
\* and stop requests need never happen.
FairSpec ==
  /\ Spec
  /\ \A j \in Jobs : WF_vars(SubmitStep(j)) /\ WF_vars(RunnerStep(j))
  /\ \A c \in Stoppers : WF_vars(\E j \in Jobs : StopReturns(c, j))
  /\ WF_vars(RecoverInflight)
----
\* No interleaving of submit(), stop(), the task's own outcome and recovery moves
\* a job out of a terminal status, however stale the caller's view of it is.
JobTerminalIsFinal ==
  [][\A j \in Jobs : job[j] \in Terminal => job'[j] = job[j]]_vars

\* A job reported completed has a child-run record that says completed: a
\* cancellation that rewrites the record to stopped, or a failing delivery that
\* rewrites it to failed, never lets the job end completed.
CompletedJobHasCompletedRun ==
  \A j \in Jobs : job[j] = "completed" => run[j] = "completed"

\* A terminal notification is only appended for a job whose stored status is
\* terminal already, so a watcher that follows it finds it; one per job, except
\* that a failed job gets a second one when emitting the first raises.
NotifiedOnceSettled ==
  \A j \in Jobs :
    /\ notified[j] > 0 => job[j] \in Terminal
    /\ notified[j] <= IF job[j] = "failed" THEN 2 ELSE 1

\* A job stored as running is never forgotten: its task is alive, a stop() call is
\* about to settle it, or recovery is due.  The exception is a task whose
\* cancellation handler raised; such a job stays running until the next stop().
RunningJobIsDriven ==
  \A j \in Jobs : job[j] = "running" =>
    \/ runner[j] \in Alive
    \/ \E c \in Stoppers : stopper[c] = {j}
    \/ recoveryDue
    \/ runner[j] = "crashed"

\* Every job stored as running ends, across crashes, unless the cancellation
\* handler of its task raised.
RunningJobSettles ==
  \A j \in Jobs :
    job[j] = "running" ~> (job[j] \in Terminal \/ runner[j] = "crashed")

\* Every accepted stop() call gets its answer.
StopCallReturns ==
  \A c \in Stoppers : stopper[c] # {} ~> stopper[c] = {}

\* A job whose stored status is stopped has no task that can still run a turn.
\* (job_stop: "Stop a running background job"; the code does not keep this when
\* stop() finds the job pending.)
StoppedJobHasNoTurn ==
  \A j \in Jobs : job[j] = "stopped" => runner[j] \notin {"created", "turn"}

\* The job plane's lifecycle: every step of the agent executor, of stop() and of
\* recovery is a step validate_job_transition allows.
Lifecycle == INSTANCE JobLifecycle WITH status <- job
ImplementsLifecycle == Lifecycle!Spec

\* Whatever the order of submit(), stop(), the task's own outcome, a crash and recovery,
\* the job record, the child-run record and the notifications agree.
JobSafe ==
  /\ TypeOK
  /\ CompletedJobHasCompletedRun
  /\ NotifiedOnceSettled
  /\ RunningJobIsDriven
=============================================================================
