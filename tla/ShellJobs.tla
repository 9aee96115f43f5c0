------------------------------ MODULE ShellJobs ------------------------------
(***************************************************************************)
(* One command of the code assistant's bash tool                           *)
(* (examples/apps/code_assistant/builtin_overrides.py): refused, run in    *)
(* the foreground, or given to the shell broker and followed by a job that *)
(* is watched, stopped, and found again by the next runtime. The broker    *)
(* is the one of ShellBroker, reduced to what its clients see.             *)
(***************************************************************************)
EXTENDS Naturals

CONSTANTS SjCommands,   \* commands: destructive, head ("none" if unknown), writes, wrapped, outside, inline,
                        \* opaque, and what is asked: inside (cwd), supported, action, background, service
          MaxRestarts,  \* bound: runtimes after the first
          MaxLosses     \* bound: brokers lost

VARIABLE sj  \* the tool call, its shell, the broker, the job and what follows it

\* How the records of a shell and of its job can part for good.
Partings == {"cut",     \* the call was cut off between the start of the shell and the job
             "orphan",  \* the broker was lost, or did not answer in time, while the shell ran
             "stale",   \* a stop that found no broker read "running" in the sidecar
             "silent",  \* a stop found neither broker nor sidecar
             "deaf",    \* a broker that is not its parent signalled it, and it did not obey
             "unseen",  \* a watch found neither broker nor sidecar
             "unlooped"} \* the job was found again where no watch can run

SjInit == \E c \in SjCommands :
    sj = [command |-> c, stage |-> "none", answer |-> "none", proc |-> "none", held |-> FALSE,
          up |-> TRUE, broker |-> FALSE, entry |-> "none", owned |-> FALSE, told |-> "none", disk |-> "none",
          job |-> "none", handler |-> FALSE, watch |-> "none", heard |-> "none", stop |-> "none",
          restarts |-> 0, losses |-> 0, parted |-> {}]

----
(* What the tool makes of a command                                        *)
\* _classify_command: what the first words say comes before what the command does to files.
Classify(c) ==
    IF c.destructive THEN "destructive" ELSE IF c.head # "none" THEN c.head
    ELSE IF c.writes THEN "write" ELSE "other"

HighRisk(c) == Classify(c) \in {"destructive", "git-write", "write"} \/ (c.wrapped /\ Classify(c) = "other")

\* _resolve_command_policy
Policy(c) ==
    IF c.destructive \/ c.outside THEN "blocked"
    ELSE IF c.inline \/ c.opaque THEN "not_confinable"
    ELSE IF HighRisk(c) \/ Classify(c) \in {"git-write", "write", "other"} THEN "requires_high_risk_approval"
    ELSE "allowed"

Mode(c) ==
    IF c.action = "start" THEN "session"
    ELSE IF c.background \/ Classify(c) = "dev-server" THEN "background" ELSE "foreground"

Refusal(c) ==
    IF ~c.inside THEN "blocked" ELSE IF ~c.supported THEN "unsupported"
    ELSE IF Policy(c) \in {"blocked", "not_confinable"} THEN Policy(c)
    ELSE IF Mode(c) # "foreground" /\ ~c.service THEN "broker_failed" ELSE "none"

Answered(answer) == [sj EXCEPT !.stage = "done", !.answer = answer]

\* code_assistant_bash_tool
CallBash ==
    /\ sj.stage = "none" /\ sj.up
    /\ sj' = IF Refusal(sj.command) # "none" THEN Answered(Refusal(sj.command))
             ELSE [sj EXCEPT !.stage = IF Mode(sj.command) = "foreground" THEN "spawning" ELSE "ensuring"]

----
(* The foreground                                                          *)
\* A child of the shell may keep its pipes open.
SpawnHere ==
    /\ sj.stage = "spawning"
    /\ \/ sj' = Answered("spawn_failed")
       \/ \E held \in BOOLEAN : sj' = [sj EXCEPT !.stage = "talking", !.proc = "running", !.held = held]

OutputEnds ==
    /\ sj.stage = "talking" /\ sj.proc = "ended" /\ ~sj.held
    /\ sj' = Answered("exited")

UnkilledAtTimeout(r) == r                              \* Mutant: the shell goes on.
KilledAtTimeout(r) == [r EXCEPT !.proc = "ended"]

CallTimesOut ==
    /\ sj.stage = "talking"
    /\ sj' = [KilledAtTimeout(sj) EXCEPT !.stage = "draining"]

\* The output of a killed shell is read to its end.
Drained ==
    /\ sj.stage = "draining" /\ ~sj.held
    /\ sj' = Answered("timed_out")

ChildEnds == sj.held /\ sj.stage \in {"talking", "draining", "cut"} /\ sj' = [sj EXCEPT !.held = FALSE]

----
(* The broker, as its clients see it                                       *)
Loaded(r) == IF r.disk = "running" /\ r.proc # "running" THEN "recovery_unavailable" ELSE r.disk

\* A torn sidecar is left out.
BrokerStarts ==
    /\ ~sj.broker
    /\ LET known == IF sj.disk = "torn" THEN "none" ELSE Loaded(sj) IN
       sj' = [sj EXCEPT !.broker = TRUE, !.entry = known, !.owned = FALSE,
                        !.disk = IF known = "none" THEN @ ELSE known]

\* It may be writing the sidecar.
BrokerLost ==
    /\ sj.broker /\ sj.losses < MaxLosses
    /\ \E torn \in BOOLEAN :
       sj' = [sj EXCEPT !.broker = FALSE, !.entry = "none", !.owned = FALSE, !.losses = @ + 1,
                        !.disk = IF torn /\ @ = "running" THEN "torn" ELSE @,
                        !.watch = IF @ = "asking" THEN "lost" ELSE @, !.stop = IF @ = "asking" THEN "lost" ELSE @]

ProcessEnds == sj.proc = "running" /\ sj' = [sj EXCEPT !.proc = "ended"]

\* _watch_entry of the broker
Verdict == IF sj.told = "stop" THEN "stopped" ELSE IF sj.told = "interrupt" THEN "interrupted" ELSE "exited"
EntryEnds ==
    /\ sj.owned /\ sj.entry = "running" /\ sj.proc = "ended"
    /\ sj' = [sj EXCEPT !.entry = Verdict, !.disk = Verdict]

\* stop and interrupt, in a broker that knows the shell. One that is not the parent of a
\* shell says at once that it stopped.
Live(r) == r.owned /\ r.entry = "running"
SjTold(r, op) ==
    IF Live(r) \/ op = "interrupt" THEN {[r EXCEPT !.told = IF r.told = "stop" THEN @ ELSE op]}
    ELSE {[r EXCEPT !.told = op, !.entry = "stopped", !.disk = "stopped",
                    !.proc = IF obeys /\ @ = "running" THEN "ended" ELSE @,
                    !.parted = IF ~obeys /\ r.proc = "running" THEN @ \cup {"deaf"} ELSE @] : obeys \in BOOLEAN}

Knows(r) == r.broker /\ r.entry # "none"

\* _handle_shell_session_action: the job hears of it from the watch.
SessionAction ==
    /\ sj.up /\ sj.job # "none" /\ Mode(sj.command) = "session" /\ Knows(sj)
    /\ \E op \in {"interrupt", "stop"} : sj' \in SjTold(sj, op)

----
(* Starting a shell with a job                                             *)
\* ensure_shell_broker
Ensured ==
    /\ sj.stage = "ensuring"
    /\ sj' = IF sj.broker THEN [sj EXCEPT !.stage = "starting"] ELSE Answered("broker_failed")

\* The answer to the request may be lost with the broker.
StartShell ==
    /\ sj.stage = "starting"
    /\ \/ /\ sj.broker
          /\ sj' = [sj EXCEPT !.stage = "told", !.proc = "running", !.entry = "running", !.owned = TRUE, !.disk = "running"]
       \/ sj.broker /\ sj' = [Answered("broker_failed") EXCEPT !.entry = "running", !.owned = TRUE]
       \/ ~sj.broker /\ sj' = Answered("broker_failed")

AnswerLost ==
    /\ sj.stage = "told" /\ ~sj.broker
    /\ sj' = [Answered("broker_failed") EXCEPT !.parted = @ \cup {"cut"}]

\* The job is recorded, gets its handler and its watch, without a break.
RecordJob ==
    /\ sj.stage = "told"
    /\ sj' = [Answered("running") EXCEPT !.job = "running", !.handler = TRUE, !.watch = "idle"]

\* The call is cancelled.
CallCutOff ==
    /\ sj.stage \in {"spawning", "talking", "draining", "ensuring", "starting", "told"}
    /\ sj' = [sj EXCEPT !.stage = "cut", !.parted = IF sj.proc = "running" THEN @ \cup {"cut"} ELSE @]

----
(* The watch and the stop handler                                          *)
SjTerminal == {"completed", "failed", "stopped"}
\* _payload_status_to_job_status; "exited" is completed or command_failed, by its code.
JobStatuses(status) ==
    CASE status = "exited" -> {"completed", "failed"}
      [] status \in {"stopped", "interrupted"} -> {"stopped"}
      [] OTHER -> {"failed"}

\* update_compat: what is over does not change.
MoveJob(r, to) == r.job = to \/ r.job \notin SjTerminal

\* _reconcile_snapshot_after_broker_loss
AfterLoss(r, status) ==
    IF status # "running" THEN status ELSE IF r.proc = "running" THEN "orphaned" ELSE "recovery_unavailable"

OrphanOf(status) == IF status = "orphaned" THEN {"orphan"} ELSE {}

WatchAsks ==
    /\ sj.watch = "idle"
    /\ sj' = IF sj.job \in SjTerminal THEN [sj EXCEPT !.watch = "none"] ELSE [sj EXCEPT !.watch = "asking"]

WatchHears ==
    /\ sj.watch = "asking" /\ Knows(sj)
    /\ sj' = [sj EXCEPT !.watch = "heard", !.heard = sj.entry]

\* What the watch makes of a status: it goes on, or ends with the job.
Watched(r, status, job) ==
    IF ~MoveJob(r, job) THEN [r EXCEPT !.watch = "none"]
    ELSE [r EXCEPT !.job = job, !.watch = IF job = "running" THEN "idle" ELSE "none",
                   !.handler = IF job = "running" THEN @ ELSE FALSE, !.parted = @ \cup OrphanOf(status)]

WatchWrites ==
    /\ sj.watch = "heard"
    /\ \E job \in IF sj.heard = "running" THEN {"running"} ELSE JobStatuses(sj.heard) :
        sj' = [Watched(sj, sj.heard, job) EXCEPT !.heard = "none"]

WatchFallsBack ==
    /\ (sj.watch = "lost" \/ (sj.watch = "asking" /\ ~Knows(sj)))
    /\ IF sj.disk \in {"none", "torn"}
       THEN sj' = [sj EXCEPT !.watch = "none", !.parted = @ \cup {"unseen"}]
       ELSE LET status == AfterLoss(sj, sj.disk) IN
            \E job \in IF status = "running" THEN {"running"} ELSE JobStatuses(status) :
                sj' = Watched(sj, status, job)

\* DefaultJobService.stop of a job with a handler
StopJob ==
    /\ sj.up /\ sj.stop = "none" /\ sj.job = "running" /\ sj.handler
    /\ IF Knows(sj) THEN \E r \in SjTold(sj, "stop") : sj' = [r EXCEPT !.stop = "asking"]
       ELSE sj' = [sj EXCEPT !.stop = "asking"]

DoneAtOnce(r) == TRUE                                  \* Mutant: the broker does not wait for the process.
DoneWithProcess(r) == r.entry # "running"

\* The broker answers when the process is gone; a job that ended otherwise refuses.
StopHears ==
    /\ sj.stop = "asking" /\ Knows(sj) /\ DoneWithProcess(sj)
    /\ \E job \in JobStatuses(sj.entry) :
        sj' = [sj EXCEPT !.stop = "none", !.job = IF MoveJob(sj, job) THEN job ELSE @]

\* The sidecar is believed as it is; without it the job is said to have stopped.
StopFallsBack ==
    /\ (sj.stop = "lost" \/ (sj.stop = "asking" /\ ~Knows(sj)))
    /\ IF sj.disk \in {"none", "torn"}
       THEN sj' = [sj EXCEPT !.stop = "none", !.job = IF @ = "running" THEN "stopped" ELSE @,
                             !.parted = IF sj.proc = "running" THEN @ \cup {"silent"} ELSE @]
       ELSE \E job \in JobStatuses(sj.disk) :
            sj' = [sj EXCEPT !.stop = "none", !.job = IF MoveJob(sj, job) THEN job ELSE @,
                             !.parted = IF sj.proc = "running" THEN @ \cup {"stale"} ELSE @]

----
(* The next runtime                                                        *)
RuntimeDies ==
    /\ sj.up /\ sj.restarts < MaxRestarts
    /\ sj' = [sj EXCEPT !.up = FALSE, !.restarts = @ + 1,
                        !.stage = IF @ \in {"none", "done"} THEN @ ELSE "cut",
                        !.parted = IF sj.stage # "done" /\ sj.proc = "running" THEN @ \cup {"cut"} ELSE @,
                        !.handler = FALSE, !.watch = "none", !.heard = "none", !.stop = "none"]

ForgottenWatch(r) == [r EXCEPT !.watch = "none"]       \* Mutant: no watch is started.
WatchedAgain(r) == [r EXCEPT !.watch = "idle"]

\* reconcile_background_shell_jobs: a broker that is slow counts as lost, and a watch needs a
\* running loop.
Reconcile ==
    /\ ~sj.up
    /\ \E slow, loop \in BOOLEAN :
       LET r == [sj EXCEPT !.up = TRUE]
           status == IF Knows(r) /\ ~slow THEN r.entry ELSE AfterLoss(r, r.disk) IN
       IF r.job = "none" \/ r.job \in SjTerminal THEN sj' = r
       ELSE IF r.disk \in {"none", "torn"}
       THEN sj' = [r EXCEPT !.job = "failed", !.parted = IF r.proc = "running" THEN @ \cup {"unseen"} ELSE @]
       ELSE IF status = "running"
       THEN LET found == [r EXCEPT !.job = "running", !.handler = TRUE] IN
            sj' = IF loop THEN WatchedAgain(found) ELSE [found EXCEPT !.parted = @ \cup {"unlooped"}]
       ELSE \E job \in JobStatuses(status) : sj' = [r EXCEPT !.job = job, !.parted = @ \cup OrphanOf(status)]

SjNext ==
    \/ CallBash \/ SpawnHere \/ OutputEnds \/ CallTimesOut \/ Drained \/ ChildEnds \/ CallCutOff
    \/ BrokerStarts \/ BrokerLost \/ ProcessEnds \/ EntryEnds \/ SessionAction
    \/ Ensured \/ StartShell \/ AnswerLost \/ RecordJob
    \/ WatchAsks \/ WatchHears \/ WatchWrites \/ WatchFallsBack
    \/ StopJob \/ StopHears \/ StopFallsBack \/ RuntimeDies \/ Reconcile

SjSpec == SjInit /\ [][SjNext]_sj

----
(* Properties                                                              *)
SjTypeOK ==
    /\ sj.stage \in {"none", "spawning", "talking", "draining", "ensuring", "starting", "told", "done", "cut"}
    /\ sj.proc \in {"none", "running", "ended"} /\ sj.job \in {"none", "running"} \cup SjTerminal
    /\ sj.watch \in {"none", "idle", "asking", "lost", "heard"} /\ sj.stop \in {"none", "asking", "lost"}
    /\ sj.parted \subseteq Partings

\* A job that is over has no shell that runs, whatever the watch, a stop, a session action and
\* the next runtime heard and in which order, unless one of the partings happened.
OverIsOver == sj.job \in SjTerminal /\ sj.proc = "running" => sj.parted # {}

\* A shell that runs has a job, or a call that still waits for it.
ShellHasOwner ==
    sj.proc = "running" => sj.stage \in {"talking", "told"} \/ sj.job # "none" \/ "cut" \in sj.parted

\* A job that runs is watched, so that the end of its shell is heard of.
RunningIsWatched ==
    sj.up /\ sj.job = "running" => sj.watch # "none" \/ sj.parted \cap {"unseen", "unlooped"} # {}

\* A call that says it timed out has ended its shell.
TimedOutIsDead == sj.answer = "timed_out" => sj.proc = "ended"

ShellJobsSafe == SjTypeOK /\ OverIsOver /\ ShellHasOwner /\ RunningIsWatched /\ TimedOutIsDead
=============================================================================
