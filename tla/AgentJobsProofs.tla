--------------------------- MODULE AgentJobsProofs ---------------------------
(***************************************************************************)
(* Proofs about AgentJobs for every set of jobs, every set of concurrent   *)
(* stop() callers and every number of crashes.                             *)
(*                                                                         *)
(* None of the safety properties is inductive by itself: which run record  *)
(* a job may have, and how often it was notified, depends on where its     *)
(* submit() call and its task are suspended.  IndInv adds that.            *)
(***************************************************************************)
EXTENDS AgentJobs, TLAPS

\* The tasks that have not settled their job.
Unsettled == Alive \ Notifying

\* A job that was never submitted has no task and no notification; neither has
\* one whose submit() is suspended, and no run outcome was applied to it.
NoneIsFresh ==
  \A j \in Jobs : job[j] = "none" =>
    submitter[j] = "idle" /\ runner[j] = "none" /\ notified[j] = 0
SubmittingIsFresh ==
  \A j \in Jobs : submitter[j] # "idle" =>
    job[j] \in {"pending", "stopped"} /\ runner[j] = "none" /\ notified[j] = 0

\* A task notifies after it settled its job, and the try body of runner() only once.
UnsettledIsFresh ==
  \A j \in Jobs : runner[j] \in Unsettled => notified[j] = 0 /\ job[j] # "completed"
NotifyingIsSettled ==
  \A j \in Jobs : /\ runner[j] \in Notifying => notified[j] > 0
                  /\ runner[j] = "notifying" => notified[j] = 1

IndInv ==
  /\ TypeOK
  /\ NoneIsFresh
  /\ SubmittingIsFresh
  /\ UnsettledIsFresh
  /\ NotifyingIsSettled
  /\ CompletedJobHasCompletedRun
  /\ NotifiedOnceSettled
  /\ RunningJobIsDriven

----
\* What validate_job_transition lets through: an outcome of a task only replaces
\* running, and a terminal status is never replaced.
LEMMA RecoveryAccepts ==
  ASSUME NEW current \in JobStatus, NEW outcome \in Terminal,
         Accepts("recovery", current, outcome)
  PROVE  current = outcome \/ current = "running"
  BY DEF Accepts, PermittedNext, Terminal

LEMMA ApplyKeepsTerminal ==
  ASSUME NEW current \in Terminal, NEW phase, NEW next
  PROVE  Apply(phase, current, next) = current
  BY DEF Apply, Accepts

LEMMA ApplyStart ==
  /\ Apply("start", "pending", "running") = "running"
  /\ Apply("start", "pending", "failed") = "failed"
  /\ Apply("start", "stopped", "running") = "stopped"
  /\ Apply("start", "stopped", "failed") = "stopped"
  BY DEF Apply, Accepts, PermittedNext, Terminal

LEMMA ApplyStop ==
  /\ Apply("stop", "pending", "stopped") = "stopped"
  /\ Apply("stop", "running", "stopped") = "stopped"
  /\ Apply("stop", "none", "stopped") = "none"
  /\ Apply("recovery", "running", "stopped") = "stopped"
  BY DEF Apply, Accepts, PermittedNext, Terminal

LEMMA JobStatusForRunIsTerminal ==
  ASSUME NEW s \in RunStatus
  PROVE  /\ JobStatusForRun(s) \in Terminal
         /\ JobStatusForRun(s) = "completed" => s = "completed"
  BY DEF JobStatusForRun, Terminal, RunStatus, TerminalRun

----
USE DEF JobStatus, RunStatus, TerminalRun, Terminal, SubmitterState, RunnerState,
        Alive, Notifying, Unsettled

LEMMA InitIndInv == Init => IndInv
  BY DEF Init, IndInv, TypeOK, NoneIsFresh, SubmittingIsFresh, UnsettledIsFresh,
         NotifyingIsSettled, CompletedJobHasCompletedRun, NotifiedOnceSettled,
         RunningJobIsDriven

\* Settling a job, from a task that has not settled it yet or from the handler that
\* an exception of the first notification reaches.
LEMMA SettleIndInv ==
  ASSUME IndInv, NEW j \in Jobs, NEW outcome \in Terminal, NEW next \in Notifying,
         runner[j] \in Unsettled \cup {"notifying"},
         outcome = "completed" => run[j] = "completed",
         runner[j] = "notifying" \/ next = "fail_notifying" => outcome = "failed",
         runner[j] = "notifying" => next = "fail_notifying",
         Settle(j, outcome, next)
  PROVE  IndInv'
<1>1. CASE Accepts("recovery", job[j], outcome)
  <2>1. job[j] = outcome \/ job[j] = "running"
    BY <1>1, RecoveryAccepts DEF IndInv, TypeOK
  <2>2. /\ job' = [job EXCEPT ![j] = outcome]
        /\ notified' = [notified EXCEPT ![j] = @ + 1]
        /\ runner' = [runner EXCEPT ![j] = next]
        /\ UNCHANGED <<run, submitter, stopper, recoveryDue, crashes>>
    BY <1>1 DEF Settle
  <2>3. runner[j] = "notifying" => notified[j] = 1 /\ job[j] = "failed"
    BY <2>1 DEF IndInv, NotifyingIsSettled, NotifiedOnceSettled, TypeOK
  <2>4. TypeOK'
    BY <2>2 DEF IndInv, TypeOK
  <2>5. NoneIsFresh' /\ SubmittingIsFresh'
    BY <2>1, <2>2 DEF IndInv, NoneIsFresh, SubmittingIsFresh, TypeOK
  <2>6. UnsettledIsFresh' /\ NotifyingIsSettled'
    BY <2>1, <2>2, <2>3 DEF IndInv, UnsettledIsFresh, NotifyingIsSettled, TypeOK
  <2>7. CompletedJobHasCompletedRun' /\ NotifiedOnceSettled'
    BY <2>1, <2>2, <2>3 DEF IndInv, UnsettledIsFresh, CompletedJobHasCompletedRun,
       NotifiedOnceSettled, TypeOK
  <2>8. RunningJobIsDriven'
    BY <2>1, <2>2 DEF IndInv, RunningJobIsDriven, TypeOK
  <2> QED BY <2>4, <2>5, <2>6, <2>7, <2>8 DEF IndInv
<1>2. CASE ~Accepts("recovery", job[j], outcome)
  <2>1. /\ runner' = [runner EXCEPT ![j] = "crashed"]
        /\ UNCHANGED <<job, notified, run, submitter, stopper, recoveryDue, crashes>>
    BY <1>2 DEF Settle
  <2>2. TypeOK' /\ NoneIsFresh' /\ SubmittingIsFresh'
    BY <2>1 DEF IndInv, TypeOK, NoneIsFresh, SubmittingIsFresh
  <2>3. UnsettledIsFresh' /\ NotifyingIsSettled'
    BY <2>1 DEF IndInv, TypeOK, UnsettledIsFresh, NotifyingIsSettled
  <2>4. CompletedJobHasCompletedRun' /\ NotifiedOnceSettled'
    BY <2>1 DEF IndInv, TypeOK, CompletedJobHasCompletedRun, NotifiedOnceSettled
  <2>5. RunningJobIsDriven'
    BY <2>1 DEF IndInv, TypeOK, RunningJobIsDriven
  <2> QED BY <2>2, <2>3, <2>4, <2>5 DEF IndInv
<1> QED BY <1>1, <1>2

----
\* Every step preserves the inductive invariant.
LEMMA NextIndInv == IndInv /\ [Next]_vars => IndInv'
<1> SUFFICES ASSUME IndInv, [Next]_vars PROVE IndInv'
  OBVIOUS
<1>1. ASSUME NEW j \in Jobs, Submit(j) PROVE IndInv'
  <2>1. TypeOK' /\ NoneIsFresh' /\ SubmittingIsFresh'
    BY <1>1 DEF Submit, IndInv, TypeOK, NoneIsFresh, SubmittingIsFresh
  <2>2. UnsettledIsFresh' /\ NotifyingIsSettled'
    BY <1>1 DEF Submit, IndInv, TypeOK, NoneIsFresh, SubmittingIsFresh,
       UnsettledIsFresh, NotifyingIsSettled
  <2>3. CompletedJobHasCompletedRun' /\ NotifiedOnceSettled'
    BY <1>1 DEF Submit, IndInv, TypeOK, NoneIsFresh, SubmittingIsFresh,
       UnsettledIsFresh, CompletedJobHasCompletedRun, NotifiedOnceSettled
  <2>4. RunningJobIsDriven'
    BY <1>1 DEF Submit, IndInv, TypeOK,
       SubmittingIsFresh, RunningJobIsDriven
  <2> QED BY <2>1, <2>2, <2>3, <2>4 DEF IndInv
<1>2. ASSUME NEW j \in Jobs, WriteRunningRecord(j) PROVE IndInv'
  <2>1. TypeOK' /\ NoneIsFresh' /\ SubmittingIsFresh'
    BY <1>2 DEF WriteRunningRecord, IndInv, TypeOK, NoneIsFresh, SubmittingIsFresh
  <2>2. UnsettledIsFresh' /\ NotifyingIsSettled'
    BY <1>2 DEF WriteRunningRecord, IndInv, TypeOK, NoneIsFresh, SubmittingIsFresh,
       UnsettledIsFresh, NotifyingIsSettled
  <2>3. CompletedJobHasCompletedRun' /\ NotifiedOnceSettled'
    BY <1>2 DEF WriteRunningRecord, IndInv, TypeOK, NoneIsFresh, SubmittingIsFresh,
       UnsettledIsFresh, CompletedJobHasCompletedRun, NotifiedOnceSettled
  <2>4. RunningJobIsDriven'
    BY <1>2 DEF WriteRunningRecord, IndInv, TypeOK,
       RunningJobIsDriven
  <2> QED BY <2>1, <2>2, <2>3, <2>4 DEF IndInv
<1>3. ASSUME NEW j \in Jobs, FinishSubmit(j) PROVE IndInv'
  <2>1. TypeOK' /\ NoneIsFresh' /\ SubmittingIsFresh'
    BY <1>3, ApplyStart DEF FinishSubmit, IndInv, TypeOK, NoneIsFresh, SubmittingIsFresh
  <2>2. UnsettledIsFresh' /\ NotifyingIsSettled'
    BY <1>3, ApplyStart DEF FinishSubmit, IndInv, TypeOK, NoneIsFresh, SubmittingIsFresh,
       UnsettledIsFresh, NotifyingIsSettled
  <2>3. CompletedJobHasCompletedRun' /\ NotifiedOnceSettled'
    BY <1>3, ApplyStart DEF FinishSubmit, IndInv, TypeOK, NoneIsFresh, SubmittingIsFresh,
       UnsettledIsFresh, CompletedJobHasCompletedRun, NotifiedOnceSettled
  <2>4. RunningJobIsDriven'
    BY <1>3, ApplyStart, SMTT(20) DEF FinishSubmit, IndInv, TypeOK,
       SubmittingIsFresh, RunningJobIsDriven
  <2> QED BY <2>1, <2>2, <2>3, <2>4 DEF IndInv
<1>4. ASSUME NEW j \in Jobs, RunnerStarts(j) PROVE IndInv'
  <2>1. TypeOK' /\ NoneIsFresh' /\ SubmittingIsFresh'
    BY <1>4 DEF RunnerStarts, IndInv, TypeOK, NoneIsFresh, SubmittingIsFresh
  <2>2. UnsettledIsFresh' /\ NotifyingIsSettled'
    BY <1>4 DEF RunnerStarts, IndInv, TypeOK, NoneIsFresh, SubmittingIsFresh,
       UnsettledIsFresh, NotifyingIsSettled
  <2>3. CompletedJobHasCompletedRun' /\ NotifiedOnceSettled'
    BY <1>4 DEF RunnerStarts, IndInv, TypeOK, NoneIsFresh, SubmittingIsFresh,
       UnsettledIsFresh, CompletedJobHasCompletedRun, NotifiedOnceSettled
  <2>4. RunningJobIsDriven'
    BY <1>4 DEF RunnerStarts, IndInv, TypeOK,
       RunningJobIsDriven
  <2> QED BY <2>1, <2>2, <2>3, <2>4 DEF IndInv
<1>5. ASSUME NEW j \in Jobs, NEW s \in TerminalRun \ {"stopped"}, TurnEnds(j, s) PROVE IndInv'
  <2>1. TypeOK' /\ NoneIsFresh' /\ SubmittingIsFresh'
    BY <1>5 DEF TurnEnds, IndInv, TypeOK, NoneIsFresh, SubmittingIsFresh
  <2>2. UnsettledIsFresh' /\ NotifyingIsSettled'
    BY <1>5 DEF TurnEnds, IndInv, TypeOK, NoneIsFresh, SubmittingIsFresh,
       UnsettledIsFresh, NotifyingIsSettled
  <2>3. CompletedJobHasCompletedRun' /\ NotifiedOnceSettled'
    BY <1>5 DEF TurnEnds, IndInv, TypeOK, NoneIsFresh, SubmittingIsFresh,
       UnsettledIsFresh, CompletedJobHasCompletedRun, NotifiedOnceSettled
  <2>4. RunningJobIsDriven'
    BY <1>5 DEF TurnEnds, IndInv, TypeOK,
       RunningJobIsDriven
  <2> QED BY <2>1, <2>2, <2>3, <2>4 DEF IndInv
<1>6. ASSUME NEW j \in Jobs, RunnerApplies(j) PROVE IndInv'
  <2>1. /\ JobStatusForRun(run[j]) \in Terminal
        /\ JobStatusForRun(run[j]) = "completed" => run[j] = "completed"
    BY JobStatusForRunIsTerminal DEF IndInv, TypeOK
  <2>2. CASE Accepts("recovery", job[j], JobStatusForRun(run[j]))
    BY <1>6, <2>1, <2>2, SettleIndInv DEF RunnerApplies
  <2>3. CASE ~Accepts("recovery", job[j], JobStatusForRun(run[j]))
    BY <1>6, <2>3, SettleIndInv DEF RunnerApplies
  <2> QED BY <2>2, <2>3
<1>7. ASSUME NEW j \in Jobs, RaiseApplies(j) PROVE IndInv'
  BY <1>7, SettleIndInv DEF RaiseApplies
<1>8. ASSUME NEW j \in Jobs, RunnerFailsUnsaved(j) PROVE IndInv'
  BY <1>8, SettleIndInv DEF RunnerFailsUnsaved
<1>9. ASSUME NEW j \in Jobs, CancelApplies(j) PROVE IndInv'
  BY <1>9, SettleIndInv DEF CancelApplies
<1>10. ASSUME NEW j \in Jobs, StoreStoppedRecord(j) PROVE IndInv'
  <2>1. TypeOK' /\ NoneIsFresh' /\ SubmittingIsFresh'
    BY <1>10 DEF StoreStoppedRecord, IndInv, TypeOK, NoneIsFresh, SubmittingIsFresh
  <2>2. UnsettledIsFresh' /\ NotifyingIsSettled'
    BY <1>10 DEF StoreStoppedRecord, IndInv, TypeOK, NoneIsFresh, SubmittingIsFresh,
       UnsettledIsFresh, NotifyingIsSettled
  <2>3. CompletedJobHasCompletedRun' /\ NotifiedOnceSettled'
    BY <1>10 DEF StoreStoppedRecord, IndInv, TypeOK, NoneIsFresh, SubmittingIsFresh,
       UnsettledIsFresh, CompletedJobHasCompletedRun, NotifiedOnceSettled
  <2>4. RunningJobIsDriven'
    BY <1>10 DEF StoreStoppedRecord, IndInv, TypeOK,
       RunningJobIsDriven
  <2> QED BY <2>1, <2>2, <2>3, <2>4 DEF IndInv
<1>11. ASSUME NEW j \in Jobs, RunnerEnds(j) PROVE IndInv'
  <2>1. TypeOK' /\ NoneIsFresh' /\ SubmittingIsFresh'
    BY <1>11 DEF RunnerEnds, IndInv, TypeOK, NoneIsFresh, SubmittingIsFresh
  <2>2. UnsettledIsFresh' /\ NotifyingIsSettled'
    BY <1>11 DEF RunnerEnds, IndInv, TypeOK, NoneIsFresh, SubmittingIsFresh,
       UnsettledIsFresh, NotifyingIsSettled
  <2>3. CompletedJobHasCompletedRun' /\ NotifiedOnceSettled'
    BY <1>11 DEF RunnerEnds, IndInv, TypeOK, NoneIsFresh, SubmittingIsFresh,
       UnsettledIsFresh, CompletedJobHasCompletedRun, NotifiedOnceSettled
  <2>4. RunningJobIsDriven'
    BY <1>11 DEF RunnerEnds, IndInv, TypeOK,
       NotifyingIsSettled, NotifiedOnceSettled, RunningJobIsDriven
  <2> QED BY <2>1, <2>2, <2>3, <2>4 DEF IndInv
<1>12. ASSUME NEW j \in Jobs, SubmitRaises(j) PROVE IndInv'
  <2>1. TypeOK' /\ NoneIsFresh' /\ SubmittingIsFresh'
    BY <1>12, ApplyStart DEF SubmitRaises, IndInv, TypeOK, NoneIsFresh, SubmittingIsFresh
  <2>2. UnsettledIsFresh' /\ NotifyingIsSettled'
    BY <1>12, ApplyStart DEF SubmitRaises, IndInv, TypeOK, NoneIsFresh, SubmittingIsFresh,
       UnsettledIsFresh, NotifyingIsSettled
  <2>3. CompletedJobHasCompletedRun' /\ NotifiedOnceSettled'
    BY <1>12, ApplyStart DEF SubmitRaises, IndInv, TypeOK, NoneIsFresh, SubmittingIsFresh,
       UnsettledIsFresh, CompletedJobHasCompletedRun, NotifiedOnceSettled
  <2>4. RunningJobIsDriven'
    BY <1>12, ApplyStart DEF SubmitRaises, IndInv, TypeOK,
       SubmittingIsFresh, RunningJobIsDriven
  <2> QED BY <2>1, <2>2, <2>3, <2>4 DEF IndInv
<1>13. ASSUME NEW j \in Jobs, SubmitCancelled(j) PROVE IndInv'
  <2>1. TypeOK' /\ NoneIsFresh' /\ SubmittingIsFresh'
    BY <1>13 DEF SubmitCancelled, IndInv, TypeOK, NoneIsFresh, SubmittingIsFresh
  <2>2. UnsettledIsFresh' /\ NotifyingIsSettled'
    BY <1>13 DEF SubmitCancelled, IndInv, TypeOK, NoneIsFresh, SubmittingIsFresh,
       UnsettledIsFresh, NotifyingIsSettled
  <2>3. CompletedJobHasCompletedRun' /\ NotifiedOnceSettled'
    BY <1>13 DEF SubmitCancelled, IndInv, TypeOK, NoneIsFresh, SubmittingIsFresh,
       UnsettledIsFresh, CompletedJobHasCompletedRun, NotifiedOnceSettled
  <2>4. RunningJobIsDriven'
    BY <1>13 DEF SubmitCancelled, IndInv, TypeOK,
       SubmittingIsFresh, RunningJobIsDriven
  <2> QED BY <2>1, <2>2, <2>3, <2>4 DEF IndInv
<1>14. ASSUME NEW j \in Jobs, RunRaises(j) PROVE IndInv'
  <2>1. TypeOK' /\ NoneIsFresh' /\ SubmittingIsFresh'
    BY <1>14 DEF RunRaises, IndInv, TypeOK, NoneIsFresh, SubmittingIsFresh
  <2>2. UnsettledIsFresh' /\ NotifyingIsSettled'
    BY <1>14 DEF RunRaises, IndInv, TypeOK, NoneIsFresh, SubmittingIsFresh,
       UnsettledIsFresh, NotifyingIsSettled
  <2>3. CompletedJobHasCompletedRun' /\ NotifiedOnceSettled'
    BY <1>14 DEF RunRaises, IndInv, TypeOK, NoneIsFresh, SubmittingIsFresh,
       UnsettledIsFresh, CompletedJobHasCompletedRun, NotifiedOnceSettled
  <2>4. RunningJobIsDriven'
    BY <1>14 DEF RunRaises, IndInv, TypeOK,
       RunningJobIsDriven
  <2> QED BY <2>1, <2>2, <2>3, <2>4 DEF IndInv
<1>15. ASSUME NEW j \in Jobs, NotifyRaises(j) PROVE IndInv'
  <2>1. CASE runner[j] = "notifying" /\ Settle(j, "failed", "fail_notifying")
    BY <2>1, SettleIndInv
  <2>2. CASE /\ runner[j] \in {"stop_notifying", "fail_notifying"}
             /\ runner' = [runner EXCEPT ![j] = "crashed"]
             /\ UNCHANGED <<job, run, submitter, stopper, recoveryDue, notified, crashes>>
    <3>1. TypeOK' /\ NoneIsFresh' /\ SubmittingIsFresh'
      BY <2>2 DEF IndInv, TypeOK, NoneIsFresh, SubmittingIsFresh
    <3>2. UnsettledIsFresh' /\ NotifyingIsSettled'
      BY <2>2 DEF IndInv, TypeOK, UnsettledIsFresh, NotifyingIsSettled
    <3>3. CompletedJobHasCompletedRun' /\ NotifiedOnceSettled' /\ RunningJobIsDriven'
      BY <2>2 DEF IndInv, TypeOK, CompletedJobHasCompletedRun, NotifiedOnceSettled,
         RunningJobIsDriven
    <3> QED BY <3>1, <3>2, <3>3 DEF IndInv
  <2> QED BY <1>15, <2>1, <2>2 DEF NotifyRaises
<1>16. ASSUME NEW j \in Jobs, CancelHandlerRaises(j) PROVE IndInv'
  <2>1. TypeOK' /\ NoneIsFresh' /\ SubmittingIsFresh'
    BY <1>16 DEF CancelHandlerRaises, IndInv, TypeOK, NoneIsFresh, SubmittingIsFresh
  <2>2. UnsettledIsFresh' /\ NotifyingIsSettled'
    BY <1>16 DEF CancelHandlerRaises, IndInv, TypeOK, NoneIsFresh, SubmittingIsFresh,
       UnsettledIsFresh, NotifyingIsSettled
  <2>3. CompletedJobHasCompletedRun' /\ NotifiedOnceSettled'
    BY <1>16 DEF CancelHandlerRaises, IndInv, TypeOK, NoneIsFresh, SubmittingIsFresh,
       UnsettledIsFresh, CompletedJobHasCompletedRun, NotifiedOnceSettled
  <2>4. RunningJobIsDriven'
    BY <1>16 DEF CancelHandlerRaises, IndInv, TypeOK,
       RunningJobIsDriven
  <2> QED BY <2>1, <2>2, <2>3, <2>4 DEF IndInv
<1>17. ASSUME NEW c \in Stoppers, NEW j \in Jobs, StopAtOnce(c, j) PROVE IndInv'
  <2>1. TypeOK' /\ NoneIsFresh' /\ SubmittingIsFresh'
    BY <1>17, ApplyStop DEF StopAtOnce, IndInv, TypeOK, NoneIsFresh, SubmittingIsFresh
  <2>2. UnsettledIsFresh' /\ NotifyingIsSettled'
    BY <1>17, ApplyStop DEF StopAtOnce, IndInv, TypeOK, NoneIsFresh, SubmittingIsFresh,
       UnsettledIsFresh, NotifyingIsSettled
  <2>3. CompletedJobHasCompletedRun' /\ NotifiedOnceSettled'
    BY <1>17, ApplyStop DEF StopAtOnce, IndInv, TypeOK, NoneIsFresh, SubmittingIsFresh,
       UnsettledIsFresh, CompletedJobHasCompletedRun, NotifiedOnceSettled
  <2>4. RunningJobIsDriven'
    BY <1>17, ApplyStop DEF StopAtOnce, IndInv, TypeOK,
       RunningJobIsDriven
  <2> QED BY <2>1, <2>2, <2>3, <2>4 DEF IndInv
<1>18. ASSUME NEW c \in Stoppers, NEW j \in Jobs, StopCancels(c, j) PROVE IndInv'
  <2>1. TypeOK' /\ NoneIsFresh' /\ SubmittingIsFresh'
    BY <1>18 DEF StopCancels, Cancelled, IndInv, TypeOK, NoneIsFresh, SubmittingIsFresh
  <2>2. UnsettledIsFresh' /\ NotifyingIsSettled'
    BY <1>18 DEF StopCancels, Cancelled, IndInv, TypeOK, NoneIsFresh, SubmittingIsFresh,
       UnsettledIsFresh, NotifyingIsSettled
  <2>3. CompletedJobHasCompletedRun' /\ NotifiedOnceSettled'
    BY <1>18 DEF StopCancels, Cancelled, IndInv, TypeOK, NoneIsFresh, SubmittingIsFresh,
       UnsettledIsFresh, CompletedJobHasCompletedRun, NotifiedOnceSettled
  <2>4. RunningJobIsDriven'
    BY <1>18 DEF StopCancels, Cancelled, IndInv, TypeOK,
       RunningJobIsDriven
  <2> QED BY <2>1, <2>2, <2>3, <2>4 DEF IndInv
<1>19. ASSUME NEW c \in Stoppers, NEW j \in Jobs, StopReturns(c, j) PROVE IndInv'
  <2>1. TypeOK' /\ NoneIsFresh' /\ SubmittingIsFresh'
    BY <1>19, ApplyStop, ApplyKeepsTerminal DEF StopReturns, IndInv, TypeOK, NoneIsFresh, SubmittingIsFresh
  <2>2. UnsettledIsFresh' /\ NotifyingIsSettled'
    BY <1>19, ApplyStop, ApplyKeepsTerminal DEF StopReturns, IndInv, TypeOK, NoneIsFresh, SubmittingIsFresh,
       UnsettledIsFresh, NotifyingIsSettled
  <2>3. CompletedJobHasCompletedRun' /\ NotifiedOnceSettled'
    BY <1>19, ApplyStop, ApplyKeepsTerminal DEF StopReturns, IndInv, TypeOK, NoneIsFresh, SubmittingIsFresh,
       UnsettledIsFresh, CompletedJobHasCompletedRun, NotifiedOnceSettled
  <2>4. ASSUME NEW k \in Jobs, job'[k] = "running"
        PROVE  \/ runner'[k] \in Alive
               \/ \E d \in Stoppers : stopper'[d] = {k}
               \/ recoveryDue'
               \/ runner'[k] = "crashed"
    <3>1. UNCHANGED <<runner, recoveryDue>> /\ stopper[c] = {j}
      BY <1>19 DEF StopReturns
    <3>2. CASE k = j
      <4>1. CASE runner[j] = "crashed"
        BY <3>1, <3>2, <4>1
      <4>2. CASE runner[j] # "crashed"
        <5>1. job'[j] = Apply("stop", job[j], "stopped")
          BY <1>19, <4>2 DEF StopReturns, IndInv, TypeOK
        <5>2. job[j] \in {"none", "pending", "running"} \cup Terminal
          BY DEF IndInv, TypeOK, JobStatus
        <5>3. CASE job[j] \in Terminal
          BY <2>4, <3>2, <5>1, <5>3, ApplyKeepsTerminal DEF Terminal
        <5>4. CASE job[j] \in {"none", "pending", "running"}
          BY <2>4, <3>2, <5>1, <5>4, ApplyStop
        <5> QED BY <5>2, <5>3, <5>4
      <4> QED BY <4>1, <4>2
    <3>3. CASE k # j
      <4>1. job[k] = "running"
        BY <1>19, <2>4, <3>3 DEF StopReturns, IndInv, TypeOK
      <4>2. ASSUME NEW d \in Stoppers, stopper[d] = {k} PROVE stopper'[d] = {k}
        BY <1>19, <3>1, <3>3, <4>2 DEF StopReturns, IndInv, TypeOK
      <4> QED BY <3>1, <4>1, <4>2 DEF IndInv, RunningJobIsDriven
    <3> QED BY <3>2, <3>3
  <2>5. RunningJobIsDriven'
    BY <2>4 DEF RunningJobIsDriven
  <2> QED BY <2>1, <2>2, <2>3, <2>5 DEF IndInv
<1>20. ASSUME RecoverInflight PROVE IndInv'
  <2>1. TypeOK' /\ NoneIsFresh' /\ SubmittingIsFresh'
    BY <1>20, ApplyStop DEF RecoverInflight, IndInv, TypeOK, NoneIsFresh, SubmittingIsFresh
  <2>2. UnsettledIsFresh' /\ NotifyingIsSettled'
    BY <1>20, ApplyStop DEF RecoverInflight, IndInv, TypeOK, NoneIsFresh, SubmittingIsFresh,
       UnsettledIsFresh, NotifyingIsSettled
  <2>3. CompletedJobHasCompletedRun' /\ NotifiedOnceSettled'
    BY <1>20, ApplyStop DEF RecoverInflight, IndInv, TypeOK, NoneIsFresh, SubmittingIsFresh,
       UnsettledIsFresh, CompletedJobHasCompletedRun, NotifiedOnceSettled
  <2>4. RunningJobIsDriven'
    BY <1>20, ApplyStop DEF RecoverInflight, IndInv, TypeOK,
       RunningJobIsDriven
  <2> QED BY <2>1, <2>2, <2>3, <2>4 DEF IndInv
<1>21. ASSUME Crash PROVE IndInv'
  <2>1. TypeOK' /\ NoneIsFresh' /\ SubmittingIsFresh'
    BY <1>21 DEF Crash, IndInv, TypeOK, NoneIsFresh, SubmittingIsFresh
  <2>2. UnsettledIsFresh' /\ NotifyingIsSettled'
    BY <1>21 DEF Crash, IndInv, TypeOK, NoneIsFresh, SubmittingIsFresh,
       UnsettledIsFresh, NotifyingIsSettled
  <2>3. CompletedJobHasCompletedRun' /\ NotifiedOnceSettled'
    BY <1>21 DEF Crash, IndInv, TypeOK, NoneIsFresh, SubmittingIsFresh,
       UnsettledIsFresh, CompletedJobHasCompletedRun, NotifiedOnceSettled
  <2>4. RunningJobIsDriven'
    BY <1>21 DEF Crash, IndInv, TypeOK,
       RunningJobIsDriven
  <2> QED BY <2>1, <2>2, <2>3, <2>4 DEF IndInv
<1>22. ASSUME UNCHANGED vars PROVE IndInv'
  <2>1. TypeOK' /\ NoneIsFresh' /\ SubmittingIsFresh'
    BY <1>22 DEF vars, IndInv, TypeOK, NoneIsFresh, SubmittingIsFresh
  <2>2. UnsettledIsFresh' /\ NotifyingIsSettled'
    BY <1>22 DEF vars, IndInv, TypeOK, NoneIsFresh, SubmittingIsFresh,
       UnsettledIsFresh, NotifyingIsSettled
  <2>3. CompletedJobHasCompletedRun' /\ NotifiedOnceSettled'
    BY <1>22 DEF vars, IndInv, TypeOK, NoneIsFresh, SubmittingIsFresh,
       UnsettledIsFresh, CompletedJobHasCompletedRun, NotifiedOnceSettled
  <2>4. RunningJobIsDriven'
    BY <1>22 DEF vars, IndInv, TypeOK,
       RunningJobIsDriven
  <2> QED BY <2>1, <2>2, <2>3, <2>4 DEF IndInv
<1> QED
  BY <1>1, <1>2, <1>3, <1>4, <1>5, <1>6, <1>7, <1>8, <1>9, <1>10, <1>11, <1>12, <1>13, <1>14, <1>15, <1>16, <1>17, <1>18, <1>19, <1>20, <1>21, <1>22
  DEF Next, SubmitStep, RunnerStep, Failure
----
\* The inductive invariant holds in every reachable state.
THEOREM InductiveInvariant == Spec => []IndInv
  BY InitIndInv, NextIndInv, PTL DEF Spec

\* Jobs, child-run records, tasks and stop() calls keep their types, for every number
\* of them and of crashes; in particular no write stores a status the store cannot read.
THEOREM TypeCorrect == Spec => []TypeOK
<1>1. IndInv => TypeOK
  BY DEF IndInv
<1> QED BY <1>1, InductiveInvariant, PTL

\* CompletedJobHasCompletedRun for every number of jobs, callers and crashes: a job
\* that ends completed has a child-run record that says so, whatever cancellations
\* and failing deliveries rewrite the record.
THEOREM CompletedRunTheorem == Spec => []CompletedJobHasCompletedRun
<1>1. IndInv => CompletedJobHasCompletedRun
  BY DEF IndInv
<1> QED BY <1>1, InductiveInvariant, PTL

\* NotifiedOnceSettled: AgentJobExecutor appends a terminal notification only after
\* apply_recovery_result stored the terminal status, and twice at most, for a
\* failed job.
THEOREM NotifiedTheorem == Spec => []NotifiedOnceSettled
<1>1. IndInv => NotifiedOnceSettled
  BY DEF IndInv
<1> QED BY <1>1, InductiveInvariant, PTL

\* RunningJobIsDriven: no running record is left without a task, a stop() call or a
\* due recovery that will settle it, except by a raising cancellation handler.
THEOREM DrivenTheorem == Spec => []RunningJobIsDriven
<1>1. IndInv => RunningJobIsDriven
  BY DEF IndInv
<1> QED BY <1>1, InductiveInvariant, PTL

----
\* Every step of the detailed model is a step, or a stutter, of JobLifecycle.
LEMMA SettleAdvances ==
  ASSUME IndInv, NEW j \in Jobs, NEW outcome \in Terminal, NEW next,
         Settle(j, outcome, next)
  PROVE  Lifecycle!Advance \/ UNCHANGED job
<1>1. CASE Accepts("recovery", job[j], outcome)
  BY <1>1, RecoveryAccepts
  DEF Settle, IndInv, TypeOK, Lifecycle!Advance, Lifecycle!Allowed,
      Lifecycle!JobStatus, Lifecycle!Terminal
<1>2. CASE ~Accepts("recovery", job[j], outcome)
  BY <1>2 DEF Settle
<1> QED BY <1>1, <1>2

LEMMA NextAdvances == IndInv /\ [Next]_vars => [Lifecycle!Next]_job
<1> SUFFICES ASSUME IndInv, [Next]_vars
             PROVE  Lifecycle!Next \/ UNCHANGED job
  OBVIOUS
<1> USE DEF Lifecycle!Next
<1>1. ASSUME NEW j \in Jobs, Submit(j) PROVE Lifecycle!Next
  BY <1>1 DEF Submit, Lifecycle!Create
<1>2. ASSUME NEW j \in Jobs, FinishSubmit(j) \/ SubmitRaises(j)
      PROVE  Lifecycle!Advance
  BY <1>2, ApplyStart
  DEF FinishSubmit, SubmitRaises, IndInv, TypeOK, SubmittingIsFresh,
      Lifecycle!Advance, Lifecycle!Allowed, Lifecycle!JobStatus, Lifecycle!Terminal
<1>3. ASSUME NEW j \in Jobs,
             \/ WriteRunningRecord(j) \/ SubmitCancelled(j) \/ RunnerStarts(j)
             \/ \E s \in TerminalRun \ {"stopped"} : TurnEnds(j, s)
             \/ RunRaises(j) \/ StoreStoppedRecord(j) \/ RunnerEnds(j)
             \/ CancelHandlerRaises(j) \/ \E c \in Stoppers : StopCancels(c, j)
      PROVE  UNCHANGED job
  BY <1>3 DEF WriteRunningRecord, SubmitCancelled, RunnerStarts, TurnEnds, RunRaises,
              StoreStoppedRecord, RunnerEnds, CancelHandlerRaises, StopCancels
<1>4. ASSUME NEW j \in Jobs,
             \/ RunnerApplies(j) \/ RaiseApplies(j) \/ RunnerFailsUnsaved(j)
             \/ CancelApplies(j) \/ NotifyRaises(j)
      PROVE  Lifecycle!Advance \/ UNCHANGED job
  <2>1. JobStatusForRun(run[j]) \in Terminal
    BY JobStatusForRunIsTerminal DEF IndInv, TypeOK
  <2>2. \/ UNCHANGED job
        \/ \E outcome \in Terminal, next \in Notifying : Settle(j, outcome, next)
    BY <1>4, <2>1 DEF RunnerApplies, RaiseApplies, RunnerFailsUnsaved, CancelApplies,
                      NotifyRaises
  <2> QED BY <2>2, SettleAdvances
<1>5. ASSUME NEW c \in Stoppers, NEW j \in Jobs, StopAtOnce(c, j) \/ StopReturns(c, j)
      PROVE  Lifecycle!Advance \/ UNCHANGED job
  <2>1. \/ UNCHANGED job
        \/ job' = [job EXCEPT ![j] = Apply("stop", @, "stopped")]
    BY <1>5 DEF StopAtOnce, StopReturns
  <2>2. CASE job[j] \in Terminal
    BY <2>1, <2>2, ApplyKeepsTerminal DEF IndInv, TypeOK
  <2>3. CASE job[j] \in {"none", "pending", "running"}
    BY <2>1, <2>3, ApplyStop
    DEF IndInv, TypeOK, Lifecycle!Advance, Lifecycle!Allowed, Lifecycle!JobStatus,
        Lifecycle!Terminal
  <2> QED BY <2>2, <2>3 DEF IndInv, TypeOK
<1>6. ASSUME RecoverInflight PROVE Lifecycle!Advance
  BY <1>6, ApplyStop
  DEF RecoverInflight, IndInv, TypeOK, Lifecycle!Advance, Lifecycle!Allowed,
      Lifecycle!JobStatus, Lifecycle!Terminal
<1>7. ASSUME Crash \/ UNCHANGED vars PROVE UNCHANGED job
  BY <1>7 DEF Crash, vars
<1> QED
  BY <1>1, <1>2, <1>3, <1>4, <1>5, <1>6, <1>7
  DEF Next, SubmitStep, RunnerStep, Failure

\* AgentJobs implements JobLifecycle: submission, the task, stop(), recovery and
\* crashes only ever move a job along the table of validate_job_transition.
THEOREM Refinement == Spec => ImplementsLifecycle
<1>1. Init => Lifecycle!Init
  BY DEF Init, Lifecycle!Init
<1> QED
  BY <1>1, NextAdvances, InductiveInvariant, PTL
  DEF Spec, ImplementsLifecycle, Lifecycle!Spec

\* JobTerminalIsFinal, from the refinement: the abstract lifecycle has no step out
\* of a terminal status.
THEOREM TerminalIsFinal == Spec => JobTerminalIsFinal
<1>1. IndInv /\ [Next]_vars => [\A j \in Jobs : job[j] \in Terminal => job'[j] = job[j]]_vars
  <2> SUFFICES ASSUME IndInv, [Next]_vars, NEW j \in Jobs, job[j] \in Terminal
               PROVE  job'[j] = job[j]
    OBVIOUS
  <2>1. Lifecycle!Next \/ UNCHANGED job
    BY NextAdvances
  <2>2. ASSUME NEW i \in Jobs, Lifecycle!Create(i) PROVE job'[j] = job[j]
    BY <2>2 DEF Lifecycle!Create, IndInv, TypeOK
  <2>3. ASSUME Lifecycle!Advance PROVE job'[j] = job[j]
    BY <2>3 DEF Lifecycle!Advance, Lifecycle!Allowed
  <2> QED BY <2>1, <2>2, <2>3 DEF Lifecycle!Next
<1> QED BY <1>1, InductiveInvariant, PTL DEF Spec, JobTerminalIsFinal

\* Everything the runs check of the job plane as one invariant.
THEOREM JobSafety == Spec => []JobSafe
<1>1. IndInv => JobSafe
  BY DEF IndInv, JobSafe
<1> QED BY <1>1, InductiveInvariant, PTL
=============================================================================
