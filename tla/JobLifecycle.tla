----------------------------- MODULE JobLifecycle -----------------------------
(***************************************************************************)
(* What the job plane promises about the status of one job, whoever drives *)
(* it: the table of validate_job_transition, with the phases taken         *)
(* together.  A job is stored pending, may run, and ends exactly once; a   *)
(* terminal status is never left.  AgentJobs is shown to implement this    *)
(* module with status <- job.                                              *)
(***************************************************************************)

CONSTANT Jobs

VARIABLE status

JobStatus == {"pending", "running", "completed", "failed", "stopped"}

Terminal == {"completed", "failed", "stopped"}

\* The pairs validate_job_transition accepts in some phase; equal statuses are
\* accepted in every phase and are stuttering steps here.
Allowed == [pending |-> {"running"} \cup Terminal,
            running |-> Terminal,
            completed |-> {},
            failed |-> {},
            stopped |-> {}]

Init == status = [j \in Jobs |-> "none"]

\* DefaultJobService.submit writes the pending record of a new job.
Create(j) ==
  /\ status[j] = "none"
  /\ status' = [status EXCEPT ![j] = "pending"]

\* A start, stop or recovery result is applied to one or several jobs
\* (recover_inflight applies one per stored job).
Advance ==
  /\ status' \in [Jobs -> JobStatus \cup {"none"}]
  /\ \A j \in Jobs :
       \/ status'[j] = status[j]
       \/ status[j] # "none" /\ status'[j] \in Allowed[status[j]]

Next == (\E j \in Jobs : Create(j)) \/ Advance

Spec == Init /\ [][Next]_status
===============================================================================
