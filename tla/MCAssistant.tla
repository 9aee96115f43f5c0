----------------------------- MODULE MCAssistant -----------------------------
(***************************************************************************)
(* Background agent jobs, and the applications and hosts around a runtime, *)
(* checked one at a time in one run: part says which of them a behaviour   *)
(* is about.                                                               *)
(***************************************************************************)
EXTENDS AgentJobs, WorkflowLedger

VARIABLE part

MCWlCall == [id |-> 0, tool |-> "agent", changes |-> FALSE, checks |-> FALSE, background |-> FALSE, agent |-> "none",
             passes |-> FALSE, says |-> "silent", status |-> "completed", looks |-> FALSE, lists |-> FALSE, leaves |-> FALSE, speaks |-> TRUE]
MCWlEdit(id, tool, changes) == [MCWlCall EXCEPT !.id = id, !.tool = tool, !.changes = changes]
MCWlCheck(id, passes, background) ==
    [MCWlCall EXCEPT !.id = id, !.tool = "bash", !.checks = TRUE, !.passes = passes, !.background = background]
MCWlChild(id, agent, passes, says) ==
    [MCWlCall EXCEPT !.id = id, !.agent = agent, !.passes = passes, !.says = says, !.checks = (agent = "verifier")]
MCWlPlan(id, looks, status) ==
    [MCWlCall EXCEPT !.id = id, !.agent = "planner", !.looks = looks, !.lists = TRUE, !.leaves = TRUE, !.status = status]
MCWlScript(prompts, calls) == [prompts |-> prompts, skill |-> "inline", calls |-> calls]
MCWlScripts ==
    {MCWlScript(1, {}),
     MCWlScript(1, {MCWlPlan(1, TRUE, "max_turns"), MCWlEdit(2, "edit", TRUE), MCWlEdit(3, "write", TRUE),
                    MCWlChild(4, "verifier", TRUE, "pass"), MCWlChild(5, "reviewer", TRUE, "pass")}),
     MCWlScript(2, {MCWlEdit(1, "edit", TRUE), MCWlCheck(2, TRUE, TRUE), MCWlChild(3, "reviewer", TRUE, "pass")}),
     MCWlScript(2, {MCWlEdit(1, "edit", TRUE), MCWlCheck(2, TRUE, FALSE), MCWlEdit(3, "write", FALSE)}),
     MCWlScript(2, {MCWlPlan(1, FALSE, "completed"), MCWlEdit(2, "edit", TRUE), MCWlChild(3, "verifier", FALSE, "mentions")}),
     MCWlScript(1, {MCWlEdit(1, "edit", TRUE), MCWlChild(2, "verifier", TRUE, "pass"),
                    [MCWlChild(3, "worker", FALSE, "silent") EXCEPT !.changes = TRUE]})}

----
AsInit ==
    /\ part \in {"jobs", "ledger"}
    /\ Init
    /\ WlInit /\ (part = "ledger" \/ wl.todo = {})

Only(which, action, others) == part = which /\ action /\ UNCHANGED <<part, others>>
Within(which, action) == part = which /\ action

AsNext ==
    \/ Only("jobs", Next, <<wl>>)
    \/ Only("ledger", WlNext, <<vars>>)

AsSpec ==
    /\ AsInit /\ [][AsNext]_<<part, vars, wl>>
    /\ \A j \in Jobs :
          WF_vars(Within("jobs", SubmitStep(j))) /\ WF_vars(Within("jobs", RunnerStep(j)))
    /\ \A c \in Stoppers : WF_vars(Within("jobs", \E j \in Jobs : StopReturns(c, j)))
    /\ WF_vars(Within("jobs", RecoverInflight))

----
\* What the code assistant says of its workspace (examples/apps/code_assistant/app.py).
ApplicationsSafe == part = "ledger" => LedgerSafe
=============================================================================
