----------------------------- MODULE MCServices -----------------------------
(***************************************************************************)
(* The mailbox, the components around models, the network, tool calls, the *)
(* shells and the teams, checked one at a time in one run: part says which *)
(* of them a behaviour is about.                                           *)
(***************************************************************************)
EXTENDS Mailbox, WebResearch, ModelStream, ShellJobs, ToolPipeline, TeamBus, TeamControl

VARIABLE part

MCTier == [p \in Pages |-> IF p = "p1" THEN "official" ELSE "media_report"]
MCWsRequest(strategy, hard, required, plan, search, fetch, desired, turns) ==
    [strategy |-> strategy, hard |-> hard, required |-> required, plan |-> plan, search |-> search,
     fetch |-> fetch, find |-> 1, desired |-> desired, turns |-> turns, together |-> 2]
MCWsRequests ==
    {MCWsRequest("deterministic", FALSE, FALSE, 2, 3, 3, 2, 0), MCWsRequest("deterministic", TRUE, TRUE, 1, 2, 2, 2, 0),
     MCWsRequest("pro", FALSE, FALSE, 0, 2, 2, 2, 2), MCWsRequest("pro", TRUE, TRUE, 0, 1, 1, 1, 1)}
MCFloor == [search |-> 2, fetch |-> 3, find |-> 1, desired |-> 2, turns |-> 2, together |-> 2]
MCWsClaim(page, key, supports) == [page |-> page, key |-> key, supports |-> supports]
MCWsResponses ==
    {{}, {MCWsClaim("p1", "k", TRUE)}, {MCWsClaim("p1", "k", TRUE), MCWsClaim("p2", "k", FALSE)},
     {MCWsClaim("unknown", "k", TRUE), MCWsClaim("p2", "l", TRUE)}}

MCText(parts) == [kind |-> "text", parts |-> parts, args |-> "fit"]
MCCall(args) == [kind |-> "call", parts |-> 0, args |-> args]
MCMsOutputs ==
    {<<MCText(1), MCCall("fit"), MCCall("fit")>>, <<MCText(2), MCCall("fit")>>, <<MCCall("fit"), MCText(1)>>,
     <<MCCall("unfit"), MCCall("fit")>>, <<MCCall("broken")>>, <<MCText(1), MCText(1)>>}

MCSjCommand(head, action, background) ==
    [destructive |-> FALSE, head |-> head, writes |-> FALSE, wrapped |-> FALSE, outside |-> FALSE, inline |-> FALSE,
     opaque |-> FALSE, inside |-> TRUE, supported |-> TRUE, action |-> action, background |-> background, service |-> TRUE]
MCSjRefused == MCSjCommand("none", "exec", FALSE)
MCSjCommands ==
    {MCSjCommand("test", "exec", FALSE), MCSjCommand("test", "exec", TRUE), MCSjCommand("dev-server", "start", FALSE),
     [MCSjRefused EXCEPT !.outside = TRUE], [MCSjRefused EXCEPT !.opaque = TRUE], [MCSjRefused EXCEPT !.inside = FALSE],
     [MCSjRefused EXCEPT !.background = TRUE, !.service = FALSE]}


MCTpSchema == [required |-> {"path"}, properties |-> {"path", "text"}, closed |-> TRUE]
MCTpGiven(keys, wrong) == [keys |-> keys, wrong |-> wrong]
MCTpCall == [tool |-> "edit", schema |-> MCTpSchema, given |-> MCTpGiven({"path"}, {}), validator |-> "none", pre |-> "none", check |-> "none", missing |-> FALSE,
             paths |-> {"f"}, reads |-> FALSE, alone |-> FALSE, cancels |-> TRUE, ends |-> "returns", notes |-> FALSE,
             refresh |-> FALSE, post |-> "none"]
MCTpRead == [MCTpCall EXCEPT !.tool = "read", !.reads = TRUE, !.notes = TRUE]
MCTpBatch(by, calls) == [by |-> by, calls |-> calls, registry |-> {"edit", "read", "job"}, pool |-> {"edit", "read"}, refreshed |-> {"read"}]
MCTpOdd ==
    {[MCTpCall EXCEPT !.validator = "raises"], [MCTpCall EXCEPT !.validator = "rewrites", !.check = "rewrites", !.notes = TRUE],
     [MCTpCall EXCEPT !.pre = "rewrites", !.refresh = TRUE], [MCTpCall EXCEPT !.pre = "veto"],
     [MCTpCall EXCEPT !.ends = "raises", !.notes = TRUE, !.refresh = TRUE], [MCTpCall EXCEPT !.ends = "exits", !.cancels = FALSE],
     [MCTpCall EXCEPT !.post = "vetoes"], [MCTpCall EXCEPT !.post = "raises", !.notes = TRUE],
     [MCTpCall EXCEPT !.tool = "job"], [MCTpCall EXCEPT !.tool = "gone"], [MCTpCall EXCEPT !.given = MCTpGiven({"path", "mode"}, {})],
     [MCTpCall EXCEPT !.given = MCTpGiven({"path", "text"}, {"text"})], [MCTpCall EXCEPT !.given = MCTpGiven({"text"}, {})],
     [MCTpCall EXCEPT !.missing = TRUE], [MCTpCall EXCEPT !.validator = "rejects"], [MCTpCall EXCEPT !.check = "raises"],
     [MCTpCall EXCEPT !.alone = TRUE, !.paths = {}, !.cancels = FALSE]}
MCTpNoted == [MCTpCall EXCEPT !.post = "notes", !.refresh = TRUE, !.notes = TRUE]
MCTpBatches ==
    {MCTpBatch(by, <<MCTpRead, odd>>) : by \in {"orchestrator", "scheduler"}, odd \in MCTpOdd}
    \cup {MCTpBatch("orchestrator", <<odd, MCTpRead>>) : odd \in MCTpOdd}
    \cup {MCTpBatch("orchestrator", <<MCTpNoted, MCTpRead>>), MCTpBatch("scheduler", <<MCTpRead, [MCTpRead EXCEPT !.cancels = FALSE]>>),
          [MCTpBatch("orchestrator", <<[MCTpCall EXCEPT !.tool = "job"]>>) EXCEPT !.pool = {}]}

MCTbMessage(id, from, to, prio, turn) == [id |-> id, from |-> from, to |-> to, prio |-> prio, turn |-> turn]
MCTbMessages == {MCTbMessage("all", "alpha", "*", 30, TRUE), MCTbMessage("ask", "beta", "leader", 90, FALSE)}

MCTcTeams == 1 .. 2
MCTcMembers == 1 .. 2

----
SvInit ==
    /\ part \in {"mailbox", "research", "stream", "shelljobs", "tools", "bus", "control"}
    /\ Init
    /\ SjInit /\ (part = "shelljobs" \/ sj.command = [MCSjRefused EXCEPT !.outside = TRUE])
    /\ MsInit /\ (part = "stream" \/ ms.output = <<MCCall("broken")>>)
    /\ WsInit /\ (part = "research" \/ ws.request = MCWsRequest("pro", TRUE, TRUE, 0, 1, 1, 1, 1))
    /\ TpInit /\ (part = "tools" \/ tpBatch = MCTpBatch("scheduler", <<MCTpRead, [MCTpRead EXCEPT !.cancels = FALSE]>>))
    /\ TbInit
    /\ TcInit

Only(which, action, others) == part = which /\ action /\ UNCHANGED <<part, others>>
Within(which, action) == part = which /\ action

SvNext ==
    \/ Only("mailbox", Next, <<ws, ms, sj, tpVars, tbVars, tcVars>>)
    \/ Only("research", WsNext, <<vars, ms, sj, tpVars, tbVars, tcVars>>)
    \/ Only("stream", MsNext, <<vars, ws, sj, tpVars, tbVars, tcVars>>)
    \/ Only("shelljobs", SjNext, <<vars, ws, ms, tpVars, tbVars, tcVars>>)
    \/ Only("tools", TpNext, <<vars, ws, ms, sj, tbVars, tcVars>>)
    \/ Only("bus", TbNext, <<vars, ws, ms, sj, tpVars, tcVars>>)
    \/ Only("control", TcNext, <<vars, ws, ms, sj, tpVars, tbVars>>)

SvSpec ==
    /\ SvInit /\ [][SvNext]_<<part, vars, ws, ms, sj, tpVars, tbVars, tcVars>>
    /\ \A p \in Procs : WF_vars(Within("mailbox", Publish(p)))
    /\ \A w \in Workers : WF_vars(Within("mailbox", WorkerStep(w)))
    /\ WF_vars(Within("mailbox", LeaseExpires))

----
\* The model stream's turn attempt (openai_client.py).
StreamsSafe == part = "stream" => StreamSafe

\* A web_research call from its plan to its result (core.py, _tool_impls.py).
ResearchRunsSafe == part = "research" => ResearchSafe

\* A tool call through its pipeline, and the shell jobs of the code assistant (tool_runtime.py,
\* builtin_overrides.py).
ToolsSafe == (part = "tools" => PipelineSafe) /\ (part = "shelljobs" => ShellJobsSafe)

\* The team's records and its messages (team_control_plane.py, team_message_bus.py).
TeamPlaneSafe == (part = "control" => ControlSafe) /\ (part = "bus" => BusSafe)
=============================================================================
