----------------------------- MODULE MCPlatform -----------------------------
(***************************************************************************)
(* The components that are checked one at a time and share one run: the    *)
(* value of part says which of them a behaviour is about.                  *)
(***************************************************************************)
EXTENDS TaskLists, ContextControl, HookBus, ExecutionPolicies, MemoryDocuments,
        PackageGraph, ShellBroker, WorkflowReports, Registries

VARIABLE part

MCConfig(project, compactAbove, keep) ==
    [project |-> project, compactAbove |-> compactAbove, keep |-> keep]
MCConfigs == {MCConfig(2, 0, 0), MCConfig(0, 3, 1)}

MCEffect(input, go, stop) == [input |-> input, go |-> go, stop |-> stop]
MCRequest(source, life, once, bound, phase, effect) ==
    [source |-> source, life |-> life, once |-> once, inherit |-> life = "turn" \/ source = "host", bound |-> bound,
     phase |-> phase, fields |-> IF source = "host" THEN {"stop"} ELSE {}, effect |-> effect]
MCHkRequests ==
    {MCRequest("config", "template", TRUE, FALSE, "PreToolUse", MCEffect(TRUE, TRUE, "none")),
     MCRequest("definition", "session", FALSE, TRUE, "PreToolUse", MCEffect(TRUE, FALSE, "none")),
     MCRequest("definition", "turn", FALSE, TRUE, "Stop", MCEffect(FALSE, TRUE, "continue")),
     MCRequest("host", "template", FALSE, TRUE, "Stop", MCEffect(TRUE, TRUE, "halt"))}
MCHkPayloads == {[phase |-> "PreToolUse", child |-> FALSE], [phase |-> "Stop", child |-> TRUE]}

MCAgent(name, allow, deny, mode, isolation) ==
    [name |-> name, allow |-> allow, deny |-> deny, skills |-> {}, mode |-> mode,
     memory |-> "unset", isolation |-> isolation]
MCIsolated == MCAgent("isolated", {}, {"edit"}, "bubble", "worktree")
MCEpRoots == {MCAgent("main-router", {}, {}, "unset", "none")}
MCEpAgents == {MCAgent("reader", {"read"}, {}, "dont_ask", "none"),
               MCAgent("nothing", {"read"}, {"read"}, "bypass", "none"), MCIsolated}
MCSkill(name, allow, fork) ==
    [name |-> name, allow |-> allow, fork |-> fork, hooks |-> ~fork, agent |-> MCIsolated]
MCEpSkills == {MCSkill("edits", {"edit"}, FALSE), MCSkill("reads", {"read"}, FALSE),
               MCSkill("forks", {}, TRUE)}
MCLayer(rules, fallback) == [rules |-> rules, fallback |-> fallback]
MCRule(names, behavior) == [names |-> names, behavior |-> behavior]
MCEpContexts ==
    {[mode |-> "bypass", layers |-> <<>>],
     [mode |-> "default", layers |->
        <<MCLayer(<<>>, "ask"),
          MCLayer(<<MCRule({"edit", "reader"}, "allow"), MCRule({"edit"}, "deny")>>, "none")>>]}
MCEpRuntimes == {[asks |-> TRUE, maxDepth |-> 2], [asks |-> FALSE, maxDepth |-> 1]}

MCMdKind(rule, background, topics) == [rule |-> rule, background |-> background, topics |-> topics]
MCMdKinds ==
    {MCMdKind("overwrite", "guard", FALSE),  \* preferences
     MCMdKind("guard", "none", FALSE),       \* conventions
     MCMdKind("none", "append", FALSE),      \* notes of an agent
     MCMdKind("none", "guard", TRUE)}        \* topics

MCDep(name, id, min, max) == [name |-> name, id |-> id, min |-> min, max |-> max, withMin |-> TRUE, withMax |-> FALSE]
MCManifest(name, id, version, deps, services, runtime, routes) ==
    [name |-> name, id |-> id, version |-> version, fits |-> id # 4, deps |-> deps,
     binds |-> [services |-> services, runtime |-> runtime], routes |-> routes]
MCOfficial == <<MCManifest("core", 1, 0, <<>>, {"memory"}, {}, FALSE),
                MCManifest("memory", 1, 0, <<AnyOf("core")>>, {"memory"}, {}, TRUE)>>
MCPgX1 == {<<MCDep("y", AnyId, 2, 0)>>, <<AnyOf("z"), AnyOf("y")>>, <<>>}
MCPgX2 == {<<MCDep("y", AnyId, 0, 2), AnyOf("core")>>, <<AnyOf("memory"), MCDep("z", 2, 0, 0)>>}
MCPgY1 == {<<>>, <<AnyOf("x")>>, <<MCDep("z", AnyId, 1, 3)>>}
MCPgY2 == {<<MCDep("z", AnyId, 0, 2)>>, <<AnyOf("memory")>>}
MCPgZ2 == {<<>>, <<AnyOf("y")>>}
MCExternals ==
    {<<MCManifest("y", 2, 2, y2, {}, {}, TRUE), MCManifest("x", 1, 1, x1, {"memory"}, {}, TRUE),
       MCManifest("x", 2, 2, x2, {}, {"memory"}, FALSE), MCManifest("y", 1, 1, y1, {"memory"}, {"memory"}, FALSE),
       MCManifest("z", 1, 1, <<>>, {}, {}, FALSE), MCManifest("z", 2, 2, z2, {"memory"}, {}, FALSE)>> :
         x1 \in MCPgX1, x2 \in MCPgX2, y1 \in MCPgY1, y2 \in MCPgY2, z2 \in MCPgZ2}
MCPgPlain == [distribution |-> {"core"}, enabled |-> {}, disabled |-> {}, requested |-> <<>>,
              externals |-> <<>>, ownModel |-> TRUE]
MCPgConfigs ==
    {MCPgPlain} \cup
    [distribution : {{"core"}}, enabled : {{}, {"memory"}}, disabled : {{}}, requested : {<<"x">>, <<"z", "x">>},
     externals : MCExternals, ownModel : {FALSE}]
    \cup [distribution : {{"core", "memory"}}, enabled : {{}}, disabled : {{"memory"}}, requested : {<<"memory">>},
     externals : {<<>>}, ownModel : {TRUE}]
    \cup [distribution : {{"core"}}, enabled : {{}}, disabled : {{}}, requested : {<<"x">>}, ownModel : {TRUE},
     externals : {<<MCManifest("x", 1, 0, <<AnyOf("y")>>, {}, {}, FALSE), MCManifest("y", 4, 0, <<>>, {}, {}, FALSE)>>,
                  <<MCManifest("x", 1, 0, <<AnyOf("memory")>>, {}, {}, FALSE), MCManifest("memory", 2, 0, <<>>, {}, {}, FALSE)>>,
                  <<MCManifest("x", 1, 0, <<>>, {}, {}, FALSE), MCManifest("x", 1, 1, <<>>, {}, {}, TRUE)>>}]

MCTool(name, aliases, priority, path) ==
    [name |-> name, aliases |-> aliases, priority |-> priority, path |-> path]
MCRgTools ==
    {MCTool("a", {"s", "b"}, 1, "f"), MCTool("a", {"s"}, 3, "f"), MCTool("b", {"s", "t"}, 2, "f"),
     MCTool("b", {"t"}, 2, "g"), MCTool("c", {"s", "t"}, 3, "f"), MCTool("c", {"a"}, 1, "f")}
MCProvider(name, priority, label, kind, target) ==
    [name |-> name, lists |-> [priority |-> priority, label |-> label, kind |-> kind, target |-> target]]
MCRgProviders ==
    {MCProvider("x", 1, 1, 1, 1), MCProvider("y", 2, 2, 1, 1), MCProvider("z", 2, 1, 2, 1),
     MCProvider("x", 2, 1, 2, 2), MCProvider("w", 2, 1, 1, 1)}

----
PlInit ==
    /\ part \in {"tasks", "context", "hooks", "policies", "documents", "packages", "shells", "reports", "registries"}
    /\ Init /\ CxInit /\ HkInit /\ EpInit /\ SbInit /\ RgInit
    /\ PgInit /\ (part = "packages" \/ pgConfig = MCPgPlain)
    /\ WrInit /\ (part = "reports" \/ (wrOwner = "helper" /\ wrWaits))
    /\ MdInit /\ (part = "documents" \/ mdKind = MCMdKind("none", "guard", TRUE))

Only(which, action, others) == part = which /\ action /\ UNCHANGED <<part, others>>

PlNext ==
    \/ Only("tasks", Next, <<cxVars, hkVars, epVars, mdVars, pgVars, sbVars, wrVars, rgVars>>)
    \/ Only("context", CxNextStep, <<list, hkVars, epVars, mdVars, pgVars, sbVars, wrVars, rgVars>>)
    \/ Only("hooks", HkNext, <<list, cxVars, epVars, mdVars, pgVars, sbVars, wrVars, rgVars>>)
    \/ Only("policies", EpNext, <<list, cxVars, hkVars, mdVars, pgVars, sbVars, wrVars, rgVars>>)
    \/ Only("documents", MdNext, <<list, cxVars, hkVars, epVars, pgVars, sbVars, wrVars, rgVars>>)
    \/ Only("packages", PgNext, <<list, cxVars, hkVars, epVars, mdVars, sbVars, wrVars, rgVars>>)
    \/ Only("shells", SbNext, <<list, cxVars, hkVars, epVars, mdVars, pgVars, wrVars, rgVars>>)
    \/ Only("reports", WrNext, <<list, cxVars, hkVars, epVars, mdVars, pgVars, sbVars, rgVars>>)
    \/ Only("registries", RgNext, <<list, cxVars, hkVars, epVars, mdVars, pgVars, sbVars, wrVars>>)

plVars == <<part, list, cxVars, hkVars, epVars, mdVars, pgVars, sbVars, wrVars, rgVars>>

PlSpec == PlInit /\ [][PlNext]_plVars

----
\* Workflow reports and the registries the kernel assembles (kernel.py, registries/).
KernelSafe == (part = "reports" => ReportsSafe) /\ (part = "registries" => RegistriesSafe)
=============================================================================
