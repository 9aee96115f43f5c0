-------------------------- MODULE ExecutionPolicies --------------------------
(***************************************************************************)
(* What an execution may do (execution_policy.py, permissions/engine.py):  *)
(* a turn starts with the policy of its agent, skills and child agents     *)
(* narrow the policy they are given, and every tool call, child and forked *)
(* skill is authorised under the policy of the execution that asks for it  *)
(* (tool_resolution.py, skill_runtime.py, agent_execution_service.py).     *)
(*                                                                         *)
(* The tool calls of an iteration see the pool the iteration began with    *)
(* (ToolContext.tool_pool), whatever a skill among them made of the        *)
(* policy. An empty pool, or an empty list of a definition, means that     *)
(* nothing was asked for.                                                  *)
(***************************************************************************)
EXTENDS Naturals, Sequences

CONSTANTS
    PoolTools,     \* the registered tools
    EpRoots,       \* the definitions of the agents of sessions
    EpAgents,      \* the definitions of child agents
    EpSkills,      \* skill definitions
    EpContexts,    \* the permission contexts sessions start with
    EpRuntimes,    \* whether the host can be asked for permissions, and max_depth
                   \* of the delegation policy
    MaxExecs       \* bound: executions of a behaviour

Behaviors == {"allow", "deny", "ask"}
PermissionModes == {"default", "bypass", "bubble", "dont_ask"}
MemoryScopes == <<"local", "project", "user">>
Isolations == <<"none", "worktree", "remote">>

\* A layer of rules, and what it says when none of them matches.
Layers == [rules : Seq([names : SUBSET STRING, behavior : Behaviors]),
           fallback : Behaviors \cup {"none"}]

ASSUME EpAssumption ==
    /\ MaxExecs \in Nat
    /\ EpRuntimes # {} /\ EpRuntimes \subseteq [asks : BOOLEAN, maxDepth : Nat]
    /\ EpRoots \cup EpAgents \subseteq
          [name : STRING, allow : SUBSET PoolTools, deny : SUBSET PoolTools,
           skills : SUBSET STRING, mode : PermissionModes \cup {"unset"},
           memory : {"local", "project", "user", "unset"},
           isolation : {"none", "worktree", "remote"}]
    /\ EpSkills \subseteq [name : STRING, allow : SUBSET PoolTools, fork : BOOLEAN,
                           hooks : BOOLEAN, agent : EpAgents]
    /\ EpContexts \subseteq [mode : PermissionModes, layers : Seq(Layers)]

VARIABLES
    epRuntime,  \* the runtime of the session
    epExecs,    \* the executions, in the order they started
    epCall,     \* the call a tool has just run for, or NoCall
    epSkipped   \* an execution started a child or a skill after a skill of the
                \* same iteration had narrowed its policy

epVars == <<epRuntime, epExecs, epCall, epSkipped>>

NoCall == [exec |-> 0, tool |-> "none", decided |-> "none", hook |-> FALSE, check |-> FALSE,
           matched |-> "none", input |-> "none"]

----
(* Narrowing *)

Place(order, x) == CHOOSE i \in DOMAIN order : order[i] = x

\* Mutant: a child of a default parent gets whatever it asks for.
NarrowModeOpen(parent, requested) ==
    IF requested = "unset" THEN parent
    ELSE IF parent \in {"bypass", "default"} THEN requested
    ELSE IF parent = "bubble" /\ requested \in {"bubble", "dont_ask"} THEN requested
    ELSE parent

(* narrow_permission_mode; auto, plan and accept_edits are as default. *)
NarrowMode(parent, requested) ==
    IF requested = "unset" THEN parent
    ELSE IF parent = "bypass" THEN requested
    ELSE IF parent = "default" /\ requested # "bypass" THEN requested
    ELSE IF parent = "bubble" /\ requested \in {"bubble", "dont_ask"} THEN requested
    ELSE parent

(* narrow_memory_scope *)
NarrowMemory(parent, requested) ==
    IF parent = "unset" THEN requested
    ELSE IF requested = "unset" \/ Place(MemoryScopes, parent) <= Place(MemoryScopes, requested)
         THEN parent
         ELSE requested

\* Mutant: what the definition asks for is taken.
NarrowIsolationRequested(parent, requested) == requested

(* narrow_isolation_mode *)
NarrowIsolation(parent, requested) ==
    IF Place(Isolations, parent) >= Place(Isolations, requested) THEN parent ELSE requested

(* _narrow_tool_pool *)
NarrowTools(base, allow, deny) == (IF allow = {} THEN base ELSE base \cap allow) \ deny

(* resolve_skill_pool *)
NarrowSkills(base, selectors) == IF selectors = {} THEN base ELSE base \cap selectors

\* Mutant: without a pool of its own the invocation starts from the registry.
BasePoolRegistry(e) == IF epExecs[e].pool # {} THEN epExecs[e].pool ELSE PoolTools

(* The pool a child or a skill starts from: the one of the calling         *)
(* iteration, else the one of the policy.                                  *)
BasePool(e) == IF epExecs[e].pool # {} THEN epExecs[e].pool ELSE epExecs[e].policy.tools

(* resolve_agent_execution_policy, with the mode and the isolation the     *)
(* invocation asks for in the place of the ones of the definition.         *)
AgentPolicy(base, policy, agent) ==
    [tools |-> NarrowTools(base, agent.allow, agent.deny),
     skills |-> NarrowSkills(policy.skills, agent.skills),
     context |-> [policy.context EXCEPT !.mode = NarrowMode(@, agent.mode)],
     memory |-> NarrowMemory(policy.memory, agent.memory),
     isolation |-> NarrowIsolation(policy.isolation, agent.isolation)]

(* resolve_skill_execution_policy *)
SkillPolicy(base, policy, skill) == [policy EXCEPT !.tools = NarrowTools(base, skill.allow, {})]

----
(* Authorisation *)

(* A rule selects tools, agents and skills by what is known of the request.*)
Matches(rule, name) == name \in rule.names

\* Mutant: the first rule that matches decides.
LayerDecisionFirst(layer, name) ==
    LET matching == {i \in DOMAIN layer.rules : Matches(layer.rules[i], name)}
    IN  IF matching = {} THEN layer.fallback
        ELSE layer.rules[CHOOSE i \in matching : \A j \in matching : i <= j].behavior

(* _evaluate_policy: the last rule that matches, else the fallback. *)
LayerDecision(layer, name) ==
    LET matching == {i \in DOMAIN layer.rules : Matches(layer.rules[i], name)}
    IN  IF matching = {} THEN layer.fallback
        ELSE layer.rules[CHOOSE i \in matching : \A j \in matching : j <= i].behavior

(* _apply_policy_stack: the last layer that decides. *)
StackDecision(context, name, initial) ==
    LET deciding == {i \in DOMAIN context.layers : LayerDecision(context.layers[i], name) # "none"}
    IN  IF deciding = {} THEN initial
        ELSE LayerDecision(context.layers[CHOOSE i \in deciding : \A j \in deciding : j <= i], name)

\* Mutant: the mode is looked at after the host was asked.
EvaluateAsksAlways(context, name, initial) ==
    LET decision == StackDecision(context, name, initial)
    IN  IF context.mode = "bypass" THEN "allow"
        ELSE IF decision # "ask" THEN decision
        ELSE IF epRuntime.asks THEN "allow"
        ELSE "deny"

(* PermissionEngine.evaluate, of what no hook vetoes and a host that is    *)
(* asked allows: the other outcomes leave everything as it is.             *)
Evaluate(context, name, initial) ==
    LET decision == StackDecision(context, name, initial)
    IN  IF context.mode = "bypass" THEN "allow"
        ELSE IF decision # "ask" THEN decision
        ELSE IF context.mode = "dont_ask" THEN "deny"
        ELSE IF context.mode = "bubble" THEN "ask"
        ELSE IF epRuntime.asks THEN "allow"
        ELSE "deny"

----
(* Executions *)

Acting(e) == epExecs[e].open /\ epExecs[e].waitsFor = 0

NewExec(above, policy, depth) ==
    [above |-> above, start |-> policy, policy |-> policy,
     pool |-> policy.tools, depth |-> depth, waitsFor |-> 0, open |-> TRUE]

(* A turn without a policy of its own gets the root policy of its agent. *)
StartTurn(agent, context, runtime) ==
    /\ epExecs = <<>>
    /\ epRuntime' = runtime
    /\ epExecs' = <<NewExec({},
                       [tools |-> NarrowTools(PoolTools, agent.allow, agent.deny),
                        skills |-> NarrowSkills({skill.name : skill \in EpSkills}, agent.skills),
                        context |-> context, memory |-> agent.memory,
                        isolation |-> agent.isolation], 0)>>
    /\ UNCHANGED <<epCall, epSkipped>>

(* The next iteration takes its pool from the policy. *)
NextIteration(e) ==
    /\ Acting(e)
    /\ epExecs' = [epExecs EXCEPT ![e].pool = epExecs[e].policy.tools]
    /\ epCall' = NoCall
    /\ UNCHANGED <<epRuntime, epSkipped>>

\* A skill narrowed the policy and the iteration has not seen it.
Narrowed(e) == epExecs[e].pool # epExecs[e].policy.tools

\* Mutant: a child at the limit may have a child.
DepthAllowsOneMore(depth) == depth <= epRuntime.maxDepth

(* enforce_child_delegation_allowed *)
DepthAllows(depth) == depth < epRuntime.maxDepth

StartChild(e, agent, base, policy, background) ==
    LET narrowed == AgentPolicy(base, policy, agent)
        initial == IF (background \/ narrowed.isolation # "none") /\ epRuntime.asks THEN "ask" ELSE "allow"
    IN  /\ Len(epExecs) < MaxExecs
        /\ DepthAllows(epExecs[e].depth)
        /\ \/ agent.name = "main-router" /\ ~background
           \/ Evaluate(narrowed.context, agent.name, initial) = "allow"
        /\ epExecs' = Append([epExecs EXCEPT ![e].waitsFor =
                                  IF background THEN 0 ELSE Len(epExecs) + 1],
                             NewExec(epExecs[e].above \cup {e}, narrowed, epExecs[e].depth + 1))

(* run_agent_tool *)
InvokeAgent(e, agent, background) ==
    /\ Acting(e)
    /\ StartChild(e, agent, BasePool(e), epExecs[e].policy, background)
    /\ epSkipped' = (epSkipped \/ Narrowed(e))
    /\ epCall' = NoCall
    /\ UNCHANGED epRuntime

SkillAllowed(e, skill) ==
    LET initial == IF (skill.fork \/ skill.hooks) /\ epRuntime.asks THEN "ask" ELSE "allow"
    IN  /\ skill.name \in epExecs[e].policy.skills
        /\ Evaluate(epExecs[e].policy.context, skill.name, initial) = "allow"

\* Mutant: an inline skill starts from the registry.
InlineSkillRegistry(e, skill) ==
    /\ Acting(e) /\ ~skill.fork
    /\ SkillAllowed(e, skill)
    /\ epExecs' = [epExecs EXCEPT ![e].policy = SkillPolicy(PoolTools, @, skill)]
    /\ epSkipped' = (epSkipped \/ Narrowed(e))
    /\ epCall' = NoCall
    /\ UNCHANGED epRuntime

(* execute of an inline skill: its policy replaces the effective one. *)
InlineSkill(e, skill) ==
    /\ Acting(e) /\ ~skill.fork
    /\ SkillAllowed(e, skill)
    /\ epExecs' = [epExecs EXCEPT ![e].policy = SkillPolicy(BasePool(e), @, skill)]
    /\ epSkipped' = (epSkipped \/ Narrowed(e))
    /\ epCall' = NoCall
    /\ UNCHANGED epRuntime

(* execute of a forked skill: its agent runs under the policy of the skill *)
(* and is authorised a second time as an agent.                            *)
ForkSkill(e, skill) ==
    LET policy == SkillPolicy(BasePool(e), epExecs[e].policy, skill)
    IN  /\ Acting(e) /\ skill.fork
        /\ SkillAllowed(e, skill)
        /\ StartChild(e, skill.agent, policy.tools, policy, FALSE)
        /\ epSkipped' = (epSkipped \/ Narrowed(e))
        /\ epCall' = NoCall
    /\ UNCHANGED epRuntime

FinishExec(e) ==
    /\ Acting(e) /\ epExecs[e].depth > 0
    /\ epExecs' = [d \in DOMAIN epExecs |->
                      IF d = e THEN [epExecs[d] EXCEPT !.open = FALSE]
                      ELSE IF epExecs[d].waitsFor = e THEN [epExecs[d] EXCEPT !.waitsFor = 0]
                      ELSE epExecs[d]]
    /\ epCall' = NoCall
    /\ UNCHANGED <<epRuntime, epSkipped>>

\* Mutant: what the validation left is run.
ExecutedInputValidated(hook, check) == "model"

(* A hook and the check of the tool may both rewrite the input; the rules  *)
(* see what the check made of it, and evaluate goes back to what the hook  *)
(* made of it.                                                             *)
ExecutedInput(hook, check) ==
    IF hook THEN "hooked" ELSE IF check THEN "checked" ELSE "model"

(* resolve_tool_call of a call that no hook vetoes, and the run of the     *)
(* tool. A call changes nothing another one reads: bound, one call between *)
(* two other steps.                                                        *)
CallTool(e, tool, own) ==
    LET context == epExecs[e].policy.context
    IN  /\ Acting(e) /\ epCall = NoCall
        /\ epExecs[e].pool = {} \/ tool \in epExecs[e].pool
        /\ Evaluate(context, tool, own) = "allow"
        /\ \E hook, check \in BOOLEAN :
              epCall' = [exec |-> e, tool |-> tool,
                         decided |-> IF context.mode = "bypass" THEN "mode"
                                     ELSE IF StackDecision(context, tool, own) = "ask" THEN "host"
                                     ELSE "rules",
                         hook |-> hook, check |-> check,
                         matched |-> IF check THEN "checked" ELSE IF hook THEN "hooked" ELSE "model",
                         input |-> ExecutedInput(hook, check)]
        /\ UNCHANGED <<epRuntime, epExecs, epSkipped>>

EpInit ==
    /\ epRuntime = CHOOSE runtime \in EpRuntimes : TRUE
    /\ epExecs = <<>>
    /\ epCall = NoCall
    /\ epSkipped = FALSE

EpNext ==
    \/ \E agent \in EpRoots, context \in EpContexts, runtime \in EpRuntimes :
          StartTurn(agent, context, runtime)
    \/ \E e \in DOMAIN epExecs :
          \/ NextIteration(e)
          \/ FinishExec(e)
          \/ \E agent \in EpAgents, background \in BOOLEAN : InvokeAgent(e, agent, background)
          \/ \E skill \in EpSkills : InlineSkill(e, skill) \/ ForkSkill(e, skill)
          \/ \E tool \in PoolTools, own \in Behaviors : CallTool(e, tool, own)

EpSpec == EpInit /\ [][EpNext]_epVars

----
(* Properties *)

EpTypeOK ==
    /\ epRuntime \in EpRuntimes /\ epSkipped \in BOOLEAN
    /\ \A e \in DOMAIN epExecs :
          /\ epExecs[e].above \subseteq 1 .. e - 1
          /\ epExecs[e].pool \subseteq PoolTools
          /\ epExecs[e].policy.tools \subseteq PoolTools
          /\ epExecs[e].policy.context.mode \in PermissionModes

\* a is e or an execution above it.
Chained(a, e) == a = e \/ a \in epExecs[e].above

(* However agents and skills follow each other, no execution has a tool or *)
(* a skill that an execution above it did not start with                   *)
(* (_narrow_tool_pool, resolve_skill_pool).                                *)
GrantsShrink ==
    \A a, e \in DOMAIN epExecs : Chained(a, e) =>
        /\ epExecs[e].pool \cup epExecs[e].policy.tools \subseteq epExecs[a].start.tools
        /\ epExecs[e].policy.skills \subseteq epExecs[a].start.skills

(* Below an execution that asks, nothing runs unasked: who gave bypass up  *)
(* does not get it back, and dont_ask, bubble and isolation hold for all   *)
(* that is below them (narrow_permission_mode, narrow_isolation_mode).     *)
ModesHold ==
    \A a, e \in DOMAIN epExecs : Chained(a, e) =>
        LET above == epExecs[a].policy  below == epExecs[e].policy
        IN  /\ below.context.mode = "bypass" => above.context.mode = "bypass"
            /\ above.context.mode = "dont_ask" => below.context.mode = "dont_ask"
            /\ above.context.mode = "bubble" => below.context.mode \in {"bubble", "dont_ask"}
            /\ Place(Isolations, above.isolation) <= Place(Isolations, below.isolation)

(* Forked skills count as children: no chain is longer than max_depth      *)
(* (enforce_child_delegation_allowed).                                     *)
DepthBounded ==
    \A e \in DOMAIN epExecs : epExecs[e].depth <= epRuntime.maxDepth

(* A tool that the rules of the session deny by name runs nowhere below    *)
(* it, whatever its own check says and whatever the host would answer,     *)
(* unless the mode is bypass all the way up (PermissionEngine.evaluate).   *)
DenialsReachDown ==
    epCall # NoCall =>
        LET top == epExecs[1].start.context
            last == top.layers[Len(top.layers)]
            denied == /\ Len(last.rules) > 0
                      /\ epCall.tool \in last.rules[Len(last.rules)].names
                      /\ last.rules[Len(last.rules)].behavior = "deny"
        IN  Len(top.layers) > 0 /\ denied =>
                \A a \in DOMAIN epExecs :
                    Chained(a, epCall.exec) => epExecs[a].policy.context.mode = "bypass"

(* A call that only the host could allow ran where the host may be asked   *)
(* and nowhere below a dont_ask or a bubble.                               *)
HostIsAskedWhereAllowed ==
    epCall # NoCall /\ epCall.decided = "host" =>
        /\ epRuntime.asks
        /\ \A a \in DOMAIN epExecs :
              Chained(a, epCall.exec) =>
                  epExecs[a].policy.context.mode \in {"default", "bypass"}

(* The input that runs is the one the rules saw, unless a hook and the     *)
(* check of the tool rewrote the input of the same call (resolve_tool_call,*)
(* evaluate).                                                              *)
InputIsTheMatchedOne == epCall.input # epCall.matched => epCall.hook /\ epCall.check

(* What an execution may do only shrinks along a chain of agents and       *)
(* skills, and what runs was authorised for the chain that asked.          *)
PolicySafe ==
    /\ EpTypeOK
    /\ GrantsShrink
    /\ ModesHold
    /\ DepthBounded
    /\ DenialsReachDown
    /\ HostIsAskedWhereAllowed
    /\ InputIsTheMatchedOne

(* Except when skills and agents of one iteration come after a skill that  *)
(* narrowed the policy, the policy of an execution only shrinks, and a     *)
(* child starts within what its parent has left (ExecutionPolicyState.     *)
(* apply, run_agent_tool).                                                 *)
PolicyOnlyShrinks ==
    [][\/ epSkipped'
       \/ /\ \A e \in DOMAIN epExecs : epExecs'[e].policy.tools \subseteq epExecs[e].policy.tools
          /\ \A e \in DOMAIN epExecs' \ DOMAIN epExecs : \A a \in epExecs'[e].above :
                epExecs'[e].depth = epExecs[a].depth + 1 =>
                    epExecs'[e].policy.tools \subseteq epExecs[a].policy.tools]_epVars
=============================================================================
