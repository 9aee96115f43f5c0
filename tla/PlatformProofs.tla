---- MODULE PlatformProofs ----
(***************************************************************************)
(* Proofs about components of the platform, each for any values of its     *)
(* constants.  ExecutionPolicies: PolicySafe and PolicyOnlyShrinks, from   *)
(* an invariant that orders the executions by the turn that reached them   *)
(* and keeps the rules of the session.  ShellBroker: ShellsSafe, from what *)
(* a broker that is not there can know, who may be starting what, and what *)
(* holds while a broker is alone.  MemoryDocuments: DocumentsSafe and      *)
(* FilesAreKept, from what a decision leaves of the documents and what a   *)
(* rollback would make of them.  Registries and WorkflowReports: an        *)
(* inductive invariant for each, one lemma per action, and at the end the  *)
(* composition MCPlatform, in which a component takes a step only when the *)
(* behaviour is about it: KernelSafe.                                      *)
(***************************************************************************)
EXTENDS MCPlatform, FiniteSetTheorems, WellFoundedInduction, TLAPS

----
(* Execution policies *)

EpPermissions == [mode : PermissionModes, layers : Seq(Layers)]

EpPolicies ==
  [tools : SUBSET PoolTools, skills : SUBSET STRING, context : EpPermissions,
   memory : {"local", "project", "user", "unset"},
   isolation : {"none", "worktree", "remote"}]

EpExecs ==
  [above : SUBSET Nat, start : EpPolicies, policy : EpPolicies, pool : SUBSET PoolTools,
   depth : Nat, waitsFor : Nat, open : BOOLEAN]

\* Executions above one start before it and nearer to the turn.
EpOrder ==
  \A e \in DOMAIN epExecs : \A a \in epExecs[e].above :
    a \in 1 .. e - 1 /\ epExecs[a].depth < epExecs[e].depth

\* Nothing changes the rules of the session.
EpRules ==
  \A e \in DOMAIN epExecs :
    epExecs[e].policy.context.layers = epExecs[1].start.context.layers

EpInd ==
  /\ epRuntime \in EpRuntimes /\ epSkipped \in BOOLEAN
  /\ epExecs \in Seq(EpExecs)
  /\ epExecs = <<>> => epCall = NoCall
  /\ EpOrder /\ EpRules
  /\ PolicySafe

\* The modes that hold below an execution with the mode m.
EpBelow(m, n) ==
  /\ n = "bypass" => m = "bypass"
  /\ m = "dont_ask" => n = "dont_ask"
  /\ m = "bubble" => n \in {"bubble", "dont_ask"}

\* A step of an execution narrows what it may do and leaves its modes and its place.
EpSame(old, new) ==
  /\ new.above = old.above /\ new.start = old.start /\ new.depth = old.depth
  /\ new.policy.skills = old.policy.skills /\ new.policy.context = old.policy.context
  /\ new.policy.isolation = old.policy.isolation
  /\ new.policy.tools \subseteq old.policy.tools \cup old.pool
  /\ new.pool \subseteq old.policy.tools \cup old.pool

LEMMA EpPlaces ==
  /\ Place(Isolations, "none") = 1
  /\ Place(Isolations, "worktree") = 2
  /\ Place(Isolations, "remote") = 3
<1>1. /\ DOMAIN Isolations = 1..3
      /\ Isolations[1] = "none" /\ Isolations[2] = "worktree" /\ Isolations[3] = "remote"
  BY DEF Isolations
<1>2. \A i \in DOMAIN Isolations : i = 1 \/ i = 2 \/ i = 3
  BY <1>1
<1>3. Place(Isolations, "none") = 1
  BY <1>1, <1>2 DEF Place
<1>4. Place(Isolations, "worktree") = 2
  BY <1>1, <1>2 DEF Place
<1>5. Place(Isolations, "remote") = 3
  BY <1>1, <1>2 DEF Place
<1> QED BY <1>3, <1>4, <1>5

\* narrow_permission_mode and narrow_isolation_mode only narrow.
LEMMA EpNarrowing ==
  ASSUME NEW m \in PermissionModes, NEW r \in PermissionModes \cup {"unset"},
         NEW i \in {"none", "worktree", "remote"}, NEW j \in {"none", "worktree", "remote"}
  PROVE  /\ NarrowMode(m, r) \in PermissionModes /\ EpBelow(m, NarrowMode(m, r))
         /\ NarrowIsolation(i, j) \in {"none", "worktree", "remote"}
         /\ Place(Isolations, i) <= Place(Isolations, NarrowIsolation(i, j))
<1>1. NarrowMode(m, r) \in PermissionModes /\ EpBelow(m, NarrowMode(m, r))
  BY DEF NarrowMode, EpBelow, PermissionModes
<1>2. /\ NarrowIsolation(i, j) \in {"none", "worktree", "remote"}
      /\ Place(Isolations, i) <= Place(Isolations, NarrowIsolation(i, j))
  BY EpPlaces DEF NarrowIsolation
<1> QED BY <1>1, <1>2

\* The last rule of the last layer has the last word.
LEMMA EpLastRule ==
  ASSUME NEW context \in EpPermissions, NEW name, NEW initial,
         Len(context.layers) > 0,
         LET last == context.layers[Len(context.layers)]
         IN  /\ Len(last.rules) > 0
             /\ name \in last.rules[Len(last.rules)].names
             /\ last.rules[Len(last.rules)].behavior = "deny"
  PROVE  StackDecision(context, name, initial) = "deny"
<1> DEFINE n == Len(context.layers)
           last == context.layers[n]
           k == Len(last.rules)
           matching == {i \in DOMAIN last.rules : Matches(last.rules[i], name)}
           deciding == {i \in DOMAIN context.layers :
                          LayerDecision(context.layers[i], name) # "none"}
<1>1. n \in DOMAIN context.layers /\ n \in Nat /\ \A i \in DOMAIN context.layers : i \in Nat /\ i <= n
  BY DEF EpPermissions
<1>2. last \in Layers
  BY <1>1 DEF EpPermissions
<1>3. k \in DOMAIN last.rules /\ k \in Nat /\ \A i \in DOMAIN last.rules : i \in Nat /\ i <= k
  BY <1>2 DEF Layers
<1>4. k \in matching /\ last.rules[k].behavior = "deny"
  BY <1>3 DEF Matches
<1>5. (CHOOSE i \in matching : \A j \in matching : j <= i) = k
  <2>1. \A i \in matching : (\A j \in matching : j <= i) => i = k
    BY <1>3, <1>4
  <2>2. \A j \in matching : j <= k
    BY <1>3
  <2> HIDE DEF matching, k
  <2> QED BY <1>4, <2>1, <2>2
<1>6. LayerDecision(last, name) = "deny"
  BY <1>4, <1>5 DEF LayerDecision
<1>7. n \in deciding
  BY <1>1, <1>6
<1>8. (CHOOSE i \in deciding : \A j \in deciding : j <= i) = n
  <2>1. \A i \in deciding : (\A j \in deciding : j <= i) => i = n
    BY <1>1, <1>7
  <2>2. \A j \in deciding : j <= n
    BY <1>1
  <2> HIDE DEF deciding, n
  <2> QED BY <1>7, <2>1, <2>2
<1> QED BY <1>6, <1>7, <1>8 DEF StackDecision

LEMMA EpInitially == EpInit => EpInd
<1> SUFFICES ASSUME EpInit PROVE EpInd
  OBVIOUS
<1>1. epRuntime \in EpRuntimes
  BY EpAssumption DEF EpInit
<1>2. DOMAIN epExecs = {} /\ epExecs \in Seq(EpExecs) /\ epCall = NoCall
  BY DEF EpInit
<1>3. EpTypeOK /\ GrantsShrink /\ ModesHold /\ DepthBounded
  <2>1. epSkipped \in BOOLEAN
    BY DEF EpInit
  <2> QED BY <1>1, <1>2, <2>1 DEF EpTypeOK, GrantsShrink, ModesHold, DepthBounded
<1>4. DenialsReachDown /\ HostIsAskedWhereAllowed /\ InputIsTheMatchedOne
  BY <1>2 DEF DenialsReachDown, HostIsAskedWhereAllowed, InputIsTheMatchedOne, NoCall
<1> QED BY <1>1, <1>2, <1>3, <1>4 DEF EpInit, EpInd, EpOrder, EpRules, PolicySafe

LEMMA EpTypes ==
  ASSUME EpInd, NEW e \in DOMAIN epExecs
  PROVE  /\ e \in Nat /\ e >= 1 /\ e <= Len(epExecs) /\ 1 \in DOMAIN epExecs
         /\ epExecs[e] \in EpExecs /\ epExecs[e].policy \in EpPolicies
         /\ epExecs[e].policy.context \in EpPermissions
         /\ BasePool(e) \subseteq epExecs[e].policy.tools \cup epExecs[e].pool
         /\ BasePool(e) \subseteq PoolTools
<1>1. epExecs[e] \in EpExecs
  BY DEF EpInd
<1>2. e \in Nat /\ e >= 1 /\ e <= Len(epExecs) /\ 1 \in DOMAIN epExecs
  <2>1. epExecs \in Seq(EpExecs)
    BY DEF EpInd
  <2> QED BY <2>1
<1>3. epExecs[e].policy \in EpPolicies /\ epExecs[e].pool \subseteq PoolTools
  BY <1>1 DEF EpExecs
<1>4. epExecs[e].policy.context \in EpPermissions /\ epExecs[e].policy.tools \subseteq PoolTools
  BY <1>3 DEF EpPolicies
<1> QED BY <1>1, <1>2, <1>3, <1>4 DEF BasePool

\* Executions narrow what they may do, and none starts.
LEMMA EpKept ==
  ASSUME EpInd, epExecs' \in Seq(EpExecs), DOMAIN epExecs' = DOMAIN epExecs,
         \A d \in DOMAIN epExecs : EpSame(epExecs[d], epExecs'[d]),
         epCall' = NoCall, epRuntime' = epRuntime, epSkipped' \in BOOLEAN
  PROVE  EpInd'
<1>1. \A d \in DOMAIN epExecs : epExecs[d] \in EpExecs /\ epExecs'[d] \in EpExecs
  BY DEF EpInd
<1>2. EpOrder'
  BY DEF EpInd, EpOrder, EpSame
<1>3. \A e \in DOMAIN epExecs : 1 \in DOMAIN epExecs
  BY EpTypes
<1>4. EpRules'
  BY <1>3 DEF EpInd, EpRules, EpSame
<1>5. EpTypeOK'
  BY <1>1, <1>2 DEF EpInd, EpTypeOK, EpOrder, EpExecs, EpPolicies, EpPermissions
<1>6. GrantsShrink'
  BY <1>1 DEF EpInd, PolicySafe, GrantsShrink, Chained, EpSame
<1>7. ModesHold'
  BY DEF EpInd, PolicySafe, ModesHold, Chained, EpSame
<1>8. DepthBounded'
  BY DEF EpInd, PolicySafe, DepthBounded, EpSame
<1>9. DenialsReachDown' /\ HostIsAskedWhereAllowed' /\ InputIsTheMatchedOne'
  BY DEF DenialsReachDown, HostIsAskedWhereAllowed, InputIsTheMatchedOne, NoCall
<1>10. epExecs' = <<>> => epCall' = NoCall
  OBVIOUS
<1> QED BY <1>2, <1>4, <1>5, <1>6, <1>7, <1>8, <1>9 DEF EpInd, PolicySafe

\* e starts an execution that may do no more than e.
EpStarts(e, x) ==
  /\ Len(epExecs') = Len(epExecs) + 1
  /\ \A d \in DOMAIN epExecs : epExecs'[d].policy = epExecs[d].policy
                               /\ EpSame(epExecs[d], epExecs'[d])
  /\ epExecs'[Len(epExecs) + 1] = x
  /\ x.above = epExecs[e].above \cup {e} /\ x.depth = epExecs[e].depth + 1
  /\ x.start = x.policy /\ x.pool = x.policy.tools
  /\ x.policy.tools \subseteq BasePool(e)
  /\ x.policy.skills \subseteq epExecs[e].policy.skills
  /\ x.policy.context.layers = epExecs[e].policy.context.layers
  /\ EpBelow(epExecs[e].policy.context.mode, x.policy.context.mode)
  /\ x.policy.isolation \in {"none", "worktree", "remote"}
  /\ Place(Isolations, epExecs[e].policy.isolation) <= Place(Isolations, x.policy.isolation)
  /\ epExecs[e].depth < epRuntime.maxDepth

LEMMA EpGrown ==
  ASSUME EpInd, epExecs' \in Seq(EpExecs), NEW e \in DOMAIN epExecs, NEW x, EpStarts(e, x),
         epCall' = NoCall, epRuntime' = epRuntime, epSkipped' \in BOOLEAN
  PROVE  EpInd'
<1>0. PICK n \in Nat : n = Len(epExecs) + 1
  BY DEF EpInd
<1>1. /\ n \in Nat /\ n \notin DOMAIN epExecs
      /\ \A d \in DOMAIN epExecs' : d \in DOMAIN epExecs \/ d = n
      /\ DOMAIN epExecs = 1 .. n - 1 /\ n \in DOMAIN epExecs'
      /\ DOMAIN epExecs \subseteq DOMAIN epExecs'
  BY <1>0 DEF EpInd, EpStarts
<1>2. \A d \in DOMAIN epExecs : EpSame(epExecs[d], epExecs'[d])
  BY DEF EpStarts
<1>3. epExecs'[n] = x
  BY <1>0 DEF EpStarts
<1>4. /\ x.above = epExecs[e].above \cup {e} /\ x.depth = epExecs[e].depth + 1
      /\ x.start = x.policy /\ x.pool = x.policy.tools
      /\ x.policy.tools \subseteq BasePool(e)
      /\ x.policy.skills \subseteq epExecs[e].policy.skills
      /\ x.policy.context.layers = epExecs[e].policy.context.layers
      /\ EpBelow(epExecs[e].policy.context.mode, x.policy.context.mode)
      /\ x.policy.isolation \in {"none", "worktree", "remote"}
      /\ Place(Isolations, epExecs[e].policy.isolation) <= Place(Isolations, x.policy.isolation)
      /\ epExecs[e].depth < epRuntime.maxDepth
  BY DEF EpStarts
<1>5. e \in 1 .. n - 1 /\ 1 \in DOMAIN epExecs /\ x \in EpExecs
  BY <1>1, <1>3, EpTypes
<1>6. /\ \A d \in DOMAIN epExecs : epExecs[d] \in EpExecs /\ epExecs'[d] \in EpExecs
      /\ epRuntime.maxDepth \in Nat
  BY <1>1, EpAssumption DEF EpInd
<1>7. \A a \in x.above : a \in DOMAIN epExecs /\ Chained(a, e) /\ epExecs[a].depth < x.depth
  <2>1. \A a \in epExecs[e].above : a \in 1 .. e - 1 /\ epExecs[a].depth < epExecs[e].depth
    BY DEF EpInd, EpOrder
  <2>2. \A d \in DOMAIN epExecs : epExecs[d].depth \in Nat
    BY <1>6 DEF EpExecs
  <2> QED BY <1>1, <1>4, <1>5, <2>1, <2>2 DEF Chained
<1>8. \A d \in DOMAIN epExecs : \A a \in epExecs[d].above : a \in DOMAIN epExecs
  BY <1>1 DEF EpInd, EpOrder
<1>9. EpOrder'
  <2>1. ASSUME NEW d \in DOMAIN epExecs, NEW a \in epExecs'[d].above
        PROVE  a \in 1 .. d - 1 /\ epExecs'[a].depth < epExecs'[d].depth
    BY <1>2, <1>8, <2>1 DEF EpInd, EpOrder, EpSame
  <2>2. ASSUME NEW a \in x.above
        PROVE  a \in 1 .. n - 1 /\ epExecs'[a].depth < x.depth
    BY <1>1, <1>2, <1>7, <2>2 DEF EpSame
  <2> QED BY <1>1, <1>3, <2>1, <2>2 DEF EpOrder
<1>10. EpRules'
  BY <1>1, <1>2, <1>3, <1>4, <1>5 DEF EpInd, EpRules, EpSame
<1>11. EpTypeOK'
  BY <1>1, <1>3, <1>5, <1>6, <1>9 DEF EpInd, EpTypeOK, EpOrder, EpExecs, EpPolicies, EpPermissions
<1>12. \A a, d \in DOMAIN epExecs' : Chained(a, d)' <=>
           \/ a \in DOMAIN epExecs /\ d \in DOMAIN epExecs /\ Chained(a, d)
           \/ a = n /\ d = n
           \/ a \in DOMAIN epExecs /\ d = n /\ a \in x.above
  <2>1. \A a, d \in DOMAIN epExecs : Chained(a, d)' <=> Chained(a, d)
    BY <1>2 DEF EpSame, Chained
  <2>2. \A a \in DOMAIN epExecs' : Chained(a, n)' <=> a = n \/ a \in x.above
    BY <1>3 DEF Chained
  <2>3. \A d \in DOMAIN epExecs : ~Chained(n, d)'
    BY <1>1, <1>2, <1>8 DEF EpSame, Chained
  <2> QED BY <1>1, <1>7, <2>1, <2>2, <2>3
<1>13. GrantsShrink'
  <2> SUFFICES ASSUME NEW a \in DOMAIN epExecs', NEW d \in DOMAIN epExecs', Chained(a, d)'
               PROVE  /\ epExecs'[d].pool \cup epExecs'[d].policy.tools
                           \subseteq epExecs'[a].start.tools
                      /\ epExecs'[d].policy.skills \subseteq epExecs'[a].start.skills
    BY DEF GrantsShrink
  <2>1. CASE a \in DOMAIN epExecs /\ d \in DOMAIN epExecs /\ Chained(a, d)
    BY <1>2, <2>1 DEF EpInd, PolicySafe, GrantsShrink, EpSame
  <2>2. CASE a = n /\ d = n
    BY <1>3, <1>4, <2>2
  <2>3. CASE a \in DOMAIN epExecs /\ d = n /\ a \in x.above
    <3>1. /\ epExecs[e].pool \cup epExecs[e].policy.tools \subseteq epExecs[a].start.tools
          /\ epExecs[e].policy.skills \subseteq epExecs[a].start.skills
      BY <1>7, <2>3 DEF EpInd, PolicySafe, GrantsShrink
    <3>2. epExecs'[a].start = epExecs[a].start
      BY <1>2, <2>3 DEF EpSame
    <3>3. BasePool(e) \subseteq epExecs[e].policy.tools \cup epExecs[e].pool
      BY EpTypes
    <3> QED BY <1>3, <1>4, <2>3, <3>1, <3>2, <3>3
  <2> QED BY <1>12, <2>1, <2>2, <2>3
<1>14. ModesHold'
  <2> SUFFICES ASSUME NEW a \in DOMAIN epExecs', NEW d \in DOMAIN epExecs', Chained(a, d)'
               PROVE  /\ EpBelow(epExecs'[a].policy.context.mode, epExecs'[d].policy.context.mode)
                      /\ Place(Isolations, epExecs'[a].policy.isolation)
                           <= Place(Isolations, epExecs'[d].policy.isolation)
    BY DEF ModesHold, EpBelow
  <2>0. \A b \in DOMAIN epExecs, c \in DOMAIN epExecs : Chained(b, c) =>
          /\ EpBelow(epExecs[b].policy.context.mode, epExecs[c].policy.context.mode)
          /\ Place(Isolations, epExecs[b].policy.isolation)
               <= Place(Isolations, epExecs[c].policy.isolation)
    BY DEF EpInd, PolicySafe, ModesHold, EpBelow
  <2>1. CASE a \in DOMAIN epExecs /\ d \in DOMAIN epExecs /\ Chained(a, d)
    BY <1>2, <2>0, <2>1 DEF EpSame
  <2>2. CASE a = n /\ d = n
    BY <1>3, <1>4, <2>2, EpPlaces DEF EpBelow
  <2>3. CASE a \in DOMAIN epExecs /\ d = n /\ a \in x.above
    <3>1. epExecs'[a].policy.context = epExecs[a].policy.context
          /\ epExecs'[a].policy.isolation = epExecs[a].policy.isolation
      BY <1>2, <2>3 DEF EpSame
    <3>2. /\ EpBelow(epExecs[a].policy.context.mode, epExecs[e].policy.context.mode)
          /\ Place(Isolations, epExecs[a].policy.isolation)
               <= Place(Isolations, epExecs[e].policy.isolation)
      BY <1>7, <2>0, <2>3
    <3>3. /\ epExecs[a].policy.isolation \in {"none", "worktree", "remote"}
          /\ epExecs[e].policy.isolation \in {"none", "worktree", "remote"}
      BY <1>6, <2>3 DEF EpExecs, EpPolicies
    <3>4. Place(Isolations, epExecs[a].policy.isolation) <= Place(Isolations, x.policy.isolation)
      BY <1>4, <3>2, <3>3, EpPlaces
    <3>5. EpBelow(epExecs[a].policy.context.mode, x.policy.context.mode)
      BY <1>4, <3>2 DEF EpBelow
    <3> QED BY <1>3, <2>3, <3>1, <3>4, <3>5
  <2> QED BY <1>12, <2>1, <2>2, <2>3
<1>15. DepthBounded'
  <2>1. \A d \in DOMAIN epExecs : epExecs'[d].depth <= epRuntime'.maxDepth
    BY <1>2 DEF EpInd, PolicySafe, DepthBounded, EpSame
  <2>2. x.depth <= epRuntime'.maxDepth
    BY <1>4, <1>6 DEF EpExecs
  <2> QED BY <1>1, <1>3, <2>1, <2>2 DEF DepthBounded
<1>16. DenialsReachDown' /\ HostIsAskedWhereAllowed' /\ InputIsTheMatchedOne'
  BY DEF DenialsReachDown, HostIsAskedWhereAllowed, InputIsTheMatchedOne, NoCall
<1> QED BY <1>9, <1>10, <1>11, <1>13, <1>14, <1>15, <1>16 DEF EpInd, PolicySafe

\* What the definitions of agents and skills ask for.
LEMMA EpAsked ==
  /\ \A agent \in EpRoots \cup EpAgents :
       /\ agent.allow \subseteq PoolTools /\ agent.skills \subseteq STRING
       /\ agent.mode \in PermissionModes \cup {"unset"}
       /\ agent.memory \in {"local", "project", "user", "unset"}
       /\ agent.isolation \in {"none", "worktree", "remote"}
  /\ \A skill \in EpSkills : skill.name \in STRING /\ skill.agent \in EpAgents
  /\ EpContexts \subseteq EpPermissions
  /\ \A runtime \in EpRuntimes : runtime.maxDepth \in Nat
  BY EpAssumption DEF EpPermissions

LEMMA EpNarrowedTools ==
  ASSUME NEW base, NEW allow, NEW deny
  PROVE  NarrowTools(base, allow, deny) \subseteq base
  BY DEF NarrowTools

LEMMA EpNewType ==
  ASSUME NEW above \in SUBSET Nat, NEW policy \in EpPolicies, NEW depth \in Nat
  PROVE  /\ NewExec(above, policy, depth) \in EpExecs
         /\ NewExec(above, policy, depth).above = above
         /\ NewExec(above, policy, depth).start = policy
         /\ NewExec(above, policy, depth).policy = policy
         /\ NewExec(above, policy, depth).pool = policy.tools
         /\ NewExec(above, policy, depth).depth = depth
  BY DEF NewExec, EpExecs, EpPolicies

LEMMA EpStartTurn ==
  ASSUME EpInd, NEW agent \in EpRoots, NEW context \in EpContexts, NEW runtime \in EpRuntimes,
         StartTurn(agent, context, runtime)
  PROVE  EpInd' /\ (epSkipped' \/ \A e \in DOMAIN epExecs' : epExecs'[e].above = {})
         /\ DOMAIN epExecs = {}
<1>1. PICK policy : policy = [tools |-> NarrowTools(PoolTools, agent.allow, agent.deny),
                   skills |-> NarrowSkills({skill.name : skill \in EpSkills}, agent.skills),
                   context |-> context, memory |-> agent.memory,
                   isolation |-> agent.isolation]
  OBVIOUS
<1>2. policy \in EpPolicies
  <2>1. NarrowTools(PoolTools, agent.allow, agent.deny) \subseteq PoolTools
    BY EpNarrowedTools
  <2>2. NarrowSkills({skill.name : skill \in EpSkills}, agent.skills) \subseteq STRING
    BY EpAsked DEF NarrowSkills
  <2> QED BY <1>1, <2>1, <2>2, EpAsked DEF EpPolicies
<1>3. PICK x : x = NewExec({}, policy, 0)
  OBVIOUS
<1>4. /\ x \in EpExecs /\ x.above = {} /\ x.start = policy /\ x.policy = policy
      /\ x.pool = policy.tools /\ x.depth = 0
  BY <1>2, <1>3, EpNewType
<1>5. epExecs' = <<x>> /\ epExecs = <<>> /\ epRuntime' = runtime /\ UNCHANGED <<epCall, epSkipped>>
  BY <1>1, <1>3 DEF StartTurn
<1>6. /\ epExecs' \in Seq(EpExecs) /\ DOMAIN epExecs' = {1} /\ epExecs'[1] = x
      /\ epCall' = NoCall /\ epSkipped' \in BOOLEAN
  BY <1>4, <1>5 DEF EpInd
<1>7. EpOrder' /\ EpRules'
  BY <1>4, <1>6 DEF EpOrder, EpRules
<1>8. EpTypeOK'
  BY <1>2, <1>4, <1>5, <1>6 DEF EpTypeOK, EpPolicies, EpPermissions
<1>9. GrantsShrink'
  BY <1>4, <1>6 DEF GrantsShrink
<1>10. ModesHold'
  BY <1>2, <1>4, <1>6, EpPlaces DEF ModesHold, EpPolicies
<1>11. DepthBounded'
  BY <1>4, <1>5, <1>6, EpAsked DEF DepthBounded
<1>12. DenialsReachDown' /\ HostIsAskedWhereAllowed' /\ InputIsTheMatchedOne'
  BY <1>6 DEF DenialsReachDown, HostIsAskedWhereAllowed, InputIsTheMatchedOne, NoCall
<1>13. EpInd'
  BY <1>5, <1>6, <1>7, <1>8, <1>9, <1>10, <1>11, <1>12 DEF EpInd, PolicySafe
<1> QED BY <1>4, <1>5, <1>6, <1>13

\* The executions are again executions, and a change of one leaves the others.
LEMMA EpSeq ==
  ASSUME EpInd, NEW f, DOMAIN f = DOMAIN epExecs, \A d \in DOMAIN epExecs : f[d] \in EpExecs,
         f = [d \in DOMAIN epExecs |-> f[d]]
  PROVE  f \in Seq(EpExecs) /\ Len(f) = Len(epExecs)
<1>1. PICK n \in Nat : n = Len(epExecs) /\ DOMAIN epExecs = 1 .. n
  BY DEF EpInd
<1>2. f \in [1 .. n -> EpExecs]
  BY <1>1
<1> QED BY <1>1, <1>2

LEMMA EpNextIteration ==
  ASSUME EpInd, NEW e \in DOMAIN epExecs, NextIteration(e)
  PROVE  /\ EpInd' /\ DOMAIN epExecs' = DOMAIN epExecs
         /\ \A d \in DOMAIN epExecs : epExecs'[d].policy = epExecs[d].policy
<1>1. \A d \in DOMAIN epExecs : epExecs[d] \in EpExecs /\ epExecs[d].policy.tools \subseteq PoolTools
  BY EpTypes DEF EpPolicies
<1>2. PICK x : x = [epExecs[e] EXCEPT !.pool = epExecs[e].policy.tools]
  OBVIOUS
<1>3. x \in EpExecs /\ EpSame(epExecs[e], x) /\ x.policy = epExecs[e].policy
  BY <1>1, <1>2 DEF EpExecs, EpSame
<1>4. epExecs' = [epExecs EXCEPT ![e] = x] /\ epCall' = NoCall /\ UNCHANGED <<epRuntime, epSkipped>>
  BY <1>2 DEF NextIteration
<1>5. /\ DOMAIN epExecs' = DOMAIN epExecs /\ epExecs'[e] = x
      /\ \A d \in DOMAIN epExecs : d # e => epExecs'[d] = epExecs[d]
      /\ epExecs' \in Seq(EpExecs)
  BY <1>3, <1>4 DEF EpInd
<1>6. \A d \in DOMAIN epExecs : EpSame(epExecs[d], epExecs'[d])
  BY <1>3, <1>5 DEF EpSame
<1>7. EpInd'
  BY <1>4, <1>5, <1>6, EpKept DEF EpInd
<1> QED BY <1>3, <1>5, <1>7

LEMMA EpFinishExec ==
  ASSUME EpInd, NEW e \in DOMAIN epExecs, FinishExec(e)
  PROVE  /\ EpInd' /\ DOMAIN epExecs' = DOMAIN epExecs
         /\ \A d \in DOMAIN epExecs : epExecs'[d].policy = epExecs[d].policy
<1>1. \A d \in DOMAIN epExecs : epExecs[d] \in EpExecs
  BY EpTypes
<1>2. /\ epExecs' = [d \in DOMAIN epExecs |->
                      IF d = e THEN [epExecs[d] EXCEPT !.open = FALSE]
                      ELSE IF epExecs[d].waitsFor = e THEN [epExecs[d] EXCEPT !.waitsFor = 0]
                      ELSE epExecs[d]]
      /\ epCall' = NoCall /\ UNCHANGED <<epRuntime, epSkipped>>
  BY DEF FinishExec
<1>3. ASSUME NEW d \in DOMAIN epExecs
      PROVE  /\ epExecs'[d] \in EpExecs /\ EpSame(epExecs[d], epExecs'[d])
             /\ epExecs'[d].policy = epExecs[d].policy
  <2>1. \/ epExecs'[d] = [epExecs[d] EXCEPT !.open = FALSE]
        \/ epExecs'[d] = [epExecs[d] EXCEPT !.waitsFor = 0]
        \/ epExecs'[d] = epExecs[d]
    BY <1>2
  <2>2. PICK x \in EpExecs : x = epExecs[d]
    BY <1>1
  <2>3. [x EXCEPT !.open = FALSE] \in EpExecs /\ EpSame(x, [x EXCEPT !.open = FALSE])
        /\ [x EXCEPT !.open = FALSE].policy = x.policy
    BY DEF EpExecs, EpSame
  <2>4. [x EXCEPT !.waitsFor = 0] \in EpExecs /\ EpSame(x, [x EXCEPT !.waitsFor = 0])
        /\ [x EXCEPT !.waitsFor = 0].policy = x.policy
    BY DEF EpExecs, EpSame
  <2>5. EpSame(x, x)
    BY DEF EpSame
  <2> QED BY <2>1, <2>2, <2>3, <2>4, <2>5
<1>4. DOMAIN epExecs' = DOMAIN epExecs
  BY <1>2
<1>5. epExecs' \in Seq(EpExecs)
  BY <1>2, <1>3, <1>4, EpSeq
<1>6. EpInd'
  BY <1>2, <1>3, <1>4, <1>5, EpKept DEF EpInd
<1> QED BY <1>3, <1>4, <1>6

LEMMA EpInlineSkill ==
  ASSUME EpInd, NEW e \in DOMAIN epExecs, NEW skill \in EpSkills, InlineSkill(e, skill)
  PROVE  /\ EpInd' /\ DOMAIN epExecs' = DOMAIN epExecs
         /\ epSkipped' \/ \A d \in DOMAIN epExecs :
              epExecs'[d].policy.tools \subseteq epExecs[d].policy.tools
<1>1. PICK x \in EpExecs, p \in EpPolicies, t \in SUBSET PoolTools :
        /\ x = epExecs[e] /\ p = x.policy
        /\ t = NarrowTools(BasePool(e), skill.allow, {})
        /\ t \subseteq BasePool(e) /\ BasePool(e) \subseteq p.tools \cup x.pool
  BY EpTypes, EpNarrowedTools
<1>2. PICK q : q = [p EXCEPT !.tools = t]
  OBVIOUS
<1>3. q \in EpPolicies /\ q.tools = t /\ q.skills = p.skills /\ q.context = p.context
      /\ q.isolation = p.isolation
  BY <1>2 DEF EpPolicies
<1>4. SkillPolicy(BasePool(e), p, skill) = q
  BY <1>1, <1>2 DEF SkillPolicy
<1>5. PICK y : y = [x EXCEPT !.policy = q]
  OBVIOUS
<1>6. y \in EpExecs /\ EpSame(x, y) /\ y.policy = q
  BY <1>1, <1>3, <1>5 DEF EpExecs, EpSame
<1>7. epExecs' = [epExecs EXCEPT ![e] = y] /\ epCall' = NoCall /\ UNCHANGED epRuntime
      /\ epSkipped' = (epSkipped \/ Narrowed(e))
  BY <1>1, <1>4, <1>5 DEF InlineSkill
<1>8. /\ DOMAIN epExecs' = DOMAIN epExecs /\ epExecs'[e] = y
      /\ \A d \in DOMAIN epExecs : d # e => epExecs'[d] = epExecs[d]
      /\ epExecs' \in Seq(EpExecs)
  BY <1>6, <1>7 DEF EpInd
<1>9. \A d \in DOMAIN epExecs : EpSame(epExecs[d], epExecs'[d])
  BY <1>1, <1>6, <1>8 DEF EpSame
<1>10. epSkipped' \in BOOLEAN
  BY <1>7 DEF EpInd, Narrowed
<1>11. EpInd'
  BY <1>7, <1>8, <1>9, <1>10, EpKept
<1>12. Narrowed(e) \/ t \subseteq p.tools
  BY <1>1 DEF Narrowed
<1>13. epSkipped' \/ \A d \in DOMAIN epExecs :
              epExecs'[d].policy.tools \subseteq epExecs[d].policy.tools
  BY <1>1, <1>3, <1>6, <1>7, <1>8, <1>12
<1> QED BY <1>8, <1>11, <1>13

\* What resolve_agent_execution_policy gives to the agent that e starts.
LEMMA EpAgentPolicy ==
  ASSUME NEW base \in SUBSET PoolTools, NEW policy \in EpPolicies, NEW agent \in EpAgents
  PROVE  LET narrowed == AgentPolicy(base, policy, agent)
         IN  /\ narrowed \in EpPolicies
             /\ narrowed.tools \subseteq base
             /\ narrowed.skills \subseteq policy.skills
             /\ narrowed.context.layers = policy.context.layers
             /\ EpBelow(policy.context.mode, narrowed.context.mode)
             /\ Place(Isolations, policy.isolation) <= Place(Isolations, narrowed.isolation)
<1>1. /\ agent.allow \subseteq PoolTools /\ agent.skills \subseteq STRING
      /\ agent.mode \in PermissionModes \cup {"unset"}
      /\ agent.memory \in {"local", "project", "user", "unset"}
      /\ agent.isolation \in {"none", "worktree", "remote"}
  BY EpAsked
<1>2. PICK t, s, c, m, i :
        /\ t = NarrowTools(base, agent.allow, agent.deny)
        /\ s = NarrowSkills(policy.skills, agent.skills)
        /\ c = [policy.context EXCEPT !.mode = NarrowMode(@, agent.mode)]
        /\ m = NarrowMemory(policy.memory, agent.memory)
        /\ i = NarrowIsolation(policy.isolation, agent.isolation)
  OBVIOUS
<1>3. AgentPolicy(base, policy, agent) =
        [tools |-> t, skills |-> s, context |-> c, memory |-> m, isolation |-> i]
  BY <1>2 DEF AgentPolicy
<1>4. policy.context \in EpPermissions /\ policy.skills \subseteq STRING
      /\ policy.memory \in {"local", "project", "user", "unset"}
      /\ policy.isolation \in {"none", "worktree", "remote"}
  BY DEF EpPolicies
<1>5. t \subseteq base
  BY <1>2, EpNarrowedTools
<1>6. s \subseteq policy.skills
  BY <1>2 DEF NarrowSkills
<1>7. /\ policy.context.mode \in PermissionModes
      /\ NarrowMode(policy.context.mode, agent.mode) \in PermissionModes
      /\ EpBelow(policy.context.mode, NarrowMode(policy.context.mode, agent.mode))
      /\ i \in {"none", "worktree", "remote"}
      /\ Place(Isolations, policy.isolation) <= Place(Isolations, i)
  BY <1>1, <1>2, <1>4, EpNarrowing DEF EpPermissions
<1>8. c \in EpPermissions /\ c.layers = policy.context.layers
      /\ c.mode = NarrowMode(policy.context.mode, agent.mode)
  BY <1>2, <1>4, <1>7 DEF EpPermissions
<1>9. m \in {"local", "project", "user", "unset"}
  BY <1>1, <1>2, <1>4 DEF NarrowMemory
<1> QED BY <1>3, <1>4, <1>5, <1>6, <1>7, <1>8, <1>9 DEF EpPolicies

\* e starts an agent in the foreground or the background.
LEMMA EpStartChild ==
  ASSUME EpInd, NEW e \in DOMAIN epExecs, NEW agent \in EpAgents, NEW background \in BOOLEAN,
         NEW base, base \subseteq BasePool(e), NEW policy \in EpPolicies,
         policy.skills = epExecs[e].policy.skills, policy.context = epExecs[e].policy.context,
         policy.isolation = epExecs[e].policy.isolation,
         StartChild(e, agent, base, policy, background)
  PROVE  \E x \in EpExecs : EpStarts(e, x) /\ x.policy.tools \subseteq base
                            /\ epExecs' \in Seq(EpExecs)
<1>1. PICK q \in EpPolicies :
             /\ q = AgentPolicy(base, policy, agent)
             /\ q.tools \subseteq base
             /\ q.skills \subseteq policy.skills
             /\ q.context.layers = policy.context.layers
             /\ EpBelow(policy.context.mode, q.context.mode)
             /\ Place(Isolations, policy.isolation) <= Place(Isolations, q.isolation)
  BY EpAgentPolicy, EpTypes
<1>2. /\ e \in Nat /\ epExecs[e] \in EpExecs /\ epExecs \in Seq(EpExecs)
      /\ Len(epExecs) \in Nat /\ BasePool(e) \subseteq PoolTools
  BY EpTypes DEF EpInd
<1>3. PICK x : x = NewExec(epExecs[e].above \cup {e}, q, epExecs[e].depth + 1)
  OBVIOUS
<1>4. epExecs[e].above \cup {e} \in SUBSET Nat /\ epExecs[e].depth + 1 \in Nat
  BY <1>2 DEF EpExecs
<1>5. /\ x \in EpExecs /\ x.above = epExecs[e].above \cup {e} /\ x.depth = epExecs[e].depth + 1
      /\ x.start = q /\ x.policy = q /\ x.pool = q.tools
  BY <1>3, <1>4, EpNewType
<1>6. PICK n \in Nat : n = IF background THEN 0 ELSE Len(epExecs) + 1
  BY <1>2
<1>7. PICK y : y = [epExecs[e] EXCEPT !.waitsFor = n]
  OBVIOUS
<1>8. y \in EpExecs /\ EpSame(epExecs[e], y) /\ y.policy = epExecs[e].policy
  BY <1>2, <1>7 DEF EpExecs, EpSame
<1>9. PICK f : f = [epExecs EXCEPT ![e] = y]
  OBVIOUS
<1>10. /\ f \in Seq(EpExecs) /\ Len(f) = Len(epExecs) /\ DOMAIN f = DOMAIN epExecs
       /\ f[e] = y /\ \A d \in DOMAIN epExecs : d # e => f[d] = epExecs[d]
  BY <1>2, <1>8, <1>9
<1>11. epExecs' = Append(f, x) /\ DepthAllows(epExecs[e].depth)
  BY <1>1, <1>3, <1>6, <1>7, <1>9 DEF StartChild
<1>12. /\ epExecs' \in Seq(EpExecs) /\ Len(epExecs') = Len(epExecs) + 1
       /\ epExecs'[Len(epExecs) + 1] = x
       /\ \A d \in DOMAIN epExecs : epExecs'[d] = f[d]
  BY <1>2, <1>5, <1>10, <1>11
<1>13. \A d \in DOMAIN epExecs : epExecs'[d].policy = epExecs[d].policy
                                 /\ EpSame(epExecs[d], epExecs'[d])
  BY <1>8, <1>10, <1>12 DEF EpSame
<1>14. q.isolation \in {"none", "worktree", "remote"} /\ epExecs[e].depth < epRuntime.maxDepth
  BY <1>11 DEF EpPolicies, DepthAllows
<1> QED BY <1>1, <1>5, <1>12, <1>13, <1>14 DEF EpStarts

\* What a step may do to the policies; PolicyOnlyShrinks says it of every step.
EpShrinks ==
  \/ epSkipped'
  \/ /\ \A e \in DOMAIN epExecs : epExecs'[e].policy.tools \subseteq epExecs[e].policy.tools
     /\ \A e \in DOMAIN epExecs' \ DOMAIN epExecs : \A a \in epExecs'[e].above :
           epExecs'[e].depth = epExecs[a].depth + 1 =>
               epExecs'[e].policy.tools \subseteq epExecs[a].policy.tools

LEMMA EpChildShrinks ==
  ASSUME EpInd, NEW e \in DOMAIN epExecs, NEW x \in EpExecs, EpStarts(e, x),
         epExecs' \in Seq(EpExecs),
         epSkipped' \/ x.policy.tools \subseteq epExecs[e].policy.tools
  PROVE  EpShrinks
<1>1. /\ \A d \in DOMAIN epExecs' : d \in DOMAIN epExecs \/ d = Len(epExecs) + 1
      /\ epExecs'[Len(epExecs) + 1] = x
      /\ \A d \in DOMAIN epExecs : epExecs'[d].policy = epExecs[d].policy
      /\ x.above = epExecs[e].above \cup {e} /\ x.depth = epExecs[e].depth + 1
  BY DEF EpInd, EpStarts
<1>2. \A a \in epExecs[e].above : a \in DOMAIN epExecs /\ epExecs[a].depth < epExecs[e].depth
  <2>1. \A a \in epExecs[e].above : a \in 1 .. e - 1 /\ epExecs[a].depth < epExecs[e].depth
    BY DEF EpInd, EpOrder
  <2>2. PICK n \in Nat : DOMAIN epExecs = 1 .. n
    BY DEF EpInd
  <2> QED BY <2>1, <2>2
<1>3. \A d \in DOMAIN epExecs : epExecs[d].depth \in Nat
  BY EpTypes DEF EpExecs
<1>4. \A a \in x.above : x.depth = epExecs[a].depth + 1 => a = e
  BY <1>1, <1>2, <1>3
<1> QED BY <1>1, <1>4 DEF EpShrinks

LEMMA EpInvokeAgent ==
  ASSUME EpInd, NEW e \in DOMAIN epExecs, NEW agent \in EpAgents, NEW background \in BOOLEAN,
         InvokeAgent(e, agent, background)
  PROVE  EpInd' /\ EpShrinks
<1>1. PICK policy \in EpPolicies : policy = epExecs[e].policy
  BY EpTypes
<1>2. /\ StartChild(e, agent, BasePool(e), policy, background)
      /\ epSkipped' = (epSkipped \/ Narrowed(e)) /\ epCall' = NoCall /\ epRuntime' = epRuntime
  BY <1>1 DEF InvokeAgent
<1>3. PICK x \in EpExecs : EpStarts(e, x) /\ x.policy.tools \subseteq BasePool(e)
                           /\ epExecs' \in Seq(EpExecs)
  BY <1>1, <1>2, EpStartChild
<1>4. epSkipped' \in BOOLEAN
  BY <1>2 DEF EpInd, Narrowed
<1>5. EpInd'
  BY <1>2, <1>3, <1>4, EpGrown
<1>6. Narrowed(e) \/ BasePool(e) = epExecs[e].policy.tools
  BY DEF Narrowed, BasePool
<1>7. EpShrinks
  BY <1>2, <1>3, <1>6, EpChildShrinks
<1> QED BY <1>5, <1>7

LEMMA EpForkSkill ==
  ASSUME EpInd, NEW e \in DOMAIN epExecs, NEW skill \in EpSkills, ForkSkill(e, skill)
  PROVE  EpInd' /\ EpShrinks
<1>1. PICK p \in EpPolicies, t \in SUBSET PoolTools :
        /\ p = epExecs[e].policy /\ t = NarrowTools(BasePool(e), skill.allow, {})
        /\ t \subseteq BasePool(e)
  BY EpTypes, EpNarrowedTools
<1>2. PICK q : q = [p EXCEPT !.tools = t]
  OBVIOUS
<1>3. q \in EpPolicies /\ q.tools = t /\ q.skills = p.skills /\ q.context = p.context
      /\ q.isolation = p.isolation
  BY <1>2 DEF EpPolicies
<1>4. SkillPolicy(BasePool(e), p, skill) = q /\ skill.agent \in EpAgents
  BY <1>1, <1>2, EpAsked DEF SkillPolicy
<1>5. /\ StartChild(e, skill.agent, t, q, FALSE)
      /\ epSkipped' = (epSkipped \/ Narrowed(e)) /\ epCall' = NoCall /\ epRuntime' = epRuntime
  BY <1>1, <1>3, <1>4 DEF ForkSkill
<1>6. PICK x \in EpExecs : EpStarts(e, x) /\ x.policy.tools \subseteq t
                           /\ epExecs' \in Seq(EpExecs)
  BY <1>1, <1>3, <1>4, <1>5, EpStartChild
<1>7. epSkipped' \in BOOLEAN
  BY <1>5 DEF EpInd, Narrowed
<1>8. EpInd'
  BY <1>5, <1>6, <1>7, EpGrown
<1>9. Narrowed(e) \/ BasePool(e) = epExecs[e].policy.tools
  BY DEF Narrowed, BasePool
<1>10. EpShrinks
  BY <1>1, <1>5, <1>6, <1>9, EpChildShrinks
<1> QED BY <1>8, <1>10

\* The call of a tool is one that the rules of the session and the modes above allow.
LEMMA EpCallTool ==
  ASSUME EpInd, NEW e \in DOMAIN epExecs, NEW tool \in PoolTools, NEW own \in Behaviors,
         CallTool(e, tool, own)
  PROVE  EpInd' /\ UNCHANGED <<epExecs, epSkipped>>
<1>1. PICK context \in EpPermissions : context = epExecs[e].policy.context
  BY EpTypes
<1>2. /\ Evaluate(context, tool, own) = "allow"
      /\ UNCHANGED <<epRuntime, epExecs, epSkipped>>
  BY <1>1 DEF CallTool
<1>3. PICK hook \in BOOLEAN, check \in BOOLEAN :
              epCall' = [exec |-> e, tool |-> tool,
                         decided |-> IF context.mode = "bypass" THEN "mode"
                                     ELSE IF StackDecision(context, tool, own) = "ask" THEN "host"
                                     ELSE "rules",
                         hook |-> hook, check |-> check,
                         matched |-> IF check THEN "checked" ELSE IF hook THEN "hooked" ELSE "model",
                         input |-> ExecutedInput(hook, check)]
  BY <1>1 DEF CallTool
<1>4. /\ epCall'.exec = e /\ epCall'.tool = tool
      /\ epCall'.decided = "host" => context.mode # "bypass"
                                     /\ StackDecision(context, tool, own) = "ask"
  BY <1>3
<1>5. InputIsTheMatchedOne'
  BY <1>3 DEF InputIsTheMatchedOne, ExecutedInput
<1>6. \A a \in DOMAIN epExecs : Chained(a, e) =>
        EpBelow(epExecs[a].policy.context.mode, context.mode)
        /\ epExecs[a].policy.context.mode \in PermissionModes
  BY <1>1, EpTypes DEF EpInd, PolicySafe, ModesHold, EpBelow, EpPermissions
<1>7. HostIsAskedWhereAllowed'
  <2> SUFFICES ASSUME epCall'.decided = "host"
               PROVE  /\ epRuntime.asks
                      /\ \A a \in DOMAIN epExecs : Chained(a, e) =>
                           epExecs[a].policy.context.mode \in {"default", "bypass"}
    BY <1>2, <1>4 DEF HostIsAskedWhereAllowed, Chained
  <2>1. context.mode \notin {"dont_ask", "bubble"} /\ epRuntime.asks
    BY <1>2, <1>4 DEF Evaluate
  <2> QED BY <1>6, <2>1 DEF EpBelow, PermissionModes
<1>8. DenialsReachDown'
  <2> DEFINE top == epExecs[1].start.context
             last == top.layers[Len(top.layers)]
  <2> SUFFICES ASSUME Len(top.layers) > 0, Len(last.rules) > 0,
                      tool \in last.rules[Len(last.rules)].names,
                      last.rules[Len(last.rules)].behavior = "deny",
                      NEW a \in DOMAIN epExecs, Chained(a, e)
               PROVE  epExecs[a].policy.context.mode = "bypass"
    BY <1>2, <1>4 DEF DenialsReachDown, Chained
  <2>1. context.layers = top.layers
    BY <1>1 DEF EpInd, EpRules
  <2>2. StackDecision(context, tool, own) = "deny"
    BY <2>1, EpLastRule
  <2>3. context.mode = "bypass"
    BY <1>2, <2>2 DEF Evaluate
  <2> QED BY <1>6, <2>3 DEF EpBelow
<1>9. epExecs # <<>>
  OBVIOUS
<1>10. EpTypeOK' /\ GrantsShrink' /\ ModesHold' /\ DepthBounded' /\ EpOrder' /\ EpRules'
  BY <1>2 DEF EpInd, PolicySafe, EpTypeOK, GrantsShrink, ModesHold, DepthBounded, EpOrder,
     EpRules, Chained
<1> QED BY <1>2, <1>5, <1>7, <1>8, <1>9, <1>10 DEF EpInd, PolicySafe

LEMMA EpStep ==
  ASSUME EpInd, [EpNext]_epVars
  PROVE  EpInd' /\ (EpShrinks \/ UNCHANGED epVars)
<1>1. ASSUME NEW agent \in EpRoots, NEW context \in EpContexts, NEW runtime \in EpRuntimes,
             StartTurn(agent, context, runtime)
      PROVE  EpInd' /\ EpShrinks
  BY <1>1, EpStartTurn DEF EpShrinks
<1>2. ASSUME NEW e \in DOMAIN epExecs, NextIteration(e) \/ FinishExec(e)
      PROVE  EpInd' /\ EpShrinks
  BY <1>2, EpNextIteration, EpFinishExec DEF EpShrinks
<1>3. ASSUME NEW e \in DOMAIN epExecs, NEW agent \in EpAgents, NEW background \in BOOLEAN,
             InvokeAgent(e, agent, background)
      PROVE  EpInd' /\ EpShrinks
  BY <1>3, EpInvokeAgent
<1>4. ASSUME NEW e \in DOMAIN epExecs, NEW skill \in EpSkills, InlineSkill(e, skill)
      PROVE  EpInd' /\ EpShrinks
  BY <1>4, EpInlineSkill DEF EpShrinks
<1>5. ASSUME NEW e \in DOMAIN epExecs, NEW skill \in EpSkills, ForkSkill(e, skill)
      PROVE  EpInd' /\ EpShrinks
  BY <1>5, EpForkSkill
<1>6. ASSUME NEW e \in DOMAIN epExecs, NEW tool \in PoolTools, NEW own \in Behaviors,
             CallTool(e, tool, own)
      PROVE  EpInd' /\ EpShrinks
  BY <1>6, EpCallTool DEF EpShrinks
<1>7. CASE UNCHANGED epVars
  <2>1. epRuntime' = epRuntime /\ epExecs' = epExecs /\ epCall' = epCall /\ epSkipped' = epSkipped
    BY <1>7 DEF epVars
  <2> QED BY <1>7, <2>1, ZenonT(60) DEF EpInd, EpOrder, EpRules, PolicySafe, EpTypeOK, GrantsShrink, ModesHold,
     DepthBounded, DenialsReachDown, HostIsAskedWhereAllowed, InputIsTheMatchedOne, Chained
<1> QED BY <1>1, <1>2, <1>3, <1>4, <1>5, <1>6, <1>7 DEF EpNext

\* For any definitions of agents and skills, any rules and any host: what an execution may
\* do only shrinks along a chain of agents and skills, and what runs was authorised for the
\* chain that asked for it.
THEOREM PolicySafety == EpSpec => []PolicySafe
<1>1. EpInd /\ [EpNext]_epVars => EpInd'
  BY EpStep
<1>2. EpInd => PolicySafe
  BY DEF EpInd
<1> QED BY EpInitially, <1>1, <1>2, PTL DEF EpSpec

\* An inline skill, an agent and a forked skill leave and give no more than the policy that
\* was in force, but for what an iteration still sees of a policy that it narrowed.
THEOREM PolicyShrinks == EpSpec => PolicyOnlyShrinks
<1>1. EpInd /\ [EpNext]_epVars => EpInd'
  BY EpStep
<1>2. EpInd /\ [EpNext]_epVars => [EpShrinks]_epVars
  BY EpStep
<1>3. [EpShrinks]_epVars =>
        [\/ epSkipped'
         \/ /\ \A e \in DOMAIN epExecs : epExecs'[e].policy.tools \subseteq epExecs[e].policy.tools
            /\ \A e \in DOMAIN epExecs' \ DOMAIN epExecs : \A a \in epExecs'[e].above :
                  epExecs'[e].depth = epExecs[a].depth + 1 =>
                      epExecs'[e].policy.tools \subseteq epExecs[a].policy.tools]_epVars
  BY DEF EpShrinks
<1> QED BY EpInitially, <1>1, <1>2, <1>3, PTL DEF EpSpec, PolicyOnlyShrinks


----
(* Shells and their brokers                                                *)

SbEntries ==
  [status : EndStatus \cup {"none", "running"}, live : BOOLEAN, stop : BOOLEAN, intr : BOOLEAN]

SbTypes ==
  /\ sbFile \in 0..MaxBrokers /\ sbSocket \in 0..MaxBrokers
  /\ sbDisk \in [Shells -> EndStatus \cup {"none", "running"}]
  /\ sbState \in [SbBrokers -> {"unborn", "born", "loaded", "bound", "serving", "closing", "gone"}]
  /\ sbIdle \subseteq SbBrokers
  /\ sbEntry \in [SbBrokers -> [Shells -> SbEntries]]
  /\ sbSpawning \subseteq SbBrokers \X Shells /\ sbEnded \in [SbBrokers -> SUBSET Shells]
  /\ sbProc \in [Shells -> {"none", "running", "ended"}]
  /\ sbParent \in [Shells -> 0..MaxBrokers]
  /\ sbClient \in [SbClients -> {"idle", "waiting", "ready"}] /\ sbCleaning \in BOOLEAN
  /\ sbCrashes \in 0..MaxBrokerCrashes
  /\ sbEscaped \subseteq Shells /\ sbMixed \in BOOLEAN /\ sbStrayed \subseteq SbBrokers

\* A broker that is not there, or has not loaded, knows nothing and starts nothing.
SbKnown ==
  \A b \in SbBrokers : sbState[b] \in {"unborn", "born", "gone"} =>
    \A e \in Shells : sbEntry[b][e] = Unknown /\ <<b, e>> \notin sbSpawning

\* What is started is somebody's entry; a shell is started once, before which there is no
\* process and no sidecar.
SbStarting ==
  /\ \A b \in SbBrokers, e \in Shells : <<b, e>> \in sbSpawning =>
       /\ sbEntry[b][e].live /\ sbParent[e] = 0
       /\ \A d \in SbBrokers : d # b => <<d, e>> \notin sbSpawning
  /\ \A e \in Shells : sbDisk[e] = "none" => sbProc[e] = "none" /\ sbParent[e] = 0
  /\ \A b \in SbBrokers, e \in Shells \ sbEscaped : <<b, e>> \in sbSpawning =>
       sbDisk[e] = "none" /\ \A d \in SbBrokers : d # b => sbEntry[d][e] = Unknown

\* Unless two lived at once there is one broker, and its socket is the one at the path.
SbAlone ==
  ~sbMixed =>
    /\ \A b, d \in SbBrokers : Alive(b) /\ Alive(d) => b = d
    /\ \A b \in SbBrokers : sbState[b] = "bound" => sbSocket = b

SbInd ==
  /\ SbTypes /\ SbKnown /\ SbStarting /\ SbAlone
  /\ RunningIsOnDisk /\ RunningIsNotOver /\ ServingIsFound /\ IdleIsTimed

LEMMA SbInitially == SbInit => SbInd
<1> SUFFICES ASSUME SbInit PROVE SbInd
  OBVIOUS
<1>1. Unknown \in SbEntries
  BY DEF Unknown, SbEntries
<1>2. \A b \in SbBrokers : sbState[b] = "unborn" /\ sbEnded[b] = {}
                           /\ \A e \in Shells : sbEntry[b][e] = Unknown
  BY DEF SbInit
<1>3. SbTypes
  <2>1. sbEntry \in [SbBrokers -> [Shells -> SbEntries]]
    BY <1>1 DEF SbInit
  <2>2. sbEnded \in [SbBrokers -> SUBSET Shells]
    BY DEF SbInit
  <2>3. sbParent \in [Shells -> 0..MaxBrokers] /\ 0 \in 0..MaxBrokers /\ 0 \in 0..MaxBrokerCrashes
    BY SbAssumption DEF SbInit
  <2> QED BY <2>1, <2>2, <2>3 DEF SbInit, SbTypes
<1>4. SbKnown /\ SbStarting /\ SbAlone
  BY <1>2 DEF SbInit, SbKnown, SbStarting, SbAlone, Alive
<1>5. RunningIsOnDisk /\ RunningIsNotOver /\ ServingIsFound /\ IdleIsTimed
  BY <1>2 DEF SbInit, RunningIsOnDisk, RunningIsNotOver, ServingIsFound, IdleIsTimed, Alive
<1> QED BY <1>3, <1>4, <1>5 DEF SbInd

LEMMA EnsureKeeps ==
  ASSUME SbInd, NEW c \in SbClients, Ensure(c)
  PROVE  SbInd'
<1>0. \/ UNCHANGED <<sbState, sbMixed>>
      \/ \E b \in SbBrokers :
           /\ sbState[b] = "unborn" /\ sbState'[b] = "born"
           /\ \A d \in SbBrokers : d # b => sbState'[d] = sbState[d]
           /\ sbMixed' = (sbMixed \/ \E d \in SbBrokers : Alive(d))
  <2>1. CASE Answers
    BY <2>1 DEF Ensure
  <2>2. ASSUME ~Answers
        PROVE  \E b \in SbBrokers : /\ \A d \in SbBrokers : sbState[d] = "unborn" <=> d >= b
                                    /\ sbState' = [sbState EXCEPT ![b] = "born"]
                                    /\ sbMixed' = (sbMixed \/ \E d \in SbBrokers : Alive(d))
    BY <2>2 DEF Ensure
  <2>3. \A b \in SbBrokers : b >= b
    BY SbAssumption DEF SbBrokers
  <2> QED BY <2>1, <2>2, <2>3 DEF SbInd, SbTypes
<1>u. UNCHANGED <<sbFile, sbSocket, sbDisk, sbEntry, sbSpawning, sbProc, sbParent, sbEscaped>>
  BY DEF Ensure, sbFiles
<1>1. SbTypes'
  BY SbAssumption DEF SbInd, SbTypes, SbEntries, Unknown, EndStatus, SbBrokers, Ensure, sbFiles
<1>2. SbKnown' /\ SbStarting'
  BY <1>0, <1>u DEF SbInd, SbKnown, SbStarting
<1>3. SbAlone' /\ ServingIsFound'
  BY <1>0, <1>u DEF SbInd, SbAlone, ServingIsFound, Alive
<1>4. RunningIsOnDisk' /\ RunningIsNotOver'
  <2>1. \A b \in SbBrokers, e \in Shells : ~Alive(b) => sbEntry[b][e].status = "none"
    <3>1. \A b \in SbBrokers, e \in Shells : ~Alive(b) => sbEntry[b][e] = Unknown
      BY DEF SbInd, SbTypes, SbKnown, Alive
    <3>2. Unknown.status = "none"
      BY DEF Unknown
    <3> QED BY <3>1, <3>2
  <2>2. \A b \in SbBrokers : Alive(b)' => Alive(b) \/ sbState[b] = "unborn"
    BY <1>0 DEF Alive
  <2>3. RunningIsOnDisk'
    BY <1>u DEF SbInd, RunningIsOnDisk
  <2>4. RunningIsNotOver'
    BY <1>u, <2>1, <2>2 DEF SbInd, RunningIsNotOver, EndStatus
  <2> QED BY <2>3, <2>4
<1>5. IdleIsTimed'
  BY DEF SbInd, SbTypes, Ensure, sbFiles, IdleIsTimed, Busy
<1> QED BY <1>1, <1>2, <1>3, <1>4, <1>5 DEF SbInd

LEMMA EndWaitKeeps ==
  ASSUME SbInd, NEW c \in SbClients, EndWait(c)
  PROVE  SbInd'
<1>1. SbTypes'
  BY SbAssumption DEF SbInd, SbTypes, SbEntries, Unknown, EndStatus, SbBrokers, EndWait,
      sbFiles, sbGhosts
<1>2. SbKnown' /\ SbStarting'
  BY DEF SbInd, SbTypes, EndWait, sbFiles, sbGhosts, SbKnown, SbStarting, Alive, Unknown
<1>3. SbAlone' /\ ServingIsFound'
  BY DEF SbInd, SbTypes, EndWait, sbFiles, sbGhosts, SbAlone, ServingIsFound, Alive
<1>4. RunningIsOnDisk' /\ RunningIsNotOver'
  BY DEF SbInd, SbTypes, EndWait, sbFiles, sbGhosts, SbKnown, RunningIsOnDisk,
      RunningIsNotOver, Alive, Unknown, EndStatus
<1>5. IdleIsTimed'
  BY DEF SbInd, SbTypes, EndWait, sbFiles, sbGhosts, IdleIsTimed, Busy
<1> QED BY <1>1, <1>2, <1>3, <1>4, <1>5 DEF SbInd

LEMMA RequestStartKeeps ==
  ASSUME SbInd, NEW c \in SbClients, NEW e \in Shells, RequestStart(c, e)
  PROVE  SbInd'
<1>0. /\ sbClient' = [sbClient EXCEPT ![c] = "idle"]
      /\ \A b \in SbBrokers : sbEntry[b][e] = Unknown /\ sbDisk[e] = "none"
      /\ UNCHANGED <<sbFile, sbSocket, sbDisk, sbState, sbIdle, sbEnded, sbProc, sbParent, sbCleaning, sbCrashes,
                     sbEscaped, sbMixed, sbStrayed>>
  BY DEF RequestStart, sbFiles, sbGhosts
<1>p. PICK x : x = [Unknown EXCEPT !.status = "running", !.live = TRUE]
  OBVIOUS
<1>x. x \in SbEntries /\ x.live /\ x.status = "running"
  BY <1>p DEF SbEntries, Unknown
<1>a. CASE ~Answers
  <2>1. UNCHANGED <<sbEntry, sbSpawning>>
    BY <1>a DEF RequestStart
  <2> QED BY <1>0, <2>1 DEF SbInd, SbTypes, SbKnown, SbStarting, SbAlone, RunningIsOnDisk, 
    RunningIsNotOver, ServingIsFound, IdleIsTimed, Alive, Busy
<1> SUFFICES ASSUME Answers PROVE SbInd'
  BY <1>a
<1>s. PICK b \in SbBrokers : b = sbSocket /\ sbState[b] \in {"bound", "serving"}
  BY DEF SbInd, SbTypes, Answers, Alive, SbBrokers
<1>b. sbEntry' = [sbEntry EXCEPT ![b][e] = x] /\ sbSpawning' = sbSpawning \cup {<<b, e>>}
  BY <1>p, <1>s DEF RequestStart, SetEntry
<1>c. /\ sbEntry'[b][e] = x
      /\ \A d \in SbBrokers, g \in Shells : d # b \/ g # e => sbEntry'[d][g] = sbEntry[d][g]
  BY <1>b DEF SbInd, SbTypes
<1>d. ~Unknown.live
  BY DEF Unknown
<1>1. SbTypes'
  BY <1>0, <1>x, <1>b DEF SbInd, SbTypes
<1>2. SbKnown' /\ SbStarting'
  <2>1. SbKnown'
    BY <1>0, <1>b, <1>c, <1>s DEF SbInd, SbKnown, Alive
  <2>2. \A d \in SbBrokers : <<d, e>> \notin sbSpawning
    BY <1>0, <1>d DEF SbInd, SbStarting
  <2> QED BY <1>0, <1>b, <1>c, <1>x, <2>1, <2>2 DEF SbInd, SbStarting
<1>3. SbAlone' /\ ServingIsFound'
  BY <1>0 DEF SbInd, SbAlone, ServingIsFound, Alive
<1>4. RunningIsOnDisk' /\ RunningIsNotOver'
  BY <1>0, <1>c, <1>x DEF SbInd, RunningIsOnDisk, RunningIsNotOver, Alive, EndStatus
<1>5. IdleIsTimed'
  BY <1>0, <1>c, <1>d DEF SbInd, IdleIsTimed, Busy
<1> QED BY <1>1, <1>2, <1>3, <1>4, <1>5 DEF SbInd

\* A broker dies, with what it knew.
LEMMA SbDies ==
  ASSUME SbInd, NEW b \in SbBrokers, Dies(b)
  PROVE  /\ sbState' \in [SbBrokers -> {"unborn", "born", "loaded", "bound", "serving", "closing", "gone"}]
         /\ sbIdle' \subseteq SbBrokers /\ sbSpawning' \subseteq SbBrokers \X Shells
         /\ sbEntry' \in [SbBrokers -> [Shells -> SbEntries]]
         /\ sbEnded' \in [SbBrokers -> SUBSET Shells]
         /\ sbState'[b] = "gone" /\ \A d \in SbBrokers : d # b => sbState'[d] = sbState[d]
         /\ \A d \in SbBrokers : d # b /\ d \in sbIdle => d \in sbIdle'
         /\ \A e \in Shells : sbEntry'[b][e] = Unknown
         /\ \A d \in SbBrokers, e \in Shells : d # b => sbEntry'[d][e] = sbEntry[d][e]
         /\ \A d \in SbBrokers, e \in Shells :
              <<d, e>> \in sbSpawning' <=> <<d, e>> \in sbSpawning /\ d # b
<1>1. Unknown \in SbEntries
  BY DEF Unknown, SbEntries
<1>2. sbState' = [sbState EXCEPT ![b] = "gone"] /\ sbIdle' = sbIdle \ {b}
  BY DEF Dies
<1>3. sbEntry' = [sbEntry EXCEPT ![b] = [e \in Shells |-> Unknown]]
      /\ sbEnded' = [sbEnded EXCEPT ![b] = {}]
  BY DEF Dies
<1>4. sbSpawning' = {s \in sbSpawning : s[1] # b}
  BY DEF Dies
<1>5. sbSpawning' \subseteq SbBrokers \X Shells
      /\ \A d \in SbBrokers, e \in Shells :
              <<d, e>> \in sbSpawning' <=> <<d, e>> \in sbSpawning /\ d # b
  BY <1>4 DEF SbInd, SbTypes
<1>6. /\ sbState' \in [SbBrokers -> {"unborn", "born", "loaded", "bound", "serving", "closing", "gone"}]
      /\ sbIdle' \subseteq SbBrokers
      /\ sbState'[b] = "gone" /\ \A d \in SbBrokers : d # b => sbState'[d] = sbState[d]
      /\ \A d \in SbBrokers : d # b /\ d \in sbIdle => d \in sbIdle'
  BY <1>2 DEF SbInd, SbTypes
<1>7. /\ sbEntry' \in [SbBrokers -> [Shells -> SbEntries]]
      /\ sbEnded' \in [SbBrokers -> SUBSET Shells]
      /\ \A e \in Shells : sbEntry'[b][e] = Unknown
      /\ \A d \in SbBrokers, e \in Shells : d # b => sbEntry'[d][e] = sbEntry[d][e]
  BY <1>1, <1>3 DEF SbInd, SbTypes
<1> QED BY <1>5, <1>6, <1>7

\* The invariant after the death of a broker, whose shells are left, except that some end
\* as a closing broker says of them.
LEMMA SbAfterDeath ==
  ASSUME SbInd, NEW b \in SbBrokers, Dies(b), UNCHANGED <<sbProc, sbParent, sbStrayed, sbMixed>>,
         sbFile' \in 0..MaxBrokers, sbSocket' \in 0..MaxBrokers,
         UNCHANGED <<sbFile, sbSocket>> \/ (sbMixed \/ \A d \in SbBrokers : Alive(d) => d = b),
         sbDisk' \in [Shells -> EndStatus \cup {"none", "running"}],
         sbEscaped \subseteq sbEscaped', sbEscaped' \subseteq Shells,
         \A e \in Shells : \/ sbDisk'[e] = sbDisk[e]
                           \/ /\ sbDisk'[e] # "none" /\ sbParent[e] # 0
                              /\ sbProc[e] = "running" => e \in sbEscaped',
         sbClient' \in [SbClients -> {"idle", "waiting", "ready"}], sbCleaning' \in BOOLEAN,
         sbCrashes' \in 0..MaxBrokerCrashes
  PROVE  SbInd'
<1>1. SbTypes'
  BY SbDies DEF SbInd, SbTypes
<1>2. SbKnown'
  BY SbDies DEF SbInd, SbKnown, Alive
<1>3. SbStarting'
  <2>1. \A d \in SbBrokers, e \in Shells : <<d, e>> \in sbSpawning' =>
          /\ sbEntry'[d][e].live /\ sbParent'[e] = 0
          /\ \A c \in SbBrokers : c # d => <<c, e>> \notin sbSpawning'
    BY SbDies DEF SbInd, SbStarting
  <2>2. \A e \in Shells : sbDisk'[e] = "none" => sbProc'[e] = "none" /\ sbParent'[e] = 0
    BY DEF SbInd, SbStarting
  <2>3. ASSUME NEW d \in SbBrokers, NEW e \in Shells \ sbEscaped', <<d, e>> \in sbSpawning'
        PROVE  /\ sbDisk'[e] = "none"
               /\ \A c \in SbBrokers : c # d => sbEntry'[c][e] = Unknown
    <3>1. <<d, e>> \in sbSpawning /\ e \notin sbEscaped
      BY <2>3, SbDies
    <3>2. /\ sbDisk[e] = "none" /\ sbParent[e] = 0
          /\ \A c \in SbBrokers : c # d => sbEntry[c][e] = Unknown
      BY <3>1 DEF SbInd, SbStarting
    <3> QED BY <3>2, SbDies
  <2> QED BY <2>1, <2>2, <2>3 DEF SbStarting
<1>4. SbAlone' /\ ServingIsFound'
  BY SbDies DEF SbInd, SbAlone, ServingIsFound, Alive
<1>5. RunningIsOnDisk'
  BY DEF SbInd, RunningIsOnDisk
<1>6. RunningIsNotOver'
  BY SbDies DEF SbInd, RunningIsNotOver, Alive
<1>7. IdleIsTimed'
  BY SbDies DEF SbInd, IdleIsTimed, Busy
<1> QED BY <1>1, <1>2, <1>3, <1>4, <1>5, <1>6, <1>7 DEF SbInd

LEMMA StopBrokerKeeps ==
  ASSUME SbInd, StopBroker
  PROVE  SbInd'
<1>1. /\ sbCleaning' = TRUE /\ sbFile # 0
      /\ UNCHANGED <<sbFile, sbSocket, sbDisk, sbProc, sbParent, sbClient, sbCrashes, sbEscaped,
                     sbMixed, sbStrayed>>
  BY DEF StopBroker, sbFiles, sbGhosts
<1>2. CASE Answers
  <2>1. PICK b \in SbBrokers : b = sbSocket /\ sbState[b] \in {"bound", "serving"}
    BY <1>2 DEF SbInd, SbTypes, Answers, SbBrokers
  <2>2. /\ sbState' = [sbState EXCEPT ![b] = "closing"]
        /\ UNCHANGED <<sbIdle, sbEntry, sbSpawning, sbEnded>>
    BY <1>2, <2>1 DEF StopBroker
  <2>3. /\ sbState' \in [SbBrokers -> {"unborn", "born", "loaded", "bound", "serving", "closing", "gone"}]
        /\ sbState'[b] = "closing" /\ \A d \in SbBrokers : d # b => sbState'[d] = sbState[d]
    BY <2>2 DEF SbInd, SbTypes
  <2>4. \A d \in SbBrokers : /\ Alive(d)' <=> Alive(d)
                             /\ sbState'[d] \in {"unborn", "born", "gone"} => sbState'[d] = sbState[d]
    BY <2>1, <2>3 DEF Alive
  <2>5. SbTypes'
    BY <1>1, <2>2, <2>3 DEF SbInd, SbTypes
  <2>6. SbKnown' /\ SbStarting' /\ RunningIsOnDisk' /\ RunningIsNotOver'
    BY <1>1, <2>2, <2>4 DEF SbInd, SbKnown, SbStarting, RunningIsOnDisk, RunningIsNotOver
  <2>7. SbAlone' /\ ServingIsFound' /\ IdleIsTimed'
    BY <1>1, <2>2, <2>3, <2>4 DEF SbInd, SbAlone, ServingIsFound, IdleIsTimed, Busy
  <2> QED BY <2>5, <2>6, <2>7 DEF SbInd
<1>3. CASE ~Answers
  <2>1. PICK b \in SbBrokers : b = sbFile
    BY <1>1 DEF SbInd, SbTypes, SbBrokers
  <2>2. Dies(b)
    BY <1>3, <2>1 DEF StopBroker
  <2> QED BY <1>1, <2>2, SbAfterDeath DEF SbInd, SbTypes
<1> QED BY <1>2, <1>3

LEMMA CleanFilesKeeps ==
  ASSUME SbInd, CleanFiles
  PROVE  SbInd'
<1>1. SbTypes'
  <2>1. 0 \in 0..MaxBrokers /\ sbMixed' \in BOOLEAN
    BY SbAssumption DEF CleanFiles, SbInd, SbTypes
  <2>2. /\ sbFile' = 0 /\ sbSocket' = 0 /\ sbCleaning' = FALSE
        /\ UNCHANGED <<sbState, sbIdle, sbEntry, sbSpawning, sbEnded, sbProc, sbParent, sbDisk,
                       sbClient, sbCrashes, sbEscaped, sbStrayed>>
    BY DEF CleanFiles
  <2> QED BY <2>1, <2>2 DEF SbInd, SbTypes
<1>2. SbKnown' /\ SbStarting'
  BY DEF SbInd, SbTypes, CleanFiles, SbKnown, SbStarting, Alive, Unknown
<1>3. SbAlone' /\ ServingIsFound'
  BY DEF SbInd, SbTypes, CleanFiles, SbAlone, ServingIsFound, Alive
<1>4. RunningIsOnDisk' /\ RunningIsNotOver'
  BY DEF SbInd, SbTypes, CleanFiles, SbKnown, RunningIsOnDisk, RunningIsNotOver, Alive,
      Unknown, EndStatus
<1>5. IdleIsTimed'
  BY DEF SbInd, SbTypes, CleanFiles, IdleIsTimed, Busy
<1> QED BY <1>1, <1>2, <1>3, <1>4, <1>5 DEF SbInd

LEMMA LoadKeeps ==
  ASSUME SbInd, NEW b \in SbBrokers, Load(b)
  PROVE  SbInd'
<1>1. /\ sbState[b] = "born" /\ sbState' = [sbState EXCEPT ![b] = "loaded"]
      /\ sbEntry' = [sbEntry EXCEPT ![b] = [e \in Shells |-> [Unknown EXCEPT !.status = Loaded(e)]]]
      /\ sbDisk' = [e \in Shells |-> Loaded(e)]
      /\ UNCHANGED <<sbFile, sbSocket, sbIdle, sbSpawning, sbEnded, sbProc, sbParent, sbClient,
                     sbCleaning, sbCrashes, sbEscaped, sbMixed, sbStrayed>>
  BY DEF Load, sbClients, sbGhosts
<1>2. \A e \in Shells : /\ Loaded(e) \in EndStatus \cup {"none", "running"}
                        /\ Loaded(e) = "none" <=> sbDisk[e] = "none"
                        /\ sbProc[e] = "running" => Loaded(e) = sbDisk[e]
  BY DEF SbInd, SbTypes, Loaded, EndStatus
<1>3. \A e \in Shells : /\ [Unknown EXCEPT !.status = Loaded(e)] \in SbEntries
                        /\ [Unknown EXCEPT !.status = Loaded(e)].status = Loaded(e)
                        /\ Loaded(e) = "none" => [Unknown EXCEPT !.status = Loaded(e)] = Unknown
  <2>1. \A s \in EndStatus \cup {"none", "running"} :
          /\ [Unknown EXCEPT !.status = s] \in SbEntries
          /\ [Unknown EXCEPT !.status = s].status = s
    BY DEF Unknown, SbEntries
  <2>2. [Unknown EXCEPT !.status = "none"] = Unknown
    BY DEF Unknown
  <2> QED BY <1>2, <2>1, <2>2
<1>4. /\ sbState' \in [SbBrokers -> {"unborn", "born", "loaded", "bound", "serving", "closing", "gone"}]
      /\ sbState'[b] = "loaded" /\ \A d \in SbBrokers : d # b => sbState'[d] = sbState[d]
      /\ \A d \in SbBrokers : /\ Alive(d)' <=> Alive(d)
                              /\ sbState'[d] \in {"unborn", "born", "gone"} => d # b
  BY <1>1 DEF SbInd, SbTypes, Alive
<1>5. /\ sbEntry' \in [SbBrokers -> [Shells -> SbEntries]]
      /\ \A e \in Shells : sbEntry'[b][e] = [Unknown EXCEPT !.status = Loaded(e)]
      /\ \A d \in SbBrokers, e \in Shells : d # b => sbEntry'[d][e] = sbEntry[d][e]
  <2> DEFINE h == [e \in Shells |-> [Unknown EXCEPT !.status = Loaded(e)]]
  <2>1. h \in [Shells -> SbEntries] /\ \A e \in Shells : h[e] = [Unknown EXCEPT !.status = Loaded(e)]
    BY <1>3
  <2>2. sbEntry' = [sbEntry EXCEPT ![b] = h]
    BY <1>1
  <2> HIDE DEF h
  <2> QED BY <2>1, <2>2 DEF SbInd, SbTypes
<1>6. sbDisk' \in [Shells -> EndStatus \cup {"none", "running"}]
      /\ \A e \in Shells : sbDisk'[e] = Loaded(e)
  BY <1>1, <1>2
<1>7. SbTypes'
  BY <1>1, <1>4, <1>5, <1>6 DEF SbInd, SbTypes
<1>8. SbKnown'
  BY <1>1, <1>4, <1>5 DEF SbInd, SbKnown
<1>9. SbStarting'
  <2>2. \A e \in Shells : sbDisk'[e] = "none" => sbProc'[e] = "none" /\ sbParent'[e] = 0
    BY <1>1, <1>2, <1>6 DEF SbInd, SbStarting
  <2>3. \A e \in Shells : <<b, e>> \notin sbSpawning
    BY <1>1 DEF SbInd, SbKnown
  <2>4. \A d \in SbBrokers, e \in Shells : <<d, e>> \in sbSpawning' =>
          /\ sbEntry'[d][e].live /\ sbParent'[e] = 0
          /\ \A c \in SbBrokers : c # d => <<c, e>> \notin sbSpawning'
    BY <1>1, <1>5, <2>3 DEF SbInd, SbStarting
  <2>5. ASSUME NEW d \in SbBrokers, NEW e \in Shells \ sbEscaped, <<d, e>> \in sbSpawning
        PROVE  /\ sbDisk'[e] = "none"
               /\ \A c \in SbBrokers : c # d => sbEntry'[c][e] = Unknown
    <3>1. /\ sbDisk[e] = "none" /\ d # b
          /\ \A c \in SbBrokers : c # d => sbEntry[c][e] = Unknown
      BY <2>3, <2>5 DEF SbInd, SbStarting
    <3>2. Loaded(e) = "none"
      BY <1>2, <3>1
    <3> QED BY <1>3, <1>5, <1>6, <3>1, <3>2
  <2> QED BY <1>1, <2>2, <2>4, <2>5 DEF SbStarting
<1>10. SbAlone' /\ ServingIsFound' /\ IdleIsTimed'
  <2>0. /\ \A d \in SbBrokers : Alive(d)' <=> Alive(d)
        /\ \A d \in SbBrokers : sbState'[d] \in {"bound", "serving"} => sbState'[d] = sbState[d]
        /\ sbMixed' = sbMixed /\ sbFile' = sbFile /\ sbSocket' = sbSocket
    BY <1>1, <1>4
  <2>1. SbAlone' /\ ServingIsFound'
    BY <2>0 DEF SbInd, SbAlone, ServingIsFound
  <2>2. \A d \in SbBrokers : d # b => (Busy(d)' <=> Busy(d))
    BY <1>5 DEF Busy
  <2>3. IdleIsTimed'
    BY <1>1, <1>4, <2>2 DEF SbInd, IdleIsTimed
  <2> QED BY <2>1, <2>3
<1>11. RunningIsOnDisk'
  BY <1>1, <1>2, <1>6 DEF SbInd, RunningIsOnDisk
<1>12. RunningIsNotOver'
  <2>1. \A e \in Shells \ sbEscaped : sbProc[e] = "running" => Loaded(e) = "running"
    BY <1>2 DEF SbInd, RunningIsOnDisk
  <2>2. "running" \notin EndStatus
    BY DEF EndStatus
  <2>3. \A e \in Shells : sbEntry'[b][e].status = Loaded(e)
    BY <1>3, <1>5
  <2>4. \A d \in SbBrokers : Alive(d)' <=> Alive(d)
    BY <1>4
  <2> QED BY <1>1, <1>5, <2>1, <2>2, <2>3, <2>4 DEF SbInd, RunningIsNotOver
<1> QED BY <1>7, <1>8, <1>9, <1>10, <1>11, <1>12 DEF SbInd

LEMMA BindKeeps ==
  ASSUME SbInd, NEW b \in SbBrokers, Bind(b)
  PROVE  SbInd'
<1>1. SbTypes'
  BY SbAssumption DEF SbInd, SbTypes, SbEntries, Unknown, EndStatus, SbBrokers, Bind,
      sbClients, sbGhosts
<1>2. SbKnown' /\ SbStarting'
  BY DEF SbInd, SbTypes, Bind, sbClients, sbGhosts, SbKnown, SbStarting, Alive, Unknown
<1>3. SbAlone' /\ ServingIsFound'
  BY DEF SbInd, SbTypes, Bind, sbClients, sbGhosts, SbAlone, ServingIsFound, Alive
<1>4. RunningIsOnDisk' /\ RunningIsNotOver'
  BY DEF SbInd, SbTypes, Bind, sbClients, sbGhosts, SbKnown, RunningIsOnDisk, RunningIsNotOver,
      Alive, Unknown, EndStatus
<1>5. IdleIsTimed'
  BY DEF SbInd, SbTypes, Bind, sbClients, sbGhosts, IdleIsTimed, Busy
<1> QED BY <1>1, <1>2, <1>3, <1>4, <1>5 DEF SbInd

LEMMA SbPublishKeeps ==
  ASSUME SbInd, NEW b \in SbBrokers, SbPublish(b)
  PROVE  SbInd'
<1>0. /\ sbState[b] = "bound" /\ sbFile' = b /\ sbIdle' = sbIdle \cup {b}
      /\ sbState' = [sbState EXCEPT ![b] = "serving"]
      /\ UNCHANGED <<sbSocket, sbDisk, sbEntry, sbSpawning, sbEnded, sbProc, sbParent, sbClient,
                     sbCleaning, sbCrashes, sbEscaped, sbMixed, sbStrayed>>
  BY DEF SbPublish, Published, sbClients, sbGhosts
<1>1. SbTypes'
  <2>1. b \in 0..MaxBrokers
    BY SbAssumption DEF SbBrokers
  <2> QED BY <1>0, <2>1 DEF SbInd, SbTypes
<1>2. SbKnown' /\ SbStarting'
  BY DEF SbInd, SbTypes, SbPublish, sbClients, sbGhosts, SbKnown, SbStarting, Alive, Unknown
<1>3. SbAlone' /\ ServingIsFound'
  BY <1>0 DEF SbInd, SbTypes, SbAlone, ServingIsFound, Alive
<1>4. RunningIsOnDisk' /\ RunningIsNotOver'
  BY DEF SbInd, SbTypes, SbPublish, sbClients, sbGhosts, SbKnown, RunningIsOnDisk,
      RunningIsNotOver, Alive, Unknown, EndStatus
<1>5. IdleIsTimed'
  BY DEF SbInd, SbTypes, SbPublish, sbClients, sbGhosts, IdleIsTimed, Busy
<1> QED BY <1>1, <1>2, <1>3, <1>4, <1>5 DEF SbInd

LEMMA IdleFiresKeeps ==
  ASSUME SbInd, NEW b \in SbBrokers, IdleFires(b)
  PROVE  SbInd'
<1>1. SbTypes'
  BY SbAssumption DEF SbInd, SbTypes, SbEntries, Unknown, EndStatus, SbBrokers, IdleFires,
      sbFiles, sbClients, sbGhosts
<1>2. SbKnown' /\ SbStarting'
  BY DEF SbInd, SbTypes, IdleFires, sbFiles, sbClients, sbGhosts, SbKnown, SbStarting, Alive,
      Unknown
<1>3. SbAlone' /\ ServingIsFound'
  BY DEF SbInd, SbTypes, IdleFires, sbFiles, sbClients, sbGhosts, SbAlone, ServingIsFound, Alive
<1>4. RunningIsOnDisk' /\ RunningIsNotOver'
  BY DEF SbInd, SbTypes, IdleFires, sbFiles, sbClients, sbGhosts, SbKnown, RunningIsOnDisk,
      RunningIsNotOver, Alive, Unknown, EndStatus
<1>5. IdleIsTimed'
  BY DEF SbInd, SbTypes, IdleFires, sbFiles, sbClients, sbGhosts, IdleIsTimed, Busy
<1> QED BY <1>1, <1>2, <1>3, <1>4, <1>5 DEF SbInd

LEMMA CleanUpKeeps ==
  ASSUME SbInd, NEW b \in SbBrokers, CleanUp(b)
  PROVE  SbInd'
<1>1. /\ Dies(b) /\ sbFile' = 0 /\ sbSocket' = 0 /\ sbState[b] = "closing"
      /\ sbDisk' = [e \in Shells |-> IF Watched(b, e) THEN Verdict(sbEntry[b][e]) ELSE sbDisk[e]]
      /\ sbEscaped' = sbEscaped \cup {e \in Shells : Watched(b, e) /\ sbProc[e] = "running"}
      /\ UNCHANGED <<sbProc, sbParent, sbClient, sbCleaning, sbCrashes, sbMixed, sbStrayed>>
  BY DEF CleanUp, sbClients
<1>2. \A e \in Shells : Verdict(sbEntry[b][e]) \in EndStatus
  BY DEF Verdict, EndStatus
<1>3. 0 \in 0..MaxBrokers
  BY SbAssumption
<1>4. sbDisk' \in [Shells -> EndStatus \cup {"none", "running"}]
  BY <1>1, <1>2 DEF SbInd, SbTypes
<1>5. b # 0
  BY SbAssumption DEF SbBrokers
<1>6. \A e \in Shells : \/ sbDisk'[e] = sbDisk[e]
                        \/ /\ sbDisk'[e] # "none" /\ sbParent[e] # 0
                           /\ sbProc[e] = "running" => e \in sbEscaped'
  <2>1. \A e \in Shells : Watched(b, e) => sbParent[e] # 0
    BY <1>5 DEF Watched
  <2>2. "none" \notin EndStatus
    BY DEF EndStatus
  <2> QED BY <1>1, <1>2, <2>1, <2>2
<1>7. sbMixed \/ \A d \in SbBrokers : Alive(d) => d = b
  BY <1>1 DEF SbInd, SbAlone, Alive
<1>8. sbEscaped \subseteq sbEscaped' /\ sbEscaped' \subseteq Shells
  BY <1>1 DEF SbInd, SbTypes
<1> QED BY <1>1, <1>3, <1>4, <1>6, <1>7, <1>8, SbAfterDeath DEF SbInd, SbTypes

LEMMA CrashBrokerKeeps ==
  ASSUME SbInd, NEW b \in SbBrokers, CrashBroker(b)
  PROVE  SbInd'
<1>1. /\ Dies(b) /\ sbCrashes' \in 0..MaxBrokerCrashes
      /\ UNCHANGED <<sbFile, sbSocket, sbDisk, sbProc, sbParent, sbClient, sbCleaning, sbEscaped,
                     sbMixed, sbStrayed>>
  BY SbAssumption DEF CrashBroker, SbInd, SbTypes, sbFiles, sbClients, sbGhosts
<1> QED BY <1>1, SbAfterDeath DEF SbInd, SbTypes

LEMMA EndShellKeeps ==
  ASSUME SbInd, NEW b \in SbBrokers, NEW e \in Shells, EndShell(b, e)
  PROVE  SbInd'
<1>1. SbTypes'
  BY SbAssumption DEF SbInd, SbTypes, SbEntries, Unknown, EndStatus, SbBrokers, EndShell,
      sbFiles, sbClients, sbGhosts
<1>2. SbKnown' /\ SbStarting'
  <2>1. UNCHANGED <<sbState, sbEntry, sbSpawning, sbDisk, sbParent, sbEscaped>>
    BY DEF EndShell, sbFiles, sbGhosts
  <2>2. b # 0
    BY SbAssumption DEF SbBrokers
  <2>3. \A g \in Shells : sbParent[g] = 0 => sbProc'[g] = sbProc[g]
    BY <2>2 DEF EndShell, SbInd, SbTypes
  <2> QED BY <2>1, <2>3 DEF SbInd, SbKnown, SbStarting, Alive
<1>3. SbAlone' /\ ServingIsFound'
  BY DEF SbInd, SbTypes, EndShell, sbFiles, sbClients, sbGhosts, SbAlone, ServingIsFound, Alive
<1>4. RunningIsOnDisk' /\ RunningIsNotOver'
  BY DEF SbInd, SbTypes, EndShell, sbFiles, sbClients, sbGhosts, SbKnown, RunningIsOnDisk,
      RunningIsNotOver, Alive, Unknown, EndStatus
<1>5. IdleIsTimed'
  BY DEF SbInd, SbTypes, EndShell, sbFiles, sbClients, sbGhosts, IdleIsTimed, Busy
<1> QED BY <1>1, <1>2, <1>3, <1>4, <1>5 DEF SbInd

LEMMA SpawnKeeps ==
  ASSUME SbInd, NEW b \in SbBrokers, NEW e \in Shells, Spawn(b, e)
  PROVE  SbInd'
<1>1. /\ <<b, e>> \in sbSpawning /\ Alive(b)
      /\ sbSpawning' = sbSpawning \ {<<b, e>>}
      /\ sbProc' = [sbProc EXCEPT ![e] = "running"] /\ sbParent' = [sbParent EXCEPT ![e] = b]
      /\ sbDisk' = [sbDisk EXCEPT ![e] = "running"]
      /\ sbIdle' = sbIdle \cup {b}
      /\ UNCHANGED <<sbFile, sbSocket, sbState, sbEnded, sbClient, sbCleaning, sbCrashes,
                     sbEscaped, sbMixed, sbStrayed>>
  BY DEF Spawn, SaveStatus, sbClients, sbGhosts
<1>2. PICK x : x = [sbEntry[b][e] EXCEPT !.status = "running"]
  OBVIOUS
<1>3. sbEntry[b][e] \in SbEntries /\ sbEntry[b][e].live
  BY <1>1 DEF SbInd, SbTypes, SbStarting
<1>4. x \in SbEntries /\ x.live /\ x.status = "running"
  BY <1>2, <1>3 DEF SbEntries
<1>5. sbEntry' = [sbEntry EXCEPT ![b][e] = x]
  BY <1>2 DEF Spawn, SetEntry
<1>6. /\ sbEntry' \in [SbBrokers -> [Shells -> SbEntries]] /\ sbEntry'[b][e] = x
      /\ \A d \in SbBrokers, g \in Shells : d # b \/ g # e => sbEntry'[d][g] = sbEntry[d][g]
  BY <1>4, <1>5 DEF SbInd, SbTypes
<1>7. b \in 0..MaxBrokers
  BY SbAssumption DEF SbBrokers
<1>8. SbTypes'
  BY <1>1, <1>6, <1>7 DEF SbInd, SbTypes
<1>9. SbKnown'
  BY <1>1, <1>6 DEF SbInd, SbKnown, Alive
<1>10. /\ sbProc'[e] = "running" /\ sbDisk'[e] = "running"
       /\ \A g \in Shells : g # e => /\ sbProc'[g] = sbProc[g] /\ sbDisk'[g] = sbDisk[g]
                                     /\ sbParent'[g] = sbParent[g]
  BY <1>1 DEF SbInd, SbTypes
<1>11. SbStarting'
  <2>1. \A d \in SbBrokers, g \in Shells : <<d, g>> \in sbSpawning' =>
          <<d, g>> \in sbSpawning /\ (d # b \/ g # e)
    BY <1>1
  <2>2. \A d \in SbBrokers : d # b => <<d, e>> \notin sbSpawning
    BY <1>1 DEF SbInd, SbStarting
  <2> QED BY <1>1, <1>6, <1>10, <2>1, <2>2 DEF SbInd, SbStarting
<1>12. SbAlone' /\ ServingIsFound'
  BY <1>1 DEF SbInd, SbAlone, ServingIsFound, Alive
<1>13. RunningIsOnDisk'
  BY <1>1, <1>10 DEF SbInd, RunningIsOnDisk
<1>14. RunningIsNotOver'
  <2>1. \A d \in SbBrokers : d # b /\ e \notin sbEscaped => sbEntry[d][e] = Unknown
    BY <1>1 DEF SbInd, SbStarting
  <2>2. Unknown.status \notin EndStatus /\ x.status \notin EndStatus
    BY <1>4 DEF Unknown, EndStatus
  <2> QED BY <1>1, <1>6, <1>10, <2>1, <2>2 DEF SbInd, RunningIsNotOver, Alive
<1>15. IdleIsTimed'
  BY <1>1, <1>4, <1>6 DEF SbInd, IdleIsTimed, Busy
<1> QED BY <1>8, <1>9, <1>11, <1>12, <1>13, <1>14, <1>15 DEF SbInd

LEMMA SpawnFailsKeeps ==
  ASSUME SbInd, NEW b \in SbBrokers, NEW e \in Shells, SpawnFails(b, e)
  PROVE  SbInd'
<1>1. SbTypes'
  BY SbAssumption DEF SbInd, SbTypes, SbEntries, Unknown, EndStatus, SbBrokers, SpawnFails,
      sbFiles, sbClients, sbGhosts
<1>2. SbKnown' /\ SbStarting'
  BY DEF SbInd, SbTypes, SpawnFails, sbFiles, sbClients, sbGhosts, SbKnown, SbStarting, Alive,
      Unknown
<1>3. SbAlone' /\ ServingIsFound'
  BY DEF SbInd, SbTypes, SpawnFails, sbFiles, sbClients, sbGhosts, SbAlone, ServingIsFound, Alive
<1>4. RunningIsOnDisk' /\ RunningIsNotOver'
  BY DEF SbInd, SbTypes, SpawnFails, sbFiles, sbClients, sbGhosts, SbKnown, RunningIsOnDisk,
      RunningIsNotOver, Alive, Unknown, EndStatus
<1>5. IdleIsTimed'
  BY DEF SbInd, SbTypes, SpawnFails, sbFiles, sbClients, sbGhosts, IdleIsTimed, Busy
<1> QED BY <1>1, <1>2, <1>3, <1>4, <1>5 DEF SbInd

LEMMA WatchEndsKeeps ==
  ASSUME SbInd, NEW b \in SbBrokers, NEW e \in Shells, WatchEnds(b, e)
  PROVE  SbInd'
<1>1. PICK x, v :
        /\ v = Verdict(sbEntry[b][e]) /\ x = [sbEntry[b][e] EXCEPT !.status = v, !.live = FALSE]
  OBVIOUS
<1>2. /\ Watched(b, e) /\ sbProc[e] = "ended" /\ Alive(b)
      /\ sbEntry' = [sbEntry EXCEPT ![b][e] = x] /\ sbDisk' = [sbDisk EXCEPT ![e] = v]
      /\ sbIdle' = sbIdle \cup {b}
      /\ UNCHANGED <<sbFile, sbSocket, sbState, sbSpawning, sbEnded, sbProc, sbParent, sbClient,
                     sbCleaning, sbCrashes, sbEscaped, sbMixed, sbStrayed>>
  BY <1>1 DEF WatchEnds, SetEntry, SaveStatus, Rearmed, sbClients, sbGhosts
<1>3. v \in EndStatus /\ v # "none" /\ x \in SbEntries
  <2>1. v \in EndStatus /\ v # "none"
    BY <1>1 DEF Verdict, EndStatus
  <2>2. sbEntry[b][e] \in SbEntries
    BY DEF SbInd, SbTypes
  <2> QED BY <1>1, <2>1, <2>2 DEF SbEntries
<1>4. /\ sbEntry' \in [SbBrokers -> [Shells -> SbEntries]] /\ sbEntry'[b][e] = x
      /\ \A d \in SbBrokers, g \in Shells : d # b \/ g # e => sbEntry'[d][g] = sbEntry[d][g]
      /\ sbDisk' \in [Shells -> EndStatus \cup {"none", "running"}]
      /\ sbDisk'[e] = v /\ \A g \in Shells : g # e => sbDisk'[g] = sbDisk[g]
  BY <1>2, <1>3 DEF SbInd, SbTypes
<1>5. SbTypes'
  BY <1>2, <1>4 DEF SbInd, SbTypes
<1>6. SbKnown'
  <2>1. sbState[b] # "born"
    <3>1. sbEntry[b][e].live /\ ~Unknown.live
      BY <1>2 DEF Watched, Unknown
    <3> QED BY <3>1 DEF SbInd, SbKnown
  <2> QED BY <1>2, <1>4, <2>1 DEF SbInd, SbKnown, Alive
<1>7. SbStarting'
  <2>1. sbParent[e] # 0
    BY <1>2, SbAssumption DEF Watched, SbBrokers
  <2>2. \A d \in SbBrokers : <<d, e>> \notin sbSpawning
    BY <2>1 DEF SbInd, SbStarting
  <2> QED BY <1>2, <1>3, <1>4, <2>2 DEF SbInd, SbStarting
<1>8. SbAlone' /\ ServingIsFound'
  BY <1>2 DEF SbInd, SbAlone, ServingIsFound, Alive
<1>9. RunningIsOnDisk' /\ RunningIsNotOver'
  BY <1>2, <1>4 DEF SbInd, RunningIsOnDisk, RunningIsNotOver, Alive
<1>10. IdleIsTimed'
  BY <1>2, <1>4 DEF SbInd, IdleIsTimed, Busy
<1> QED BY <1>5, <1>6, <1>7, <1>8, <1>9, <1>10 DEF SbInd

LEMMA ProcessEndsKeeps ==
  ASSUME SbInd, NEW e \in Shells, ProcessEnds(e)
  PROVE  SbInd'
<1>1. SbTypes'
  BY SbAssumption DEF SbInd, SbTypes, SbEntries, Unknown, EndStatus, SbBrokers, ProcessEnds,
      sbFiles, sbClients, sbGhosts
<1>2. SbKnown' /\ SbStarting'
  BY DEF SbInd, SbTypes, ProcessEnds, sbFiles, sbClients, sbGhosts, SbKnown, SbStarting, Alive,
      Unknown
<1>3. SbAlone' /\ ServingIsFound'
  BY DEF SbInd, SbTypes, ProcessEnds, sbFiles, sbClients, sbGhosts, SbAlone, ServingIsFound, Alive
<1>4. RunningIsOnDisk' /\ RunningIsNotOver'
  BY DEF SbInd, SbTypes, ProcessEnds, sbFiles, sbClients, sbGhosts, SbKnown, RunningIsOnDisk,
      RunningIsNotOver, Alive, Unknown, EndStatus
<1>5. IdleIsTimed'
  BY DEF SbInd, SbTypes, ProcessEnds, sbFiles, sbClients, sbGhosts, IdleIsTimed, Busy
<1> QED BY <1>1, <1>2, <1>3, <1>4, <1>5 DEF SbInd

\* A broker notes something of a shell whose status it leaves.
LEMMA SbRemark ==
  ASSUME SbInd, NEW b \in SbBrokers, NEW e \in Shells, Alive(b), sbState[b] # "born",
         NEW y \in SbEntries, sbEntry' = [sbEntry EXCEPT ![b][e] = y],
         y.status = sbEntry[b][e].status, y.live = sbEntry[b][e].live,
         y.status # "none",
         sbEscaped \subseteq sbEscaped', sbEscaped' \subseteq sbEscaped \cup {e},
         \/ sbDisk' = sbDisk
         \/ /\ sbDisk' = [sbDisk EXCEPT ![e] = y.status]
            /\ <<b, e>> \in sbSpawning => e \in sbEscaped',
         UNCHANGED <<sbFile, sbSocket, sbState, sbIdle, sbSpawning, sbEnded, sbProc, sbParent,
                     sbClient, sbCleaning, sbCrashes, sbMixed, sbStrayed>>
  PROVE  SbInd'
<1>1. /\ sbEntry' \in [SbBrokers -> [Shells -> SbEntries]] /\ sbEntry'[b][e] = y
      /\ \A d \in SbBrokers, g \in Shells : d # b \/ g # e => sbEntry'[d][g] = sbEntry[d][g]
  BY DEF SbInd, SbTypes
<1>2. \A d \in SbBrokers, g \in Shells : /\ sbEntry'[d][g].status = sbEntry[d][g].status
                                         /\ sbEntry'[d][g].live = sbEntry[d][g].live
  BY <1>1
<1>3. y.status \in EndStatus \cup {"none", "running"}
  BY DEF SbEntries
<1>4. /\ sbDisk' \in [Shells -> EndStatus \cup {"none", "running"}]
      /\ \A g \in Shells : g # e => sbDisk'[g] = sbDisk[g]
      /\ \/ sbDisk'[e] = sbDisk[e]
         \/ sbDisk'[e] = y.status /\ (<<b, e>> \in sbSpawning => e \in sbEscaped')
  BY <1>3 DEF SbInd, SbTypes
<1>5. SbTypes'
  BY <1>1, <1>4 DEF SbInd, SbTypes
<1>6. SbKnown'
  BY <1>1 DEF SbInd, SbKnown, Alive
<1>7. SbStarting'
  <2>1. \A d \in SbBrokers : d # b /\ <<d, e>> \in sbSpawning => e \in sbEscaped
    BY DEF SbInd, SbStarting, Unknown
  <2>2. \A d \in SbBrokers, g \in Shells : <<d, g>> \in sbSpawning' =>
          /\ sbEntry'[d][g].live /\ sbParent'[g] = 0
          /\ \A c \in SbBrokers : c # d => <<c, g>> \notin sbSpawning'
    BY <1>2 DEF SbInd, SbStarting
  <2>3. \A g \in Shells : sbDisk'[g] = "none" => sbProc'[g] = "none" /\ sbParent'[g] = 0
    BY <1>4 DEF SbInd, SbStarting
  <2>4. ASSUME NEW d \in SbBrokers, NEW g \in Shells \ sbEscaped', <<d, g>> \in sbSpawning'
        PROVE  sbDisk'[g] = "none" /\ \A c \in SbBrokers : c # d => sbEntry'[c][g] = Unknown
    <3>1. sbDisk[g] = "none" /\ \A c \in SbBrokers : c # d => sbEntry[c][g] = Unknown
      BY <2>4 DEF SbInd, SbStarting
    <3> QED BY <1>1, <1>4, <2>1, <2>4, <3>1
  <2> QED BY <2>2, <2>3, <2>4 DEF SbStarting
<1>8. SbAlone' /\ ServingIsFound'
  BY DEF SbInd, SbAlone, ServingIsFound, Alive
<1>9. RunningIsOnDisk'
  <2>1. y.status \in EndStatus /\ e \notin sbEscaped => sbProc[e] # "running"
    BY DEF SbInd, RunningIsNotOver
  <2> QED BY <1>3, <1>4, <2>1 DEF SbInd, RunningIsOnDisk
<1>10. RunningIsNotOver'
  BY <1>2 DEF SbInd, RunningIsNotOver, Alive
<1>11. IdleIsTimed'
  BY <1>2 DEF SbInd, IdleIsTimed, Busy
<1> QED BY <1>5, <1>6, <1>7, <1>8, <1>9, <1>10, <1>11 DEF SbInd

LEMMA StopShellKeeps ==
  ASSUME SbInd, NEW e \in Shells, StopShell(e)
  PROVE  SbInd'
<1>1. PICK b \in SbBrokers : b = sbSocket /\ sbState[b] \in {"bound", "serving"} /\ Alive(b)
  BY DEF SbInd, SbTypes, StopShell, Answers, SbBrokers, Alive
<1>2. PICK x \in SbEntries : x = sbEntry[b][e] /\ x.status # "none"
  BY <1>1 DEF SbInd, SbTypes, StopShell
<1>3. UNCHANGED <<sbFile, sbSocket, sbState, sbIdle, sbSpawning, sbEnded, sbParent, sbClient,
                  sbCleaning, sbCrashes, sbMixed>>
  BY DEF StopShell, sbClients
<1>4. SbAlone' /\ ServingIsFound'
  BY <1>3 DEF SbInd, SbAlone, ServingIsFound, Alive
<1>5. CASE Watched(b, e)
  <2>1. UNCHANGED <<sbProc, sbDisk, sbEscaped, sbStrayed>>
    BY <1>1, <1>5 DEF StopShell
  <2>2. PICK y \in SbEntries : /\ sbEntry' = [sbEntry EXCEPT ![b][e] = y]
                               /\ y.status = x.status /\ y.live = x.live
    <3>1. PICK y : y = [x EXCEPT !.stop = TRUE]
      OBVIOUS
    <3>2. y \in SbEntries /\ y.status = x.status /\ y.live = x.live
      BY <3>1 DEF SbEntries
    <3>3. sbEntry' = [sbEntry EXCEPT ![b][e] = y]
      BY <1>1, <1>2, <1>5, <3>1 DEF StopShell, SetEntry
    <3> QED BY <3>2, <3>3
  <2> QED BY <1>1, <1>2, <1>3, <2>1, <2>2, SbRemark
<1>6. CASE ~Watched(b, e)
  <2>1. PICK y \in SbEntries : /\ sbEntry' = [sbEntry EXCEPT ![b][e] = y]
                               /\ y.status = "stopped" /\ y.live = x.live
    <3>1. PICK y : y = [x EXCEPT !.stop = TRUE, !.status = "stopped"]
      OBVIOUS
    <3>2. y \in SbEntries /\ y.status = "stopped" /\ y.live = x.live
      BY <3>1 DEF SbEntries, EndStatus
    <3>3. sbEntry' = [sbEntry EXCEPT ![b][e] = y]
      BY <1>1, <1>2, <1>6, <3>1 DEF StopShell, SetEntry
    <3> QED BY <3>2, <3>3
  <2>2. sbDisk' = [sbDisk EXCEPT ![e] = "stopped"]
        /\ sbStrayed' = IF x.live THEN sbStrayed \cup {b} ELSE sbStrayed
    BY <1>1, <1>2, <1>6 DEF StopShell, SaveStatus
  <2>3. /\ sbProc' \in {sbProc, [sbProc EXCEPT ![e] = "ended"]}
        /\ sbProc'[e] # sbProc[e] => sbProc[e] = "running"
        /\ sbEscaped' = IF sbProc'[e] = "running" \/ <<b, e>> \in sbSpawning
                        THEN sbEscaped \cup {e} ELSE sbEscaped
    BY <1>1, <1>6 DEF StopShell, SbInd, SbTypes
  <2>4. /\ sbEntry' \in [SbBrokers -> [Shells -> SbEntries]] /\ sbEntry'[b][e] = y
        /\ \A d \in SbBrokers, g \in Shells : d # b \/ g # e => sbEntry'[d][g] = sbEntry[d][g]
    BY <2>1 DEF SbInd, SbTypes
  <2>5. /\ sbDisk' \in [Shells -> EndStatus \cup {"none", "running"}] /\ sbDisk'[e] = "stopped"
        /\ sbProc' \in [Shells -> {"none", "running", "ended"}]
        /\ \A g \in Shells : g # e => sbDisk'[g] = sbDisk[g] /\ sbProc'[g] = sbProc[g]
        /\ sbEscaped \subseteq sbEscaped' /\ sbEscaped' \subseteq Shells
        /\ \A g \in Shells : g # e /\ g \in sbEscaped' => g \in sbEscaped
        /\ sbStrayed' \subseteq SbBrokers /\ sbStrayed \subseteq sbStrayed'
    BY <2>2, <2>3 DEF SbInd, SbTypes, EndStatus
  <2>6. SbTypes'
    BY <1>3, <2>4, <2>5 DEF SbInd, SbTypes
  <2>7. SbKnown'
    BY <1>1, <1>3, <2>4 DEF SbInd, SbKnown
  <2>8. SbStarting'
    <3>1. \A d \in SbBrokers : <<d, e>> \in sbSpawning' /\ e \notin sbEscaped' => FALSE
      <4>1. <<b, e>> \in sbSpawning => e \in sbEscaped'
        BY <2>3
      <4>2. \A d \in SbBrokers : d # b /\ <<d, e>> \in sbSpawning => e \in sbEscaped
        BY <1>2 DEF SbInd, SbStarting, Unknown
      <4> QED BY <1>3, <2>5, <4>1, <4>2
    <3>2. \A d \in SbBrokers, g \in Shells : sbEntry[d][g].live => sbEntry'[d][g].live
      BY <1>2, <2>1, <2>4
    <3> QED BY <1>3, <2>4, <2>5, <3>1, <3>2 DEF SbInd, SbStarting
  <2>9. RunningIsOnDisk'
    BY <2>3, <2>5 DEF SbInd, RunningIsOnDisk
  <2>10. RunningIsNotOver'
    BY <1>3, <2>3, <2>4, <2>5 DEF SbInd, RunningIsNotOver, Alive
  <2>11. IdleIsTimed'
    <3>1. \A d \in SbBrokers \ sbStrayed' : Busy(d) => Busy(d)'
      BY <1>2, <2>2, <2>4 DEF Busy
    <3> QED BY <1>3, <2>5, <3>1 DEF SbInd, IdleIsTimed
  <2> QED BY <1>4, <2>6, <2>7, <2>8, <2>9, <2>10, <2>11 DEF SbInd
<1> QED BY <1>5, <1>6

LEMMA InterruptShellKeeps ==
  ASSUME SbInd, NEW e \in Shells, InterruptShell(e)
  PROVE  SbInd'
<1>1. PICK b \in SbBrokers : b = sbSocket /\ sbState[b] \in {"bound", "serving"} /\ Alive(b)
  BY DEF SbInd, SbTypes, InterruptShell, Answers, SbBrokers, Alive
<1>2. PICK x \in SbEntries : x = sbEntry[b][e] /\ x.status # "none"
  BY <1>1 DEF SbInd, SbTypes, InterruptShell
<1>3. PICK y \in SbEntries : /\ sbEntry' = [sbEntry EXCEPT ![b][e] = y]
                             /\ y.status = x.status /\ y.live = x.live
  <2>1. PICK y : y = [x EXCEPT !.intr = TRUE]
    OBVIOUS
  <2>2. y \in SbEntries /\ y.status = x.status /\ y.live = x.live
    BY <2>1 DEF SbEntries
  <2>3. sbEntry' = [sbEntry EXCEPT ![b][e] = y]
    BY <1>1, <1>2, <2>1 DEF InterruptShell, SetEntry
  <2> QED BY <2>2, <2>3
<1>4. /\ sbDisk' = [sbDisk EXCEPT ![e] = y.status]
      /\ sbEscaped' = IF <<b, e>> \in sbSpawning THEN sbEscaped \cup {e} ELSE sbEscaped
      /\ UNCHANGED <<sbFile, sbSocket, sbState, sbIdle, sbSpawning, sbEnded, sbProc, sbParent,
                     sbClient, sbCleaning, sbCrashes, sbMixed, sbStrayed>>
  BY <1>1, <1>2, <1>3 DEF InterruptShell, SaveStatus, sbClients
<1>5. /\ sbEscaped \subseteq sbEscaped' /\ sbEscaped' \subseteq sbEscaped \cup {e}
      /\ <<b, e>> \in sbSpawning => e \in sbEscaped'
  BY <1>4
<1> QED BY <1>1, <1>2, <1>3, <1>4, <1>5, SbRemark

LEMMA SbStep == SbInd /\ [SbNext]_sbVars => SbInd'
<1> SUFFICES ASSUME SbInd, [SbNext]_sbVars PROVE SbInd'
  OBVIOUS
<1>1. ASSUME NEW c \in SbClients,
             Ensure(c) \/ EndWait(c) \/ \E e \in Shells : RequestStart(c, e)
      PROVE  SbInd'
  BY <1>1, EnsureKeeps, EndWaitKeeps, RequestStartKeeps
<1>2. CASE StopBroker \/ CleanFiles
  BY <1>2, StopBrokerKeeps, CleanFilesKeeps
<1>3. ASSUME NEW b \in SbBrokers,
             Load(b) \/ Bind(b) \/ SbPublish(b) \/ IdleFires(b) \/ CleanUp(b) \/ CrashBroker(b)
      PROVE  SbInd'
  BY <1>3, LoadKeeps, BindKeeps, SbPublishKeeps, IdleFiresKeeps, CleanUpKeeps, CrashBrokerKeeps
<1>4. ASSUME NEW b \in SbBrokers, NEW e \in Shells,
             EndShell(b, e) \/ Spawn(b, e) \/ SpawnFails(b, e) \/ WatchEnds(b, e)
      PROVE  SbInd'
  BY <1>4, EndShellKeeps, SpawnKeeps, SpawnFailsKeeps, WatchEndsKeeps
<1>5. ASSUME NEW e \in Shells, ProcessEnds(e) \/ StopShell(e) \/ InterruptShell(e)
      PROVE  SbInd'
  BY <1>5, ProcessEndsKeeps, StopShellKeeps, InterruptShellKeeps
<1>6. CASE UNCHANGED sbVars
  <2>1. UNCHANGED <<sbFile, sbSocket, sbDisk, sbState, sbIdle, sbEntry, sbSpawning, sbEnded, sbProc,
                    sbParent, sbClient, sbCleaning, sbCrashes, sbEscaped, sbMixed, sbStrayed>>
    BY <1>6 DEF sbVars, sbFiles, sbClients, sbGhosts
  <2> QED BY <2>1 DEF SbInd, SbTypes, SbKnown, SbStarting, SbAlone, RunningIsOnDisk,
        RunningIsNotOver, ServingIsFound, IdleIsTimed, Alive, Busy
<1> QED BY <1>1, <1>2, <1>3, <1>4, <1>5, <1>6 DEF SbNext

\* For any clients, shells, brokers and crashes: a shell that runs is found again through its
\* sidecar and no broker says that it is over, a broker that serves is found, and one with
\* nothing to do is timed, but for the shells and brokers that the properties except.
THEOREM ShellSafety == SbSpec => []ShellsSafe
<1>1. SbInd => ShellsSafe
  BY DEF SbInd, SbTypes, SbEntries, ShellsSafe, SbTypeOK
<1> QED BY SbInitially, SbStep, <1>1, PTL DEF SbSpec

----
(* The documents of a memory *)

MdDocuments ==
  [facts : SUBSET (Statements \cup Findings), contested : BOOLEAN, supersedes : SUBSET Nat]

MdDecisions == [policy : MdPolicies, doc : MdDocuments]

\* Every document says something and supersedes other documents.
DocumentsOK(docs) ==
  /\ docs \in Seq(MdDocuments)
  /\ \A i \in 1..Len(docs) : docs[i].facts # {} /\ docs[i].supersedes \subseteq 1..Len(docs) \ {i}

OneSettled(docs) == \A i, j \in Settled(docs) : i = j

TextsDiffer(docs) == \A i, j \in 1..Len(docs) : docs[i].facts = docs[j].facts => i = j

Holds(docs, fact) == \E i \in 1..Len(docs) : fact \in docs[i].facts
SettledHolds(docs, fact) == \E i \in Settled(docs) : fact \in docs[i].facts

\* A consolidation proposes a document as it is, or a finding.
Proposed(docs, decision) ==
  /\ decision.policy = "guard"
  /\ \/ \E k \in 1..Len(docs) : decision.doc = docs[k]
     \/ \E f \in Findings : decision.doc = Document({f}, FALSE, {})

\* A decision adds nothing that is superseded, unless it is one of the documents.
Decides(docs, decision) ==
  /\ decision \in MdDecisions /\ decision.doc.facts # {}
  /\ decision.doc.supersedes \subseteq 1..Len(docs)
  /\ decision.doc.supersedes \subseteq Superseded(docs)

LEMMA LeastOf ==
  ASSUME NEW S \in SUBSET Nat, S # {}
  PROVE  FirstOf(S) \in S
<1>1. PICK x \in S : \A y \in S : ~ (<<y, x>> \in OpToRel(<, Nat))
  BY NatLessThanWellFounded, WFMin, Zenon
<1>2. \A y \in S : ~ (y < x)
  BY <1>1, Zenon DEF OpToRel
<1>3. \E i \in S : \A j \in S : i <= j
  BY <1>2
<1> QED BY <1>3 DEF FirstOf

LEMMA ActiveDocuments ==
  ASSUME NEW docs, DocumentsOK(docs)
  PROVE  /\ DOMAIN docs = 1..Len(docs) /\ Len(docs) \in Nat
         /\ ActiveDocs(docs) \subseteq 1..Len(docs)
         /\ Settled(docs) \subseteq ActiveDocs(docs)
         /\ \A i \in 1..Len(docs) : docs[i] \in MdDocuments
         /\ \A i \in 1..Len(docs) : docs[i].supersedes \subseteq Superseded(docs)
         /\ \A i \in ActiveDocs(docs) : i \notin Superseded(docs)
         /\ Superseded(docs) \subseteq 1..Len(docs)
<1>1. docs \in Seq(MdDocuments) /\ DOMAIN docs = 1..Len(docs) /\ Len(docs) \in Nat
  BY DEF DocumentsOK
<1>2. Superseded(docs) = UNION {docs[i].supersedes : i \in 1..Len(docs)}
  BY <1>1 DEF Superseded
<1>3. Superseded(docs) \subseteq 1..Len(docs)
  BY <1>2 DEF DocumentsOK
<1>4. \A i \in 1..Len(docs) : docs[i] \in MdDocuments
  BY <1>1
<1>5. \A i \in 1..Len(docs) : docs[i].supersedes \subseteq Superseded(docs)
  BY <1>2
<1> QED BY <1>1, <1>3, <1>4, <1>5 DEF ActiveDocs, Settled

LEMMA MatchingDocument ==
  ASSUME NEW docs, DocumentsOK(docs), NEW facts, Matching(docs, facts) # {},
         NEW i, i = FirstOf(Matching(docs, facts))
  PROVE  i \in 1..Len(docs) /\ i \in ActiveDocs(docs) /\ docs[i].facts = facts
<1>1. Matching(docs, facts) \subseteq ActiveDocs(docs)
  BY DEF Matching
<1>2. Matching(docs, facts) \in SUBSET Nat
  BY <1>1, ActiveDocuments
<1>3. FirstOf(Matching(docs, facts)) \in Matching(docs, facts)
  BY <1>2, LeastOf
<1> QED BY <1>1, <1>3, ActiveDocuments DEF Matching

\* The three ways a decision changes the documents.
MergedAt(read, docs, decision, i, more) ==
  /\ i \in ActiveDocs(read)
  /\ Apply(read, docs, decision) =
       [docs EXCEPT ![i] = Document(read[i].facts \cup more, read[i].contested \/ decision.doc.contested,
                                    read[i].supersedes \cup decision.doc.supersedes)]
  /\ \/ more = {} /\ read[i].facts = decision.doc.facts
     \/ more = decision.doc.facts /\ decision.policy = "append"

Said(read, docs, decision) ==
  /\ Apply(read, docs, decision) = docs
  /\ \E j \in 1..Len(docs) : docs[j].facts = decision.doc.facts

AppendedAs(read, docs, decision, d) ==
  /\ Apply(read, docs, decision) = Append(docs, d)
  /\ \A j \in 1..Len(docs) : docs[j].facts # decision.doc.facts
  /\ \A j \in ActiveDocs(read) : read[j].facts # decision.doc.facts
  /\ \/ decision.policy = "overwrite"
          /\ d = Document(decision.doc.facts, decision.doc.contested, Settled(read))
     \/ decision.policy # "overwrite" /\ ActiveDocs(read) = {} /\ d = decision.doc
     \/ decision.policy # "overwrite" /\ ActiveDocs(read) # {}
          /\ d = Document(decision.doc.facts, TRUE, decision.doc.supersedes)

LEMMA ApplyCases ==
  ASSUME NEW read, DocumentsOK(read), NEW docs, DocumentsOK(docs), Len(read) <= Len(docs),
         NEW decision \in MdDecisions
  PROVE  \/ \E i, more : MergedAt(read, docs, decision, i, more)
         \/ Said(read, docs, decision)
         \/ \E d : AppendedAs(read, docs, decision, d)
<1> DEFINE same == Matching(read, decision.doc.facts)
           active == ActiveDocs(read)
<1>1. DOMAIN docs = 1..Len(docs) /\ active \subseteq 1..Len(read) /\ Len(docs) \in Nat /\ Len(read) \in Nat
  BY ActiveDocuments
<1>2. decision.doc \in MdDocuments /\ decision.doc = Document(decision.doc.facts, decision.doc.contested,
                                                           decision.doc.supersedes)
  BY DEF MdDecisions, MdDocuments, Document
<1>3. CASE same # {}
  <2> DEFINE i == FirstOf(same)
  <2>1. i \in 1..Len(read) /\ i \in active /\ read[i].facts = decision.doc.facts
    BY <1>3, MatchingDocument
  <2>2. i \in DOMAIN docs
    BY <1>1, <2>1
  <2>3. Apply(read, docs, decision) = MergeExisting(docs, i, read[i], decision, read[i].facts)
    BY <1>3, <2>2 DEF Apply
  <2>4. MergedAt(read, docs, decision, i, {})
    BY <2>1, <2>3 DEF MergedAt, MergeExisting
  <2> QED BY <2>4
<1>4. CASE same = {} /\ decision.policy = "append" /\ active # {}
  <2> DEFINE i == FirstOf(active)
  <2>0. active \in SUBSET Nat
    BY <1>1
  <2>1. i \in active
    BY <1>4, <2>0, LeastOf
  <2>3. Apply(read, docs, decision)
          = MergeExisting(docs, i, read[i], decision, read[i].facts \cup decision.doc.facts)
    BY <1>4 DEF Apply
  <2>4. MergedAt(read, docs, decision, i, decision.doc.facts)
    BY <1>4, <2>1, <2>3 DEF MergedAt, MergeExisting
  <2> QED BY <2>4
<1>5. CASE same = {} /\ ~(decision.policy = "append" /\ active # {})
  <2>1. PICK d : d = IF decision.policy = "overwrite" THEN [decision.doc EXCEPT !.supersedes = Settled(read)]
                     ELSE IF active = {} THEN decision.doc ELSE [decision.doc EXCEPT !.contested = TRUE]
    OBVIOUS
  <2>2. Apply(read, docs, decision) = Persist(docs, d)
    BY <1>5, <2>1 DEF Apply, Supersedes, Stage
  <2>3. d.facts = decision.doc.facts
    BY <1>2, <2>1 DEF MdDocuments
  <2>4. \A j \in active : read[j].facts # decision.doc.facts
    BY <1>5 DEF Matching
  <2>5. CASE \E j \in DOMAIN docs : docs[j].facts = d.facts
    BY <1>1, <2>2, <2>3, <2>5 DEF Persist, Said
  <2>6. CASE ~\E j \in DOMAIN docs : docs[j].facts = d.facts
    <3>1. Apply(read, docs, decision) = Append(docs, d)
      BY <2>2, <2>6 DEF Persist
    <3>2. \/ decision.policy = "overwrite"
               /\ d = Document(decision.doc.facts, decision.doc.contested, Settled(read))
          \/ decision.policy # "overwrite" /\ active = {} /\ d = decision.doc
          \/ decision.policy # "overwrite" /\ active # {}
               /\ d = Document(decision.doc.facts, TRUE, decision.doc.supersedes)
      BY <1>2, <2>1 DEF MdDocuments, Document
    <3>3. \A j \in 1..Len(docs) : docs[j].facts # decision.doc.facts
      BY <1>1, <2>3, <2>6
    <3> QED BY <2>4, <3>1, <3>2, <3>3 DEF AppendedAs
  <2> QED BY <2>5, <2>6
<1> QED BY <1>3, <1>4, <1>5

\* What a merge does to the documents.
LEMMA MergeKeeps ==
  ASSUME NEW docs, DocumentsOK(docs), NEW i \in 1..Len(docs), NEW d \in MdDocuments,
         d.facts # {}, d.supersedes \subseteq 1..Len(docs) \ {i},
         NEW new, new = [docs EXCEPT ![i] = d]
  PROVE  /\ DocumentsOK(new) /\ Len(new) = Len(docs)
         /\ new[i] = d /\ \A j \in 1..Len(docs) \ {i} : new[j] = docs[j]
         /\ docs[i].supersedes \subseteq d.supersedes /\ (docs[i].contested => d.contested)
              => Settled(new) \subseteq Settled(docs)
<1>1. docs \in Seq(MdDocuments) /\ DOMAIN docs = 1..Len(docs) /\ Len(docs) \in Nat
  BY DEF DocumentsOK
<1>2. new \in Seq(MdDocuments) /\ Len(new) = Len(docs)
  BY <1>1
<1>3. new[i] = d /\ \A j \in 1..Len(docs) \ {i} : new[j] = docs[j]
  BY <1>1
<1>4. DocumentsOK(new)
  BY <1>2, <1>3 DEF DocumentsOK
<1>5. ASSUME docs[i].supersedes \subseteq d.supersedes, docs[i].contested => d.contested,
             NEW k \in Settled(new)
      PROVE  k \in Settled(docs)
  <2>1. k \in 1..Len(docs) /\ k \notin Superseded(new) /\ ~new[k].contested
    BY <1>2, <1>4, <1>5, ActiveDocuments DEF Settled
  <2>2. \A j \in 1..Len(docs) : docs[j].supersedes \subseteq new[j].supersedes
    BY <1>3, <1>5
  <2>3. \A j \in 1..Len(docs) : new[j].supersedes \subseteq Superseded(new)
    BY <1>2, <1>4, ActiveDocuments
  <2>4. k \notin Superseded(docs)
    BY <1>1, <2>1, <2>2, <2>3 DEF Superseded
  <2>5. ~docs[k].contested
    BY <1>3, <1>5, <2>1
  <2> QED BY <1>1, <2>1, <2>4, <2>5 DEF Settled, ActiveDocs
<1> QED BY <1>2, <1>3, <1>4, <1>5

\* What a new document does to the documents.
Adds(docs, d, new) == new = Append(docs, d)

Added(docs, d, new) ==
  /\ DocumentsOK(new) /\ Len(new) = Len(docs) + 1
  /\ new[Len(docs) + 1] = d /\ \A j \in 1..Len(docs) : new[j] = docs[j]
  /\ \A k : k \in Settled(new) <=> \/ k \in Settled(docs) /\ k \notin d.supersedes
                                   \/ k = Len(docs) + 1 /\ ~d.contested

LEMMA AppendKeeps ==
  ASSUME NEW docs, DocumentsOK(docs), NEW d \in MdDocuments,
         d.facts # {}, d.supersedes \subseteq 1..Len(docs), NEW new, Adds(docs, d, new)
  PROVE  Added(docs, d, new)
<1>1. docs \in Seq(MdDocuments) /\ DOMAIN docs = 1..Len(docs) /\ Len(docs) \in Nat
  BY DEF DocumentsOK
<1>2. new \in Seq(MdDocuments) /\ Len(new) = Len(docs) + 1 /\ DOMAIN new = 1..Len(docs) + 1
  BY <1>1 DEF Adds
<1>3. new[Len(docs) + 1] = d /\ \A j \in 1..Len(docs) : new[j] = docs[j]
  BY <1>1 DEF Adds
<1>4. DocumentsOK(new)
  <2>1. \A j \in 1..Len(new) : j \in 1..Len(docs) \/ j = Len(docs) + 1
    BY <1>1, <1>2
  <2>2. \A j \in 1..Len(docs) : docs[j].facts # {} /\ docs[j].supersedes \subseteq 1..Len(docs) \ {j}
    BY DEF DocumentsOK
  <2>3. \A j \in 1..Len(docs) : j \in 1..Len(new)
    BY <1>1, <1>2
  <2>4. Len(docs) + 1 \notin 1..Len(docs)
    BY <1>1
  <2>5. ASSUME NEW j \in 1..Len(new) PROVE new[j].facts # {} /\ new[j].supersedes \subseteq 1..Len(new) \ {j}
    <3>1. CASE j \in 1..Len(docs)
      BY <1>3, <2>2, <2>3, <3>1
    <3>2. CASE j = Len(docs) + 1
      BY <1>3, <2>3, <2>4, <3>2
    <3> QED BY <2>1, <3>1, <3>2
  <2> QED BY <1>2, <2>5 DEF DocumentsOK
<1>5. \A k : k \in Superseded(new) <=> k \in Superseded(docs) \/ k \in d.supersedes
  <2>1. \A k : k \in Superseded(new) <=> \E j \in 1..Len(docs) + 1 : k \in new[j].supersedes
    BY <1>2 DEF Superseded
  <2>2. \A k : k \in Superseded(docs) <=> \E j \in 1..Len(docs) : k \in docs[j].supersedes
    BY <1>1 DEF Superseded
  <2>3. \A j : j \in 1..Len(docs) + 1 <=> j \in 1..Len(docs) \/ j = Len(docs) + 1
    BY <1>1
  <2> QED BY <1>3, <2>1, <2>2, <2>3
<1>6. \A k : k \in Settled(new) <=> k \in 1..Len(docs) + 1 /\ k \notin Superseded(new) /\ ~new[k].contested
  BY <1>2 DEF Settled, ActiveDocs
<1>7. \A k : k \in Settled(docs) <=> k \in 1..Len(docs) /\ k \notin Superseded(docs) /\ ~docs[k].contested
  BY <1>1 DEF Settled, ActiveDocs
<1>8. Len(docs) + 1 \notin Superseded(docs) /\ Len(docs) + 1 \notin d.supersedes
  <2>1. Superseded(docs) \subseteq 1..Len(docs)
    BY ActiveDocuments
  <2> QED BY <1>1, <2>1
<1>9. \A k : k \in 1..Len(docs) + 1 <=> k \in 1..Len(docs) \/ k = Len(docs) + 1
  BY <1>1
<1> QED BY <1>2, <1>3, <1>4, <1>5, <1>6, <1>7, <1>8, <1>9 DEF Added

LEMMA DocumentFields ==
  ASSUME NEW facts \in SUBSET (Statements \cup Findings), NEW contested \in BOOLEAN,
         NEW supersedes \in SUBSET Nat
  PROVE  /\ Document(facts, contested, supersedes) \in MdDocuments
         /\ Document(facts, contested, supersedes).facts = facts
         /\ Document(facts, contested, supersedes).contested = contested
         /\ Document(facts, contested, supersedes).supersedes = supersedes
  BY DEF Document, MdDocuments

\* What a decision made on read leaves of the documents.
Keeps(docs, new) ==
  /\ Len(docs) <= Len(new)
  /\ \A i \in 1..Len(docs) : docs[i].facts \subseteq new[i].facts

LEMMA ApplyKeeps ==
  ASSUME NEW read, DocumentsOK(read), NEW docs, DocumentsOK(docs), Len(read) <= Len(docs),
         NEW decision, Decides(read, decision), NEW new, new = Apply(read, docs, decision)
  PROVE  /\ DocumentsOK(new) /\ Len(docs) <= Len(new)
         /\ read = docs => Keeps(docs, new) /\ (OneSettled(docs) => OneSettled(new))
<1>0. decision \in MdDecisions /\ decision.doc \in MdDocuments /\ decision.doc.facts # {}
      /\ decision.doc.facts \subseteq Statements \cup Findings
      /\ decision.doc.supersedes \subseteq 1..Len(docs) /\ decision.doc.contested \in BOOLEAN
  <2>1. Len(read) \in Nat /\ Len(docs) \in Nat
    BY ActiveDocuments
  <2>2. 1..Len(read) \subseteq 1..Len(docs)
    BY <2>1
  <2> QED BY <2>2 DEF Decides, MdDecisions, MdDocuments
<1>1. Len(docs) \in Nat /\ 1..Len(read) \subseteq 1..Len(docs) /\ 1..Len(docs) \in SUBSET Nat
  <2>1. Len(read) \in Nat /\ Len(docs) \in Nat
    BY ActiveDocuments
  <2> QED BY <2>1
<1>2. ASSUME NEW i, NEW more, MergedAt(read, docs, decision, i, more)
      PROVE  /\ DocumentsOK(new) /\ Len(docs) <= Len(new)
             /\ read = docs => Keeps(docs, new) /\ (OneSettled(docs) => OneSettled(new))
  <2>1. PICK d : d = Document(read[i].facts \cup more, read[i].contested \/ decision.doc.contested,
                              read[i].supersedes \cup decision.doc.supersedes)
    OBVIOUS
  <2>2. i \in 1..Len(read) /\ i \notin Superseded(read) /\ read[i] \in MdDocuments
    BY <1>2, ActiveDocuments DEF MergedAt
  <2>3. read[i].facts # {} /\ read[i].supersedes \subseteq 1..Len(read) \ {i}
    BY <2>2 DEF DocumentsOK
  <2>4. more \subseteq Statements \cup Findings
    BY <1>0, <1>2 DEF MergedAt
  <2>5. i \notin decision.doc.supersedes
    BY <2>2 DEF Decides
  <2>6. /\ d.facts = read[i].facts \cup more
        /\ d.contested = (read[i].contested \/ decision.doc.contested)
        /\ d.supersedes = read[i].supersedes \cup decision.doc.supersedes
    BY <2>1 DEF Document
  <2>7. d.facts # {} /\ d.supersedes \subseteq 1..Len(docs) \ {i}
    BY <1>0, <1>1, <2>3, <2>5, <2>6
  <2>8. d \in MdDocuments
    <3>1. read[i].facts \cup more \subseteq Statements \cup Findings
      BY <2>2, <2>4 DEF MdDocuments
    <3>2. (read[i].contested \/ decision.doc.contested) \in BOOLEAN
      OBVIOUS
    <3>3. read[i].supersedes \cup decision.doc.supersedes \subseteq Nat
      BY <1>1, <2>6, <2>7
    <3> QED BY <2>1, <3>1, <3>2, <3>3 DEF MdDocuments, Document
  <2>9. i \in 1..Len(docs) /\ new = [docs EXCEPT ![i] = d]
    BY <1>1, <1>2, <2>1, <2>2 DEF MergedAt
  <2>10. /\ DocumentsOK(new) /\ Len(new) = Len(docs)
         /\ new[i] = d /\ \A j \in 1..Len(docs) \ {i} : new[j] = docs[j]
         /\ docs[i].supersedes \subseteq d.supersedes /\ (docs[i].contested => d.contested)
              => Settled(new) \subseteq Settled(docs)
    BY <2>7, <2>8, <2>9, MergeKeeps, ZenonT(60)
  <2>11. ASSUME read = docs PROVE Keeps(docs, new) /\ (OneSettled(docs) => OneSettled(new))
    <3>1. Keeps(docs, new)
      BY <1>1, <2>6, <2>9, <2>10, <2>11 DEF Keeps
    <3>2. Settled(new) \subseteq Settled(docs)
      BY <2>6, <2>10, <2>11
    <3> QED BY <3>1, <3>2 DEF OneSettled
  <2> QED BY <1>1, <2>10, <2>11
<1>3. ASSUME Said(read, docs, decision)
      PROVE  /\ DocumentsOK(new) /\ Len(docs) <= Len(new)
             /\ read = docs => Keeps(docs, new) /\ (OneSettled(docs) => OneSettled(new))
  BY <1>1, <1>3 DEF Said, Keeps
<1>4. ASSUME NEW d, AppendedAs(read, docs, decision, d)
      PROVE  /\ DocumentsOK(new) /\ Len(docs) <= Len(new)
             /\ read = docs => Keeps(docs, new) /\ (OneSettled(docs) => OneSettled(new))
  <2>1. Settled(read) \subseteq 1..Len(docs) /\ Settled(read) \subseteq ActiveDocs(read)
    BY <1>1, ActiveDocuments
  <2>a. decision.doc = Document(decision.doc.facts, decision.doc.contested, decision.doc.supersedes)
    BY <1>0 DEF MdDocuments, Document
  <2>b. \E c \in BOOLEAN, s \in SUBSET (1..Len(docs)) : d = Document(decision.doc.facts, c, s)
    <3>1. /\ Settled(read) \in SUBSET (1..Len(docs)) /\ decision.doc.supersedes \in SUBSET (1..Len(docs))
          /\ TRUE \in BOOLEAN
      BY <1>0, <2>1
    <3>2. decision.doc.contested \in BOOLEAN
      BY <1>0
    <3>3. \/ d = Document(decision.doc.facts, decision.doc.contested, Settled(read))
          \/ d = decision.doc
          \/ d = Document(decision.doc.facts, TRUE, decision.doc.supersedes)
      BY <1>4 DEF AppendedAs
    <3> QED BY <2>a, <3>1, <3>2, <3>3, Zenon
  <2>d. PICK c \in BOOLEAN, s \in SUBSET (1..Len(docs)) : d = Document(decision.doc.facts, c, s)
    BY <2>b
  <2>e. decision.doc.facts \in SUBSET (Statements \cup Findings) /\ s \in SUBSET Nat
    BY <1>0, <1>1, <2>d
  <2>2. d \in MdDocuments /\ d.facts # {} /\ d.supersedes \subseteq 1..Len(docs)
    <3>1. d \in MdDocuments /\ d.facts = decision.doc.facts /\ d.supersedes = s
      BY <2>d, <2>e, DocumentFields
    <3> QED BY <1>0, <2>d, <3>1
  <2>c. Adds(docs, d, new)
    BY <1>4 DEF AppendedAs, Adds
  <2>3. /\ DocumentsOK(new) /\ Len(new) = Len(docs) + 1
        /\ new[Len(docs) + 1] = d /\ \A j \in 1..Len(docs) : new[j] = docs[j]
        /\ \A k : k \in Settled(new) <=> \/ k \in Settled(docs) /\ k \notin d.supersedes
                                         \/ k = Len(docs) + 1 /\ ~d.contested
    <3>1. Added(docs, d, new)
      BY <2>2, <2>c, AppendKeeps
    <3> QED BY <3>1 DEF Added
  <2>4. Keeps(docs, new)
    BY <1>1, <2>3 DEF Keeps
  <2>5. ASSUME read = docs, OneSettled(docs) PROVE OneSettled(new)
    <3>1. d.contested \/ \A k \in Settled(docs) : k \in d.supersedes
      BY <1>4, <2>1, <2>5 DEF AppendedAs, Document
    <3> QED BY <2>3, <2>5, <3>1 DEF OneSettled
  <2> QED BY <1>1, <2>3, <2>4, <2>5
<1> QED BY <1>0, <1>1, <1>2, <1>3, <1>4, ApplyCases

\* A decision that is a document, or no more than a text.
Plain(docs, decision) ==
  \/ \E k \in 1..Len(docs) : decision.doc = docs[k]
  \/ ~decision.doc.contested /\ decision.doc.supersedes = {}

WritesOnce(docs, decision, new) ==
  \/ new = docs /\ \E j \in 1..Len(docs) : docs[j].facts = decision.doc.facts
  \/ \E d \in MdDocuments :
       /\ new = Append(docs, d) /\ d.facts = decision.doc.facts /\ TextsDiffer(new)
       /\ \A j \in 1..Len(docs) : docs[j].facts # d.facts
       /\ ~decision.doc.contested
       /\ decision.policy = "overwrite" => ~d.contested /\ d.supersedes \subseteq 1..Len(docs)
       /\ decision.policy # "overwrite" => d.supersedes = {}

\* A key of statements of which none is appended to another: a decision leaves the
\* documents as they are, because one says it already, or it writes one more.
LEMMA DecidesOnce ==
  ASSUME NEW docs, DocumentsOK(docs), TextsDiffer(docs),
         NEW decision, Decides(docs, decision), decision.policy # "append",
         Plain(docs, decision), NEW new, new = Apply(docs, docs, decision)
  PROVE  WritesOnce(docs, decision, new)
<1>0. decision \in MdDecisions /\ decision.doc \in MdDocuments /\ Len(docs) \in Nat
      /\ docs \in Seq(MdDocuments) /\ 1..Len(docs) \in SUBSET Nat
  BY DEF Decides, MdDecisions, DocumentsOK
<1>1. ASSUME NEW i, NEW more, MergedAt(docs, docs, decision, i, more)
      PROVE  new = docs /\ \E j \in 1..Len(docs) : docs[j].facts = decision.doc.facts
  <2>1. i \in 1..Len(docs) /\ docs[i] \in MdDocuments /\ docs[i].facts = decision.doc.facts /\ more = {}
    BY <1>1, ActiveDocuments DEF MergedAt
  <2>2. docs[i] = decision.doc \/ (~decision.doc.contested /\ decision.doc.supersedes = {})
    BY <2>1 DEF TextsDiffer, Plain
  <2>3. /\ docs[i].facts \cup more = docs[i].facts
        /\ docs[i].supersedes \cup decision.doc.supersedes = docs[i].supersedes
    BY <2>1, <2>2
  <2>4. docs[i].contested \in BOOLEAN /\ (docs[i].contested \/ decision.doc.contested) = docs[i].contested
    BY <2>1, <2>2 DEF MdDocuments
  <2>5. Document(docs[i].facts, docs[i].contested, docs[i].supersedes) = docs[i]
    BY <2>1 DEF MdDocuments, Document
  <2>6. new = [docs EXCEPT ![i] = docs[i]]
    BY <1>1, <2>3, <2>4, <2>5 DEF MergedAt
  <2> QED BY <1>0, <2>1, <2>6
<1>2. ASSUME NEW d, AppendedAs(docs, docs, decision, d)
      PROVE  /\ d \in MdDocuments
             /\ new = Append(docs, d) /\ d.facts = decision.doc.facts /\ TextsDiffer(new)
             /\ \A j \in 1..Len(docs) : docs[j].facts # d.facts
             /\ ~decision.doc.contested
             /\ decision.policy = "overwrite" => ~d.contested /\ d.supersedes \subseteq 1..Len(docs)
             /\ decision.policy # "overwrite" => d.supersedes = {}
  <2>1. ~decision.doc.contested /\ decision.doc.supersedes = {}
    BY <1>2 DEF AppendedAs, Plain
  <2>2. Settled(docs) \subseteq 1..Len(docs)
    BY ActiveDocuments
  <2>a. decision.doc = Document(decision.doc.facts, decision.doc.contested, decision.doc.supersedes)
    BY <1>0 DEF MdDocuments, Document
  <2>b. \E c \in BOOLEAN, t \in SUBSET Nat : d = Document(decision.doc.facts, c, t)
    <3>1. /\ decision.doc.facts \in SUBSET (Statements \cup Findings) /\ decision.doc.contested \in BOOLEAN
          /\ Settled(docs) \in SUBSET Nat /\ decision.doc.supersedes \in SUBSET Nat /\ TRUE \in BOOLEAN
      BY <1>0, <2>2 DEF MdDocuments
    <3> QED BY <1>2, <2>a, <3>1 DEF AppendedAs
  <2>d. PICK c \in BOOLEAN, t \in SUBSET Nat : d = Document(decision.doc.facts, c, t)
    BY <2>b
  <2>e. decision.doc.facts \in SUBSET (Statements \cup Findings)
    BY <1>0 DEF MdDocuments
  <2>3. d \in MdDocuments /\ d.facts = decision.doc.facts
    BY <2>d, <2>e, DocumentFields
  <2>4. /\ decision.policy = "overwrite" => ~d.contested /\ d.supersedes \subseteq 1..Len(docs)
        /\ decision.policy # "overwrite" => d.supersedes = {}
    BY <1>2, <2>1, <2>2 DEF AppendedAs, Document
  <2>5. new = Append(docs, d) /\ \A j \in 1..Len(docs) : docs[j].facts # d.facts
    BY <1>2, <2>3 DEF AppendedAs
  <2>6. TextsDiffer(new)
    <3>1. Len(new) = Len(docs) + 1 /\ new[Len(docs) + 1] = d /\ \A j \in 1..Len(docs) : new[j] = docs[j]
      BY <1>0, <2>3, <2>5
    <3>2. \A j \in 1..Len(new) : j \in 1..Len(docs) \/ j = Len(docs) + 1
      BY <1>0, <3>1
    <3> QED BY <2>5, <3>1, <3>2 DEF TextsDiffer
  <2> QED BY <2>1, <2>3, <2>4, <2>5, <2>6
<1>3. Len(docs) <= Len(docs)
  BY <1>0
<1>4. \/ \E i, more : MergedAt(docs, docs, decision, i, more)
      \/ Said(docs, docs, decision)
      \/ \E d : AppendedAs(docs, docs, decision, d)
  BY <1>0, <1>3, ApplyCases
<1> QED BY <1>1, <1>2, <1>4 DEF Said, WritesOnce

MdRuns ==
  [phase : {"none", "read", "written"}, snapshot : Seq(MdDocuments), written : Seq(MdDocuments),
   decision : MdDecisions]

MdTypes ==
  /\ mdKind \in MdKinds /\ DocumentsOK(mdDocs)
  /\ mdHeard \in Seq(Statements) /\ mdPending \subseteq Statements /\ mdTaken \subseteq Statements
  /\ mdTask \in {"none", "scheduled", "running", "dead"}
  /\ mdStatus \in {"none", "staged", "success", "failed"}
  /\ mdDropped \in BOOLEAN /\ mdRaced \in BOOLEAN /\ mdEchoed \in BOOLEAN
  /\ mdRun \in MdRuns

\* A consolidation that is under way has read documents, which were not more than now.
MdMerging ==
  /\ mdRun.phase # "none" => mdStatus = "staged" /\ DocumentsOK(mdRun.snapshot)
  /\ mdRun.phase = "read" =>
       Len(mdRun.snapshot) <= Len(mdDocs) /\ Proposed(mdRun.snapshot, mdRun.decision)

\* The last statement is what the settled document says; every statement is in a document.
Confirms(rule, heard, echoed, docs) ==
  rule = "overwrite" /\ heard # <<>> /\ ~echoed => SettledHolds(docs, heard[Len(heard)])
Learns(heard, docs) == \A n \in 1..Len(heard) : Holds(docs, heard[n])

Knows(rule, heard, echoed, docs) ==
  TextsDiffer(docs) /\ Confirms(rule, heard, echoed, docs) /\ Learns(heard, docs)

\* A consolidation writes nothing, or one document of findings.
Writes(docs, new) ==
  new = docs \/ LET d == new[Len(new)]
                IN  d \in MdDocuments /\ new = Append(docs, d) /\ d.facts \cap Statements = {}

MdLost == mdTask = "dead" => mdDropped

MdOne == ~mdRaced =>
  /\ OneSettled(mdDocs)
  /\ mdRun.phase = "written" => OneSettled(mdRun.snapshot)

\* What the files were before a consolidation wrote is what a rollback makes of them again.
RollsBack(rule, heard, echoed, docs, snapshot, written) ==
  /\ TextsDiffer(snapshot) /\ Writes(snapshot, written)
  /\ Len(written) <= Len(docs)
  /\ Len(written) = Len(docs) => docs = written
  /\ docs = written => Knows(rule, heard, echoed, snapshot)

MdKnown == ~mdRaced /\ mdKind.rule # "none" =>
  /\ Knows(mdKind.rule, mdHeard, mdEchoed, mdDocs)
  /\ mdRun.phase = "written" =>
       RollsBack(mdKind.rule, mdHeard, mdEchoed, mdDocs, mdRun.snapshot, mdRun.written)

MdInd == MdTypes /\ MdMerging /\ PayloadIsTaken /\ MdLost /\ MdOne /\ MdKnown

\* A document of which nothing is superseded leaves what was known.
LEMMA KnowsMore ==
  ASSUME NEW rule, NEW heard, NEW echoed, NEW docs, DocumentsOK(docs), Knows(rule, heard, echoed, docs),
         NEW d \in MdDocuments, d.facts # {}, d.supersedes = {}, NEW new, new = Append(docs, d),
         TextsDiffer(new)
  PROVE  Knows(rule, heard, echoed, new)
<1>1. /\ Len(new) = Len(docs) + 1 /\ Len(docs) \in Nat
      /\ \A j \in 1..Len(docs) : new[j] = docs[j]
      /\ \A k : k \in Settled(docs) => k \in Settled(new)
  <2>0. d.supersedes \subseteq 1..Len(docs) /\ Adds(docs, d, new)
    BY DEF Adds
  <2>1. Len(docs) \in Nat
    BY ActiveDocuments
  <2>2. /\ Len(new) = Len(docs) + 1 /\ \A j \in 1..Len(docs) : new[j] = docs[j]
        /\ \A k : k \in Settled(new) <=> \/ k \in Settled(docs) /\ k \notin d.supersedes
                                         \/ k = Len(docs) + 1 /\ ~d.contested
    <3>1. Added(docs, d, new)
      BY <2>0, AppendKeeps
    <3> QED BY <3>1 DEF Added
  <2>3. \A k : k \notin d.supersedes
    OBVIOUS
  <2> QED BY <2>1, <2>2, <2>3, Zenon
<1>2. Settled(docs) \subseteq 1..Len(docs)
  BY ActiveDocuments
<1>3. \A fact : SettledHolds(docs, fact) => SettledHolds(new, fact)
  BY <1>1, <1>2 DEF SettledHolds
<1>4. \A fact : Holds(docs, fact) => Holds(new, fact)
  BY <1>1 DEF Holds
<1> QED BY <1>3, <1>4 DEF Knows, Confirms, Learns

\* More documents than a consolidation wrote are no longer what it wrote.
LEMMA RollsBackMore ==
  ASSUME NEW rule, NEW heard, NEW echoed, NEW docs, DocumentsOK(docs), NEW snapshot, NEW written,
         written \in Seq(MdDocuments), RollsBack(rule, heard, echoed, docs, snapshot, written),
         NEW new, Len(new) = Len(docs) + 1, NEW heard2, NEW echoed2
  PROVE  RollsBack(rule, heard2, echoed2, new, snapshot, written)
<1>1. Len(docs) \in Nat /\ Len(written) \in Nat
  BY ActiveDocuments
<1>2. Len(written) < Len(new)
  BY <1>1 DEF RollsBack
<1>3. Len(written) <= Len(new) /\ Len(written) # Len(new) /\ new # written
  BY <1>1, <1>2
<1> QED BY <1>3 DEF RollsBack

\* A turn writes a statement, and what it knows of its having been said.
States(rule, statement, docs, new, echoes) ==
  /\ new = Apply(docs, docs, Decision(rule, {statement}, FALSE, {}))
  /\ echoes \/ \A i \in 1..Len(docs) : docs[i].facts = {statement} => i \in Settled(docs)

Stated(rule, heard, statement, docs, new, echoes) ==
  /\ Knows(rule, Append(heard, statement), echoes, new)
  /\ \/ Len(new) = Len(docs) + 1
     \/ /\ new = docs
        /\ \E j \in 1..Len(docs) : docs[j].facts = {statement} /\ (echoes \/ j \in Settled(docs))

\* A turn: the statement is now in a document, and settled unless it was said before.
LEMMA TurnKnows ==
  ASSUME NEW rule \in {"overwrite", "guard"}, NEW heard \in Seq(Statements), NEW statement \in Statements,
         NEW echoed, NEW docs, DocumentsOK(docs), Knows(rule, heard, echoed, docs),
         NEW new, NEW echoes, States(rule, statement, docs, new, echoes)
  PROVE  Stated(rule, heard, statement, docs, new, echoes)
<1> DEFINE decision == Decision(rule, {statement}, FALSE, {})
           more == Append(heard, statement)
<1>0. DOMAIN docs = 1..Len(docs) /\ Len(docs) \in Nat
  BY ActiveDocuments
<1>1. /\ Decides(docs, decision) /\ decision.policy = rule /\ decision.policy # "append"
      /\ ~decision.doc.contested /\ decision.doc.supersedes = {} /\ decision.doc.facts = {statement}
  BY DEF Decides, Decision, Document, MdDecisions, MdDocuments, MdPolicies
<1>2. TextsDiffer(docs)
  BY DEF Knows
<1>h. /\ Len(heard) \in Nat /\ Len(more) = Len(heard) + 1 /\ more # <<>> /\ more[Len(more)] = statement
      /\ \A n \in 1..Len(heard) : more[n] = heard[n]
  OBVIOUS
<1> HIDE DEF decision, more
<1>3. \/ new = docs /\ \E j \in 1..Len(docs) : docs[j].facts = {statement}
      \/ \E d \in MdDocuments :
              /\ new = Append(docs, d) /\ d.facts = {statement} /\ TextsDiffer(new)
              /\ \A j \in 1..Len(docs) : docs[j].facts # d.facts
              /\ rule = "overwrite" => ~d.contested
              /\ rule # "overwrite" => d.supersedes = {}
              /\ d.supersedes \subseteq 1..Len(docs)
  <2>0. new = Apply(docs, docs, decision)
    BY DEF decision, States
  <2>1. \/ new = docs /\ \E j \in 1..Len(docs) : docs[j].facts = decision.doc.facts
        \/ \E d \in MdDocuments :
              /\ new = Append(docs, d) /\ d.facts = decision.doc.facts /\ TextsDiffer(new)
              /\ \A j \in 1..Len(docs) : docs[j].facts # d.facts
              /\ ~decision.doc.contested
              /\ decision.policy = "overwrite" => ~d.contested /\ d.supersedes \subseteq 1..Len(docs)
              /\ decision.policy # "overwrite" => d.supersedes = {}
    <3>1. Plain(docs, decision)
      BY <1>1 DEF Plain
    <3>2. WritesOnce(docs, decision, new)
      BY <1>1, <1>2, <2>0, <3>1, DecidesOnce
    <3> QED BY <3>2 DEF WritesOnce
  <2> QED BY <1>1, <2>1
<1>4. \A any : (\A n \in 1..Len(heard) : Holds(any, heard[n])) /\ Holds(any, statement) => Learns(more, any)
  <2>1. \A n \in 1..Len(more) : n \in 1..Len(heard) \/ n = Len(more)
    BY <1>h
  <2> QED BY <1>h, <2>1 DEF Learns
<1>5. CASE new = docs /\ \E j \in 1..Len(docs) : docs[j].facts = {statement}
  <2>1. PICK j \in 1..Len(docs) : docs[j].facts = {statement}
    BY <1>5
  <2>2. echoes \/ j \in Settled(docs)
    BY <1>0, <2>1 DEF States
  <2>3. Holds(docs, statement)
    BY <2>1 DEF Holds
  <2>4. ~echoes => SettledHolds(docs, statement)
    BY <2>1, <2>2 DEF SettledHolds
  <2>5. Learns(more, docs)
    BY <1>4, <2>3 DEF Knows, Learns
  <2>6. Confirms(rule, more, echoes, docs)
    BY <1>h, <2>4 DEF Confirms
  <2>7. Knows(rule, more, echoes, new)
    BY <1>2, <1>5, <2>5, <2>6 DEF Knows
  <2> QED BY <1>5, <2>1, <2>2, <2>7 DEF Stated, more
<1>6. ASSUME NEW d \in MdDocuments, new = Append(docs, d), d.facts = {statement}, TextsDiffer(new),
             rule = "overwrite" => ~d.contested, d.supersedes \subseteq 1..Len(docs)
      PROVE  Knows(rule, more, echoes, new) /\ Len(new) = Len(docs) + 1
  <2>0. Len(docs) + 1 \in 1..Len(docs) + 1 /\ statement \in d.facts
    BY <1>0, <1>6
  <2>1. /\ Len(new) = Len(docs) + 1
        /\ new[Len(docs) + 1] = d /\ \A j \in 1..Len(docs) : new[j] = docs[j]
        /\ \A k : k \in Settled(new) <=> \/ k \in Settled(docs) /\ k \notin d.supersedes
                                         \/ k = Len(docs) + 1 /\ ~d.contested
    <3>1. d \in MdDocuments /\ d.facts # {} /\ d.supersedes \subseteq 1..Len(docs) /\ Adds(docs, d, new)
      BY <1>6 DEF Adds
    <3>2. Added(docs, d, new)
      BY <3>1, AppendKeeps
    <3> QED BY <3>2 DEF Added
  <2>2. Holds(new, statement)
    BY <2>0, <2>1 DEF Holds
  <2>3. rule = "overwrite" => SettledHolds(new, statement)
    BY <1>6, <2>0, <2>1 DEF SettledHolds
  <2>4. \A n \in 1..Len(heard) : Holds(new, heard[n])
    <3>0. \A j \in 1..Len(docs) : j \in 1..Len(docs) + 1
      BY <1>0
    <3>1. \A j \in 1..Len(docs) : j \in 1..Len(new) /\ new[j].facts = docs[j].facts
      BY <2>1, <3>0
    <3> QED BY <3>1 DEF Knows, Learns, Holds
  <2> QED BY <1>4, <1>6, <1>h, <2>1, <2>2, <2>3, <2>4 DEF Knows, Confirms
<1> QED BY <1>3, <1>5, <1>6 DEF more, Stated

\* A guarded decision that a consolidation or an extraction made on what the files are.
LEMMA GuardKnows ==
  ASSUME NEW rule, NEW heard, NEW echoed, NEW docs, DocumentsOK(docs), Knows(rule, heard, echoed, docs),
         NEW decision, Decides(docs, decision), decision.policy = "guard",
         Plain(docs, decision), NEW new, new = Apply(docs, docs, decision)
  PROVE  /\ Knows(rule, heard, echoed, new)
         /\ \/ new = docs
            \/ \E d \in MdDocuments : new = Append(docs, d) /\ Len(new) = Len(docs) + 1
                 /\ new[Len(new)] = d /\ d.facts = decision.doc.facts
                 /\ \A j \in 1..Len(docs) : docs[j].facts # d.facts
<1>0. Len(docs) \in Nat /\ docs \in Seq(MdDocuments)
  BY DEF DocumentsOK
<1>1. decision.policy # "append" /\ decision.policy # "overwrite" /\ TextsDiffer(docs)
      /\ decision.doc.facts # {}
  BY DEF Knows, Decides
<1>2. \/ new = docs /\ \E j \in 1..Len(docs) : docs[j].facts = decision.doc.facts
      \/ \E d \in MdDocuments :
              /\ new = Append(docs, d) /\ d.facts = decision.doc.facts /\ TextsDiffer(new)
              /\ \A j \in 1..Len(docs) : docs[j].facts # d.facts
              /\ ~decision.doc.contested
              /\ decision.policy = "overwrite" => ~d.contested /\ d.supersedes \subseteq 1..Len(docs)
              /\ decision.policy # "overwrite" => d.supersedes = {}
  <2>1. WritesOnce(docs, decision, new)
    BY <1>1, DecidesOnce
  <2> QED BY <2>1 DEF WritesOnce
<1>3. ASSUME NEW d \in MdDocuments, new = Append(docs, d), d.facts = decision.doc.facts, TextsDiffer(new),
             \A j \in 1..Len(docs) : docs[j].facts # d.facts, d.supersedes = {}
      PROVE  /\ Knows(rule, heard, echoed, new)
             /\ new = Append(docs, d) /\ Len(new) = Len(docs) + 1 /\ new[Len(new)] = d
  <2>1. Len(new) = Len(docs) + 1 /\ new[Len(new)] = d
    BY <1>0, <1>3
  <2>2. d.facts # {}
    BY <1>1, <1>3
  <2>3. Knows(rule, heard, echoed, new)
    BY <1>3, <2>2, KnowsMore
  <2> QED BY <1>3, <2>1, <2>3
<1> QED BY <1>1, <1>2, <1>3

\* A turn between a consolidation's writing and its rollback: if the files are still what
\* it wrote, the statement was in them before.
LEMMA TurnRollsBack ==
  ASSUME NEW rule, NEW heard \in Seq(Statements), NEW statement \in Statements, NEW echoed, NEW echoes,
         NEW docs, DocumentsOK(docs), NEW snapshot, DocumentsOK(snapshot), NEW written,
         RollsBack(rule, heard, echoed, docs, snapshot, written),
         NEW j \in 1..Len(docs), docs[j].facts = {statement}, echoes \/ j \in Settled(docs)
  PROVE  RollsBack(rule, Append(heard, statement), echoes, docs, snapshot, written)
<1> SUFFICES ASSUME docs = written PROVE Knows(rule, Append(heard, statement), echoes, snapshot)
  BY DEF RollsBack
<1>0. /\ Len(docs) \in Nat /\ Len(snapshot) \in Nat /\ snapshot \in Seq(MdDocuments)
      /\ \A i \in 1..Len(docs) : docs[i].facts # {} /\ docs[i].supersedes \subseteq 1..Len(docs) \ {i}
  BY DEF DocumentsOK
<1>1. Knows(rule, heard, echoed, snapshot) /\ Writes(snapshot, docs)
  BY DEF RollsBack
<1>2. j \in 1..Len(snapshot) /\ snapshot[j] = docs[j] /\ (j \in Settled(docs) => j \in Settled(snapshot))
  <2>1. CASE docs = snapshot
    BY <2>1
  <2>2. ASSUME NEW d \in MdDocuments, docs = Append(snapshot, d), d.facts \cap Statements = {}
        PROVE  j \in 1..Len(snapshot) /\ snapshot[j] = docs[j] /\ (j \in Settled(docs) => j \in Settled(snapshot))
    <3>1. Len(docs) = Len(snapshot) + 1 /\ docs[Len(docs)] = d
      BY <1>0, <2>2
    <3>2. d.facts # {}
      BY <1>0, <3>1
    <3>2a. d.supersedes \subseteq 1..Len(snapshot)
      BY <1>0, <3>1
    <3>3. Added(snapshot, d, docs)
      BY <2>2, <3>2, <3>2a, AppendKeeps DEF Adds
    <3>4. j # Len(docs)
      BY <2>2, <3>1
    <3>5. j \in 1..Len(snapshot) /\ j # Len(snapshot) + 1
      BY <1>0, <3>1, <3>4
    <3> QED BY <3>3, <3>5 DEF Added
  <2> QED BY <1>1, <2>1, <2>2 DEF Writes
<1>3. Holds(snapshot, statement) /\ (~echoes => SettledHolds(snapshot, statement))
  BY <1>2 DEF Holds, SettledHolds
<1> DEFINE more == Append(heard, statement)
<1>4. /\ more[Len(more)] = statement /\ \A n \in 1..Len(heard) : more[n] = heard[n]
      /\ \A n \in 1..Len(more) : n \in 1..Len(heard) \/ n = Len(more)
  OBVIOUS
<1> HIDE DEF more
<1>5. Learns(more, snapshot)
  BY <1>1, <1>3, <1>4 DEF Knows, Learns
<1>6. Confirms(rule, more, echoes, snapshot)
  BY <1>3, <1>4 DEF Confirms
<1>7. Knows(rule, more, echoes, snapshot)
  BY <1>1, <1>5, <1>6 DEF Knows
<1> QED BY <1>7 DEF more

LEMMA Kinds ==
  ASSUME NEW kind \in MdKinds
  PROVE  /\ kind.rule \in {"none", "overwrite", "guard"} /\ kind.background \in {"none", "guard", "append"}
         /\ kind.background = "append" => kind.rule = "none"
  BY MdAssumption DEF MdPolicies

LEMMA PlainDecision ==
  ASSUME NEW policy \in MdPolicies, NEW facts \in SUBSET (Statements \cup Findings), facts # {}, NEW docs
  PROVE  /\ Decides(docs, Decision(policy, facts, FALSE, {}))
         /\ Decision(policy, facts, FALSE, {}).policy = policy
         /\ Decision(policy, facts, FALSE, {}).doc.facts = facts
         /\ ~Decision(policy, facts, FALSE, {}).doc.contested
         /\ Decision(policy, facts, FALSE, {}).doc.supersedes = {}
  BY DEF Decides, Decision, Document, MdDecisions, MdDocuments

LEMMA MdInitially == MdInit => MdInd
<1> SUFFICES ASSUME MdInit PROVE MdInd
  OBVIOUS
<1> USE DEF MdInit
<1>1. DocumentsOK(<<>>) /\ TextsDiffer(<<>>) /\ OneSettled(<<>>)
  <2>1. <<>> \in Seq(MdDocuments) /\ Len(<<>>) = 0 /\ DOMAIN <<>> = {}
    OBVIOUS
  <2>2. DocumentsOK(<<>>)
    BY <2>1 DEF DocumentsOK
  <2> QED BY <2>1, <2>2 DEF TextsDiffer, OneSettled, Settled, ActiveDocs
<1>2. NoMerge \in MdRuns
  BY DEF NoMerge, MdRuns, Decision, Document, MdDecisions, MdDocuments, MdPolicies
<1>3. MdTypes
  <2>1. <<>> \in Seq(Statements) /\ FALSE \in BOOLEAN
    OBVIOUS
  <2> QED BY <1>1, <1>2, <2>1 DEF MdTypes
<1>4. MdMerging /\ PayloadIsTaken /\ MdLost
  BY DEF MdMerging, NoMerge, PayloadIsTaken, MdLost
<1>5. Knows(mdKind.rule, <<>>, FALSE, <<>>)
  BY <1>1 DEF Knows, Confirms, Learns
<1> QED BY <1>1, <1>3, <1>4, <1>5 DEF MdInd, MdOne, MdKnown, NoMerge

\* What a decision of a turn or of an extraction does to a consolidation's reading.
LEMMA MdWrites ==
  ASSUME MdInd, NEW decision, Decides(mdDocs, decision), mdDocs' = Apply(mdDocs, mdDocs, decision)
  PROVE  /\ DocumentsOK(mdDocs') /\ Keeps(mdDocs, mdDocs')
         /\ mdRun.phase = "read" => Len(mdRun.snapshot) <= Len(mdDocs')
         /\ ~mdRaced => OneSettled(mdDocs')
<1>0. DocumentsOK(mdDocs) /\ Len(mdDocs) \in Nat /\ Len(mdDocs) <= Len(mdDocs)
  <2>1. DocumentsOK(mdDocs)
    BY DEF MdInd, MdTypes
  <2>2. Len(mdDocs) \in Nat
    BY <2>1, ActiveDocuments
  <2> QED BY <2>1, <2>2
<1>1. /\ DocumentsOK(mdDocs') /\ Len(mdDocs) <= Len(mdDocs')
      /\ Keeps(mdDocs, mdDocs') /\ (OneSettled(mdDocs) => OneSettled(mdDocs'))
  BY <1>0, ApplyKeeps
<1>2. Len(mdDocs') \in Nat
  BY <1>1, ActiveDocuments
<1>3. mdRun.phase = "read" => Len(mdRun.snapshot) <= Len(mdDocs')
  <2>1. mdRun.phase = "read" => Len(mdRun.snapshot) <= Len(mdDocs) /\ DocumentsOK(mdRun.snapshot)
    BY DEF MdInd, MdMerging
  <2>2. mdRun.phase = "read" => Len(mdRun.snapshot) \in Nat
    BY <2>1, ActiveDocuments
  <2> QED BY <1>0, <1>1, <1>2, <2>1, <2>2
<1> QED BY <1>1, <1>3 DEF MdInd, MdOne

LEMMA MdTurn ==
  ASSUME MdInd, NEW statement \in Statements, Turn(statement)
  PROVE  MdInd'
<1>0. /\ MdTypes /\ mdKind \in MdKinds /\ mdKind' = mdKind /\ mdHeard \in Seq(Statements)
      /\ DocumentsOK(mdDocs) /\ mdRun' = mdRun /\ mdRaced' = mdRaced
      /\ mdHeard' = Append(mdHeard, statement)
  BY DEF MdInd, MdTypes, Turn
<1>e. mdEchoed' = \E i \in DOMAIN mdDocs : mdDocs[i].facts = {statement} /\ i \notin Settled(mdDocs)
  BY DEF Turn
<1>1. PICK rule : rule = mdKind.rule
  OBVIOUS
<1>2. rule \in {"none", "overwrite", "guard"}
  BY <1>0, <1>1, Kinds
<1>3. /\ DocumentsOK(mdDocs')
      /\ mdRun.phase = "read" => Len(mdRun.snapshot) <= Len(mdDocs')
      /\ ~mdRaced => OneSettled(mdDocs')
  <2>1. CASE rule = "none"
    <3>1. mdDocs' = mdDocs
      BY <1>1, <2>1 DEF Turn
    <3> QED BY <1>0, <3>1 DEF MdInd, MdMerging, MdOne
  <2>2. CASE rule # "none"
    <3>1. rule \in MdPolicies /\ {statement} \in SUBSET (Statements \cup Findings) /\ {statement} # {}
      BY <1>2 DEF MdPolicies
    <3>2. Decides(mdDocs, Decision(rule, {statement}, FALSE, {}))
      BY <3>1, PlainDecision
    <3>3. mdDocs' = Apply(mdDocs, mdDocs, Decision(rule, {statement}, FALSE, {}))
      BY <1>1, <2>2 DEF Turn
    <3> QED BY <3>2, <3>3, MdWrites
  <2> QED BY <2>1, <2>2
<1>4. MdTypes'
  <2>1. mdHeard' \in Seq(Statements)
    BY <1>0
  <2>2. {mdHeard[i] : i \in DOMAIN mdHeard} \subseteq Statements
    BY <1>0
  <2>3. mdPending' \subseteq Statements
    BY <1>0, <2>2 DEF MergePayload, MdTypes, Turn
  <2>4. mdEchoed' \in BOOLEAN /\ mdDropped' \in BOOLEAN
    BY <1>e DEF Turn
  <2>5. /\ mdTask' \in {"none", "scheduled", "running", "dead"} /\ mdTaken' = mdTaken
        /\ mdStatus' = mdStatus
    BY <1>0 DEF Turn, MdTypes
  <2> QED BY <1>0, <1>3, <2>1, <2>3, <2>4, <2>5 DEF MdTypes
<1>5. MdMerging'
  BY <1>0, <1>3 DEF MdInd, MdMerging, Turn
<1>6. PayloadIsTaken' /\ MdLost'
  <2>1. mdTask \in {"none", "scheduled", "running", "dead"} /\ mdDropped \in BOOLEAN
    BY <1>0 DEF MdTypes
  <2>2. mdTask = "dead" => mdDropped
    BY DEF MdInd, MdLost
  <2>3. mdTask' = (IF mdTask = "none" THEN "scheduled" ELSE mdTask) /\ mdDropped' = (mdDropped /\ mdTask # "none")
    BY DEF Turn
  <2> QED BY <2>1, <2>2, <2>3 DEF PayloadIsTaken, MdLost
<1>7. MdOne'
  BY <1>0, <1>3 DEF MdInd, MdOne
<1>8. MdKnown'
  <2> SUFFICES ASSUME ~mdRaced, rule # "none"
      PROVE  /\ Knows(rule, mdHeard', mdEchoed', mdDocs')
             /\ mdRun.phase = "written" =>
                  RollsBack(rule, mdHeard', mdEchoed', mdDocs', mdRun.snapshot, mdRun.written)
    BY <1>0, <1>1 DEF MdKnown
  <2>1. rule \in {"overwrite", "guard"} /\ Knows(rule, mdHeard, mdEchoed, mdDocs)
    BY <1>1, <1>2 DEF MdInd, MdKnown
  <2>2. mdDocs' = Apply(mdDocs, mdDocs, Decision(rule, {statement}, FALSE, {}))
    BY <1>1 DEF Turn
  <2>3. PICK echoes : echoes = mdEchoed'
    OBVIOUS
  <2>3a. echoes \/ \A i \in 1..Len(mdDocs) : mdDocs[i].facts = {statement} => i \in Settled(mdDocs)
    <3>1. DOMAIN mdDocs = 1..Len(mdDocs)
      BY <1>0, ActiveDocuments
    <3> QED BY <1>e, <2>3, <3>1
  <2>3b. States(rule, statement, mdDocs, mdDocs', echoes)
    BY <2>2, <2>3a DEF States
  <2>4. /\ Knows(rule, Append(mdHeard, statement), echoes, mdDocs')
        /\ \/ Len(mdDocs') = Len(mdDocs) + 1
           \/ /\ mdDocs' = mdDocs
              /\ \E j \in 1..Len(mdDocs) : mdDocs[j].facts = {statement} /\ (echoes \/ j \in Settled(mdDocs))
    <3>1. Stated(rule, mdHeard, statement, mdDocs, mdDocs', echoes)
      BY <1>0, <2>1, <2>3b, TurnKnows
    <3> QED BY <3>1 DEF Stated
  <2>5. mdEchoed' = echoes
    BY <2>3
  <2>6. ASSUME mdRun.phase = "written"
        PROVE  RollsBack(rule, mdHeard', mdEchoed', mdDocs', mdRun.snapshot, mdRun.written)
    <3>1. /\ RollsBack(rule, mdHeard, mdEchoed, mdDocs, mdRun.snapshot, mdRun.written)
          /\ DocumentsOK(mdRun.snapshot) /\ mdRun.written \in Seq(MdDocuments)
      BY <1>0, <1>1, <2>6 DEF MdInd, MdKnown, MdMerging, MdTypes, MdRuns
    <3>2. CASE Len(mdDocs') = Len(mdDocs) + 1
      BY <1>0, <3>1, <3>2, RollsBackMore
    <3>3. ASSUME NEW j \in 1..Len(mdDocs), mdDocs' = mdDocs, mdDocs[j].facts = {statement},
                 echoes \/ j \in Settled(mdDocs)
          PROVE  RollsBack(rule, mdHeard', mdEchoed', mdDocs', mdRun.snapshot, mdRun.written)
      <4>1. RollsBack(rule, Append(mdHeard, statement), echoes, mdDocs, mdRun.snapshot, mdRun.written)
        BY <1>0, <3>1, <3>3, TurnRollsBack
      <4> QED BY <1>0, <2>5, <3>3, <4>1
    <3> QED BY <2>4, <3>2, <3>3
  <2> QED BY <1>0, <2>4, <2>5, <2>6
<1> QED BY <1>4, <1>5, <1>6, <1>7, <1>8 DEF MdInd

LEMMA MdExtract ==
  ASSUME MdInd, NEW facts \in SUBSET (Statements \cup Findings), Extract(facts)
  PROVE  MdInd' /\ Keeps(mdDocs, mdDocs')
<1>0. /\ MdTypes /\ mdKind \in MdKinds /\ mdKind' = mdKind /\ mdHeard' = mdHeard /\ mdStatus' = mdStatus
      /\ DocumentsOK(mdDocs) /\ mdRun' = mdRun /\ mdRaced' = mdRaced /\ mdEchoed' = mdEchoed
      /\ mdDropped' = mdDropped /\ mdTask' \in {"none", "running"} /\ mdTaken' = mdPending
      /\ mdPending' = {} /\ facts \in Found(mdTaken)
  BY DEF MdInd, MdTypes, Extract, ContinueExtraction
<1>1. PICK policy : policy = mdKind.background
  OBVIOUS
<1>2. policy \in {"none", "guard", "append"} /\ (policy = "append" => mdKind.rule = "none")
  BY <1>0, <1>1, Kinds
<1>3. CASE facts = {} \/ policy = "none"
  <2>1. mdDocs' = mdDocs
    BY <1>1, <1>3 DEF Extract
  <2>2. Keeps(mdDocs, mdDocs')
    <3>1. Len(mdDocs) \in Nat
      BY <1>0, ActiveDocuments
    <3> QED BY <2>1, <3>1 DEF Keeps
  <2>3. MdTypes'
    BY <1>0, <2>1 DEF MdTypes
  <2> QED BY <1>0, <2>1, <2>2, <2>3 DEF MdInd, MdMerging, PayloadIsTaken, MdLost, MdOne, MdKnown
<1>4. CASE facts # {} /\ policy # "none"
  <2>1. policy \in MdPolicies
    BY <1>2 DEF MdPolicies
  <2>2. PICK decision : decision = Decision(policy, facts, FALSE, {})
    OBVIOUS
  <2>3. /\ Decides(mdDocs, decision) /\ decision.policy = policy /\ decision.doc.facts = facts
        /\ ~decision.doc.contested /\ decision.doc.supersedes = {}
    BY <1>4, <2>1, <2>2, PlainDecision
  <2>4. mdDocs' = Apply(mdDocs, mdDocs, decision)
    BY <1>1, <1>4, <2>2 DEF Extract
  <2>5. /\ DocumentsOK(mdDocs') /\ Keeps(mdDocs, mdDocs')
        /\ mdRun.phase = "read" => Len(mdRun.snapshot) <= Len(mdDocs')
        /\ ~mdRaced => OneSettled(mdDocs')
    BY <2>3, <2>4, MdWrites
  <2>6. MdTypes'
    BY <1>0, <2>5 DEF MdTypes
  <2>7. MdMerging' /\ PayloadIsTaken' /\ MdLost'
    BY <1>0, <2>5 DEF MdInd, MdMerging, PayloadIsTaken, MdLost
  <2>8. MdOne'
    BY <1>0, <2>5 DEF MdInd, MdOne
  <2>9. MdKnown'
    <3> SUFFICES ASSUME ~mdRaced, mdKind.rule # "none"
        PROVE  /\ Knows(mdKind.rule, mdHeard, mdEchoed, mdDocs')
               /\ mdRun.phase = "written" =>
                    RollsBack(mdKind.rule, mdHeard, mdEchoed, mdDocs', mdRun.snapshot, mdRun.written)
      BY <1>0 DEF MdKnown
    <3>1. decision.policy = "guard" /\ Plain(mdDocs, decision)
      BY <1>2, <1>4, <2>3 DEF Plain
    <3>2. Knows(mdKind.rule, mdHeard, mdEchoed, mdDocs)
      BY DEF MdInd, MdKnown
    <3>3. Knows(mdKind.rule, mdHeard, mdEchoed, mdDocs') /\ (mdDocs' = mdDocs \/ Len(mdDocs') = Len(mdDocs) + 1)
      BY <1>0, <2>3, <2>4, <3>1, <3>2, GuardKnows
    <3>4. ASSUME mdRun.phase = "written"
          PROVE  RollsBack(mdKind.rule, mdHeard, mdEchoed, mdDocs', mdRun.snapshot, mdRun.written)
      <4>1. /\ RollsBack(mdKind.rule, mdHeard, mdEchoed, mdDocs, mdRun.snapshot, mdRun.written)
            /\ mdRun.written \in Seq(MdDocuments)
        BY <1>0, <3>4 DEF MdInd, MdKnown, MdTypes, MdRuns
      <4>2. CASE mdDocs' = mdDocs
        BY <4>1, <4>2
      <4>3. CASE Len(mdDocs') = Len(mdDocs) + 1
        BY <1>0, <4>1, <4>3, RollsBackMore
      <4> QED BY <3>3, <4>2, <4>3
    <3> QED BY <3>3, <3>4
  <2> QED BY <2>5, <2>6, <2>7, <2>8, <2>9 DEF MdInd
<1> QED BY <1>3, <1>4

\* What touches neither the documents nor a consolidation.
LEMMA MdTasks ==
  ASSUME MdInd, BeginExtraction \/ LoseExtraction \/ CancelBeforeStart
  PROVE  MdInd' /\ mdDocs' = mdDocs
<1>0. /\ mdKind' = mdKind /\ mdHeard' = mdHeard /\ mdStatus' = mdStatus /\ mdDocs' = mdDocs
      /\ mdRun' = mdRun /\ mdRaced' = mdRaced /\ mdEchoed' = mdEchoed
  BY DEF BeginExtraction, LoseExtraction, CancelBeforeStart
<1>1. MdTypes' /\ PayloadIsTaken' /\ MdLost'
  <2>1. MdTypes /\ PayloadIsTaken /\ MdLost
    BY DEF MdInd
  <2>2. /\ mdTask' \in {"none", "scheduled", "running", "dead"} /\ mdTaken' \subseteq Statements
        /\ mdPending' \subseteq Statements /\ mdDropped' \in BOOLEAN
    BY <2>1 DEF MdTypes, BeginExtraction, LoseExtraction, CancelBeforeStart
  <2>3. MdTypes'
    BY <1>0, <2>1, <2>2 DEF MdTypes
  <2>4. PayloadIsTaken' /\ MdLost'
    BY <2>1 DEF PayloadIsTaken, MdLost, BeginExtraction, LoseExtraction, CancelBeforeStart
  <2> QED BY <2>3, <2>4
<1>2. MdMerging'
  BY <1>0 DEF MdInd, MdMerging
<1>3. MdOne' /\ MdKnown'
  BY <1>0 DEF MdInd, MdOne, MdKnown
<1> QED BY <1>0, <1>1, <1>2, <1>3 DEF MdInd

LEMMA MdRead ==
  ASSUME MdInd, NEW decision \in Proposals, ReadForMerge(decision)
  PROVE  MdInd' /\ mdDocs' = mdDocs
<1>0. /\ mdKind' = mdKind /\ mdHeard' = mdHeard /\ mdDocs' = mdDocs /\ mdTask' = mdTask
      /\ mdPending' = mdPending /\ mdTaken' = mdTaken /\ mdDropped' = mdDropped
      /\ mdRaced' = mdRaced /\ mdEchoed' = mdEchoed /\ mdStatus' = "staged"
  BY DEF ReadForMerge
<1>1. PICK run : run = [phase |-> "read", snapshot |-> mdDocs, written |-> <<>>, decision |-> decision]
  OBVIOUS
<1>2. mdRun' = run /\ run.phase = "read" /\ run.snapshot = mdDocs /\ run.decision = decision
  BY <1>1 DEF ReadForMerge
<1>3. MdTypes /\ DocumentsOK(mdDocs) /\ mdDocs \in Seq(MdDocuments) /\ Len(mdDocs) \in Nat
      /\ DOMAIN mdDocs = 1..Len(mdDocs)
  BY DEF MdInd, MdTypes, DocumentsOK
<1>4. decision \in MdDecisions /\ Proposed(mdDocs, decision)
  <2>1. ASSUME NEW i \in DOMAIN mdDocs,
               decision = Decision("guard", mdDocs[i].facts, mdDocs[i].contested, mdDocs[i].supersedes)
        PROVE  decision \in MdDecisions /\ Proposed(mdDocs, decision)
    <3>1. mdDocs[i] \in MdDocuments
      BY <1>3
    <3>2. mdDocs[i] = Document(mdDocs[i].facts, mdDocs[i].contested, mdDocs[i].supersedes)
      BY <3>1 DEF MdDocuments, Document
    <3>3. decision = [policy |-> "guard", doc |-> mdDocs[i]]
      BY <2>1, <3>2 DEF Decision
    <3> QED BY <1>3, <3>1, <3>3 DEF MdDecisions, MdPolicies, Proposed
  <2>2. ASSUME NEW f \in Findings, decision = Decision("guard", {f}, FALSE, {})
        PROVE  decision \in MdDecisions /\ Proposed(mdDocs, decision)
    BY <2>2 DEF Decision, Document, MdDecisions, MdDocuments, MdPolicies, Proposed
  <2> QED BY <2>1, <2>2 DEF Proposals
<1>5. run \in MdRuns
  <2>1. <<>> \in Seq(MdDocuments)
    OBVIOUS
  <2> QED BY <1>1, <1>3, <1>4, <2>1 DEF MdRuns
<1>6. MdTypes'
  BY <1>0, <1>2, <1>3, <1>5 DEF MdTypes
<1>7. MdMerging'
  BY <1>0, <1>2, <1>3, <1>4 DEF MdMerging
<1>8. PayloadIsTaken' /\ MdLost' /\ MdOne' /\ MdKnown'
  BY <1>0, <1>2 DEF MdInd, PayloadIsTaken, MdLost, MdOne, MdKnown
<1> QED BY <1>0, <1>6, <1>7, <1>8 DEF MdInd

LEMMA ProposedDecides ==
  ASSUME NEW docs, DocumentsOK(docs), NEW decision \in MdDecisions, Proposed(docs, decision)
  PROVE  Decides(docs, decision) /\ Plain(docs, decision) /\ decision.policy = "guard"
<1>1. ASSUME NEW k \in 1..Len(docs), decision.doc = docs[k]
      PROVE  Decides(docs, decision) /\ Plain(docs, decision)
  <2>1. docs[k].facts # {} /\ docs[k].supersedes \subseteq 1..Len(docs)
    BY DEF DocumentsOK
  <2>2. docs[k].supersedes \subseteq Superseded(docs)
    BY ActiveDocuments
  <2> QED BY <1>1, <2>1, <2>2 DEF Decides, Plain
<1>2. ASSUME NEW f \in Findings, decision.doc = Document({f}, FALSE, {})
      PROVE  Decides(docs, decision) /\ Plain(docs, decision)
  BY <1>2 DEF Decides, Plain, Document
<1> QED BY <1>1, <1>2 DEF Proposed

LEMMA MdWrite ==
  ASSUME MdInd, WriteMerge
  PROVE  MdInd' /\ Len(mdDocs) <= Len(mdDocs') /\ mdStatus' = "staged"
<1>0. /\ mdKind' = mdKind /\ mdHeard' = mdHeard /\ mdTask' = mdTask /\ mdStatus' = mdStatus
      /\ mdPending' = mdPending /\ mdTaken' = mdTaken /\ mdDropped' = mdDropped
      /\ mdEchoed' = mdEchoed /\ mdRun.phase = "read"
      /\ mdDocs' = Apply(mdRun.snapshot, mdDocs, mdRun.decision)
  BY DEF WriteMerge
<1>1. PICK snapshot : snapshot = mdRun.snapshot
  OBVIOUS
<1>2. PICK decision : decision = mdRun.decision
  OBVIOUS
<1>3. PICK run : run = [mdRun EXCEPT !.phase = "written", !.written = mdDocs']
  OBVIOUS
<1>4. /\ MdTypes /\ DocumentsOK(mdDocs) /\ DocumentsOK(snapshot) /\ Len(snapshot) <= Len(mdDocs)
      /\ decision \in MdDecisions /\ Proposed(snapshot, decision) /\ mdStatus = "staged"
      /\ mdRun \in MdRuns
  BY <1>0, <1>1, <1>2 DEF MdInd, MdTypes, MdMerging, MdRuns
<1>5. Decides(snapshot, decision) /\ Plain(snapshot, decision) /\ decision.policy = "guard"
  BY <1>4, ProposedDecides
<1>6. mdDocs' = Apply(snapshot, mdDocs, decision)
  BY <1>0, <1>1, <1>2
<1>7. /\ DocumentsOK(mdDocs') /\ Len(mdDocs) <= Len(mdDocs')
      /\ snapshot = mdDocs => (OneSettled(mdDocs) => OneSettled(mdDocs'))
  BY <1>4, <1>5, <1>6, ApplyKeeps
<1>8. /\ mdRun' = run /\ run \in MdRuns /\ run.phase = "written" /\ run.snapshot = snapshot
      /\ run.written = mdDocs' /\ run.decision = decision
  <2>1. mdDocs' \in Seq(MdDocuments)
    BY <1>7 DEF DocumentsOK
  <2>2. mdRun' = run
    BY <1>3 DEF WriteMerge
  <2> QED BY <1>1, <1>2, <1>3, <1>4, <2>1, <2>2 DEF MdRuns
<1>9. ~mdRaced' => ~mdRaced /\ mdDocs = snapshot
  BY <1>1 DEF WriteMerge
<1>10. mdRaced' \in BOOLEAN
  BY <1>4 DEF WriteMerge, MdTypes
<1>11. MdTypes'
  BY <1>0, <1>4, <1>7, <1>8, <1>10 DEF MdTypes
<1>12. MdMerging' /\ PayloadIsTaken' /\ MdLost'
  BY <1>0, <1>4, <1>8 DEF MdInd, MdMerging, PayloadIsTaken, MdLost
<1>13. MdOne'
  BY <1>7, <1>8, <1>9 DEF MdInd, MdOne
<1>14. MdKnown'
  <2> SUFFICES ASSUME ~mdRaced, mdDocs = snapshot, mdKind.rule # "none"
      PROVE  /\ Knows(mdKind.rule, mdHeard, mdEchoed, mdDocs')
             /\ RollsBack(mdKind.rule, mdHeard, mdEchoed, mdDocs', snapshot, mdDocs')
    BY <1>0, <1>8, <1>9 DEF MdKnown
  <2>1. Knows(mdKind.rule, mdHeard, mdEchoed, snapshot)
    BY DEF MdInd, MdKnown
  <2>2. mdDocs' = Apply(snapshot, snapshot, decision)
    BY <1>6
  <2>3. /\ Knows(mdKind.rule, mdHeard, mdEchoed, mdDocs')
        /\ \/ mdDocs' = snapshot
           \/ \E d \in MdDocuments : mdDocs' = Append(snapshot, d) /\ Len(mdDocs') = Len(snapshot) + 1
                /\ mdDocs'[Len(mdDocs')] = d /\ d.facts = decision.doc.facts
                /\ \A j \in 1..Len(snapshot) : snapshot[j].facts # d.facts
    BY <1>4, <1>5, <2>1, <2>2, GuardKnows
  <2>4. ASSUME NEW d \in MdDocuments, d.facts = decision.doc.facts,
               \A j \in 1..Len(snapshot) : snapshot[j].facts # d.facts
        PROVE  d.facts \cap Statements = {}
    <3>1. PICK f \in Findings : decision.doc = Document({f}, FALSE, {})
      BY <1>4, <2>4 DEF Proposed
    <3>2. d.facts = {f}
      BY <2>4, <3>1 DEF Document
    <3> QED BY <3>2, MdAssumption
  <2>5. Writes(snapshot, mdDocs')
    BY <2>3, <2>4 DEF Writes
  <2>6. Len(mdDocs') \in Nat
    BY <1>7, ActiveDocuments
  <2> QED BY <2>1, <2>3, <2>5, <2>6 DEF RollsBack, Knows
<1> QED BY <1>0, <1>4, <1>7, <1>11, <1>12, <1>13, <1>14 DEF MdInd

LEMMA MdEnd ==
  ASSUME MdInd, FinishMerge \/ RollBackMerge
  PROVE  /\ MdInd' /\ mdRun.phase = "written" /\ mdRun'.phase = "none"
         /\ FinishMerge => mdDocs' = mdDocs /\ mdStatus' = "success"
         /\ RollBackMerge => mdDocs' = mdRun.snapshot /\ mdStatus' = "failed"
<1>0. /\ mdKind' = mdKind /\ mdHeard' = mdHeard /\ mdTask' = mdTask
      /\ mdPending' = mdPending /\ mdTaken' = mdTaken /\ mdDropped' = mdDropped
      /\ mdEchoed' = mdEchoed /\ mdRun.phase = "written" /\ mdRun' = NoMerge
      /\ FinishMerge => mdDocs' = mdDocs /\ mdStatus' = "success" /\ mdRaced' = mdRaced
      /\ RollBackMerge => mdDocs' = mdRun.snapshot /\ mdStatus' = "failed"
                          /\ (~mdRaced' => ~mdRaced /\ mdDocs = mdRun.written)
  BY DEF FinishMerge, RollBackMerge, Restore
<1>1. NoMerge \in MdRuns /\ NoMerge.phase = "none"
  BY DEF NoMerge, MdRuns, Decision, Document, MdDecisions, MdDocuments, MdPolicies
<1>2. MdTypes /\ DocumentsOK(mdDocs) /\ DocumentsOK(mdRun.snapshot)
  BY <1>0 DEF MdInd, MdTypes, MdMerging
<1>3. MdTypes'
  <2>1. mdRaced' \in BOOLEAN
    BY <1>2 DEF MdTypes, FinishMerge, RollBackMerge
  <2>2. DocumentsOK(mdDocs') /\ mdStatus' \in {"none", "staged", "success", "failed"}
    BY <1>0, <1>2
  <2> QED BY <1>0, <1>1, <1>2, <2>1, <2>2 DEF MdTypes
<1>4. MdMerging' /\ PayloadIsTaken' /\ MdLost'
  BY <1>0, <1>1 DEF MdInd, MdMerging, PayloadIsTaken, MdLost
<1>5. MdOne'
  BY <1>0, <1>1 DEF MdInd, MdOne
<1>6. MdKnown'
  <2>1. ASSUME ~mdRaced', mdKind.rule # "none" PROVE Knows(mdKind.rule, mdHeard, mdEchoed, mdDocs')
    <3>1. CASE FinishMerge
      BY <1>0, <2>1, <3>1 DEF MdInd, MdKnown
    <3>2. CASE RollBackMerge
      BY <1>0, <2>1, <3>2 DEF MdInd, MdKnown, RollsBack
    <3> QED BY <3>1, <3>2
  <2> QED BY <1>0, <1>1, <2>1 DEF MdKnown
<1> QED BY <1>0, <1>1, <1>3, <1>4, <1>5, <1>6 DEF MdInd

LEMMA MdStep == MdInd /\ [MdNext]_mdVars => MdInd'
<1> SUFFICES ASSUME MdInd, [MdNext]_mdVars PROVE MdInd'
  OBVIOUS
<1>1. ASSUME NEW statement \in Statements, Turn(statement) PROVE MdInd'
  BY <1>1, MdTurn
<1>2. ASSUME NEW facts \in SUBSET (Statements \cup Findings), Extract(facts) PROVE MdInd'
  BY <1>2, MdExtract
<1>3. ASSUME BeginExtraction \/ LoseExtraction \/ CancelBeforeStart PROVE MdInd'
  BY <1>3, MdTasks
<1>4. ASSUME NEW decision \in Proposals, ReadForMerge(decision) PROVE MdInd'
  BY <1>4, MdRead
<1>5. ASSUME WriteMerge PROVE MdInd'
  BY <1>5, MdWrite
<1>6. ASSUME FinishMerge \/ RollBackMerge PROVE MdInd'
  BY <1>6, MdEnd
<1>7. ASSUME UNCHANGED mdVars PROVE MdInd'
  BY <1>7 DEF mdVars, MdInd, MdTypes, MdMerging, PayloadIsTaken, MdLost, MdOne, MdKnown
<1> QED BY <1>1, <1>2, <1>3, <1>4, <1>5, <1>6, <1>7 DEF MdNext

\* What the memory of a session holds: one document of a key is settled, it says what the
\* user confirmed last, nothing is unlearned, and what waits to be extracted will be
\* (record_turn_with_receipts, _apply_durable_extraction_decision).
THEOREM DocumentSafety == MdSpec => []DocumentsSafe
<1>1. MdInd => DocumentsSafe
  <2> SUFFICES ASSUME MdInd PROVE DocumentsSafe
    OBVIOUS
  <2>0. MdTypes /\ DocumentsOK(mdDocs) /\ mdHeard \in Seq(Statements) /\ PayloadIsTaken
    BY DEF MdInd, MdTypes
  <2>1. /\ DOMAIN mdDocs = 1..Len(mdDocs) /\ DOMAIN mdHeard = 1..Len(mdHeard)
        /\ \A i \in 1..Len(mdDocs) : mdDocs[i] \in MdDocuments
    BY <2>0, ActiveDocuments
  <2>2. MdTypeOK
    <3>1. \A i \in DOMAIN mdDocs :
             /\ mdDocs[i].facts \in (SUBSET (Statements \cup Findings)) \ {{}}
             /\ mdDocs[i].contested \in BOOLEAN
             /\ mdDocs[i].supersedes \subseteq DOMAIN mdDocs \ {i}
      <4> SUFFICES ASSUME NEW i \in 1..Len(mdDocs)
          PROVE  /\ mdDocs[i].facts \in (SUBSET (Statements \cup Findings)) \ {{}}
                 /\ mdDocs[i].contested \in BOOLEAN
                 /\ mdDocs[i].supersedes \subseteq 1..Len(mdDocs) \ {i}
        BY <2>1
      <4>1. mdDocs[i].facts # {} /\ mdDocs[i].supersedes \subseteq 1..Len(mdDocs) \ {i}
        BY <2>0 DEF DocumentsOK
      <4>2. mdDocs[i].facts \in SUBSET (Statements \cup Findings) /\ mdDocs[i].contested \in BOOLEAN
        BY <2>1 DEF MdDocuments
      <4>3. mdDocs[i].facts \in (SUBSET (Statements \cup Findings)) \ {{}}
        BY <4>1, <4>2, Zenon
      <4> QED BY <4>1, <4>2, <4>3, Zenon
    <3> QED BY <2>0, <3>1 DEF MdTypes, MdTypeOK
  <2>3. OneIsSettled
    <3> SUFFICES ASSUME ~mdRaced PROVE Cardinality(Settled(mdDocs)) <= 1
      BY DEF OneIsSettled
    <3>1. \A i, j \in Settled(mdDocs) : i = j
      BY DEF MdInd, MdOne, OneSettled
    <3>2. CASE Settled(mdDocs) = {}
      BY <3>2, FS_EmptySet
    <3>3. ASSUME NEW i \in Settled(mdDocs) PROVE Cardinality(Settled(mdDocs)) <= 1
      <4>1. Settled(mdDocs) = {i}
        BY <3>1
      <4> QED BY <4>1, FS_Singleton
    <3> QED BY <3>2, <3>3
  <2>4. NewestIsSettled
    <3> SUFFICES ASSUME ~mdRaced, ~mdEchoed, mdKind.rule = "overwrite", mdHeard # <<>>
        PROVE  \E i \in Settled(mdDocs) : mdHeard[Len(mdHeard)] \in mdDocs[i].facts
      BY DEF NewestIsSettled
    <3> QED BY DEF MdInd, MdKnown, Knows, Confirms, SettledHolds
  <2>5. NothingUnlearned
    <3> SUFFICES ASSUME ~mdRaced, mdKind.rule # "none"
        PROVE  \A n \in DOMAIN mdHeard : \E i \in DOMAIN mdDocs : mdHeard[n] \in mdDocs[i].facts
      BY DEF NothingUnlearned
    <3> QED BY <2>1 DEF MdInd, MdKnown, Knows, Learns, Holds
  <2> QED BY <2>0, <2>2, <2>3, <2>4, <2>5 DEF DocumentsSafe
<1> QED BY MdInitially, MdStep, <1>1, PTL DEF MdSpec

\* A consolidation that failed has put every file back; the other steps take no statement
\* from a file, but for a merge that writes over what it has read
\* (_restore_long_term_snapshot, _merge_existing_durable_document).
THEOREM DocumentsKept == MdSpec => FilesAreKept
<1> DEFINE Step ==
      IF mdStatus' = "failed" /\ mdRun # mdRun'
      THEN mdDocs' = mdRun.snapshot
      ELSE \A i \in DOMAIN mdDocs :
              /\ i \in DOMAIN mdDocs'
              /\ mdDocs[i].facts \subseteq mdDocs'[i].facts \/ mdRun.phase = "read"
<1>1. MdInd /\ MdNext => Step
  <2> SUFFICES ASSUME MdInd, MdNext PROVE Step
    OBVIOUS
  <2>0. /\ DOMAIN mdDocs = 1..Len(mdDocs) /\ Len(mdDocs) \in Nat
        /\ DOMAIN mdDocs' = 1..Len(mdDocs') /\ Len(mdDocs') \in Nat
    <3>1. DocumentsOK(mdDocs) /\ MdInd'
      BY MdStep DEF MdInd, MdTypes
    <3>2. DocumentsOK(mdDocs')
      BY <3>1 DEF MdInd, MdTypes
    <3> QED BY <3>1, <3>2, ActiveDocuments
  <2>1. ASSUME Keeps(mdDocs, mdDocs'), mdStatus' # "failed" \/ mdRun' = mdRun PROVE Step
    BY <2>0, <2>1 DEF Keeps
  <2>2. mdDocs' = mdDocs => Keeps(mdDocs, mdDocs')
    BY <2>0 DEF Keeps
  <2>3. ASSUME NEW statement \in Statements, Turn(statement) PROVE Step
    <3>1. CASE mdKind.rule = "none"
      BY <2>1, <2>2, <2>3, <3>1 DEF Turn
    <3>2. CASE mdKind.rule # "none"
      <4>1. mdKind \in MdKinds
        BY DEF MdInd, MdTypes
      <4>2. mdKind.rule \in MdPolicies /\ {statement} \in SUBSET (Statements \cup Findings) /\ {statement} # {}
        BY <3>2, <4>1, Kinds DEF MdPolicies
      <4>3. Decides(mdDocs, Decision(mdKind.rule, {statement}, FALSE, {}))
        BY <4>2, PlainDecision
      <4>4. Keeps(mdDocs, mdDocs')
        BY <2>3, <3>2, <4>3, MdWrites DEF Turn
      <4> QED BY <2>1, <2>3, <4>4 DEF Turn
    <3> QED BY <3>1, <3>2
  <2>4. ASSUME NEW facts \in SUBSET (Statements \cup Findings), Extract(facts) PROVE Step
    <3>1. Keeps(mdDocs, mdDocs')
      BY <2>4, MdExtract
    <3> QED BY <2>1, <2>4, <3>1 DEF Extract
  <2>5. ASSUME BeginExtraction \/ LoseExtraction \/ CancelBeforeStart PROVE Step
    <3>1. mdDocs' = mdDocs /\ mdRun' = mdRun
      BY <2>5 DEF BeginExtraction, LoseExtraction, CancelBeforeStart
    <3> QED BY <2>1, <2>2, <3>1
  <2>6. ASSUME NEW decision \in Proposals, ReadForMerge(decision) PROVE Step
    BY <2>1, <2>2, <2>6 DEF ReadForMerge
  <2>7. ASSUME WriteMerge PROVE Step
    <3>1. Len(mdDocs) <= Len(mdDocs') /\ mdStatus' = "staged" /\ mdRun.phase = "read"
      BY <2>7, MdWrite DEF WriteMerge
    <3>2. \A i \in 1..Len(mdDocs) : i \in 1..Len(mdDocs')
      BY <2>0, <3>1
    <3> QED BY <2>0, <3>1, <3>2
  <2>8. ASSUME FinishMerge PROVE Step
    <3>1. mdDocs' = mdDocs /\ mdStatus' = "success"
      BY <2>8, MdEnd
    <3> QED BY <2>1, <2>2, <3>1
  <2>9. ASSUME RollBackMerge PROVE Step
    <3>1. mdDocs' = mdRun.snapshot /\ mdStatus' = "failed" /\ mdRun.phase = "written" /\ mdRun'.phase = "none"
      BY <2>9, MdEnd
    <3> QED BY <3>1
  <2> QED BY <2>3, <2>4, <2>5, <2>6, <2>7, <2>8, <2>9 DEF MdNext
<1>2. MdInd /\ [MdNext]_mdVars => [Step]_mdVars
  BY <1>1
<1> QED BY MdInitially, MdStep, <1>2, PTL DEF MdSpec, FilesAreKept

----
(* The registries: Registries. *)

RgDefs ==
  [name : RgNames \cup {NoTool}, aliases : SUBSET RgAliases, priority : Nat, path : RgPaths \cup {NoTool}]

\* A definition that is held has the name it is held by.
RgEntries ==
  /\ rgEntry \in [RgNames -> RgDefs]
  /\ \A n \in RgNames : rgEntry[n] # Absent => rgEntry[n].name = n

RgInd ==
  /\ RgTypeOK /\ RgEntries /\ rgProviders \in Seq(RgProviders)
  /\ HighestIsHeld /\ AliasesLead /\ AliasesHold

LEMMA RgCount ==
  ASSUME RgInd, Counted
  PROVE  rgCalls' \in 0..MaxRegistered
<1>1. MaxRegistered \in Nat
  BY RgAssumption
<1>2. rgCalls \in 0..MaxRegistered
  BY DEF RgInd, RgTypeOK
<1>3. rgCalls < MaxRegistered /\ rgCalls' = rgCalls + 1
  BY DEF Counted
<1> QED BY <1>1, <1>2, <1>3

LEMMA RgNamed ==
  ASSUME NEW d \in RgTools
  PROVE  /\ d.name \in RgNames /\ d.name # NoTool /\ d.priority \in Nat
         /\ d.path \in RgPaths /\ d.aliases \in SUBSET RgAliases
         /\ d = [name |-> d.name, aliases |-> d.aliases, priority |-> d.priority, path |-> d.path]
<1>1. d \in [name : RgNames \ {NoTool}, aliases : SUBSET RgAliases, priority : Nat, path : RgPaths]
  BY RgAssumption
<1> QED BY <1>1 DEF RgNames, RgAliases

LEMMA RgNoName == NoTool \notin RgNames
BY RgNamed DEF RgNames

LEMMA RgAbsent ==
  /\ Absent \in RgDefs
  /\ Absent.name = NoTool /\ Absent.aliases = {} /\ Absent.priority = 0
<1>1. Absent = [name |-> NoTool, aliases |-> {}, priority |-> 0, path |-> NoTool]
  BY DEF Absent
<1>2. {} \in SUBSET RgAliases /\ 0 \in Nat
  OBVIOUS
<1>3. [name |-> NoTool, aliases |-> {}, priority |-> 0, path |-> NoTool] \in RgDefs
  BY <1>2 DEF RgDefs
<1> QED BY <1>1, <1>3

\* What a definition that enters leaves of the entries.
LEMMA RgEnters ==
  ASSUME RgInd, NEW d \in RgTools, NEW ks \in SUBSET RgAliases,
         rgEntry' = [rgEntry EXCEPT ![d.name] = [d EXCEPT !.aliases = ks]]
  PROVE  /\ RgEntries'
         /\ (\A n \in RgNames : RgHeld(n) => \E e \in RgTools : rgEntry[n] = [e EXCEPT !.aliases = rgEntry[n].aliases])'
         /\ rgEntry'[d.name].name = d.name /\ rgEntry'[d.name].aliases = ks
         /\ rgEntry'[d.name].priority = d.priority /\ rgEntry'[d.name] # Absent
         /\ \A n \in RgNames : n # d.name => rgEntry'[n] = rgEntry[n]
<1> DEFINE new == [d EXCEPT !.aliases = ks]
<1>1. d.name \in RgNames /\ d.name # NoTool /\ d.priority \in Nat /\ d.path \in RgPaths
  BY RgNamed
<1>2. d = [name |-> d.name, aliases |-> d.aliases, priority |-> d.priority, path |-> d.path]
  BY RgNamed
<1>3. new = [name |-> d.name, aliases |-> ks, priority |-> d.priority, path |-> d.path]
  BY <1>2
<1>4. ks \in SUBSET RgAliases
  OBVIOUS
<1>5. new \in RgDefs
  BY <1>1, <1>3, <1>4 DEF RgDefs
<1>6. new.name = d.name /\ new.aliases = ks /\ new.priority = d.priority /\ new # Absent
  BY <1>1, <1>3, RgAbsent
<1> HIDE DEF new
<1>7. rgEntry' = [rgEntry EXCEPT ![d.name] = new]
  BY DEF new
<1>8. rgEntry \in [RgNames -> RgDefs]
  BY DEF RgInd, RgEntries
<1>9. rgEntry'[d.name] = new /\ \A n \in RgNames : n # d.name => rgEntry'[n] = rgEntry[n]
  BY <1>1, <1>7, <1>8
<1>10. rgEntry' \in [RgNames -> RgDefs]
  BY <1>1, <1>5, <1>7, <1>8
<1>11. RgEntries'
  <2> SUFFICES ASSUME NEW n \in RgNames, rgEntry'[n] # Absent
               PROVE  rgEntry'[n].name = n
    BY <1>10 DEF RgEntries
  <2> QED BY <1>6, <1>9 DEF RgInd, RgEntries
<1>12. (\A n \in RgNames : RgHeld(n) => \E e \in RgTools : rgEntry[n] = [e EXCEPT !.aliases = rgEntry[n].aliases])'
  <2> SUFFICES ASSUME NEW n \in RgNames, rgEntry'[n] # Absent
               PROVE  \E e \in RgTools : rgEntry'[n] = [e EXCEPT !.aliases = rgEntry'[n].aliases]
    BY DEF RgHeld
  <2>1. CASE n = d.name
    <3>1. rgEntry'[n] = new /\ new = [d EXCEPT !.aliases = new.aliases]
      BY <1>6, <1>9, <2>1 DEF new
    <3> QED BY <3>1
  <2>2. CASE n # d.name
    BY <1>9, <2>2 DEF RgInd, RgTypeOK, RgHeld
  <2> QED BY <2>1, <2>2
<1> QED BY <1>6, <1>9, <1>11, <1>12

LEMMA RgKept ==
  ASSUME NEW d \in RgTools
  PROVE  /\ KeptAliases(d) \in SUBSET RgAliases /\ TakenAliases(d) \in SUBSET RgAliases
         /\ KeptAliases(d) \subseteq d.aliases
BY RgNamed DEF KeptAliases, TakenAliases

\* A definition enters where none is held or none of a higher priority.
LEMMA RgOutcome ==
  ASSUME RgInd, NEW d \in RgTools
  PROVE  /\ Outcome(d) = "entered" => rgEntry[d.name].priority <= d.priority
         /\ Outcome(d) \notin {"entered", "conflict"} => d.priority < rgEntry[d.name].priority
         /\ rgEntry[d.name].priority \in Nat /\ d.priority \in Nat
<1>1. d.name \in RgNames /\ d.priority \in Nat
  BY RgNamed
<1>2. rgEntry[d.name] \in RgDefs
  BY <1>1 DEF RgInd, RgEntries
<1>3. rgEntry[d.name].priority \in Nat
  BY <1>2 DEF RgDefs
<1>4. ~RgHeld(d.name) => rgEntry[d.name].priority = 0
  BY <1>1, RgAbsent DEF RgHeld
<1> HIDE DEF Absent
<1> QED BY <1>1, <1>3, <1>4 DEF Outcome

LEMMA RgRegister ==
  ASSUME RgInd, NEW d \in RgTools, RegisterTool(d)
  PROVE  RgInd'
<1> DEFINE ks == KeptAliases(d)
           old == rgEntry[d.name]
<1>1. d.name \in RgNames /\ d.name # NoTool /\ d.priority \in Nat /\ d.aliases \in SUBSET RgAliases
  BY RgNamed
<1>2. ks \in SUBSET RgAliases /\ TakenAliases(d) \in SUBSET RgAliases
  BY RgKept
<1>3. rgCalls' \in 0..MaxRegistered
  BY RgCount DEF RegisterTool
<1>4. rgProviders' \in Seq(RgProviders) /\ \A i \in DOMAIN rgProviders' : rgProviders'[i] \in RgProviders
  BY DEF RegisterTool, RgInd, RgTypeOK
<1>5. old \in RgDefs /\ (old # Absent => old.name = d.name)
  BY <1>1 DEF RgInd, RgEntries
<1>6. old.aliases \subseteq RgAliases
  BY <1>5 DEF RgDefs
<1>7. \A n \in RgNames : rgEntry[n].priority \in Nat
  BY DEF RgInd, RgEntries, RgDefs
<1>8. rgAlias \in [RgAliases -> RgNames \cup {NoTool}] /\ rgBest \in [RgNames -> Nat] /\ rgForfeited \subseteq RgAliases
  BY DEF RgInd, RgTypeOK
<1>9. CASE Outcome(d) = "entered"
  <2> DEFINE new == [d EXCEPT !.aliases = ks]
  <2>1. /\ rgEntry' = [rgEntry EXCEPT ![d.name] = new]
        /\ rgAlias' = AliasesAfter(old, new)
        /\ rgBest' = [rgBest EXCEPT ![d.name] = Higher(@, d.priority)]
        /\ rgForfeited' = (rgForfeited \cup (old.aliases \ ks)) \ (ks \ DeclaredBeside(d.name))
    BY <1>9 DEF RegisterTool
  <2>2. /\ RgEntries'
        /\ (\A n \in RgNames : RgHeld(n) => \E e \in RgTools : rgEntry[n] = [e EXCEPT !.aliases = rgEntry[n].aliases])'
        /\ rgEntry'[d.name].name = d.name /\ rgEntry'[d.name].aliases = ks
        /\ rgEntry'[d.name].priority = d.priority /\ rgEntry'[d.name] # Absent
        /\ \A n \in RgNames : n # d.name => rgEntry'[n] = rgEntry[n]
    BY <1>2, <2>1, RgEnters
  <2>3. new.name = d.name /\ new.aliases = ks
    <3>1. d = [name |-> d.name, aliases |-> d.aliases, priority |-> d.priority, path |-> d.path]
      BY RgNamed
    <3>2. new = [name |-> d.name, aliases |-> ks, priority |-> d.priority, path |-> d.path]
      BY <3>1
    <3> QED BY <3>2
  <2> HIDE DEF ks, new
  <2>4. \A a \in RgAliases :
          rgAlias'[a] = IF a \in ks THEN d.name
                        ELSE IF a \in old.aliases /\ rgAlias[a] = old.name THEN NoTool ELSE rgAlias[a]
    BY <2>1, <2>3 DEF AliasesAfter
  <2>5. rgAlias' \in [RgAliases -> RgNames \cup {NoTool}]
    BY <1>1, <1>8, <2>1, <2>3 DEF AliasesAfter
  <2>6. d.priority >= old.priority
    BY <1>9, RgOutcome
  <2>7. rgBest' \in [RgNames -> Nat]
    BY <1>1, <1>8, <2>1 DEF Higher
  <2>8. rgForfeited' \subseteq RgAliases
    BY <1>6, <1>8, <2>1
  <2>9. RgTypeOK'
    BY <1>3, <1>4, <2>2, <2>5, <2>7, <2>8 DEF RgTypeOK
  <2>10. HighestIsHeld'
    <3> SUFFICES ASSUME NEW n \in RgNames PROVE rgEntry'[n].priority = rgBest'[n]
      BY DEF HighestIsHeld
    <3>1. CASE n = d.name
      <4>1. rgBest[n] = old.priority
        BY <1>1, <3>1 DEF RgInd, HighestIsHeld
      <4>2. rgBest'[n] = Higher(old.priority, d.priority)
        BY <1>8, <2>1, <3>1, <4>1
      <4>3. old.priority \in Nat
        BY <1>1, <1>7
      <4>4. Higher(old.priority, d.priority) = d.priority
        BY <1>1, <2>6, <4>3 DEF Higher
      <4> QED BY <2>2, <3>1, <4>2, <4>4
    <3>2. CASE n # d.name
      BY <1>8, <2>1, <2>2, <3>2 DEF RgInd, HighestIsHeld
    <3> QED BY <3>1, <3>2
  <2>11. AliasesLead'
    <3> SUFFICES ASSUME NEW a \in RgAliases, rgAlias'[a] # NoTool
                 PROVE  /\ rgAlias'[a] \in RgNames /\ rgEntry'[rgAlias'[a]] # Absent
                        /\ a \in rgEntry'[rgAlias'[a]].aliases
      BY DEF AliasesLead, RgHeld
    <3>1. CASE a \in ks
      BY <1>1, <2>2, <2>4, <3>1
    <3>2. CASE a \notin ks
      <4>1. rgAlias'[a] = rgAlias[a] /\ ~(a \in old.aliases /\ rgAlias[a] = old.name)
        BY <2>4, <3>2
      <4>2. rgAlias[a] \in RgNames /\ rgEntry[rgAlias[a]] # Absent /\ a \in rgEntry[rgAlias[a]].aliases
        BY <4>1 DEF RgInd, AliasesLead, RgHeld
      <4>3. rgAlias[a] # d.name
        BY <1>5, <4>1, <4>2
      <4> QED BY <2>2, <4>1, <4>2, <4>3
    <3> QED BY <3>1, <3>2
  <2>12. AliasesHold'
    <3> SUFFICES ASSUME NEW n \in RgNames, NEW a \in rgEntry'[n].aliases, a \notin rgForfeited'
                 PROVE  /\ rgAlias'[a] # NoTool
                        /\ rgAlias'[a] # n => rgEntry'[rgAlias'[a]].priority > rgEntry'[n].priority
      BY DEF AliasesHold
    <3>1. a \in RgAliases
      BY <2>2 DEF RgEntries, RgDefs
    <3>2. CASE n = d.name
      <4>1. a \in ks
        BY <2>2, <3>2
      <4> QED BY <1>1, <2>4, <3>1, <3>2, <4>1
    <3>3. CASE n # d.name
      <4>1. rgEntry'[n] = rgEntry[n] /\ a \in rgEntry[n].aliases
        BY <2>2, <3>3
      <4>2. a \in DeclaredBeside(d.name)
        BY <3>3, <4>1 DEF DeclaredBeside
      <4>3. a \notin rgForfeited /\ a \notin old.aliases \ ks
        BY <2>1, <4>2, <3>1
      <4>4. rgAlias[a] # NoTool /\ (rgAlias[a] # n => rgEntry[rgAlias[a]].priority > rgEntry[n].priority)
        BY <4>1, <4>3 DEF RgInd, AliasesHold
      <4>5. rgAlias[a] \in RgNames /\ rgEntry[rgAlias[a]] # Absent /\ a \in rgEntry[rgAlias[a]].aliases
        BY <3>1, <4>4 DEF RgInd, AliasesLead, RgHeld
      <4>6. CASE a \in ks
        <5>1. rgAlias'[a] = d.name
          BY <2>4, <3>1, <4>6
        <5>2. CASE rgAlias[a] = d.name
          <6>1. old.priority > rgEntry[n].priority
            BY <3>3, <4>4, <5>2
          <6>2. d.priority > rgEntry[n].priority
            BY <1>1, <1>7, <2>6, <6>1
          <6>4. rgEntry'[rgAlias'[a]].priority = d.priority /\ rgEntry'[n].priority = rgEntry[n].priority
            BY <2>2, <4>1, <5>1
          <6> QED BY <1>1, <6>2, <5>1, <6>4
        <5>3. CASE rgAlias[a] # d.name
          <6>1. d.priority > rgEntry[rgAlias[a]].priority
            BY <4>4, <4>6, <5>3 DEF ks, KeptAliases, Takes
          <6>2. rgEntry[rgAlias[a]].priority >= rgEntry[n].priority
            BY <1>7, <4>4, <4>5
          <6>3. d.priority > rgEntry[n].priority
            BY <1>1, <1>7, <4>5, <6>1, <6>2
          <6>4. rgEntry'[rgAlias'[a]].priority = d.priority /\ rgEntry'[n].priority = rgEntry[n].priority
            BY <2>2, <4>1, <5>1
          <6> QED BY <1>1, <6>3, <5>1, <6>4
        <5> QED BY <5>2, <5>3
      <4>7. CASE a \notin ks
        <5>1. a \notin old.aliases
          BY <4>3, <4>7
        <5>2. rgAlias'[a] = rgAlias[a]
          BY <2>4, <3>1, <4>7, <5>1
        <5>3. rgAlias[a] # d.name
          BY <4>5, <5>1
        <5> QED BY <2>2, <4>1, <4>4, <4>5, <5>2, <5>3
      <4> QED BY <4>6, <4>7
    <3> QED BY <3>2, <3>3
  <2> QED BY <1>4, <2>2, <2>9, <2>10, <2>11, <2>12 DEF RgInd
<1>10. CASE Outcome(d) # "entered"
  <2>1. /\ rgEntry' = rgEntry
        /\ rgAlias' = [a \in RgAliases |-> IF a \in TakenAliases(d) THEN NoTool ELSE rgAlias[a]]
        /\ rgForfeited' = rgForfeited \cup TakenAliases(d)
    BY <1>10 DEF RegisterTool
  <2>2. rgBest' = rgBest
    <3>1. CASE Outcome(d) = "conflict"
      BY <3>1 DEF RegisterTool
    <3>2. CASE Outcome(d) # "conflict"
      <4>1. rgBest' = [rgBest EXCEPT ![d.name] = Higher(@, d.priority)]
        BY <3>2 DEF RegisterTool
      <4>2. d.priority < old.priority /\ rgBest[d.name] = old.priority
        BY <1>1, <1>10, <3>2, RgOutcome DEF RgInd, HighestIsHeld
      <4>3. Higher(rgBest[d.name], d.priority) = rgBest[d.name]
        BY <1>1, <1>7, <4>2 DEF Higher
      <4> QED BY <1>1, <1>8, <4>1, <4>3
    <3> QED BY <3>1, <3>2
  <2>3. rgAlias' \in [RgAliases -> RgNames \cup {NoTool}]
    BY <1>8, <2>1
  <2>4. RgTypeOK'
    BY <1>2, <1>3, <1>4, <1>8, <2>1, <2>2, <2>3 DEF RgTypeOK, RgInd, RgHeld
  <2>5. HighestIsHeld' /\ RgEntries'
    BY <2>1, <2>2 DEF HighestIsHeld, RgEntries, RgInd
  <2>6. AliasesLead'
    BY <2>1 DEF AliasesLead, RgInd, RgHeld
  <2>7. AliasesHold'
    <3> SUFFICES ASSUME NEW n \in RgNames, NEW a \in rgEntry[n].aliases, a \notin rgForfeited'
                 PROVE  /\ rgAlias'[a] # NoTool
                        /\ rgAlias'[a] # n => rgEntry[rgAlias'[a]].priority > rgEntry[n].priority
      BY <2>1 DEF AliasesHold
    <3>1. a \in RgAliases
      BY DEF RgInd, RgEntries, RgDefs
    <3>2. rgAlias'[a] = rgAlias[a]
      BY <2>1, <3>1
    <3> QED BY <2>1, <3>2 DEF RgInd, AliasesHold
  <2> QED BY <1>4, <2>4, <2>5, <2>6, <2>7 DEF RgInd
<1> QED BY <1>9, <1>10

LEMMA RgRemove ==
  ASSUME RgInd, NEW name \in RgNames, RemoveTool(name)
  PROVE  RgInd'
<1> DEFINE old == rgEntry[name]
<1>1. rgCalls' \in 0..MaxRegistered
  BY RgCount DEF RemoveTool
<1>2. rgProviders' \in Seq(RgProviders) /\ \A i \in DOMAIN rgProviders' : rgProviders'[i] \in RgProviders
  BY DEF RemoveTool, RgInd, RgTypeOK
<1>3. old # Absent /\ old.name = name /\ old.aliases \subseteq RgAliases
  BY DEF RemoveTool, RgHeld, RgInd, RgEntries, RgDefs
<1>4. /\ rgEntry' = [rgEntry EXCEPT ![name] = Absent] /\ rgBest' = [rgBest EXCEPT ![name] = 0]
      /\ rgAlias' = AliasesAfter(old, Absent) /\ rgForfeited' = rgForfeited \cup old.aliases
  BY DEF RemoveTool
<1>5. rgAlias \in [RgAliases -> RgNames \cup {NoTool}] /\ rgBest \in [RgNames -> Nat] /\ rgForfeited \subseteq RgAliases
  BY DEF RgInd, RgTypeOK
<1>6. rgEntry \in [RgNames -> RgDefs] /\ rgEntry' \in [RgNames -> RgDefs]
  BY <1>4, RgAbsent DEF RgInd, RgEntries
<1>7. rgEntry'[name] = Absent /\ \A n \in RgNames : n # name => rgEntry'[n] = rgEntry[n]
  BY <1>4, <1>6
<1>8. \A a \in RgAliases :
        rgAlias'[a] = IF a \in old.aliases /\ rgAlias[a] = name THEN NoTool ELSE rgAlias[a]
  BY <1>3, <1>4, RgAbsent DEF AliasesAfter
<1>9. rgAlias' \in [RgAliases -> RgNames \cup {NoTool}]
  BY <1>3, <1>4, <1>5, RgAbsent DEF AliasesAfter
<1>10. RgEntries'
  <2> SUFFICES ASSUME NEW n \in RgNames, rgEntry'[n] # Absent
               PROVE  rgEntry'[n].name = n
    BY <1>6 DEF RgEntries
  <2> QED BY <1>7 DEF RgInd, RgEntries
<1>11. (\A n \in RgNames : RgHeld(n) => \E e \in RgTools : rgEntry[n] = [e EXCEPT !.aliases = rgEntry[n].aliases])'
  <2> SUFFICES ASSUME NEW n \in RgNames, rgEntry'[n] # Absent
               PROVE  \E e \in RgTools : rgEntry'[n] = [e EXCEPT !.aliases = rgEntry'[n].aliases]
    BY DEF RgHeld
  <2> QED BY <1>7 DEF RgInd, RgTypeOK, RgHeld
<1>12. RgTypeOK'
  BY <1>1, <1>2, <1>3, <1>4, <1>5, <1>9, <1>11 DEF RgTypeOK
<1>13. HighestIsHeld'
  <2> SUFFICES ASSUME NEW n \in RgNames PROVE rgEntry'[n].priority = rgBest'[n]
    BY DEF HighestIsHeld
  <2>1. CASE n = name
    BY <1>4, <1>5, <1>7, <2>1, RgAbsent
  <2>2. CASE n # name
    BY <1>4, <1>5, <1>7, <2>2 DEF HighestIsHeld, RgInd
  <2> QED BY <2>1, <2>2
<1>14. AliasesLead'
  <2> SUFFICES ASSUME NEW a \in RgAliases, rgAlias'[a] # NoTool
               PROVE  /\ rgAlias'[a] \in RgNames /\ rgEntry'[rgAlias'[a]] # Absent
                      /\ a \in rgEntry'[rgAlias'[a]].aliases
    BY DEF AliasesLead, RgHeld
  <2>1. rgAlias'[a] = rgAlias[a] /\ ~(a \in old.aliases /\ rgAlias[a] = name)
    BY <1>8
  <2>2. rgAlias[a] \in RgNames /\ rgEntry[rgAlias[a]] # Absent /\ a \in rgEntry[rgAlias[a]].aliases
    BY <2>1 DEF RgInd, AliasesLead, RgHeld
  <2> QED BY <1>7, <2>1, <2>2
<1>15. AliasesHold'
  <2> SUFFICES ASSUME NEW n \in RgNames, NEW a \in rgEntry'[n].aliases, a \notin rgForfeited'
               PROVE  /\ rgAlias'[a] # NoTool
                      /\ rgAlias'[a] # n => rgEntry'[rgAlias'[a]].priority > rgEntry'[n].priority
    BY DEF AliasesHold
  <2>1. n # name /\ rgEntry'[n] = rgEntry[n] /\ a \in rgEntry[n].aliases
    BY <1>7, RgAbsent
  <2>2. a \in RgAliases /\ a \notin rgForfeited /\ a \notin old.aliases
    BY <1>4, <2>1 DEF RgInd, RgEntries, RgDefs
  <2>3. rgAlias[a] # NoTool /\ (rgAlias[a] # n => rgEntry[rgAlias[a]].priority > rgEntry[n].priority)
    BY <2>1, <2>2 DEF RgInd, AliasesHold
  <2>4. rgAlias[a] \in RgNames /\ a \in rgEntry[rgAlias[a]].aliases
    BY <2>2, <2>3 DEF RgInd, AliasesLead, RgHeld
  <2>5. rgAlias'[a] = rgAlias[a] /\ rgAlias[a] # name
    BY <1>8, <2>2, <2>4
  <2> QED BY <1>7, <2>1, <2>3, <2>4, <2>5
<1> QED BY <1>2, <1>10, <1>12, <1>13, <1>14, <1>15 DEF RgInd

----
LEMMA AppendFacts ==
  ASSUME NEW S, NEW q \in Seq(S), NEW e \in S
  PROVE  /\ Append(q, e) \in Seq(S)
         /\ Len(Append(q, e)) = Len(q) + 1
         /\ \A i \in 1 .. Len(q) : Append(q, e)[i] = q[i]
         /\ Append(q, e)[Len(q) + 1] = e
OBVIOUS

LEMMA FunctionIsSeq ==
  ASSUME NEW S, NEW n \in Nat, NEW f \in [1 .. n -> S]
  PROVE  f \in Seq(S) /\ Len(f) = n /\ DOMAIN f = 1 .. n
OBVIOUS

LEMMA LeastNatural ==
  ASSUME NEW S \in SUBSET Nat, S # {}
  PROVE  \E x \in S : \A y \in S : x <= y
<1>1. PICK x \in S : \A y \in S : ~ (<<y, x>> \in OpToRel(<, Nat))
  BY NatLessThanWellFounded, WFMin, Zenon
<1>2. \A y \in S : ~ (y < x)
  BY <1>1, Zenon DEF OpToRel
<1> QED BY <1>2

LEMMA RgWithout ==
  ASSUME rgProviders \in Seq(RgProviders), NEW name
  PROVE  Without(name) \in Seq(RgProviders)
<1> DEFINE named == {i \in DOMAIN rgProviders : rgProviders[i].name = name}
           at == CHOOSE i \in named : TRUE
           rest == [i \in 1..(Len(rgProviders) - 1) |-> rgProviders[IF i < at THEN i ELSE i + 1]]
<1>1. CASE named = {}
  BY <1>1 DEF Without
<1>2. CASE named # {}
  <2>1. Len(rgProviders) \in Nat /\ DOMAIN rgProviders = 1..Len(rgProviders)
        /\ \A i \in 1..Len(rgProviders) : rgProviders[i] \in RgProviders
    OBVIOUS
  <2>2. at \in named
    BY <1>2
  <2>3. at \in 1..Len(rgProviders) /\ Len(rgProviders) - 1 \in Nat
    BY <2>1, <2>2
  <2>4. Without(name) = rest
    BY <1>2 DEF Without
  <2> HIDE DEF named, at
  <2>5. \A i \in 1..(Len(rgProviders) - 1) : rgProviders[IF i < at THEN i ELSE i + 1] \in RgProviders
    BY <2>1, <2>3
  <2>6. rest \in [1..(Len(rgProviders) - 1) -> RgProviders]
    BY <2>5
  <2> HIDE DEF rest
  <2> QED BY <2>3, <2>4, <2>6, FunctionIsSeq
<1> QED BY <1>1, <1>2

\* A change of the providers leaves the tools alone.
LEMMA RgProvided ==
  ASSUME RgInd, Counted, rgProviders' \in Seq(RgProviders), UNCHANGED toolVars
  PROVE  RgInd'
<1>1. rgCalls' \in 0..MaxRegistered
  BY RgCount
<1>2. rgEntry' = rgEntry /\ rgAlias' = rgAlias /\ rgBest' = rgBest /\ rgForfeited' = rgForfeited
  BY DEF toolVars
<1>3. \A i \in DOMAIN rgProviders' : rgProviders'[i] \in RgProviders
  OBVIOUS
<1>4. RgTypeOK'
  BY <1>1, <1>2, <1>3 DEF RgInd, RgTypeOK, RgHeld
<1>5. RgEntries' /\ HighestIsHeld' /\ AliasesLead' /\ AliasesHold'
  BY <1>2 DEF RgInd, RgEntries, HighestIsHeld, AliasesLead, AliasesHold, RgHeld
<1> QED BY <1>4, <1>5 DEF RgInd

LEMMA RgStep ==
  ASSUME RgInd, [RgNext]_rgVars
  PROVE  RgInd'
<1>1. ASSUME NEW d \in RgTools, RegisterTool(d) PROVE RgInd'
  BY <1>1, RgRegister
<1>2. ASSUME NEW n \in RgNames, RemoveTool(n) PROVE RgInd'
  BY <1>2, RgRemove
<1>3. ASSUME NEW p \in RgProviders, RegisterProvider(p) PROVE RgInd'
  <2>1. Without(p.name) \in Seq(RgProviders)
    BY RgWithout DEF RgInd
  <2>2. rgProviders' \in Seq(RgProviders)
    BY <1>3, <2>1, AppendFacts DEF RegisterProvider
  <2> QED BY <1>3, <2>2, RgProvided DEF RegisterProvider
<1>4. ASSUME NEW p \in RgProviders, RemoveProvider(p.name) PROVE RgInd'
  <2>1. rgProviders' \in Seq(RgProviders)
    BY <1>4, RgWithout DEF RgInd, RemoveProvider
  <2> QED BY <1>4, <2>1, RgProvided DEF RemoveProvider
<1>5. CASE UNCHANGED rgVars
  <2>1. rgEntry' = rgEntry /\ rgAlias' = rgAlias /\ rgBest' = rgBest /\ rgForfeited' = rgForfeited
        /\ rgProviders' = rgProviders /\ rgCalls' = rgCalls
    BY <1>5 DEF rgVars, toolVars
  <2> QED BY <2>1 DEF RgInd, RgTypeOK, RgEntries, HighestIsHeld, AliasesLead, AliasesHold, RgHeld
<1> QED BY <1>1, <1>2, <1>3, <1>4, <1>5 DEF RgNext

LEMMA RgStarts ==
  RgInit => RgInd
<1> SUFFICES ASSUME RgInit PROVE RgInd
  OBVIOUS
<1>1. /\ rgEntry = [n \in RgNames |-> Absent] /\ rgAlias = [a \in RgAliases |-> NoTool]
      /\ rgProviders = <<>> /\ rgCalls = 0
      /\ rgBest = [n \in RgNames |-> 0] /\ rgForfeited = {}
  BY DEF RgInit
<1>2. rgProviders \in Seq(RgProviders) /\ \A i \in DOMAIN rgProviders : rgProviders[i] \in RgProviders
  <2>1. <<>> \in Seq(RgProviders) /\ DOMAIN <<>> = {}
    OBVIOUS
  <2> QED BY <1>1, <2>1
<1>3. \A n \in RgNames : rgEntry[n] = Absent
  BY <1>1
<1>4. RgTypeOK
  <2>1. \A n \in RgNames : ~RgHeld(n)
    BY <1>3 DEF RgHeld
  <2>2. MaxRegistered \in Nat
    BY RgAssumption
  <2>3. rgCalls \in 0..MaxRegistered
    BY <1>1, <2>2
  <2>4. rgAlias \in [RgAliases -> RgNames \cup {NoTool}] /\ rgBest \in [RgNames -> Nat] /\ rgForfeited \subseteq RgAliases
    BY <1>1
  <2> QED BY <1>2, <2>1, <2>3, <2>4 DEF RgTypeOK
<1>5. RgEntries
  BY <1>1, <1>3, RgAbsent DEF RgEntries
<1>6. HighestIsHeld /\ AliasesHold
  BY <1>1, <1>3, RgAbsent DEF HighestIsHeld, AliasesHold
<1>7. AliasesLead
  BY <1>1 DEF AliasesLead
<1> QED BY <1>2, <1>4, <1>5, <1>6, <1>7 DEF RgInd

----
\* The invocation won against another.
Won(won, other) ==
  /\ other.priority <= won.priority
  /\ other.priority = won.priority =>
       Before(won, other) \/ (other.label = won.label /\ other.kind = won.kind)

LEMMA WinnerWon ==
  ASSUME NEW old \in RgSources, NEW new \in RgSources
  PROVE  /\ Winner(old, new) \in RgSources
         /\ Won(Winner(old, new), new)
         /\ \A other \in RgSources : Won(old, other) => Won(Winner(old, new), other)
BY DEF RgSources, Winner, Won, Before

Collects(lists, n, best) ==
  \A i \in 1..n : best[i] = IF i = 1 THEN lists[1] ELSE Winner(best[i - 1], lists[i])

\* The definitions can be collected one after the other.
LEMMA CollectedSome ==
  ASSUME NEW lists \in Seq(RgSources), NEW n \in 0..Len(lists)
  PROVE  \E best \in [1..n -> RgSources] : Collects(lists, n, best)
<1> DEFINE Failing == {k \in 0..Len(lists) : ~ \E best \in [1..k -> RgSources] : Collects(lists, k, best)}
<1>1. SUFFICES ASSUME Failing # {} PROVE FALSE
  OBVIOUS
<1>2. Failing \in SUBSET Nat
  OBVIOUS
<1>3. PICK k \in Failing : \A m \in Failing : k <= m
  BY <1>1, <1>2, LeastNatural
<1>4. k \in 0..Len(lists) /\ ~ \E best \in [1..k -> RgSources] : Collects(lists, k, best)
  BY <1>3
<1>5. k # 0
  <2>1. SUFFICES ASSUME k = 0 PROVE FALSE
    OBVIOUS
  <2>2. [i \in 1..0 |-> lists[1]] \in [1..k -> RgSources]
    BY <2>1
  <2>3. Collects(lists, k, [i \in 1..0 |-> lists[1]])
    BY <2>1 DEF Collects
  <2> QED BY <1>4, <2>2, <2>3
<1>6. k - 1 \in 0..Len(lists) /\ k - 1 \notin Failing
  BY <1>2, <1>3, <1>4, <1>5
<1>7. PICK before \in [1..(k - 1) -> RgSources] : Collects(lists, k - 1, before)
  BY <1>6
<1> DEFINE last == IF k = 1 THEN lists[1] ELSE Winner(before[k - 1], lists[k])
           best == [i \in 1..k |-> IF i = k THEN last ELSE before[i]]
<1>8. \A i \in 1..Len(lists) : lists[i] \in RgSources
  OBVIOUS
<1>9. last \in RgSources
  BY <1>4, <1>5, <1>7, <1>8, WinnerWon
<1> HIDE DEF last
<1>10. best \in [1..k -> RgSources]
  BY <1>4, <1>5, <1>9
<1>11. Collects(lists, k, best)
  <2> SUFFICES ASSUME NEW i \in 1..k
               PROVE  best[i] = IF i = 1 THEN lists[1] ELSE Winner(best[i - 1], lists[i])
    BY DEF Collects
  <2>1. CASE i = k
    BY <1>4, <1>5, <2>1 DEF last
  <2>2. CASE i # k
    <3>1. i \in 1..(k - 1) /\ (i # 1 => i - 1 \in 1..(k - 1))
      BY <1>4, <2>2
    <3>2. before[i] = IF i = 1 THEN lists[1] ELSE Winner(before[i - 1], lists[i])
      BY <1>7, <3>1 DEF Collects
    <3>3. best[i] = before[i] /\ (i # 1 => best[i - 1] = before[i - 1])
      BY <1>4, <2>2, <3>1
    <3> QED BY <3>2, <3>3
  <2> QED BY <2>1, <2>2
<1> HIDE DEF best
<1> QED BY <1>4, <1>10, <1>11

\* What was collected won against everything before it.
LEMMA CollectedWon ==
  ASSUME NEW lists \in Seq(RgSources), NEW n \in 1..Len(lists), NEW best, Collects(lists, n, best)
  PROVE  \A i \in 1..n : Won(best[n], lists[i])
<1> DEFINE Right(k) == best[k] \in RgSources /\ \A i \in 1..k : Won(best[k], lists[i])
           Failing == {k \in 1..n : ~Right(k)}
<1>1. SUFFICES ASSUME Failing # {} PROVE FALSE
  OBVIOUS
<1>2. Failing \in SUBSET Nat
  OBVIOUS
<1>3. PICK k \in Failing : \A m \in Failing : k <= m
  BY <1>1, <1>2, LeastNatural
<1>4. k \in 1..n /\ ~Right(k)
  BY <1>3
<1>5. \A i \in 1..n : lists[i] \in RgSources
  OBVIOUS
<1>6. best[k] = IF k = 1 THEN lists[1] ELSE Winner(best[k - 1], lists[k])
  BY <1>4 DEF Collects
<1>7. CASE k = 1
  <2>1. best[k] = lists[k] /\ lists[k] \in RgSources
    BY <1>4, <1>5, <1>6, <1>7
  <2>2. Won(lists[k], lists[k])
    BY <2>1 DEF Won, RgSources
  <2> QED BY <1>4, <1>7, <2>1, <2>2
<1>8. CASE k # 1
  <2>1. k - 1 \in 1..n /\ k - 1 \notin Failing
    BY <1>2, <1>3, <1>4, <1>8
  <2>2. Right(k - 1)
    BY <2>1
  <2>3. best[k] = Winner(best[k - 1], lists[k]) /\ lists[k] \in RgSources
    BY <1>4, <1>5, <1>6, <1>8
  <2>4. best[k] \in RgSources /\ Won(best[k], lists[k])
    BY <2>2, <2>3, WinnerWon
  <2>5. ASSUME NEW i \in 1..k PROVE Won(best[k], lists[i])
    <3>1. CASE i = k
      BY <2>4, <3>1
    <3>2. CASE i # k
      <4>1. i \in 1..(k - 1) /\ lists[i] \in RgSources
        BY <1>4, <1>5, <3>2
      <4> QED BY <2>2, <2>3, <4>1, WinnerWon
    <3> QED BY <3>1, <3>2
  <2> QED BY <1>4, <2>4, <2>5
<1> QED BY <1>7, <1>8

\* Whatever the sequence of the providers, what is collected won against all of them.
LEMMA RgCollected ==
  ASSUME RgInd
  PROVE  CollectedIsBest
<1> DEFINE n == Len(rgProviders)
           Right(f) == f = [i \in DOMAIN Listed |-> IF i = 1 THEN Listed[1] ELSE Winner(f[i - 1], Listed[i])]
           best == CHOOSE f : Right(f)
<1>1. SUFFICES ASSUME rgProviders # <<>> PROVE \A i \in DOMAIN Listed : Won(Offered, Listed[i])
  BY DEF CollectedIsBest, Won
<1>2. rgProviders \in Seq(RgProviders)
  BY DEF RgInd
<1>3. n \in Nat /\ n # 0 /\ DOMAIN rgProviders = 1..n /\ \A i \in 1..n : rgProviders[i] \in RgProviders
  BY <1>1, <1>2
<1>4. Listed \in [1..n -> RgSources]
  <2>1. \A i \in 1..n : rgProviders[i].lists \in RgSources
    BY <1>3, RgAssumption
  <2> QED BY <1>3, <2>1 DEF Listed
<1> HIDE DEF n
<1>5. Listed \in Seq(RgSources) /\ Len(Listed) = n /\ DOMAIN Listed = 1..n
  BY <1>3, <1>4, FunctionIsSeq
<1>6. PICK f \in [1..n -> RgSources] : Collects(Listed, n, f)
  <2>1. n \in 0..Len(Listed)
    BY <1>3, <1>5
  <2> QED BY <1>5, <2>1, CollectedSome
<1>7. Right(f)
  BY <1>3, <1>5, <1>6 DEF Collects
<1>8. Right(best)
  BY <1>7
<1>9. Offered = best[n]
  BY <1>5 DEF Offered
<1> HIDE DEF best
<1>10. Collects(Listed, n, best)
  <2> SUFFICES ASSUME NEW i \in 1..n
               PROVE  best[i] = IF i = 1 THEN Listed[1] ELSE Winner(best[i - 1], Listed[i])
    BY DEF Collects
  <2>1. best = [j \in 1..n |-> IF j = 1 THEN Listed[1] ELSE Winner(best[j - 1], Listed[j])]
    BY <1>5, <1>8
  <2> HIDE DEF Right
  <2> QED BY <2>1
<1>11. n \in 1..Len(Listed)
  BY <1>3, <1>5
<1>12. \A i \in 1..n : Won(best[n], Listed[i])
  BY <1>5, <1>10, <1>11, CollectedWon
<1> QED BY <1>5, <1>9, <1>12

LEMMA RgIndSafe ==
  RgInd => RegistriesSafe
BY RgCollected DEF RgInd, RegistriesSafe

----
(* The reports of a workflow run: WorkflowReports. *)

Holding == {"starting", "advance", "pulling", "finishing", "failing"}

\* Who is in a call that awaits holds the lock.
WrHeld ==
  \A c \in WrClients : /\ wrAt[c] \in Holding <=> wrLock = c
                       /\ wrOp[c] = "none" => wrAt[c] = "idle"

\* What is so while a task is at each place.
WrStarting ==
  \A c \in WrClients : wrAt[c] = "starting" =>
    ~wrStarted /\ ~wrFailure /\ (wrFinished => "revived" \in wrGone)

WrPulled ==
  \A c \in WrClients : wrAt[c] \in {"advance", "pulling"} =>
    /\ wrStarted /\ ~wrFinished /\ ~wrFailure
    /\ wrAt[c] = "pulling" => wrTurn # "none"

WrFinishing ==
  \A c \in WrClients : wrAt[c] = "finishing" =>
    /\ wrStarted /\ wrFinished /\ ~wrFailure
    /\ wrOwner = "helper" => wrClosings = 0
    /\ wrOwner = "helper" /\ wrFinal = "completed" /\ "turn" \notin wrGone => wrMine = "completed"

WrFailing == \A c \in WrClients : wrAt[c] = "failing" => wrOwner = "helper" /\ wrFinished /\ wrFailure

\* What the flags of the stream say of each other.
WrFlags ==
  /\ wrReport # "none" => wrFinished
  /\ wrFailure => wrFinished
  /\ wrFinished /\ ~wrStarted => wrReport # "none" \/ wrFailure
  /\ wrDead => wrFailure \/ "turn" \in wrGone
  /\ wrTurn # "none" => wrStarted
  /\ wrReport # "none" /\ wrFailure => "revived" \in wrGone
  /\ wrFinished => \/ wrReport # "none" \/ wrFailure \/ "finish" \in wrGone
                   \/ \E c \in WrClients : wrAt[c] = "finishing"

WrClosed ==
  IF wrOwner = "caller" THEN wrClosings = 0
  ELSE /\ wrClosings <= 1
       /\ wrClosings = 1 => wrFinished
       /\ wrFinished => wrClosings = 1 \/ \E c \in WrClients : wrAt[c] \in {"finishing", "failing"}

\* The prompt among queued commands.
Commands == {"mine", "other"}
Once(q) == \A i, j \in 1..Len(q) : q[i] = "mine" /\ q[j] = "mine" => i = j
NoPrompt(q) == \A i \in 1..Len(q) : q[i] # "mine"
OnlyPrompts(q) == \A i \in 1..Len(q) : q[i] = "mine"

\* The prompt is in the queue once at most, and not while its turn runs.
WrPrompt ==
  /\ Once(wrQueue)
  /\ ~wrStarted \/ wrTurn = "mine" => NoPrompt(wrQueue)
  /\ wrTurn = "other" /\ wrStatus = "INTERRUPTED" => "queue" \in wrGone
  /\ wrFinished /\ wrGone \cap {"queue", "turn", "revived"} = {} => NoPrompt(wrQueue)

\* In a session of its own the prompt is all there is.
WrHelper ==
  wrOwner = "helper" =>
    /\ OnlyPrompts(wrQueue)
    /\ wrTurn # "other"
    /\ wrStarted /\ ~wrFinished /\ ~wrDead => wrQueue # <<>> \/ wrTurn = "mine"
    /\ wrTurn = "mine" /\ wrEnded => wrTerminal # "none"
    /\ wrTerminal # "none" /\ wrFinal = "completed" => wrMine = "completed"
    /\ wrReport = "completed" /\ "turn" \notin wrGone => wrMine = "completed"

WrInd == /\ WrTypeOK /\ AskedOnce /\ WrHeld /\ WrStarting /\ WrPulled /\ WrFinishing /\ WrFailing
         /\ WrFlags /\ WrClosed /\ WrPrompt /\ WrHelper

----
LEMMA FrontFacts ==
  ASSUME NEW S, NEW q \in Seq(S), NEW e \in S
  PROVE  /\ <<e>> \o q \in Seq(S)
         /\ Len(<<e>> \o q) = Len(q) + 1
         /\ (<<e>> \o q)[1] = e
         /\ \A i \in 1 .. Len(q) : (<<e>> \o q)[i + 1] = q[i]
OBVIOUS

LEMMA TailFacts ==
  ASSUME NEW S, NEW q \in Seq(S), q # <<>>
  PROVE  /\ Tail(q) \in Seq(S) /\ Head(q) \in S /\ Head(q) = q[1]
         /\ Len(q) \in Nat \ {0} /\ Len(Tail(q)) = Len(q) - 1
         /\ \A i \in 1 .. Len(q) - 1 : Tail(q)[i] = q[i + 1]
OBVIOUS

\* A command that is queued, before or behind the others.
LEMMA QueuedPrompt ==
  ASSUME NEW q \in Seq(Commands), NEW e \in Commands, NEW r \in {<<e>> \o q, Append(q, e)}
  PROVE  /\ r \in Seq(Commands)
         /\ NoPrompt(q) => Once(r)
         /\ e = "other" /\ Once(q) => Once(r)
         /\ e = "other" /\ NoPrompt(q) => NoPrompt(r)
         /\ e = "mine" /\ OnlyPrompts(q) => OnlyPrompts(r) /\ r # <<>>
<1>1. CASE r = <<e>> \o q
  <2>1. r \in Seq(Commands) /\ Len(r) = Len(q) + 1 /\ r[1] = e /\ Len(q) \in Nat
        /\ \A i \in 1 .. Len(q) : r[i + 1] = q[i]
    BY <1>1, FrontFacts
  <2>2. \A i \in 1 .. Len(r) : i = 1 \/ (i - 1 \in 1 .. Len(q) /\ r[i] = q[i - 1])
    <3> SUFFICES ASSUME NEW i \in 1 .. Len(r), i # 1 PROVE i - 1 \in 1 .. Len(q) /\ r[i] = q[i - 1]
      OBVIOUS
    <3>1. i - 1 \in 1 .. Len(q)
      BY <2>1
    <3>2. r[(i - 1) + 1] = q[i - 1]
      BY <2>1, <3>1
    <3> QED BY <2>1, <3>1, <3>2
  <2>3. r # <<>>
    BY <2>1
  <2>4. NoPrompt(q) => Once(r)
    BY <2>1, <2>2 DEF Once, NoPrompt
  <2>5. e = "other" /\ Once(q) => Once(r)
    <3> SUFFICES ASSUME e = "other", Once(q), NEW i \in 1 .. Len(r), NEW j \in 1 .. Len(r),
                        r[i] = "mine", r[j] = "mine"
                 PROVE  i = j
      BY DEF Once
    <3>1. i - 1 \in 1 .. Len(q) /\ q[i - 1] = "mine" /\ j - 1 \in 1 .. Len(q) /\ q[j - 1] = "mine"
      BY <2>1, <2>2
    <3>2. i - 1 = j - 1
      BY <3>1 DEF Once
    <3> QED BY <3>2
  <2>6. e = "other" /\ NoPrompt(q) => NoPrompt(r)
    BY <2>1, <2>2 DEF NoPrompt
  <2>7. e = "mine" /\ OnlyPrompts(q) => OnlyPrompts(r)
    BY <2>1, <2>2 DEF OnlyPrompts
  <2> QED BY <2>1, <2>3, <2>4, <2>5, <2>6, <2>7
<1>2. CASE r = Append(q, e)
  <2>1. r \in Seq(Commands) /\ Len(r) = Len(q) + 1 /\ r[Len(q) + 1] = e /\ Len(q) \in Nat
        /\ \A i \in 1 .. Len(q) : r[i] = q[i]
    BY <1>2, AppendFacts
  <2>2. \A i \in 1 .. Len(r) : i = Len(q) + 1 \/ (i \in 1 .. Len(q) /\ r[i] = q[i])
    BY <2>1
  <2>3. r # <<>>
    BY <2>1
  <2>4. NoPrompt(q) => Once(r)
    BY <2>1, <2>2 DEF Once, NoPrompt
  <2>5. e = "other" /\ Once(q) => Once(r)
    BY <2>1, <2>2 DEF Once
  <2>6. e = "other" /\ NoPrompt(q) => NoPrompt(r)
    BY <2>1, <2>2 DEF NoPrompt
  <2>7. e = "mine" /\ OnlyPrompts(q) => OnlyPrompts(r)
    BY <2>1, <2>2 DEF OnlyPrompts
  <2> QED BY <2>1, <2>3, <2>4, <2>5, <2>6, <2>7
<1> QED BY <1>1, <1>2

\* The command whose turn comes.
LEMMA TailPrompt ==
  ASSUME NEW q \in Seq(Commands), q # <<>>
  PROVE  /\ Tail(q) \in Seq(Commands) /\ Head(q) \in Commands
         /\ Once(q) => Once(Tail(q)) /\ (Head(q) = "mine" => NoPrompt(Tail(q)))
         /\ NoPrompt(q) => NoPrompt(Tail(q)) /\ Head(q) = "other"
         /\ OnlyPrompts(q) => OnlyPrompts(Tail(q)) /\ Head(q) = "mine"
<1>1. /\ Tail(q) \in Seq(Commands) /\ Head(q) \in Commands /\ Head(q) = q[1]
      /\ Len(q) \in Nat \ {0} /\ Len(Tail(q)) = Len(q) - 1
      /\ \A i \in 1 .. Len(q) - 1 : Tail(q)[i] = q[i + 1]
  BY TailFacts
<1>2. \A i \in 1 .. Len(Tail(q)) : i + 1 \in 1 .. Len(q) /\ Tail(q)[i] = q[i + 1]
  BY <1>1
<1>3. 1 \in 1 .. Len(q)
  BY <1>1
<1>4. Once(q) => Once(Tail(q))
  BY <1>1, <1>2 DEF Once
<1>5. Once(q) /\ Head(q) = "mine" => NoPrompt(Tail(q))
  BY <1>1, <1>2, <1>3 DEF Once, NoPrompt
<1>6. NoPrompt(q) => NoPrompt(Tail(q)) /\ Head(q) = "other"
  BY <1>1, <1>2, <1>3 DEF NoPrompt, Commands
<1>7. OnlyPrompts(q) => OnlyPrompts(Tail(q)) /\ Head(q) = "mine"
  BY <1>1, <1>2, <1>3 DEF OnlyPrompts
<1> QED BY <1>1, <1>4, <1>5, <1>6, <1>7

LEMMA WrIndQueueOther == ASSUME WrInd, QueueOther PROVE WrInd'
<1>0. /\ wrQueue' \in Seq(Commands)
      /\ NoPrompt(wrQueue) => Once(wrQueue')
      /\ "other" = "other" /\ Once(wrQueue) => Once(wrQueue')
      /\ "other" = "other" /\ NoPrompt(wrQueue) => NoPrompt(wrQueue')
      /\ "other" = "mine" /\ OnlyPrompts(wrQueue) => OnlyPrompts(wrQueue') /\ wrQueue' # <<>>
  BY QueuedPrompt DEF QueueOther, Queued, WrInd, WrTypeOK, Commands
<1>1. WrTypeOK'
  BY <1>0, WrAssumption DEF WrInd, WrTypeOK, QueueOther, streamVars, callVars, ghostVars, Commands
<1>2. AskedOnce'
  BY <1>0 DEF WrInd, AskedOnce, QueueOther, streamVars
<1>3. WrHeld'
  BY <1>0 DEF WrInd, WrHeld, QueueOther, callVars
<1>4. WrStarting'
  BY <1>0, WrAssumption DEF WrInd, WrTypeOK, WrStarting, QueueOther, streamVars, sessionVars, callVars, ghostVars
<1>5. WrPulled'
  BY <1>0 DEF WrInd, WrPulled, QueueOther, streamVars, callVars
<1>6. WrFinishing'
  BY <1>0 DEF WrInd, WrFinishing, QueueOther, streamVars, callVars
<1>7. WrFailing'
  BY <1>0 DEF WrInd, WrFailing, QueueOther, callVars
<1>8. WrFlags'
  BY <1>0 DEF WrInd, WrFlags, QueueOther, streamVars, callVars, ghostVars
<1>9. WrClosed'
  BY <1>0 DEF WrInd, WrClosed, QueueOther
<1>10. WrPrompt'
  BY <1>0 DEF WrInd, WrPrompt, QueueOther, streamVars, ghostVars
<1>11. WrHelper'
  BY <1>0 DEF WrInd, WrHelper, QueueOther
<1> QED BY <1>1, <1>2, <1>3, <1>4, <1>5, <1>6, <1>7, <1>8, <1>9, <1>10, <1>11 DEF WrInd

LEMMA WrIndHostInterrupt == ASSUME WrInd, HostInterrupt PROVE WrInd'
<1>1. WrTypeOK'
  BY DEF WrInd, WrTypeOK, HostInterrupt, Interrupted, streamVars, callVars
<1>2. AskedOnce'
  BY DEF WrInd, AskedOnce, HostInterrupt, Interrupted, streamVars
<1>3. WrHeld'
  BY DEF WrInd, WrHeld, HostInterrupt, Interrupted, callVars
<1>4. WrStarting'
  BY DEF WrInd, WrStarting, HostInterrupt, Interrupted, streamVars, callVars
<1>5. WrPulled'
  BY DEF WrInd, WrPulled, HostInterrupt, Interrupted, streamVars, callVars
<1>6. WrFinishing'
  BY DEF WrInd, WrFinishing, HostInterrupt, Interrupted, streamVars, callVars
<1>7. WrFailing'
  BY DEF WrInd, WrFailing, HostInterrupt, Interrupted, streamVars, callVars
<1>8. WrFlags'
  BY DEF WrInd, WrFlags, HostInterrupt, Interrupted, streamVars, callVars
<1>9. WrClosed'
  BY DEF WrInd, WrClosed, HostInterrupt, Interrupted, streamVars, callVars
<1>10. WrPrompt'
  BY DEF WrInd, WrPrompt, HostInterrupt, Interrupted, streamVars
<1>11. WrHelper'
  BY DEF WrInd, WrHelper, HostInterrupt, Interrupted, streamVars
<1> QED BY <1>1, <1>2, <1>3, <1>4, <1>5, <1>6, <1>7, <1>8, <1>9, <1>10, <1>11 DEF WrInd

LEMMA WrIndWrCall == ASSUME WrInd, NEW c \in WrClients, NEW op \in Ops, WrCall(c, op) PROVE WrInd'
<1>1. WrTypeOK'
  BY DEF WrInd, WrTypeOK, WrCall, streamVars, sessionVars, ghostVars
<1>2. AskedOnce'
  BY DEF WrInd, AskedOnce, WrCall, streamVars, sessionVars
<1>3. WrHeld'
  BY DEF WrInd, WrTypeOK, WrHeld, Holding, Ops, WrCall
<1>4. WrStarting'
  BY DEF WrInd, WrStarting, WrCall, streamVars, ghostVars
<1>5. WrPulled'
  BY DEF WrInd, WrPulled, WrCall, streamVars, sessionVars
<1>6. WrFinishing'
  BY DEF WrInd, WrFinishing, WrCall, streamVars, sessionVars, ghostVars
<1>7. WrFailing'
  BY DEF WrInd, WrFailing, WrCall, streamVars
<1>8. WrFlags'
  BY DEF WrInd, WrHeld, WrFlags, WrCall, streamVars, sessionVars, ghostVars
<1>9. WrClosed'
  BY DEF WrInd, WrHeld, WrClosed, WrCall, streamVars, sessionVars
<1>10. WrPrompt'
  BY DEF WrInd, WrPrompt, WrCall, streamVars, sessionVars, ghostVars
<1>11. WrHelper'
  BY DEF WrInd, WrHelper, WrCall, streamVars, sessionVars, ghostVars
<1> QED BY <1>1, <1>2, <1>3, <1>4, <1>5, <1>6, <1>7, <1>8, <1>9, <1>10, <1>11 DEF WrInd

LEMMA WrIndDiscard == ASSUME WrInd, NEW c \in WrClients, Discard(c) PROVE WrInd'
<1>1. WrTypeOK'
  BY DEF WrInd, WrTypeOK, WrPrompt, WrHelper, Terminals, Discard, Waiting, LockFree, Discards, GiveBack, CloseStatus, ghostVars, NoPrompt, OnlyPrompts
<1>2. AskedOnce'
  BY DEF WrInd, AskedOnce, Discard, Waiting, LockFree, Discards, GiveBack, CloseStatus
<1>3. WrHeld'
  BY DEF WrInd, WrTypeOK, WrHeld, Holding, Discard, Waiting, LockFree, Discards, GiveBack, CloseStatus
<1>4. WrStarting'
  BY WrAssumption DEF WrInd, WrHeld, WrStarting, Holding, Discard, Waiting, LockFree, Discards, GiveBack, CloseStatus, ghostVars
<1>5. WrPulled'
  BY DEF WrInd, WrPulled, Discard, Waiting, LockFree, Discards, GiveBack, CloseStatus
<1>6. WrFinishing'
  BY DEF WrInd, WrFinishing, Discard, Waiting, LockFree, Discards, GiveBack, CloseStatus
<1>7. WrFailing'
  BY DEF WrInd, WrFailing, Discard, Waiting, LockFree, Discards, GiveBack, CloseStatus
<1>8. WrFlags'
  BY DEF WrInd, WrFlags, Terminals, Discard, Waiting, LockFree, Discards, GiveBack, CloseStatus, ghostVars
<1>9. WrClosed'
  BY DEF WrInd, WrTypeOK, WrFlags, WrClosed, WrPrompt, WrHelper, Holding, Terminals, Ops, Discard, Waiting, LockFree, Discards, GiveBack, CloseStatus, streamVars, sessionVars, callVars, ghostVars, Once, NoPrompt
<1>10. WrPrompt'
  BY DEF WrInd, WrPrompt, WrHelper, Discard, Waiting, LockFree, Discards, GiveBack, CloseStatus, ghostVars, NoPrompt, OnlyPrompts
<1>11. WrHelper'
  BY DEF WrInd, WrHelper, Discard, Waiting, LockFree, Discards, GiveBack, CloseStatus, OnlyPrompts
<1> QED BY <1>1, <1>2, <1>3, <1>4, <1>5, <1>6, <1>7, <1>8, <1>9, <1>10, <1>11 DEF WrInd

LEMMA WrIndEnter == ASSUME WrInd, NEW c \in WrClients, Enter(c) PROVE WrInd'
<1>1. WrTypeOK'
  BY DEF WrInd, WrTypeOK, Enter, Waiting, LockFree, Discards, EndsAtOnce, Closing, GiveBack, Stay
<1>2. AskedOnce'
  BY DEF WrInd, AskedOnce, Enter, Waiting, LockFree, Discards, EndsAtOnce, Closing, GiveBack, Stay
<1>3. WrHeld'
  BY WrAssumption DEF WrInd, WrTypeOK, WrHeld, Holding, Enter, Waiting, LockFree, Discards, EndsAtOnce, Closing, GiveBack, Stay
<1>4. WrStarting'
  BY DEF WrInd, WrTypeOK, WrStarting, Enter, Waiting, LockFree, Discards, EndsAtOnce, Closing, GiveBack, Stay
<1>5. WrPulled'
  BY DEF WrInd, WrTypeOK, WrPulled, Enter, Waiting, LockFree, Discards, EndsAtOnce, Closing, GiveBack, Stay
<1>6. WrFinishing'
  BY DEF WrInd, WrTypeOK, WrFinishing, Enter, Waiting, LockFree, Discards, EndsAtOnce, Closing, GiveBack, Stay
<1>7. WrFailing'
  BY DEF WrInd, WrTypeOK, WrFailing, Enter, Waiting, LockFree, Discards, EndsAtOnce, Closing, GiveBack, Stay
<1>8. WrFlags'
  BY DEF WrInd, WrTypeOK, WrFlags, Enter, Waiting, LockFree, Discards, EndsAtOnce, Closing, GiveBack, Stay
<1>9. WrClosed'
  BY DEF WrInd, WrTypeOK, WrClosed, Enter, Waiting, LockFree, Discards, EndsAtOnce, Closing, GiveBack, Stay
<1>10. WrPrompt'
  BY DEF WrInd, WrPrompt, Enter, Waiting, LockFree, Discards, EndsAtOnce, Closing, GiveBack, Stay
<1>11. WrHelper'
  BY DEF WrInd, WrHelper, Enter, Waiting, LockFree, Discards, EndsAtOnce, Closing, GiveBack, Stay
<1> QED BY <1>1, <1>2, <1>3, <1>4, <1>5, <1>6, <1>7, <1>8, <1>9, <1>10, <1>11 DEF WrInd

LEMMA WrIndStartSucceeds == ASSUME WrInd, NEW c \in WrClients, StartSucceeds(c) PROVE WrInd'
<1>0. /\ wrQueue' \in Seq(Commands)
      /\ NoPrompt(wrQueue) => Once(wrQueue')
      /\ "mine" = "other" /\ Once(wrQueue) => Once(wrQueue')
      /\ "mine" = "other" /\ NoPrompt(wrQueue) => NoPrompt(wrQueue')
      /\ "mine" = "mine" /\ OnlyPrompts(wrQueue) => OnlyPrompts(wrQueue') /\ wrQueue' # <<>>
  BY QueuedPrompt DEF StartSucceeds, Queued, WrInd, WrTypeOK, Commands
<1>1. WrTypeOK'
  BY <1>0, WrAssumption DEF WrInd, WrTypeOK, StartSucceeds, Closing, GiveBack, Stay, ghostVars, Commands
<1>2. AskedOnce'
  BY <1>0 DEF WrInd, WrTypeOK, AskedOnce, WrStarting, StartSucceeds, Closing, GiveBack, Stay
<1>3. WrHeld'
  BY <1>0, WrAssumption DEF WrInd, WrTypeOK, WrHeld, Holding, StartSucceeds, Closing, GiveBack, Stay
<1>4. WrStarting'
  BY <1>0 DEF WrInd, WrTypeOK, WrHeld, WrStarting, Holding, StartSucceeds, Closing, GiveBack, Stay
<1>5. WrPulled'
  BY <1>0 DEF WrInd, WrTypeOK, WrPulled, WrFlags, StartSucceeds, Closing, GiveBack, Stay
<1>6. WrFinishing'
  BY <1>0 DEF WrInd, WrTypeOK, WrFinishing, StartSucceeds, Closing, GiveBack, Stay, ghostVars
<1>7. WrFailing'
  BY <1>0 DEF WrInd, WrTypeOK, WrFailing, StartSucceeds, Closing, GiveBack, Stay
<1>8. WrFlags'
  BY <1>0 DEF WrInd, WrTypeOK, WrFlags, StartSucceeds, Closing, GiveBack, Stay, ghostVars
<1>9. WrClosed'
  BY <1>0 DEF WrInd, WrTypeOK, WrClosed, StartSucceeds, Closing, GiveBack, Stay
<1>10. WrPrompt'
  BY <1>0 DEF WrInd, WrStarting, WrFlags, WrPrompt, StartSucceeds, Closing, GiveBack, Stay, ghostVars
<1>11. WrHelper'
  BY <1>0 DEF WrInd, WrHelper, StartSucceeds, Closing, GiveBack, Stay, ghostVars
<1> QED BY <1>1, <1>2, <1>3, <1>4, <1>5, <1>6, <1>7, <1>8, <1>9, <1>10, <1>11 DEF WrInd

LEMMA WrIndStartFails == ASSUME WrInd, NEW c \in WrClients, StartFails(c) PROVE WrInd'
<1>1. WrTypeOK'
  BY DEF WrInd, WrTypeOK, Terminals, StartFails, Fails, CloseStatus, GiveBack, Stay, OnlyPrompts
<1>2. AskedOnce'
  BY DEF WrInd, AskedOnce, StartFails, Fails, CloseStatus, GiveBack, Stay
<1>3. WrHeld'
  BY WrAssumption DEF WrInd, WrTypeOK, WrHeld, Holding, StartFails, Fails, CloseStatus, GiveBack, Stay
<1>4. WrStarting'
  BY DEF WrInd, WrTypeOK, WrHeld, WrStarting, Holding, StartFails, Fails, CloseStatus, GiveBack, Stay
<1>5. WrPulled'
  BY DEF WrInd, WrTypeOK, WrHeld, WrPulled, Holding, StartFails, Fails, CloseStatus, GiveBack, Stay
<1>6. WrFinishing'
  BY DEF WrInd, WrTypeOK, WrHeld, WrFinishing, Holding, StartFails, Fails, CloseStatus, GiveBack, Stay
<1>7. WrFailing'
  BY DEF WrInd, WrTypeOK, WrFailing, StartFails, Fails, CloseStatus, GiveBack, Stay
<1>8. WrFlags'
  BY DEF WrInd, WrStarting, WrFlags, StartFails, Fails, CloseStatus, GiveBack, Stay
<1>9. WrClosed'
  BY DEF WrInd, WrTypeOK, WrClosed, StartFails, Fails, CloseStatus, GiveBack, Stay
<1>10. WrPrompt'
  BY DEF WrInd, WrStarting, WrPrompt, StartFails, Fails, CloseStatus, GiveBack, Stay
<1>11. WrHelper'
  BY DEF WrInd, WrHelper, StartFails, Fails, CloseStatus, GiveBack, Stay
<1> QED BY <1>1, <1>2, <1>3, <1>4, <1>5, <1>6, <1>7, <1>8, <1>9, <1>10, <1>11 DEF WrInd

LEMMA WrIndStreamFails == ASSUME WrInd, NEW c \in WrClients, StreamFails(c) PROVE WrInd'
<1>1. WrTypeOK'
  BY DEF WrInd, WrTypeOK, Terminals, StreamFails, Fails, CloseStatus, GiveBack, Stay
<1>2. AskedOnce'
  BY DEF WrInd, AskedOnce, StreamFails, Fails, CloseStatus, GiveBack, Stay
<1>3. WrHeld'
  BY WrAssumption DEF WrInd, WrTypeOK, WrHeld, Holding, StreamFails, Fails, CloseStatus, GiveBack, Stay
<1>4. WrStarting'
  BY DEF WrInd, WrTypeOK, WrHeld, WrStarting, Holding, StreamFails, Fails, CloseStatus, GiveBack, Stay
<1>5. WrPulled'
  BY DEF WrInd, WrTypeOK, WrHeld, WrPulled, Holding, StreamFails, Fails, CloseStatus, GiveBack, Stay
<1>6. WrFinishing'
  BY DEF WrInd, WrTypeOK, WrHeld, WrFinishing, Holding, StreamFails, Fails, CloseStatus, GiveBack, Stay
<1>7. WrFailing'
  BY DEF WrInd, WrTypeOK, WrFailing, StreamFails, Fails, CloseStatus, GiveBack, Stay
<1>8. WrFlags'
  BY DEF WrInd, WrPulled, WrFlags, StreamFails, Fails, CloseStatus, GiveBack, Stay
<1>9. WrClosed'
  BY DEF WrInd, WrTypeOK, WrClosed, StreamFails, Fails, CloseStatus, GiveBack, Stay
<1>10. WrPrompt'
  BY DEF WrInd, WrTypeOK, WrPulled, WrPrompt, StreamFails, Fails, CloseStatus, GiveBack, Stay
<1>11. WrHelper'
  BY DEF WrInd, WrHelper, StreamFails, Fails, CloseStatus, GiveBack, Stay
<1> QED BY <1>1, <1>2, <1>3, <1>4, <1>5, <1>6, <1>7, <1>8, <1>9, <1>10, <1>11 DEF WrInd

LEMMA WrIndPull ==
  ASSUME WrInd, NEW c \in WrClients, Pull(c)
  PROVE  WrInd'
<1>1. /\ wrAt[c] = "advance" /\ wrAt' = [wrAt EXCEPT ![c] = "pulling"] /\ wrLock' = c
      /\ ~wrDead /\ UNCHANGED <<wrOp, wrIterator, wrOwner, wrWaits, wrStarted, wrAdvanced, wrInterrupts,
                     wrCloses, wrFinished, wrReport, wrFailure, wrFinal, wrTerminal, wrDead, wrOthers,
                     wrClosings, wrPrompts, wrMine, wrGone>>
  BY DEF Pull, Stay, Over, streamVars, ghostVars
<1>2. \/ wrTurn # "none" /\ UNCHANGED <<wrStatus, wrTurn, wrEnded, wrQueue>>
      \/ /\ wrQueue # <<>> /\ wrTurn' = Head(wrQueue) /\ wrQueue' = Tail(wrQueue)
         /\ wrStatus' = "RUNNING" /\ wrEnded' = FALSE
  BY DEF Pull, Over, Running
<1>3. wrQueue \in Seq(Commands)
  BY DEF WrInd, WrTypeOK, Commands
<1>4. /\ wrQueue' \in Seq(Commands) /\ wrTurn' \in Commands /\ wrEnded' \in BOOLEAN
      /\ wrStatus' \in {"IDLE", "READY", "RUNNING", "WAITING", "INTERRUPTED", "CLOSED"}
  <2>1. wrTurn \in Commands \cup {"none"} /\ wrEnded \in BOOLEAN
        /\ wrStatus \in {"IDLE", "READY", "RUNNING", "WAITING", "INTERRUPTED", "CLOSED"}
    BY DEF WrInd, WrTypeOK, Commands
  <2> QED BY <1>2, <1>3, <2>1, TailPrompt
<1>5. /\ Once(wrQueue') /\ (wrTurn' = "mine" => NoPrompt(wrQueue'))
      /\ NoPrompt(wrQueue) => NoPrompt(wrQueue')
      /\ wrOwner = "helper" => OnlyPrompts(wrQueue') /\ wrTurn' = "mine"
  <2>1. /\ Once(wrQueue) /\ (wrTurn = "mine" => NoPrompt(wrQueue)) /\ wrTurn \in Commands \cup {"none"}
        /\ wrOwner = "helper" => OnlyPrompts(wrQueue) /\ wrTurn # "other"
    BY DEF WrInd, WrPrompt, WrHelper, WrTypeOK, Commands
  <2>2. CASE wrTurn # "none" /\ UNCHANGED <<wrStatus, wrTurn, wrEnded, wrQueue>>
    BY <2>1, <2>2 DEF Commands
  <2>3. CASE wrQueue # <<>> /\ wrTurn' = Head(wrQueue) /\ wrQueue' = Tail(wrQueue)
    BY <1>3, <2>1, <2>3, TailPrompt
  <2> QED BY <1>2, <2>2, <2>3
<1>6. WrTypeOK'
  BY <1>1, <1>4 DEF WrInd, WrTypeOK, Commands
<1>7. AskedOnce' /\ WrHeld' /\ WrStarting' /\ WrFinishing' /\ WrFailing' /\ WrClosed'
  BY <1>1 DEF WrInd, WrTypeOK, AskedOnce, WrHeld, WrStarting, WrFinishing, WrFailing, WrClosed, Holding
<1>8. WrPulled'
  BY <1>1, <1>4 DEF WrInd, WrTypeOK, WrPulled, Commands
<1>9. WrFlags'
  BY <1>1 DEF WrInd, WrTypeOK, WrFlags, WrPulled
<1>10. WrPrompt'
  BY <1>1, <1>2, <1>5 DEF WrInd, WrPrompt, WrPulled
<1>11. WrHelper'
  BY <1>1, <1>2, <1>5 DEF WrInd, WrHelper
<1> QED BY <1>6, <1>7, <1>8, <1>9, <1>10, <1>11 DEF WrInd

LEMMA WrIndWrEvent == ASSUME WrInd, NEW c \in WrClients, WrEvent(c) PROVE WrInd'
<1>1. WrTypeOK'
  BY DEF WrInd, WrTypeOK, WrEvent, Collected, Closing, Interrupted, GiveBack, Stay
<1>2. AskedOnce'
  BY DEF WrInd, AskedOnce, WrEvent, Collected, Closing, Interrupted, GiveBack, Stay
<1>3. WrHeld'
  BY WrAssumption DEF WrInd, WrTypeOK, WrHeld, Holding, WrEvent, Collected, Closing, Interrupted, GiveBack, Stay
<1>4. WrStarting'
  BY DEF WrInd, WrTypeOK, WrStarting, WrEvent, Collected, Closing, Interrupted, GiveBack, Stay
<1>5. WrPulled'
  BY DEF WrInd, WrPulled, WrEvent, Collected, Closing, Interrupted, GiveBack, Stay
<1>6. WrFinishing'
  BY DEF WrInd, WrTypeOK, WrFinishing, WrEvent, Collected, Closing, Interrupted, GiveBack, Stay
<1>7. WrFailing'
  BY DEF WrInd, WrTypeOK, WrFailing, WrEvent, Collected, Closing, Interrupted, GiveBack, Stay
<1>8. WrFlags'
  BY DEF WrInd, WrTypeOK, WrFlags, WrEvent, Collected, Closing, Interrupted, GiveBack, Stay
<1>9. WrClosed'
  BY DEF WrInd, WrTypeOK, WrClosed, WrEvent, Collected, Closing, Interrupted, GiveBack, Stay
<1>10. WrPrompt'
  BY DEF WrInd, WrPrompt, WrEvent, Collected, Closing, Interrupted, GiveBack, Stay
<1>11. WrHelper'
  BY DEF WrInd, WrHelper, WrEvent, Collected, Closing, Interrupted, GiveBack, Stay
<1> QED BY <1>1, <1>2, <1>3, <1>4, <1>5, <1>6, <1>7, <1>8, <1>9, <1>10, <1>11 DEF WrInd

LEMMA WrIndWrTerminal == ASSUME WrInd, NEW c \in WrClients, NEW kind \in Terminals, WrTerminal(c, kind) PROVE WrInd'
<1>1. WrTypeOK'
  BY DEF WrInd, WrTypeOK, Terminals, WrTerminal, Collected, CloseStatus, GiveBack, Stay
<1>2. AskedOnce'
  BY DEF WrInd, AskedOnce, WrTerminal, Collected, CloseStatus, GiveBack, Stay
<1>3. WrHeld'
  BY WrAssumption DEF WrInd, WrTypeOK, WrHeld, Holding, WrTerminal, Collected, CloseStatus, GiveBack, Stay
<1>4. WrStarting'
  BY DEF WrInd, WrTypeOK, WrStarting, WrTerminal, Collected, CloseStatus, GiveBack, Stay
<1>5. WrPulled'
  BY DEF WrInd, WrPulled, WrTerminal, Collected, CloseStatus, GiveBack, Stay
<1>6. WrFinishing'
  BY DEF WrInd, WrTypeOK, WrFinishing, WrTerminal, Collected, CloseStatus, GiveBack, Stay
<1>7. WrFailing'
  BY DEF WrInd, WrTypeOK, WrFailing, WrTerminal, Collected, CloseStatus, GiveBack, Stay
<1>8. WrFlags'
  BY DEF WrInd, WrTypeOK, WrFlags, WrTerminal, Collected, CloseStatus, GiveBack, Stay
<1>9. WrClosed'
  BY DEF WrInd, WrTypeOK, WrClosed, WrTerminal, Collected, CloseStatus, GiveBack, Stay
<1>10. WrPrompt'
  BY DEF WrInd, WrPrompt, WrTerminal, Collected, CloseStatus, GiveBack, Stay
<1>11. WrHelper'
  BY DEF WrInd, WrPulled, WrFlags, WrHelper, Terminals, WrTerminal, Collected, CloseStatus, GiveBack, Stay
<1> QED BY <1>1, <1>2, <1>3, <1>4, <1>5, <1>6, <1>7, <1>8, <1>9, <1>10, <1>11 DEF WrInd

LEMMA WrIndEnd == ASSUME WrInd, NEW c \in WrClients, End(c) PROVE WrInd'
<1>1. WrTypeOK'
  BY DEF WrInd, WrTypeOK, Terminals, End, Over, Running, Breaks, AfterTurn, Reset, CloseStatus, GiveBack, Stay, ghostVars
<1>2. AskedOnce'
  BY DEF WrInd, AskedOnce, End, Over, Running, Breaks, AfterTurn, Reset, CloseStatus, GiveBack, Stay
<1>3. WrHeld'
  BY WrAssumption DEF WrInd, WrTypeOK, WrHeld, Holding, End, Over, Running, Breaks, AfterTurn, Reset, CloseStatus, GiveBack, Stay
<1>4. WrStarting'
  BY DEF WrInd, WrTypeOK, WrHeld, WrStarting, Holding, End, Over, Running, Breaks, AfterTurn, Reset, CloseStatus, GiveBack, Stay
<1>5. WrPulled'
  BY DEF WrInd, WrTypeOK, WrHeld, WrPulled, Holding, End, Over, Running, Breaks, AfterTurn, Reset, CloseStatus, GiveBack, Stay
<1>6. WrFinishing'
  BY DEF WrInd, WrTypeOK, WrPulled, WrFinishing, WrFlags, WrClosed, WrHelper, End, Over, Running, Breaks, AfterTurn, Reset, CloseStatus, GiveBack, Stay, ghostVars
<1>7. WrFailing'
  BY DEF WrInd, WrTypeOK, WrFailing, End, Over, Running, Breaks, AfterTurn, Reset, CloseStatus, GiveBack, Stay
<1>8. WrFlags'
  BY DEF WrInd, WrTypeOK, WrPulled, WrFlags, Terminals, End, Over, Running, Breaks, AfterTurn, Reset, CloseStatus, GiveBack, Stay, ghostVars
<1>9. WrClosed'
  BY DEF WrInd, WrTypeOK, WrClosed, End, Over, Running, Breaks, AfterTurn, Reset, CloseStatus, GiveBack, Stay
<1>10. WrPrompt'
  BY DEF WrInd, WrTypeOK, WrFlags, WrPrompt, End, Over, Running, Breaks, AfterTurn, Reset, CloseStatus, GiveBack, Stay, ghostVars, NoPrompt
<1>11. WrHelper'
  BY DEF WrInd, WrHelper, End, Over, Running, Breaks, AfterTurn, Reset, CloseStatus, GiveBack, Stay, ghostVars
<1> QED BY <1>1, <1>2, <1>3, <1>4, <1>5, <1>6, <1>7, <1>8, <1>9, <1>10, <1>11 DEF WrInd

LEMMA WrIndWrFinish == ASSUME WrInd, NEW c \in WrClients, WrFinish(c) PROVE WrInd'
<1>1. WrTypeOK'
  BY DEF WrInd, WrTypeOK, WrFinish, ClosedSession, Reset, GiveBack, ghostVars
<1>2. AskedOnce'
  BY DEF WrInd, AskedOnce, WrFinish, ClosedSession, Reset, GiveBack
<1>3. WrHeld'
  BY WrAssumption DEF WrInd, WrTypeOK, WrHeld, Holding, WrFinish, ClosedSession, Reset, GiveBack
<1>4. WrStarting'
  BY DEF WrInd, WrStarting, WrFinish, ClosedSession, Reset, GiveBack, ghostVars
<1>5. WrPulled'
  BY DEF WrInd, WrPulled, WrFinish, ClosedSession, Reset, GiveBack
<1>6. WrFinishing'
  BY DEF WrInd, WrTypeOK, WrHeld, WrFinishing, Holding, WrFinish, ClosedSession, Reset, GiveBack
<1>7. WrFailing'
  BY DEF WrInd, WrFailing, WrFinish, ClosedSession, Reset, GiveBack
<1>8. WrFlags'
  BY DEF WrInd, WrTypeOK, WrFinishing, WrFlags, Terminals, WrFinish, ClosedSession, Reset, GiveBack, ghostVars
<1>9. WrClosed'
  BY DEF WrInd, WrTypeOK, WrFinishing, WrClosed, WrFinish, ClosedSession, Reset, GiveBack
<1>10. WrPrompt'
  BY DEF WrInd, WrPrompt, WrFinish, ClosedSession, Reset, GiveBack, ghostVars
<1>11. WrHelper'
  BY DEF WrInd, WrFinishing, WrHelper, WrFinish, ClosedSession, Reset, GiveBack, ghostVars
<1> QED BY <1>1, <1>2, <1>3, <1>4, <1>5, <1>6, <1>7, <1>8, <1>9, <1>10, <1>11 DEF WrInd

LEMMA WrIndCloseFails == ASSUME WrInd, NEW c \in WrClients, CloseFails(c) PROVE WrInd'
<1>1. WrTypeOK'
  BY DEF WrInd, WrTypeOK, CloseFails, ClosedSession, GiveBack, streamVars
<1>2. AskedOnce'
  BY DEF WrInd, AskedOnce, CloseFails, ClosedSession, GiveBack, streamVars
<1>3. WrHeld'
  BY WrAssumption DEF WrInd, WrTypeOK, WrHeld, Holding, CloseFails, ClosedSession, GiveBack
<1>4. WrStarting'
  BY DEF WrInd, WrStarting, CloseFails, ClosedSession, GiveBack, streamVars
<1>5. WrPulled'
  BY DEF WrInd, WrPulled, CloseFails, ClosedSession, GiveBack, streamVars
<1>6. WrFinishing'
  BY DEF WrInd, WrTypeOK, WrHeld, WrFinishing, Holding, CloseFails, ClosedSession, GiveBack
<1>7. WrFailing'
  BY DEF WrInd, WrFailing, CloseFails, ClosedSession, GiveBack, streamVars
<1>8. WrFlags'
  BY DEF WrInd, WrFlags, CloseFails, ClosedSession, GiveBack, streamVars
<1>9. WrClosed'
  BY DEF WrInd, WrFinishing, WrClosed, CloseFails, ClosedSession, GiveBack, streamVars
<1>10. WrPrompt'
  BY DEF WrInd, WrPrompt, CloseFails, ClosedSession, GiveBack, streamVars
<1>11. WrHelper'
  BY DEF WrInd, WrHelper, CloseFails, ClosedSession, GiveBack, streamVars
<1> QED BY <1>1, <1>2, <1>3, <1>4, <1>5, <1>6, <1>7, <1>8, <1>9, <1>10, <1>11 DEF WrInd

LEMMA WrIndFinishFailing == ASSUME WrInd, NEW c \in WrClients, FinishFailing(c) PROVE WrInd'
<1>1. WrTypeOK'
  BY DEF WrInd, WrTypeOK, FinishFailing, ClosedSession, GiveBack, streamVars, ghostVars
<1>2. AskedOnce'
  BY DEF WrInd, AskedOnce, FinishFailing, ClosedSession, GiveBack, streamVars
<1>3. WrHeld'
  BY WrAssumption DEF WrInd, WrTypeOK, WrHeld, Holding, FinishFailing, ClosedSession, GiveBack
<1>4. WrStarting'
  BY DEF WrInd, WrStarting, FinishFailing, ClosedSession, GiveBack, streamVars, ghostVars
<1>5. WrPulled'
  BY DEF WrInd, WrPulled, FinishFailing, ClosedSession, GiveBack, streamVars
<1>6. WrFinishing'
  BY DEF WrInd, WrHeld, WrFinishing, Holding, FinishFailing, ClosedSession, GiveBack
<1>7. WrFailing'
  BY DEF WrInd, WrFailing, FinishFailing, ClosedSession, GiveBack, streamVars
<1>8. WrFlags'
  BY DEF WrInd, WrFlags, FinishFailing, ClosedSession, GiveBack, streamVars, ghostVars
<1>9. WrClosed'
  BY DEF WrInd, WrTypeOK, WrFailing, WrClosed, FinishFailing, ClosedSession, GiveBack, streamVars
<1>10. WrPrompt'
  BY DEF WrInd, WrPrompt, FinishFailing, ClosedSession, GiveBack, streamVars, ghostVars
<1>11. WrHelper'
  BY DEF WrInd, WrHelper, FinishFailing, ClosedSession, GiveBack, streamVars, ghostVars
<1> QED BY <1>1, <1>2, <1>3, <1>4, <1>5, <1>6, <1>7, <1>8, <1>9, <1>10, <1>11 DEF WrInd

LEMMA WrIndCancel == ASSUME WrInd, NEW c \in WrClients, Cancel(c) PROVE WrInd'
<1>1. WrTypeOK'
  BY DEF WrInd, WrTypeOK, Cancel, ClosedSession, GiveBack, streamVars
<1>2. AskedOnce'
  BY DEF WrInd, AskedOnce, Cancel, ClosedSession, GiveBack, streamVars
<1>3. WrHeld'
  BY WrAssumption DEF WrInd, WrTypeOK, WrHeld, Holding, Cancel, ClosedSession, GiveBack
<1>4. WrStarting'
  BY DEF WrInd, WrStarting, Cancel, ClosedSession, GiveBack, streamVars
<1>5. WrPulled'
  BY DEF WrInd, WrTypeOK, WrHeld, WrPulled, Holding, Cancel, ClosedSession, GiveBack, streamVars
<1>6. WrFinishing'
  BY DEF WrInd, WrTypeOK, WrHeld, WrFinishing, Holding, Cancel, ClosedSession, GiveBack, streamVars
<1>7. WrFailing'
  BY DEF WrInd, WrFailing, Cancel, ClosedSession, GiveBack, streamVars
<1>8. WrFlags'
  BY DEF WrInd, WrTypeOK, WrFlags, Cancel, ClosedSession, GiveBack, streamVars
<1>9. WrClosed'
  BY DEF WrInd, WrTypeOK, WrFinishing, WrFailing, WrClosed, Cancel, ClosedSession, GiveBack, streamVars
<1>10. WrPrompt'
  BY DEF WrInd, WrPrompt, Cancel, ClosedSession, GiveBack, streamVars
<1>11. WrHelper'
  BY DEF WrInd, WrTypeOK, WrHelper, Cancel, ClosedSession, GiveBack, streamVars
<1> QED BY <1>1, <1>2, <1>3, <1>4, <1>5, <1>6, <1>7, <1>8, <1>9, <1>10, <1>11 DEF WrInd

----
\* Both ends of the induction.
LEMMA WrStarts == WrInit => WrInd
<1> SUFFICES ASSUME WrInit PROVE WrInd
  OBVIOUS
<1>1. WrTypeOK
  <2>1. /\ wrOp \in [WrClients -> Ops \cup {"none"}]
        /\ wrAt \in [WrClients -> {"idle", "lock", "starting", "advance", "pulling", "finishing", "failing"}]
    BY DEF WrInit
  <2>2. wrQueue \in Seq({"mine", "other"}) /\ wrOthers \in 0 .. MaxOthers
    BY WrAssumption DEF WrInit
  <2>3. /\ {wrLock, wrIterator} \subseteq WrClients \cup {NoClient}
        /\ {wrClosings, wrPrompts} \subseteq Nat
    BY DEF WrInit
  <2>5. {wrStarted, wrAdvanced, wrInterrupts, wrCloses, wrFinished, wrFailure, wrEnded, wrDead} \subseteq BOOLEAN
    <3>1. {wrStarted, wrAdvanced, wrInterrupts, wrCloses, wrFinished, wrFailure, wrEnded, wrDead} = {FALSE}
      BY DEF WrInit
    <3> QED BY <3>1
  <2>4. /\ wrOwner \in {"helper", "caller"} /\ wrWaits \in BOOLEAN
        /\ wrReport = "none" /\ wrTerminal = "none" /\ wrFinal = "completed"
        /\ wrStatus = "IDLE" /\ wrTurn = "none" /\ wrMine = "none" /\ wrGone = {}
    BY DEF WrInit
  <2> QED BY <2>1, <2>2, <2>3, <2>4, <2>5 DEF WrTypeOK, Terminals
<1>2. AskedOnce /\ WrFlags /\ WrClosed
  BY DEF WrInit, AskedOnce, WrFlags, WrClosed
<1>3. WrHeld /\ WrStarting /\ WrPulled /\ WrFinishing /\ WrFailing
  BY WrAssumption DEF WrInit, WrHeld, WrStarting, WrPulled, WrFinishing, WrFailing, Holding
<1>4. WrPrompt /\ WrHelper
  BY DEF WrInit, WrPrompt, WrHelper, Once, NoPrompt, OnlyPrompts
<1> QED BY <1>1, <1>2, <1>3, <1>4 DEF WrInd

LEMMA WrIndSafe == WrInd => ReportsSafe
<1> SUFFICES ASSUME WrInd PROVE ReportsSafe
  OBVIOUS
<1>1. wrLock = NoClient => \A c \in WrClients : wrAt[c] \notin Holding
  BY WrAssumption DEF WrInd, WrHeld
<1>2. ClosedWithStream
  BY <1>1 DEF WrInd, WrClosed, ClosedWithStream, Holding
<1>3. FinishedIsTold
  BY <1>1 DEF WrInd, WrFlags, FinishedIsTold, Holding
<1>4. PromptIsTaken
  BY DEF WrInd, WrTypeOK, WrPrompt, NoPrompt, PromptIsTaken
<1>5. CompletedIsCompleted
  BY DEF WrInd, WrHelper, CompletedIsCompleted
<1> QED BY <1>2, <1>3, <1>4, <1>5 DEF WrInd, ReportsSafe

\* Every step keeps the induction.
LEMMA WrStep == ASSUME WrInd, [WrNext]_wrVars PROVE WrInd'
<1>1. CASE UNCHANGED wrVars
  BY <1>1 DEF wrVars, streamVars, sessionVars, callVars, ghostVars, WrInd, WrTypeOK, AskedOnce,
              WrHeld, WrStarting, WrPulled, WrFinishing, WrFailing, WrFlags, WrClosed, WrPrompt,
              WrHelper, Once, NoPrompt, OnlyPrompts
<1>2. CASE QueueOther
  BY <1>2, WrIndQueueOther
<1>3. CASE HostInterrupt
  BY <1>3, WrIndHostInterrupt
<1>4. ASSUME NEW c \in WrClients, NEW op \in Ops, WrCall(c, op) PROVE WrInd'
  BY <1>4, WrIndWrCall
<1>5. ASSUME NEW c \in WrClients, Discard(c) \/ Enter(c) \/ StartSucceeds(c) \/ StartFails(c)
             \/ StreamFails(c) \/ Pull(c) \/ WrEvent(c)
      PROVE  WrInd'
  BY <1>5, WrIndDiscard, WrIndEnter, WrIndStartSucceeds, WrIndStartFails, WrIndStreamFails,
     WrIndPull, WrIndWrEvent
<1>6. ASSUME NEW c \in WrClients, NEW kind \in Terminals, WrTerminal(c, kind) PROVE WrInd'
  BY <1>6, WrIndWrTerminal
<1>7. ASSUME NEW c \in WrClients, End(c) \/ WrFinish(c) \/ CloseFails(c) \/ FinishFailing(c)
             \/ Cancel(c)
      PROVE  WrInd'
  BY <1>7, WrIndEnd, WrIndWrFinish, WrIndCloseFails, WrIndFinishFailing, WrIndCancel
<1> QED BY <1>1, <1>2, <1>3, <1>4, <1>5, <1>6, <1>7 DEF WrNext

----
(* The composition: MCPlatform. *)

\* A component takes a step of its own, or none.
LEMMA PlSteps ==
    [PlNext]_plVars => /\ part' = part
                       /\ part = "reports" => [WrNext]_wrVars
                       /\ part = "registries" => [RgNext]_rgVars
<1> SUFFICES ASSUME [PlNext]_plVars
             PROVE  part' = part /\ (part = "reports" => [WrNext]_wrVars) /\ (part = "registries" => [RgNext]_rgVars)
  OBVIOUS
<1>1. CASE UNCHANGED plVars
  BY <1>1 DEF plVars
<1>2. CASE Only("tasks", Next, <<cxVars, hkVars, epVars, mdVars, pgVars, sbVars, wrVars, rgVars>>)
  BY <1>2 DEF Only
<1>3. CASE Only("context", CxNextStep, <<list, hkVars, epVars, mdVars, pgVars, sbVars, wrVars, rgVars>>)
  BY <1>3 DEF Only
<1>4. CASE Only("hooks", HkNext, <<list, cxVars, epVars, mdVars, pgVars, sbVars, wrVars, rgVars>>)
  BY <1>4 DEF Only
<1>5. CASE Only("policies", EpNext, <<list, cxVars, hkVars, mdVars, pgVars, sbVars, wrVars, rgVars>>)
  BY <1>5 DEF Only
<1>6. CASE Only("documents", MdNext, <<list, cxVars, hkVars, epVars, pgVars, sbVars, wrVars, rgVars>>)
  BY <1>6 DEF Only
<1>7. CASE Only("packages", PgNext, <<list, cxVars, hkVars, epVars, mdVars, sbVars, wrVars, rgVars>>)
  BY <1>7 DEF Only
<1>8. CASE Only("shells", SbNext, <<list, cxVars, hkVars, epVars, mdVars, pgVars, wrVars, rgVars>>)
  BY <1>8 DEF Only
<1>9. CASE Only("reports", WrNext, <<list, cxVars, hkVars, epVars, mdVars, pgVars, sbVars, rgVars>>)
  BY <1>9 DEF Only
<1>10. CASE Only("registries", RgNext, <<list, cxVars, hkVars, epVars, mdVars, pgVars, sbVars, wrVars>>)
  BY <1>10 DEF Only
<1> QED BY <1>1, <1>2, <1>3, <1>4, <1>5, <1>6, <1>7, <1>8, <1>9, <1>10 DEF PlNext

PlInd == (part = "reports" => WrInd) /\ (part = "registries" => RgInd)

\* The inductive invariants hold of the composition: of a workflow's report (workflow_reports.py) and of
\* the registries (registries/).
THEOREM PlatformInductive == PlSpec => []PlInd
<1>1. PlInit => PlInd
  BY WrStarts, RgStarts DEF PlInit, PlInd
<1>2. PlInd /\ [PlNext]_plVars => PlInd'
  <2> SUFFICES ASSUME PlInd, [PlNext]_plVars PROVE PlInd'
    OBVIOUS
  <2>1. part' = part /\ (part = "reports" => [WrNext]_wrVars) /\ (part = "registries" => [RgNext]_rgVars)
    BY PlSteps
  <2>2. part' = "reports" => WrInd' BY <2>1, WrStep DEF PlInd
  <2>3. part' = "registries" => RgInd' BY <2>1, RgStep DEF PlInd
  <2> QED BY <2>2, <2>3 DEF PlInd
<1> QED BY <1>1, <1>2, PTL DEF PlSpec

\* A report asks its model once, is told of its end and of a completion only when it is one, and its
\* helper session is closed once (WorkflowRunReportStream); in whatever order tools are registered, a
\* name means the one of the highest priority, an alias leads to a tool that has it, and the invocation
\* that is collected is the best offered (ToolRegistry, InvocationRegistry.collect).
THEOREM KernelSafety == PlSpec => []KernelSafe
<1>1. PlInd => KernelSafe
  BY WrIndSafe, RgIndSafe DEF PlInd, KernelSafe
<1> QED BY <1>1, PlatformInductive, PTL
====
