---------------------------- MODULE PackageGraph ----------------------------
(***************************************************************************)
(* The packages of a runtime: which of the first-party and the registered  *)
(* external packages are active (extension_contracts/package_profiles.py,  *)
(* package_system/manifests.py), the search for one candidate per package  *)
(* that satisfies every constraint (package_system/resolution.py), their   *)
(* order, and what the ordered packages bind (runtime_kernel/kernel.py).   *)
(*                                                                         *)
(* The search is written in the code with continuations: the goals that    *)
(* are left are the continuation of a call, and a choice holds the         *)
(* candidates a call has not tried yet and the snapshots it restores.      *)
(***************************************************************************)
EXTENDS Naturals, Sequences, FiniteSets

CONSTANTS Official,      \* the manifests of the official catalog, dependencies first
          PgConfigs,     \* the configurations of a runtime
          Capabilities   \* the keys that packages bind

NoOne == "none"
PackageNames == STRING \ {NoOne}
Needs == [name : PackageNames, id : Nat, min : Nat, max : Nat, withMin : BOOLEAN, withMax : BOOLEAN]
Manifests ==
    [name : PackageNames, id : Nat, version : Nat, fits : BOOLEAN, deps : Seq(Needs),
     binds : [services : SUBSET Capabilities, runtime : SUBSET Capabilities], routes : BOOLEAN]

ASSUME PgAssumption ==
    /\ Official \in Seq(Manifests)
    /\ \A i, j \in 1..Len(Official) : Official[i].name = Official[j].name => i = j
    /\ PgConfigs \subseteq
          [distribution : SUBSET STRING, enabled : SUBSET STRING, disabled : SUBSET STRING,
           requested : Seq(PackageNames), externals : Seq(Manifests), ownModel : BOOLEAN]

VARIABLES pgConfig,    \* the configuration the runtime is built from
          pgPhase,     \* how far the kernel is
          pgCode,      \* why it was refused, "none" if it was not
          pgSelected,  \* the candidates selected, in the order of selection
          pgWanted,    \* the constraints met so far
          pgGoals,     \* the constraints still to be resolved, each with the packages that led to it
          pgChoices,   \* the calls that may still try another candidate, outermost first
          pgFailing,   \* the failure that is travelling back, "none" if there is none
          pgVisit,     \* the packages being visited, each with the dependencies that are left
          pgOrder,     \* the packages in the order they are assembled
          pgOwner,     \* the package that bound each capability
          pgApplied,   \* the contributions applied so far
          pgRoute      \* the package whose model route is the default one

pgVars == <<pgConfig, pgPhase, pgCode, pgSelected, pgWanted, pgGoals, pgChoices, pgFailing,
            pgVisit, pgOrder, pgOwner, pgApplied, pgRoute>>
searchVars == <<pgSelected, pgWanted, pgGoals, pgChoices, pgFailing>>
orderVars == <<pgVisit, pgOrder>>
bindVars == <<pgOwner, pgApplied, pgRoute>>

Unversioned == 0
AnyId == 0
Elements(seq) == {seq[i] : i \in 1..Len(seq)}

\* A dependency names a package, and may name a candidate and a range of versions.
AnyOf(name) == [name |-> name, id |-> AnyId, min |-> Unversioned, max |-> Unversioned,
                withMin |-> TRUE, withMax |-> FALSE]

----
(* The catalog                                                             *)
\* The distribution's packages and the enabled ones, without the disabled ones, by
\* their places in the official catalog.
Distributed ==
    {i \in 1..Len(Official) :
        Official[i].name \in (pgConfig.distribution \cup pgConfig.enabled) \ pgConfig.disabled}
SelectedFirstParty == {Official[i] : i \in Distributed}

OfficialNames == {manifest.name : manifest \in Elements(Official)}

\* An external package may not have the name of an official one, selected or not.
Accepted == {manifest \in Elements(pgConfig.externals) : manifest.name \notin OfficialNames}

Catalog == SelectedFirstParty \cup Accepted

CandidatesFor(name) == {candidate \in Catalog : candidate.name = name}

Duplicated ==
    \E i, j \in 1..Len(pgConfig.externals) :
        LET one == pgConfig.externals[i] other == pgConfig.externals[j] IN
        /\ i # j /\ one \in Accepted
        /\ one.name = other.name /\ one.id = other.id

Admits(need, candidate) ==
    /\ candidate.name = need.name
    /\ need.id \in {AnyId, candidate.id}
    /\ need.min # Unversioned =>
         /\ candidate.version # Unversioned
         /\ candidate.version > need.min \/ (need.withMin /\ candidate.version = need.min)
    /\ need.max # Unversioned =>
         /\ candidate.version # Unversioned
         /\ candidate.version < need.max \/ (need.withMax /\ candidate.version = need.max)

\* Mutant: only one of the constraints on a package is looked at.
SatisfiesOne(candidate, wanted) ==
    candidate.fits /\ \E need \in wanted : need.name = candidate.name /\ Admits(need, candidate)

Satisfies(candidate, wanted) ==
    candidate.fits /\ \A need \in wanted : need.name = candidate.name => Admits(need, candidate)

\* What a search that cannot go on reports of a package.
ConstraintFailure(name, wanted) ==
    LET compatible == {c \in CandidatesFor(name) : c.fits}
        each == \A need \in wanted : need.name = name => \E c \in compatible : Admits(need, c)
    IN  IF compatible # {} /\ each THEN "conflicting" ELSE "incompatible"

----
(* The search                                                              *)
PgInit ==
    /\ pgConfig \in PgConfigs
    /\ pgPhase = "start" /\ pgCode = NoOne
    /\ pgSelected = <<>> /\ pgWanted = {} /\ pgGoals = <<>> /\ pgChoices = <<>>
    /\ pgFailing = NoOne
    /\ pgVisit = <<>> /\ pgOrder = <<>>
    /\ pgOwner = [key \in Capabilities |-> NoOne] /\ pgApplied = 0 /\ pgRoute = NoOne

Refuse(code) == pgPhase' = "refused" /\ pgCode' = code

Goal(need, path) == [need |-> need, path |-> path]

\* The request is every selected first-party package, then the explicit requests.
Nth(n) == CHOOSE i \in Distributed : Cardinality({j \in Distributed : j < i}) = n - 1
Request == [n \in 1..Cardinality(Distributed) |-> Official[Nth(n)].name] \o pgConfig.requested

DependencyMissing ==
    \E manifest \in SelectedFirstParty : \E need \in Elements(manifest.deps) :
        need.name \notin {other.name : other \in SelectedFirstParty}

StartSearch ==
    /\ pgPhase = "start"
    /\ IF DependencyMissing THEN Refuse("unselected dependency") /\ UNCHANGED searchVars
       ELSE IF \E name \in Elements(pgConfig.requested) \cap OfficialNames :
                    name \notin {manifest.name : manifest \in SelectedFirstParty}
       THEN Refuse("first-party request") /\ UNCHANGED searchVars
       ELSE IF Duplicated THEN Refuse("duplicate") /\ UNCHANGED searchVars
       ELSE /\ pgPhase' = "search"
            /\ pgGoals' = [i \in 1..Len(Request) |-> Goal(AnyOf(Request[i]), {})]
            /\ pgWanted' = {AnyOf(name) : name \in Elements(Request)}
            /\ UNCHANGED <<pgCode, pgSelected, pgChoices, pgFailing>>
    /\ UNCHANGED <<pgConfig, orderVars, bindVars>>

Searching == pgPhase = "search" /\ pgFailing = NoOne /\ pgGoals # <<>>

Current == Head(pgGoals)
Wanted == pgWanted \cup {Current.need}
Chosen(name) == {c \in Elements(pgSelected) : c.name = name}
Fitting == {c \in CandidatesFor(Current.need.name) : Satisfies(c, Wanted)}

\* Candidates are tried in the order of their identities.
FirstCandidate(candidates) == CHOOSE c \in candidates : \A d \in candidates : c.id <= d.id

\* Mutant: the path is not extended.
PursueFlat(candidate, path, rest) ==
    [i \in 1..Len(candidate.deps) |-> Goal(candidate.deps[i], path)] \o rest

\* The goals of a candidate's dependencies, before what is left.
Pursue(candidate, path, rest) ==
    [i \in 1..Len(candidate.deps) |-> Goal(candidate.deps[i], path \cup {candidate.name})] \o rest

Fail(code) == pgFailing' = code /\ UNCHANGED <<pgSelected, pgGoals, pgChoices>>

\* _resolve_package: a package on the path is a cycle, a selected one must
\* satisfy what is asked of it now.
Recognize ==
    LET name == Current.need.name IN
    /\ Searching
    /\ name \in Current.path \/ Chosen(name) # {}
    /\ IF name \in Current.path THEN Fail("cyclic")
       ELSE IF \A c \in Chosen(name) : Satisfies(c, Wanted)
       THEN pgGoals' = Tail(pgGoals) /\ UNCHANGED <<pgSelected, pgChoices, pgFailing>>
       ELSE Fail(ConstraintFailure(name, Wanted))
    /\ pgWanted' = Wanted
    /\ UNCHANGED <<pgConfig, pgPhase, pgCode, orderVars, bindVars>>

\* The first candidate that satisfies the constraints is tried, the others are kept.
Choose ==
    LET name == Current.need.name IN
    /\ Searching
    /\ name \notin Current.path /\ Chosen(name) = {}
    /\ IF CandidatesFor(name) = {} THEN Fail("missing")
       ELSE IF Fitting = {} THEN Fail(ConstraintFailure(name, Wanted))
       ELSE /\ pgSelected' = Append(pgSelected, FirstCandidate(Fitting))
            /\ pgGoals' = Pursue(FirstCandidate(Fitting), Current.path, Tail(pgGoals))
            /\ pgChoices' = Append(pgChoices,
                   [path |-> Current.path, rest |-> Tail(pgGoals), untried |-> Fitting \ {FirstCandidate(Fitting)},
                    selected |-> pgSelected, wanted |-> Wanted, code |-> NoOne])
            /\ UNCHANGED pgFailing
    /\ pgWanted' = Wanted
    /\ UNCHANGED <<pgConfig, pgPhase, pgCode, orderVars, bindVars>>

RestoredSelected(choice) == choice.wanted \cup pgWanted  \* Mutant: only selected is restored.
Restored(choice) == choice.wanted

\* A failure returns to the innermost call: it restores its snapshots and tries
\* its next candidate, or returns the failure of its first one.
Backtrack ==
    LET choice == pgChoices[Len(pgChoices)]
        outer == SubSeq(pgChoices, 1, Len(pgChoices) - 1)
        next == FirstCandidate(choice.untried)
        code == IF choice.code = NoOne THEN pgFailing ELSE choice.code
    IN
    /\ pgPhase = "search" /\ pgFailing # NoOne
    /\ IF pgChoices = <<>>
       THEN Refuse(pgFailing) /\ UNCHANGED searchVars
       ELSE /\ pgWanted' = Restored(choice)
            /\ UNCHANGED <<pgPhase, pgCode>>
            /\ IF choice.untried = {}
               THEN /\ pgSelected' = choice.selected /\ pgChoices' = outer
                    /\ pgFailing' = code /\ UNCHANGED pgGoals
               ELSE /\ pgSelected' = Append(choice.selected, next)
                    /\ pgGoals' = Pursue(next, choice.path, choice.rest)
                    /\ pgChoices' = Append(outer, [choice EXCEPT !.untried = @ \ {next}, !.code = code])
                    /\ pgFailing' = NoOne
    /\ UNCHANGED <<pgConfig, orderVars, bindVars>>

FinishSearch ==
    /\ pgPhase = "search" /\ pgFailing = NoOne /\ pgGoals = <<>>
    /\ pgPhase' = "order"
    /\ UNCHANGED <<pgConfig, pgCode, searchVars, orderVars, bindVars>>

----
(* The order (order_package_manifests) and the bindings                    *)
SelectedOf(name) == CHOOSE c \in Elements(pgSelected) : c.name = name
NamesOf(deps) == [i \in 1..Len(deps) |-> deps[i].name]
Frame(name) == [name |-> name, deps |-> NamesOf(SelectedOf(name).deps)]
Visited == Elements(pgOrder)
Visiting == {frame.name : frame \in Elements(pgVisit)}

VisitNext ==
    /\ pgPhase = "order" /\ pgVisit = <<>>
    /\ IF {c.name : c \in Elements(pgSelected)} \subseteq Visited
       THEN pgPhase' = "bind" /\ UNCHANGED pgVisit
       ELSE /\ \E i \in 1..Len(pgSelected) :
                  /\ pgSelected[i].name \notin Visited
                  /\ \A j \in 1..(i - 1) : pgSelected[j].name \in Visited
                  /\ pgVisit' = <<Frame(pgSelected[i].name)>>
            /\ UNCHANGED pgPhase
    /\ UNCHANGED <<pgConfig, pgCode, searchVars, pgOrder, bindVars>>

\* A dependency that is on the way is a cycle, one that is not selected is an error.
VisitDependency ==
    LET last == Len(pgVisit)
        frame == pgVisit[last]
        name == Head(frame.deps)
        rest == [pgVisit EXCEPT ![last].deps = Tail(@)]
    IN
    /\ pgPhase = "order" /\ pgVisit # <<>> /\ frame.deps # <<>>
    /\ IF Chosen(name) = {} \/ name \in Visiting
       THEN Refuse("order") /\ UNCHANGED pgVisit
       ELSE /\ pgVisit' = IF name \in Visited THEN rest ELSE Append(rest, Frame(name))
            /\ UNCHANGED <<pgPhase, pgCode>>
    /\ UNCHANGED <<pgConfig, searchVars, pgOrder, bindVars>>

FinishVisit ==
    LET last == Len(pgVisit) IN
    /\ pgPhase = "order" /\ pgVisit # <<>> /\ pgVisit[last].deps = <<>>
    /\ pgOrder' = Append(pgOrder, pgVisit[last].name)
    /\ pgVisit' = SubSeq(pgVisit, 1, last - 1)
    /\ UNCHANGED <<pgConfig, pgPhase, pgCode, searchVars, bindVars>>

\* Every package contributes services, then every package contributes to the
\* runtime, in the order of the packages.
Contribution(n) ==
    IF n <= Len(pgOrder) THEN [name |-> pgOrder[n], stage |-> "services"]
    ELSE [name |-> pgOrder[n - Len(pgOrder)], stage |-> "runtime"]

\* Mutant: the first package that binds a capability keeps it.
BoundFirst(owners, name, keys) ==
    [key \in DOMAIN owners |-> IF key \in keys /\ owners[key] = NoOne THEN name ELSE owners[key]]

Bound(owners, name, keys) == [key \in DOMAIN owners |-> IF key \in keys THEN name ELSE owners[key]]

\* A capability is bound by the last package, the default model route by the first.
ApplyContribution ==
    LET next == Contribution(pgApplied + 1)
        candidate == SelectedOf(next.name)
    IN
    /\ pgPhase = "bind" /\ pgApplied < 2 * Len(pgOrder)
    /\ pgApplied' = pgApplied + 1
    /\ pgOwner' = Bound(pgOwner, next.name, candidate.binds[next.stage])
    /\ pgRoute' = IF next.stage = "services" /\ candidate.routes /\ pgRoute = NoOne /\ ~pgConfig.ownModel
                   THEN next.name ELSE pgRoute
    /\ UNCHANGED <<pgConfig, pgPhase, pgCode, searchVars, orderVars>>

FinishAssembly ==
    /\ pgPhase = "bind" /\ pgApplied = 2 * Len(pgOrder)
    /\ pgPhase' = "ready"
    /\ UNCHANGED <<pgConfig, pgCode, searchVars, orderVars, bindVars>>

PgNext == \/ StartSearch \/ Recognize \/ Choose \/ Backtrack \/ FinishSearch
          \/ VisitNext \/ VisitDependency \/ FinishVisit \/ ApplyContribution \/ FinishAssembly

PgSpec == PgInit /\ [][PgNext]_pgVars

----
(* Properties                                                              *)
\* The state of a build: a goal's path holds names, what is ordered is selected.
PgTypeOK ==
    /\ pgPhase \in {"start", "search", "order", "bind", "ready", "refused"}
    /\ pgPhase = "refused" <=> pgCode # NoOne
    /\ \A c \in Elements(pgSelected) : c \in Catalog
    /\ Visited \cup Visiting \subseteq {c.name : c \in Elements(pgSelected)}
    /\ pgOwner \in [Capabilities -> Visited \cup {NoOne}]
    /\ pgRoute \in Visited \cup {NoOne}

DependsOn(c, d) == \E need \in Elements(c.deps) : need.name = d.name

\* A set of candidates that can be the packages of the runtime.
Solves(set) ==
    /\ \A c, d \in set : c.name = d.name => c = d
    /\ Elements(Request) \subseteq {c.name : c \in set}
    /\ \A c \in set : c.fits /\ \A need \in Elements(c.deps) : \E d \in set : Admits(need, d)
    /\ \A part \in (SUBSET set) \ {{}} : \E c \in part : \A d \in part : ~DependsOn(c, d)

\* What the search ends with is a solution: every request and dependency is
\* selected once, satisfies every constraint and there is no cycle.
ResolutionIsSound == pgPhase \in {"order", "bind", "ready"} => Solves(Elements(pgSelected))

\* Nothing is left of a candidate that was tried and given up: what is
\* selected was requested or is a dependency of what is selected.
NothingLeftOver ==
    pgPhase \in {"order", "bind", "ready"} =>
        \A c \in Elements(pgSelected) :
            c.name \in Elements(Request) \/ \E d \in Elements(pgSelected) : DependsOn(d, c)

\* The search refuses a request only if no set of candidates solves it.
RefusedOnlyIfImpossible ==
    pgPhase = "refused" /\ pgCode \in {"missing", "incompatible", "conflicting", "cyclic"} =>
        \A set \in SUBSET Catalog : ~Solves(set)

\* A package is assembled after its dependencies, and the order is always found.
DependenciesFirst ==
    /\ pgCode # "order"
    /\ \A i \in 1..Len(pgOrder) : \A need \in Elements(SelectedOf(pgOrder[i]).deps) :
           \E j \in 1..(i - 1) : pgOrder[j] = need.name

\* What a package binds overrides what its dependencies bound at that stage,
\* and the default route is not that of a package whose dependency has one.
DependentsOverride ==
    pgPhase = "ready" =>
        /\ \A c, d \in Elements(pgSelected), key \in Capabilities :
               DependsOn(c, d) /\ key \in c.binds["runtime"] => pgOwner[key] # d.name
        /\ \A c, d \in Elements(pgSelected), key \in Capabilities :
               /\ DependsOn(c, d) /\ key \in c.binds["services"]
               /\ \A e \in Elements(pgSelected) : key \notin e.binds["runtime"]
               => pgOwner[key] # d.name
        /\ \A c, d \in Elements(pgSelected) :
               DependsOn(c, d) /\ d.routes => pgRoute # c.name

PackagesSafe == /\ PgTypeOK /\ ResolutionIsSound /\ NothingLeftOver /\ RefusedOnlyIfImpossible
                /\ DependenciesFirst /\ DependentsOverride
=============================================================================
