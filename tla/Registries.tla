----------------------------- MODULE Registries -----------------------------
(***************************************************************************)
(* The registries of a runtime (weavert/registries): tools by their name   *)
(* and by aliases, where the source with the higher priority wins, and the *)
(* invocations that the registered providers list together.                *)
(***************************************************************************)
EXTENDS Naturals, Sequences, FiniteSets

CONSTANTS RgTools,       \* definitions of tools: name, aliases, priority and path of the source
          RgProviders,   \* providers: a name and the invocations it lists, each with the
                         \* priority and label of its source, its kind and its target
          NoTool,        \* stands for the name of no tool
          MaxRegistered  \* bound: calls that register or remove

RgNames == {d.name : d \in RgTools}
RgAliases == UNION {d.aliases : d \in RgTools}
RgPaths == {d.path : d \in RgTools}
RgSources == [priority : Nat, label : Nat, kind : Nat, target : Nat]

ASSUME RgAssumption ==
    /\ RgTools \subseteq [name : RgNames \ {NoTool}, aliases : SUBSET RgAliases, priority : Nat, path : RgPaths]
    /\ \A p \in RgProviders : p.lists \in RgSources
    /\ MaxRegistered \in Nat

VARIABLES rgEntry,      \* the definition of each name, Absent if there is none
          rgAlias,      \* the owner of each alias, NoTool if there is none
          rgProviders,  \* the providers by the sequence of their registration
          rgCalls,      \* calls so far
          rgBest,       \* ghost: the highest priority registered for a name since it was removed
          rgForfeited   \* ghost: aliases taken by a definition that then did not enter, or
                        \* given up by their owner, and not registered by all that have them

toolVars == <<rgEntry, rgAlias, rgBest, rgForfeited>>
rgVars == <<toolVars, rgProviders, rgCalls>>

Absent == [name |-> NoTool, aliases |-> {}, priority |-> 0, path |-> NoTool]

RgInit ==
    /\ rgEntry = [n \in RgNames |-> Absent] /\ rgAlias = [a \in RgAliases |-> NoTool]
    /\ rgProviders = <<>> /\ rgCalls = 0
    /\ rgBest = [n \in RgNames |-> 0] /\ rgForfeited = {}

Counted == rgCalls < MaxRegistered /\ rgCalls' = rgCalls + 1
RgHeld(name) == name \in RgNames /\ rgEntry[name] # Absent

----
(* Tools                                                                   *)
\* An alias of another tool is taken from it by a higher priority.
TakesAny(d, a) == rgAlias[a] \notin {NoTool, d.name}  \* Mutant: whatever the priority.

Takes(d, a) == rgAlias[a] \notin {NoTool, d.name} /\ d.priority > rgEntry[rgAlias[a]].priority

\* _prepare_definition: the aliases it keeps, and those it takes at once from their owners.
KeptAliases(d) == {a \in d.aliases \ {d.name} : Takes(d, a) \/ (rgAlias[a] \in {NoTool, d.name} /\ ~RgHeld(a))}
TakenAliases(d) == {a \in d.aliases \ {d.name} : Takes(d, a)}

\* _on_remove of the old definition and _on_add of the new one.
AliasesAfter(old, new) ==
    [a \in RgAliases |->
        IF a \in new.aliases THEN new.name
        ELSE IF a \in old.aliases /\ rgAlias[a] = old.name THEN NoTool ELSE rgAlias[a]]

\* The outcome: another path at the same priority is a conflict.
OutcomeByOrder(d) ==  \* Mutant: the later definition wins.
    IF ~RgHeld(d.name) \/ d.priority # rgEntry[d.name].priority THEN "entered"
    ELSE IF d.path # rgEntry[d.name].path THEN "conflict" ELSE "entered"

Outcome(d) ==
    LET old == rgEntry[d.name] IN
    IF ~RgHeld(d.name) \/ d.priority > old.priority THEN "entered"
    ELSE IF d.priority < old.priority THEN "skipped"
    ELSE IF d.path # old.path THEN "conflict" ELSE "entered"

Higher(m, n) == IF m > n THEN m ELSE n

DeclaredBeside(name) == UNION {rgEntry[n].aliases : n \in RgNames \ {name}}

RegisterTool(d) ==
    LET new == [d EXCEPT !.aliases = KeptAliases(d)]
        old == rgEntry[d.name]
        enters == Outcome(d) = "entered" IN
    /\ Counted
    /\ rgEntry' = IF enters THEN [rgEntry EXCEPT ![d.name] = new] ELSE rgEntry
    /\ rgAlias' = IF enters THEN AliasesAfter(old, new)
                  ELSE [a \in RgAliases |-> IF a \in TakenAliases(d) THEN NoTool ELSE rgAlias[a]]
    /\ rgBest' = IF Outcome(d) = "conflict" THEN rgBest
                 ELSE [rgBest EXCEPT ![d.name] = Higher(@, d.priority)]
    /\ rgForfeited' = (rgForfeited \cup (IF enters THEN old.aliases \ KeptAliases(d) ELSE TakenAliases(d)))
                          \ (IF enters THEN KeptAliases(d) \ DeclaredBeside(d.name) ELSE {})
    /\ UNCHANGED rgProviders

\* An alias that the removed tool had taken goes back to nobody.
RemoveTool(name) ==
    /\ RgHeld(name) /\ Counted
    /\ rgEntry' = [rgEntry EXCEPT ![name] = Absent]
    /\ rgAlias' = AliasesAfter(rgEntry[name], Absent)
    /\ rgBest' = [rgBest EXCEPT ![name] = 0]
    /\ rgForfeited' = rgForfeited \cup rgEntry[name].aliases
    /\ UNCHANGED rgProviders

----
(* Invocations                                                             *)
\* The providers without the one of this name: a name is registered once at most.
Without(name) ==
    LET named == {i \in DOMAIN rgProviders : rgProviders[i].name = name} IN
    IF named = {} THEN rgProviders
    ELSE LET at == CHOOSE i \in named : TRUE IN
         [i \in 1..(Len(rgProviders) - 1) |-> rgProviders[IF i < at THEN i ELSE i + 1]]

\* A provider that registers again goes to the end.
RegisterProvider(p) ==
    /\ Counted /\ rgProviders' = Append(Without(p.name), p)
    /\ UNCHANGED toolVars

RemoveProvider(name) ==
    /\ Counted /\ rgProviders' = Without(name)
    /\ UNCHANGED toolVars

Before(i, j) ==
    \/ i.label < j.label
    \/ i.label = j.label /\ i.kind < j.kind
    \/ i.label = j.label /\ i.kind = j.kind /\ i.target < j.target

\* _resolve_invocation_conflict
WinnerIsFirst(old, new) == IF new.priority > old.priority THEN new ELSE old  \* Mutant: ties go to the first.

Winner(old, new) ==
    IF new.priority # old.priority THEN IF new.priority > old.priority THEN new ELSE old
    ELSE IF new.label = old.label /\ new.kind = old.kind THEN new
    ELSE IF Before(new, old) THEN new ELSE old

\* _collect_definitions, of one name: its definitions in the sequence of the providers.
Listed == [i \in DOMAIN rgProviders |-> rgProviders[i].lists]
Offered ==
    LET best[i \in DOMAIN Listed] == IF i = 1 THEN Listed[1] ELSE Winner(best[i - 1], Listed[i]) IN
    best[Len(Listed)]

RgNext ==
    \/ \E d \in RgTools : RegisterTool(d)
    \/ \E n \in RgNames : RemoveTool(n)
    \/ \E p \in RgProviders : RegisterProvider(p)
    \/ \E p \in RgProviders : RemoveProvider(p.name)

RgSpec == RgInit /\ [][RgNext]_rgVars

----
(* Properties                                                              *)
RgTypeOK ==
    /\ \A n \in RgNames : RgHeld(n) => \E d \in RgTools : rgEntry[n] = [d EXCEPT !.aliases = rgEntry[n].aliases]
    /\ rgAlias \in [RgAliases -> RgNames \cup {NoTool}]
    /\ \A i \in DOMAIN rgProviders : rgProviders[i] \in RgProviders
    /\ rgCalls \in 0..MaxRegistered /\ rgBest \in [RgNames -> Nat] /\ rgForfeited \subseteq RgAliases

\* In whatever order they were registered, a name means the definition of the highest priority.
HighestIsHeld == \A n \in RgNames : rgEntry[n].priority = rgBest[n]

\* An alias leads to a tool that has it.
AliasesLead == \A a \in RgAliases : rgAlias[a] # NoTool => RgHeld(rgAlias[a]) /\ a \in rgEntry[rgAlias[a]].aliases

\* The alias of a tool leads to it or to one that took it, unless what took it was itself
\* skipped, refused, removed or replaced.
AliasesHold ==
    \A n \in RgNames : \A a \in rgEntry[n].aliases \ rgForfeited :
        /\ rgAlias[a] # NoTool
        /\ rgAlias[a] # n => rgEntry[rgAlias[a]].priority > rgEntry[n].priority

\* The invocation that is collected depends on the order of registration only between two
\* that come from one source.
CollectedIsBest ==
    rgProviders = <<>> \/
        \A i \in DOMAIN Listed :
            /\ Listed[i].priority <= Offered.priority
            /\ Listed[i].priority = Offered.priority =>
                   Before(Offered, Listed[i])
                   \/ (Listed[i].label = Offered.label /\ Listed[i].kind = Offered.kind)

RegistriesSafe == RgTypeOK /\ HighestIsHeld /\ AliasesLead /\ AliasesHold /\ CollectedIsBest
=============================================================================
