---- MODULE PackageProofs ----
(***************************************************************************)
(* Proofs about PackageGraph for any catalog, packages and configurations: *)
(* the search is sound, leaves nothing over and refuses only what has no   *)
(* solution, the order is always found, and dependents override what their *)
(* dependencies bind.                                                      *)
(*                                                                         *)
(* The search is shown to keep Searched: what is selected with the goals   *)
(* that are left is a Build, every candidate put aside can be built on,    *)
(* and every solution contains what is selected or what some choice would  *)
(* select next.  A Build accounts for every constraint and keeps the       *)
(* selected packages in layers, so that a package that is done depends     *)
(* only on packages that are done, and a path is what a cycle would need.  *)
(***************************************************************************)
EXTENDS PackageGraph, FiniteSetTheorems, WellFoundedInduction, TLAPS

----
(* The search *)
PgNeeds(request) == Needs \cup {AnyOf(name) : name \in request}
PgGoals(request) == [need : PgNeeds(request), path : SUBSET STRING]

\* What asks for a package: a request or a dependency of what is selected.
Owed(need, selected, request) ==
  \/ \E name \in request : need = AnyOf(name)
  \/ \E c \in Elements(selected) : need \in Elements(c.deps)

\* The packages whose dependencies are not all resolved.
Open(goals) == UNION {goals[k].path : k \in 1 .. Len(goals)}
Pending(c, need, goals) ==
  \E k \in 1 .. Len(goals) : goals[k].need = need /\ c.name \in goals[k].path

\* By their places in a sequence of candidates.
Closed(selected, goals) == {i \in 1 .. Len(selected) : selected[i].name \notin Open(goals)}
Layered(selected, places) ==
  \A part \in (SUBSET places) \ {{}} : \E i \in part : \A j \in part :
     ~ DependsOn(selected[i], selected[j])

PgTyped(selected, wanted, goals, request, catalog) ==
  /\ selected \in Seq(catalog) /\ wanted \subseteq PgNeeds(request)
  /\ goals \in Seq(PgGoals(request))
  /\ \A i, j \in 1 .. Len(selected) : selected[i].name = selected[j].name => i = j
  /\ Open(goals) \subseteq {c.name : c \in Elements(selected)}

\* Everything that is asked for has someone who asks, and what is selected satisfies it.
Accounted(selected, wanted, goals, request) ==
  /\ \A c \in Elements(selected) : Satisfies(c, wanted)
  /\ \A need \in wanted : Owed(need, selected, request)
  /\ \A k \in 1 .. Len(goals) : Owed(goals[k].need, selected, request)
  /\ \A c \in Elements(selected) :
        c.name \in request \/ \E d \in Elements(selected) : DependsOn(d, c)

\* A path leads from package to package to the goal, and the goals that are left come from
\* beginnings of the path of the first one.
Trailed(selected, goals) ==
  \A k \in 1 .. Len(goals) : \A i \in 1 .. Len(selected) :
     selected[i].name \in goals[k].path =>
        \/ goals[k].need \in Elements(selected[i].deps)
        \/ \E j \in 1 .. Len(selected) :
              j > i /\ selected[j].name \in goals[k].path /\ DependsOn(selected[i], selected[j])

Nested(selected, goals) ==
  \A k, l \in 1 .. Len(goals) : k < l =>
     /\ goals[l].path \subseteq goals[k].path
     /\ \A i, j \in 1 .. Len(selected) :
           i < j /\ selected[i].name \in goals[k].path /\ selected[j].name \in goals[l].path
             => selected[i].name \in goals[l].path

\* Every request and dependency is a goal still, or was met.
Met(need, selected, wanted) == need \in wanted /\ \E d \in Elements(selected) : d.name = need.name
Answered(selected, wanted, goals, request) ==
  /\ \A name \in request :
        \/ \E k \in 1 .. Len(goals) : goals[k].need.name = name
        \/ \E d \in Elements(selected) : d.name = name
  /\ \A c \in Elements(selected) : \A need \in Elements(c.deps) :
        Pending(c, need, goals) \/ Met(need, selected, wanted)

\* A package that is not open depends on packages that are not, in layers; an open one only on
\* those and on packages selected after it, as far as its dependencies are resolved.
Grounded(selected, goals) ==
  /\ \A i \in Closed(selected, goals), j \in 1 .. Len(selected) :
        DependsOn(selected[i], selected[j]) => j \in Closed(selected, goals)
  /\ \A i, j \in 1 .. Len(selected) : \A need \in Elements(selected[i].deps) :
        need.name = selected[j].name =>
           Pending(selected[i], need, goals) \/ j \in Closed(selected, goals) \/ j > i
  /\ Layered(selected, Closed(selected, goals))

Build(selected, wanted, goals, request, catalog) ==
  /\ PgTyped(selected, wanted, goals, request, catalog)
  /\ Accounted(selected, wanted, goals, request)
  /\ Trailed(selected, goals) /\ Nested(selected, goals)
  /\ Answered(selected, wanted, goals, request) /\ Grounded(selected, goals)

LEMMA LeastNatural ==
  ASSUME NEW S \in SUBSET Nat, S # {}
  PROVE  \E x \in S : \A y \in S : x <= y
<1>1. PICK x \in S : \A y \in S : ~ (<<y, x>> \in OpToRel(<, Nat))
  BY NatLessThanWellFounded, WFMin, Zenon
<1>2. \A y \in S : ~ (y < x)
  BY <1>1, Zenon DEF OpToRel
<1> QED BY <1>2

LEMMA GreatestOf ==
  ASSUME NEW n \in Nat, NEW part \in SUBSET (1 .. n), part # {}
  PROVE  \E i \in part : \A j \in part : j <= i
<1>0. \A i \in part : n - i \in Nat
  OBVIOUS
<1>1. PICK rest \in SUBSET Nat : rest = {n - i : i \in part}
  BY <1>0
<1>. rest # {}
  BY <1>1
<1>2. PICK least \in rest : \A other \in rest : least <= other
  BY LeastNatural
<1>3. PICK i \in part : least = n - i
  BY <1>1, <1>2
<1>4. ASSUME NEW j \in part PROVE j <= i
  <2>1. n - i <= n - j
    BY <1>1, <1>2, <1>3, <1>4
  <2> QED BY <2>1
<1> QED BY <1>4

\* Packages that close over layers are layers themselves, the one selected last the lowest.
LEMMA LayersGrow ==
  ASSUME NEW selected, NEW n \in Nat, NEW before \in SUBSET (1 .. n), NEW closing \in SUBSET (1 .. n),
         Layered(selected, before),
         \A i \in before, j \in closing : ~ DependsOn(selected[i], selected[j]),
         \A i, j \in closing : DependsOn(selected[i], selected[j]) => j > i
  PROVE  Layered(selected, before \cup closing)
<1>1. SUFFICES ASSUME NEW part \in (SUBSET (before \cup closing)) \ {{}}
               PROVE  \E i \in part : \A j \in part : ~ DependsOn(selected[i], selected[j])
  BY DEF Layered
<1>2. CASE part \cap before # {}
  <2>1. PICK i \in part \cap before : \A j \in part \cap before : ~ DependsOn(selected[i], selected[j])
    BY <1>2 DEF Layered
  <2> QED BY <2>1
<1>3. CASE part \cap before = {}
  <2>1. part \in SUBSET closing /\ part # {}
    BY <1>3
  <2>2. PICK i \in part : \A j \in part : j <= i
    BY <2>1, GreatestOf
  <2>3. \A j \in part : ~ (j > i)
    BY <2>1, <2>2
  <2> QED BY <2>1, <2>2, <2>3
<1> QED BY <1>2, <1>3

\* A goal whose package is selected and fits is done.
LEMMA RecognizeBuilds ==
  ASSUME NEW catalog, catalog \subseteq Manifests, NEW request, NEW selected, NEW wanted, NEW goals,
         Build(selected, wanted, goals, request, catalog), goals # <<>>,
         NEW need, need = Head(goals).need, need.name \notin Head(goals).path,
         NEW rest, rest = Tail(goals), NEW more, more = wanted \cup {need},
         NEW found \in Elements(selected), found.name = need.name, Satisfies(found, more)
  PROVE  Build(selected, more, rest, request, catalog)
<1>1. /\ goals \in Seq(PgGoals(request)) /\ selected \in Seq(catalog)
      /\ \A i, j \in 1 .. Len(selected) : selected[i].name = selected[j].name => i = j
  BY DEF Build, PgTyped
<1>2. PICK n \in Nat : n = Len(selected)
  BY <1>1
<1>3. /\ Len(goals) \in Nat \ {0} /\ need = goals[1].need /\ Head(goals) = goals[1]
      /\ rest \in Seq(PgGoals(request)) /\ Len(rest) = Len(goals) - 1
      /\ \A k \in 1 .. Len(rest) : k + 1 \in 2 .. Len(goals) /\ rest[k] = goals[k + 1]
  BY <1>1
<1>4. \A l \in 2 .. Len(goals) : l - 1 \in 1 .. Len(rest) /\ rest[l - 1] = goals[l]
  BY <1>3
<1>5. Open(rest) \subseteq Open(goals)
  <2>1. ASSUME NEW k \in 1 .. Len(rest) PROVE rest[k].path \subseteq Open(goals)
    BY <1>3 DEF Open
  <2> QED BY <2>1 DEF Open
<1>6. \A c : \A other : Pending(c, other, goals) => other = need \/ Pending(c, other, rest)
  <2>1. ASSUME NEW c, NEW other, NEW k \in 1 .. Len(goals), goals[k].need = other,
               c.name \in goals[k].path, k # 1
        PROVE  Pending(c, other, rest)
    <3>1. k \in 2 .. Len(goals)
      BY <1>3, <2>1
    <3> QED BY <1>4, <2>1, <3>1 DEF Pending
  <2> QED BY <1>3, <2>1 DEF Pending
<1>7. PICK t \in 1 .. n : selected[t] = found
  BY <1>2 DEF Elements
<1>8. t \in Closed(selected, goals)
  <2>1. \A k \in 1 .. Len(goals) : goals[k].path \subseteq goals[1].path
    <3>1. ASSUME NEW k \in 1 .. Len(goals) PROVE goals[k].path \subseteq goals[1].path
      BY <1>3 DEF Build, Nested
    <3> QED BY <3>1
  <2>2. need.name \notin Open(goals)
    BY <1>3, <2>1 DEF Open
  <2> QED BY <1>2, <1>7, <2>2 DEF Closed
<1>9. need \in PgNeeds(request)
  <2>1. goals[1] \in PgGoals(request)
    BY <1>1, <1>3
  <2> QED BY <1>3, <2>1 DEF PgGoals
<1>10. PgTyped(selected, more, rest, request, catalog)
  BY <1>3, <1>5, <1>9 DEF Build, PgTyped
<1>11. Accounted(selected, more, rest, request)
  <2>1. ASSUME NEW c \in Elements(selected) PROVE Satisfies(c, more)
    <3>1. CASE c.name = need.name
      <4>1. c = found
        BY <1>1, <1>7, <2>1, <3>1 DEF Elements
      <4> QED BY <4>1
    <3>2. CASE c.name # need.name
      BY <3>2 DEF Satisfies, Build, Accounted
    <3> QED BY <3>1, <3>2
  <2>2. Owed(need, selected, request)
    BY <1>3 DEF Build, Accounted
  <2>3. \A k \in 1 .. Len(rest) : Owed(rest[k].need, selected, request)
    BY <1>3 DEF Build, Accounted
  <2> QED BY <2>1, <2>2, <2>3 DEF Build, Accounted
<1>12. Trailed(selected, rest)
  BY <1>3, SMTT(20) DEF Build, Trailed
<1>13. Nested(selected, rest)
  <2>1. ASSUME NEW k \in 1 .. Len(rest), NEW l \in 1 .. Len(rest), k < l
        PROVE  k + 1 \in 1 .. Len(goals) /\ l + 1 \in 1 .. Len(goals) /\ k + 1 < l + 1
    <3>1. k + 1 \in 2 .. Len(goals) /\ l + 1 \in 2 .. Len(goals)
      BY <1>3
    <3>2. k \in Nat /\ l \in Nat
      OBVIOUS
    <3> QED BY <1>3, <2>1, <3>1, <3>2
  <2> QED BY <1>3, <2>1 DEF Build, Nested
<1>14. Answered(selected, more, rest, request)
  <2>1. ASSUME NEW name \in request
        PROVE  \/ \E k \in 1 .. Len(rest) : rest[k].need.name = name
               \/ \E d \in Elements(selected) : d.name = name
    <3>1. CASE \E d \in Elements(selected) : d.name = name
      BY <3>1
    <3>2. CASE \E k \in 1 .. Len(goals) : goals[k].need.name = name
      <4>1. PICK k \in 1 .. Len(goals) : goals[k].need.name = name
        BY <3>2
      <4>2. CASE k = 1
        BY <1>3, <4>1, <4>2
      <4>3. CASE k # 1
        <5>1. k \in 2 .. Len(goals)
          BY <4>3
        <5> QED BY <1>4, <4>1, <5>1
      <4> QED BY <4>2, <4>3
    <3> QED BY <3>1, <3>2 DEF Build, Answered
  <2>2. ASSUME NEW c \in Elements(selected), NEW other \in Elements(c.deps)
        PROVE  Pending(c, other, rest) \/ Met(other, selected, more)
    BY <1>6 DEF Build, Answered, Met
  <2> QED BY <2>1, <2>2 DEF Answered
<1>15. Grounded(selected, rest)
  <2>1. Closed(selected, goals) \subseteq Closed(selected, rest)
    BY <1>5 DEF Closed
  <2>2. ASSUME NEW i \in 1 .. n, NEW j \in 1 .. n, NEW other \in Elements(selected[i].deps),
               other.name = selected[j].name
        PROVE  \/ Pending(selected[i], other, rest) \/ j \in Closed(selected, goals) \/ j > i
    <3>1. \/ Pending(selected[i], other, goals) \/ j \in Closed(selected, goals) \/ j > i
      BY <1>2, <2>2 DEF Build, Grounded
    <3>2. ASSUME other = need PROVE j = t
      BY <1>1, <1>2, <1>7, <2>2, <3>2
    <3> QED BY <1>6, <1>8, <3>1, <3>2
  <2>3. ASSUME NEW i \in Closed(selected, rest), NEW j \in 1 .. n, DependsOn(selected[i], selected[j])
        PROVE  j \in Closed(selected, rest)
    <3>1. CASE i \in Closed(selected, goals)
      BY <1>2, <2>1, <2>3, <3>1 DEF Build, Grounded
    <3>2. CASE i \notin Closed(selected, goals)
      <4>1. i \in 1 .. n /\ selected[i].name \notin Open(rest)
        BY <1>2 DEF Closed
      <4>2. PICK other \in Elements(selected[i].deps) : other.name = selected[j].name
        BY <2>3 DEF DependsOn
      <4>3. ~ Pending(selected[i], other, rest)
        BY <4>1 DEF Pending, Open
      <4>4. j \in Closed(selected, goals) \/ j > i
        BY <2>2, <4>1, <4>2, <4>3
      <4>5. ASSUME j > i, selected[j].name \in Open(rest) PROVE FALSE
        <5>1. PICK k \in 1 .. Len(rest) : selected[j].name \in rest[k].path
          BY <4>5 DEF Open
        <5>2. 1 < k + 1 /\ k + 1 \in 1 .. Len(goals) /\ 1 \in 1 .. Len(goals)
          BY <1>3
        <5>3. PICK x \in 1 .. Len(goals) : selected[i].name \in goals[x].path
          BY <1>2, <3>2, <4>1 DEF Closed, Open
        <5>4. x = 1
          <6>1. x # 1 => x \in 2 .. Len(goals)
            OBVIOUS
          <6> QED BY <1>4, <4>1, <5>3, <6>1 DEF Open
        <5>5. selected[i].name \in goals[k + 1].path
          BY <1>2, <1>3, <4>1, <4>5, <5>1, <5>2, <5>3, <5>4 DEF Build, Nested
        <5> QED BY <1>3, <4>1, <5>1, <5>5 DEF Open
      <4> QED BY <1>2, <2>1, <4>4, <4>5 DEF Closed
    <3> QED BY <3>1, <3>2
  <2>4. Layered(selected, Closed(selected, rest))
    <3>1. PICK before \in SUBSET (1 .. n) : before = Closed(selected, goals)
      BY <1>2 DEF Closed
    <3>2. PICK closing \in SUBSET (1 .. n) : closing = Closed(selected, rest) \ before
      BY <1>2 DEF Closed
    <3>3. Layered(selected, before)
      BY <3>1 DEF Build, Grounded
    <3>4. \A i \in before, j \in closing : ~ DependsOn(selected[i], selected[j])
      BY <1>2, <3>1, <3>2 DEF Build, Grounded
    <3>5. ASSUME NEW i \in closing, NEW j \in closing, DependsOn(selected[i], selected[j])
          PROVE  j > i
      <4>1. PICK other \in Elements(selected[i].deps) : other.name = selected[j].name
        BY <3>5 DEF DependsOn
      <4>2. ~ Pending(selected[i], other, rest)
        BY <3>2 DEF Closed, Pending, Open
      <4> QED BY <2>2, <3>1, <3>2, <4>1, <4>2
    <3>6. Layered(selected, before \cup closing)
      BY <3>3, <3>4, <3>5, LayersGrow
    <3> QED BY <2>1, <3>1, <3>2, <3>6
  <2> QED BY <1>2, <2>1, <2>2, <2>3, <2>4 DEF Grounded
<1> QED BY <1>10, <1>11, <1>12, <1>13, <1>14, <1>15 DEF Build

LEMMA ConcatParts ==
  ASSUME NEW S, NEW s \in Seq(S), NEW t \in Seq(S)
  PROVE  /\ s \o t \in Seq(S) /\ Len(s \o t) = Len(s) + Len(t)
         /\ \A k \in 1 .. Len(s) : (s \o t)[k] = s[k]
         /\ \A k \in 1 .. Len(t) : (s \o t)[Len(s) + k] = t[k]
<1>1. s \o t \in Seq(S) /\ Len(s \o t) = Len(s) + Len(t)
  OBVIOUS
<1>2. ASSUME NEW k \in 1 .. Len(s) PROVE (s \o t)[k] = s[k]
  OBVIOUS
<1>3. ASSUME NEW k \in 1 .. Len(t) PROVE (s \o t)[Len(s) + k] = t[k]
  <2>1. Len(s) + k \in 1 .. Len(s \o t) /\ Len(s) + k > Len(s) /\ Len(s) + k - Len(s) = k
    BY <1>1
  <2> QED BY <1>1, <2>1
<1> QED BY <1>1, <1>2, <1>3

\* A candidate is selected, and its dependencies are the next goals.
LEMMA ChooseBuilds ==
  ASSUME NEW catalog, catalog \subseteq Manifests, NEW request, NEW selected, NEW wanted, NEW goals,
         Build(selected, wanted, goals, request, catalog), goals # <<>>,
         NEW need, need = Head(goals).need, NEW path, path = Head(goals).path, need.name \notin path,
         NEW more, more = wanted \cup {need},
         NEW c \in catalog, c.name = need.name, Satisfies(c, more),
         \A d \in Elements(selected) : d.name # need.name
  PROVE  Build(Append(selected, c), more, Pursue(c, path, Tail(goals)), request, catalog)
<1>1. /\ goals \in Seq(PgGoals(request)) /\ selected \in Seq(catalog)
      /\ \A i, j \in 1 .. Len(selected) : selected[i].name = selected[j].name => i = j
      /\ c \in Manifests /\ c.deps \in Seq(Needs) /\ c.name \in STRING
  <2>1. c \in Manifests
    OBVIOUS
  <2>2. c.deps \in Seq(Needs) /\ c.name \in STRING
    BY <2>1 DEF Manifests, PackageNames
  <2> QED BY <2>1, <2>2 DEF Build, PgTyped
<1>2. PICK n \in Nat : n = Len(selected)
  BY <1>1
<1>0. PICK m \in Nat : m = Len(c.deps)
  BY <1>1
<1>3. PICK now : now = Append(selected, c)
  OBVIOUS
<1>4. /\ now \in Seq(catalog) /\ Len(now) = n + 1 /\ now[n + 1] = c
      /\ \A i \in 1 .. n : now[i] = selected[i]
  BY <1>1, <1>2, <1>3
<1>5. /\ Elements(now) = Elements(selected) \cup {c}
      /\ \A i \in 1 .. (n + 1) : i \in 1 .. n \/ i = n + 1
      /\ \A i \in 1 .. n : i \in 1 .. (n + 1)
  BY <1>2, <1>4 DEF Elements
<1>6. /\ Len(goals) \in Nat \ {0} /\ need = goals[1].need /\ path = goals[1].path
      /\ goals[1] \in PgGoals(request) /\ 1 \in 1 .. Len(goals)
  BY <1>1
<1>7. PICK steps : steps = [i \in 1 .. m |-> Goal(c.deps[i], path \cup {c.name})]
  OBVIOUS
<1>8. steps \in Seq(PgGoals(request)) /\ Len(steps) = m
  <2>1. path \cup {c.name} \in SUBSET STRING
    BY <1>1, <1>6 DEF PgGoals
  <2>2. \A i \in 1 .. m : c.deps[i] \in PgNeeds(request)
    BY <1>0, <1>1 DEF PgNeeds
  <2>3. \A i \in 1 .. m : Goal(c.deps[i], path \cup {c.name}) \in PgGoals(request)
    BY <2>1, <2>2 DEF Goal, PgGoals
  <2>4. steps \in [1 .. m -> PgGoals(request)]
    BY <1>7, <2>3
  <2> QED BY <2>4
<1>9. PICK rest : rest = Tail(goals)
  OBVIOUS
<1>10. /\ rest \in Seq(PgGoals(request)) /\ Len(rest) = Len(goals) - 1
       /\ \A k \in 1 .. Len(rest) : k + 1 \in 2 .. Len(goals) /\ rest[k] = goals[k + 1]
  BY <1>1, <1>6, <1>9
<1>11. PICK next : next = steps \o rest
  OBVIOUS
<1>12. next = Pursue(c, path, Tail(goals))
  <2>1. steps = [i \in 1 .. Len(c.deps) |-> Goal(c.deps[i], path \cup {c.name})]
    BY <1>0, <1>7
  <2> QED BY <1>9, <1>11, <2>1 DEF Pursue
<1>13. /\ next \in Seq(PgGoals(request)) /\ Len(next) = m + Len(goals) - 1
       /\ \A k \in 1 .. m : k \in 1 .. Len(next) /\ next[k] = steps[k]
       /\ \A k \in 1 .. Len(rest) : m + k \in 1 .. Len(next) /\ next[m + k] = rest[k]
  <2>1. /\ next \in Seq(PgGoals(request)) /\ Len(next) = Len(steps) + Len(rest)
        /\ \A k \in 1 .. Len(steps) : next[k] = steps[k]
        /\ \A k \in 1 .. Len(rest) : next[Len(steps) + k] = rest[k]
    <3> PICK some : some = PgGoals(request)
      OBVIOUS
    <3>1. steps \in Seq(some) /\ rest \in Seq(some)
      BY <1>8, <1>10
    <3>2. /\ steps \o rest \in Seq(some) /\ Len(steps \o rest) = Len(steps) + Len(rest)
          /\ \A k \in 1 .. Len(steps) : (steps \o rest)[k] = steps[k]
          /\ \A k \in 1 .. Len(rest) : (steps \o rest)[Len(steps) + k] = rest[k]
      BY <3>1, ConcatParts
    <3> QED BY <1>11, <3>2
  <2>2. PICK r \in Nat : r = Len(rest) /\ r = Len(goals) - 1
    BY <1>10
  <2>3. Len(next) = m + r /\ Len(next) = m + Len(goals) - 1
    BY <1>6, <1>8, <2>1, <2>2
  <2>4. \A k \in 1 .. m : k \in 1 .. Len(next) /\ next[k] = steps[k]
    BY <1>8, <2>1, <2>3
  <2>5. \A k \in 1 .. Len(rest) : m + k \in 1 .. Len(next) /\ next[m + k] = rest[k]
    BY <1>8, <2>1, <2>2, <2>3
  <2>6. next \in Seq(PgGoals(request))
    BY <2>1
  <2> QED BY <2>3, <2>4, <2>5, <2>6, Zenon
<1>14. \A k \in 1 .. m : next[k].need = c.deps[k] /\ next[k].path = path \cup {c.name}
  <2>1. \A k \in 1 .. m : steps[k] = Goal(c.deps[k], path \cup {c.name})
    BY <1>7
  <2>2. \A k \in 1 .. m : next[k] = steps[k]
    BY <1>13, Zenon
  <2>3. ASSUME NEW k \in 1 .. m
        PROVE  next[k].need = c.deps[k] /\ next[k].path = path \cup {c.name}
    <3>1. next[k] = Goal(c.deps[k], path \cup {c.name})
      BY <2>1, <2>2
    <3> QED BY <3>1 DEF Goal
  <2> QED BY <2>3
<1>15. \A k \in 1 .. Len(next) : k \in 1 .. m \/ (k > m /\ k - m + 1 \in 2 .. Len(goals)
                                                   /\ next[k] = goals[k - m + 1])
  <2>1. ASSUME NEW k \in 1 .. Len(next), k \notin 1 .. m
        PROVE  k > m /\ k - m + 1 \in 2 .. Len(goals) /\ next[k] = goals[k - m + 1]
    <3>1. PICK x \in 1 .. Len(rest) : x = k - m
      <4>1. k \in Nat /\ k > m /\ k <= m + Len(rest) /\ Len(rest) \in Nat
        BY <1>2, <1>6, <1>10, <1>13, <2>1
      <4>2. k - m \in 1 .. Len(rest)
        BY <1>2, <4>1
      <4> QED BY <4>2
    <3>2. k = m + x /\ k > m /\ k - m + 1 = x + 1
      BY <1>2, <1>10, <2>1, <3>1
    <3> QED BY <1>10, <1>13, <3>2
  <2> QED BY <2>1
<1>16. \A l \in 2 .. Len(goals) : m + l - 1 \in 1 .. Len(next) /\ next[m + l - 1] = goals[l]
  <2>1. ASSUME NEW l \in 2 .. Len(goals)
        PROVE  m + l - 1 \in 1 .. Len(next) /\ next[m + l - 1] = goals[l]
    <3>1. PICK x \in 1 .. Len(rest) : x = l - 1
      BY <1>6, <1>10
    <3>2. m + l - 1 = m + x /\ x + 1 = l
      BY <1>2, <1>10, <3>1
    <3> QED BY <1>10, <1>13, <3>2
  <2> QED BY <2>1
<1>17. \A l \in 1 .. Len(goals) : goals[l].path \subseteq path
  BY <1>6 DEF Build, Nested
<1>18. /\ path = Open(goals) /\ c.name \notin path
       /\ Open(next) \subseteq path \cup {c.name}
  <2>1. path = Open(goals)
    BY <1>6, <1>17 DEF Open
  <2>2. ASSUME NEW k \in 1 .. Len(next) PROVE next[k].path \subseteq path \cup {c.name}
    <3>1. CASE k \in 1 .. m
      BY <1>14, <3>1
    <3>2. CASE k \notin 1 .. m
      <4>1. PICK l \in 1 .. Len(goals) : next[k] = goals[l]
        BY <1>15, <3>2
      <4> QED BY <1>17, <4>1
    <3> QED BY <3>1, <3>2
  <2> QED BY <2>1, <2>2 DEF Open
<1>19. ASSUME NEW d, NEW other, Pending(d, other, goals)
       PROVE  other = need \/ Pending(d, other, next)
  <2>1. PICK l \in 1 .. Len(goals) : goals[l].need = other /\ d.name \in goals[l].path
    BY <1>19 DEF Pending
  <2>2. CASE l = 1
    BY <1>6, <2>1, <2>2
  <2>3. CASE l # 1
    <3>1. l \in 2 .. Len(goals)
      BY <2>3
    <3> QED BY <1>16, <2>1, <3>1 DEF Pending
  <2> QED BY <2>2, <2>3
<1>20. \A other \in Elements(c.deps) : Pending(c, other, next)
  <2>1. ASSUME NEW other \in Elements(c.deps) PROVE Pending(c, other, next)
    <3>1. PICK k \in 1 .. m : c.deps[k] = other
      BY <1>0 DEF Elements
    <3>2. k \in 1 .. Len(next) /\ next[k].need = other /\ c.name \in next[k].path
      BY <1>13, <1>14, <3>1
    <3> QED BY <3>2 DEF Pending
  <2> QED BY <2>1
<1>21. \A i \in 1 .. n : selected[i].name # c.name /\ selected[i] \in Elements(selected)
  BY <1>2 DEF Elements
<1>22. need \in PgNeeds(request)
  BY <1>6 DEF PgGoals
<1>23. PgTyped(now, more, next, request, catalog)
  <2>1. ASSUME NEW i \in 1 .. (n + 1), NEW j \in 1 .. (n + 1), now[i].name = now[j].name
        PROVE  i = j
    BY <1>1, <1>2, <1>4, <1>5, <1>21, <2>1
  <2>2. Open(next) \subseteq {d.name : d \in Elements(now)}
    BY <1>5, <1>18 DEF Build, PgTyped
  <2> QED BY <1>4, <1>13, <1>22, <2>1, <2>2 DEF Build, PgTyped
<1>24. Accounted(now, more, next, request)
  <2>1. ASSUME NEW d \in Elements(now) PROVE Satisfies(d, more)
    <3>1. CASE d = c
      BY <3>1
    <3>2. CASE d \in Elements(selected)
      BY <3>2 DEF Satisfies, Build, Accounted
    <3> QED BY <1>5, <3>1, <3>2
  <2>2. \A other : Owed(other, selected, request) => Owed(other, now, request)
    BY <1>5 DEF Owed
  <2>3. Owed(need, selected, request)
    BY <1>6 DEF Build, Accounted
  <2>4. ASSUME NEW k \in 1 .. Len(next) PROVE Owed(next[k].need, now, request)
    <3>1. CASE k \in 1 .. m
      <4>1. next[k].need = c.deps[k] /\ c.deps[k] \in Elements(c.deps) /\ c \in Elements(now)
        BY <1>0, <1>5, <1>14, <3>1 DEF Elements
      <4> QED BY <4>1 DEF Owed
    <3>2. CASE k \notin 1 .. m
      <4>1. Owed(next[k].need, selected, request)
        BY <1>15, <3>2 DEF Build, Accounted
      <4> QED BY <2>2, <4>1
    <3> QED BY <3>1, <3>2
  <2>5. ASSUME NEW d \in Elements(now)
        PROVE  d.name \in request \/ \E e \in Elements(now) : DependsOn(e, d)
    <3>1. CASE d = c
      <4>1. CASE \E name \in request : need = AnyOf(name)
        BY <3>1, <4>1 DEF AnyOf
      <4>2. CASE \E e \in Elements(selected) : need \in Elements(e.deps)
        BY <1>5, <3>1, <4>2 DEF DependsOn
      <4> QED BY <2>3, <4>1, <4>2 DEF Owed
    <3>2. CASE d \in Elements(selected)
      BY <1>5, <3>2 DEF Build, Accounted
    <3> QED BY <1>5, <3>1, <3>2
  <2> QED BY <2>1, <2>2, <2>3, <2>4, <2>5 DEF Build, Accounted
<1>25. Trailed(now, next)
  <2>1. ASSUME NEW k \in 1 .. Len(next), NEW i \in 1 .. (n + 1), now[i].name \in next[k].path
        PROVE  \/ next[k].need \in Elements(now[i].deps)
               \/ \E j \in 1 .. (n + 1) :
                     j > i /\ now[j].name \in next[k].path /\ DependsOn(now[i], now[j])
    <3>1. CASE k \in 1 .. m /\ i = n + 1
      BY <1>0, <1>4, <1>14, <3>1 DEF Elements
    <3>2. CASE k \in 1 .. m /\ i \in 1 .. n
      <4>1. selected[i].name \in path /\ next[k].path = path \cup {c.name}
        BY <1>4, <1>14, <1>21, <2>1, <3>2
      <4>2. CASE need \in Elements(selected[i].deps)
        <5>1. DependsOn(now[i], now[n + 1]) /\ n + 1 > i /\ n + 1 \in 1 .. (n + 1)
          BY <1>4, <3>2, <4>2 DEF DependsOn
        <5> QED BY <1>4, <4>1, <5>1
      <4>3. CASE \E j \in 1 .. n : j > i /\ selected[j].name \in path /\ DependsOn(selected[i], selected[j])
        <5>1. PICK j \in 1 .. n : j > i /\ selected[j].name \in path /\ DependsOn(selected[i], selected[j])
          BY <4>3
        <5>2. /\ j \in 1 .. (n + 1) /\ now[j].name \in next[k].path
              /\ DependsOn(now[i], now[j])
          BY <1>4, <1>5, <3>2, <4>1, <5>1
        <5> QED BY <5>1, <5>2
      <4>4. \/ need \in Elements(selected[i].deps)
            \/ \E j \in 1 .. n :
                  j > i /\ selected[j].name \in path /\ DependsOn(selected[i], selected[j])
        BY <1>2, <1>6, <3>2, <4>1 DEF Build, Trailed
      <4> QED BY <4>2, <4>3, <4>4
    <3>3. CASE k \notin 1 .. m
      <4>1. PICK l \in 1 .. Len(goals) : next[k] = goals[l]
        BY <1>15, <3>3
      <4>2. now[i].name # c.name
        BY <1>17, <1>18, <2>1, <4>1
      <4>3. i \in 1 .. n /\ now[i] = selected[i]
        BY <1>4, <1>5, <4>2
      <4>4. \/ goals[l].need \in Elements(selected[i].deps)
            \/ \E j \in 1 .. n :
                  j > i /\ selected[j].name \in goals[l].path /\ DependsOn(selected[i], selected[j])
        BY <1>2, <2>1, <4>1, <4>3 DEF Build, Trailed
      <4> QED BY <1>4, <1>5, <4>1, <4>3, <4>4
    <3> QED BY <1>5, <3>1, <3>2, <3>3
  <2> QED BY <1>4, <2>1 DEF Trailed
<1>26. Nested(now, next)
  <2>1. ASSUME NEW k \in 1 .. Len(next), NEW l \in 1 .. Len(next), k < l
        PROVE  /\ next[l].path \subseteq next[k].path
               /\ \A i, j \in 1 .. (n + 1) :
                     i < j /\ now[i].name \in next[k].path /\ now[j].name \in next[l].path
                       => now[i].name \in next[l].path
    <3>1. CASE l \in 1 .. m
      <4>1. k \in 1 .. m
        BY <2>1, <3>1
      <4> QED BY <1>14, <3>1, <4>1
    <3>2. CASE l \notin 1 .. m
      <4>1. PICK y \in 2 .. Len(goals) : y = l - m + 1 /\ next[l] = goals[y]
        BY <1>15, <3>2
      <4>2. PICK x \in 1 .. Len(goals) :
               x < y /\ (k \in 1 .. m => x = 1) /\ (k \notin 1 .. m => next[k] = goals[x])
        <5>1. CASE k \in 1 .. m
          BY <1>6, <4>1, <5>1
        <5>2. CASE k \notin 1 .. m
          <6>1. k - m + 1 \in 2 .. Len(goals) /\ next[k] = goals[k - m + 1]
            BY <1>15, <5>2
          <6>2. k - m + 1 < l - m + 1
            BY <2>1
          <6> QED BY <4>1, <5>2, <6>1, <6>2
        <5> QED BY <5>1, <5>2
      <4>3. goals[x].path \subseteq next[k].path /\ next[k].path \subseteq goals[x].path \cup {c.name}
        BY <1>6, <1>14, <4>2
      <4>4. y \in 1 .. Len(goals)
        BY <4>1
      <4>5. next[l].path \subseteq next[k].path
        BY <4>1, <4>2, <4>3, <4>4 DEF Build, Nested
      <4>6. ASSUME NEW i \in 1 .. (n + 1), NEW j \in 1 .. (n + 1), i < j,
                   now[i].name \in next[k].path, now[j].name \in next[l].path
            PROVE  now[i].name \in next[l].path
        <5>1. now[j].name # c.name
          BY <1>17, <1>18, <4>1, <4>4, <4>6
        <5>2. j \in 1 .. n /\ i \in 1 .. n /\ now[j] = selected[j] /\ now[i] = selected[i]
          <6>1. j # n + 1
            BY <1>4, <5>1
          <6>2. j \in 1 .. n /\ i \in 1 .. n
            BY <4>6, <6>1
          <6> QED BY <1>4, <6>2
        <5>3. selected[i].name \in goals[x].path
          BY <1>21, <4>3, <4>6, <5>2
        <5>4. \A a, b \in 1 .. n :
                 a < b /\ selected[a].name \in goals[x].path /\ selected[b].name \in goals[y].path
                   => selected[a].name \in goals[y].path
          BY <1>2, <4>2, <4>4 DEF Build, Nested
        <5>5. selected[j].name \in goals[y].path
          BY <4>1, <4>6, <5>2
        <5> QED BY <4>1, <4>6, <5>2, <5>3, <5>4, <5>5
      <4> QED BY <4>5, <4>6
    <3> QED BY <3>1, <3>2
  <2> QED BY <1>4, <2>1 DEF Nested
<1>27. Answered(now, more, next, request)
  <2>1. ASSUME NEW name \in request
        PROVE  \/ \E k \in 1 .. Len(next) : next[k].need.name = name
               \/ \E d \in Elements(now) : d.name = name
    <3>1. CASE \E d \in Elements(selected) : d.name = name
      BY <1>5, <3>1
    <3>2. CASE \E k \in 1 .. Len(goals) : goals[k].need.name = name
      <4>1. PICK k \in 1 .. Len(goals) : goals[k].need.name = name
        BY <3>2
      <4>2. CASE k = 1
        BY <1>5, <1>6, <4>1, <4>2
      <4>3. CASE k # 1
        <5>1. k \in 2 .. Len(goals)
          BY <4>3
        <5> QED BY <1>16, <4>1, <5>1
      <4> QED BY <4>2, <4>3
    <3> QED BY <3>1, <3>2 DEF Build, Answered
  <2>2. ASSUME NEW d \in Elements(now), NEW other \in Elements(d.deps)
        PROVE  Pending(d, other, next) \/ Met(other, now, more)
    <3>1. CASE d = c
      BY <1>20, <2>2, <3>1
    <3>2. CASE d \in Elements(selected)
      <4>1. Pending(d, other, goals) \/ Met(other, selected, wanted)
        BY <2>2, <3>2 DEF Build, Answered
      <4>2. CASE Met(other, selected, wanted)
        BY <1>5, <4>2 DEF Met
      <4>3. CASE Pending(d, other, goals)
        <5>1. Met(need, now, more)
          BY <1>5 DEF Met
        <5> QED BY <1>19, <4>3, <5>1
      <4> QED BY <4>1, <4>2, <4>3
    <3> QED BY <1>5, <3>1, <3>2
  <2> QED BY <2>1, <2>2 DEF Answered
<1>28. Grounded(now, next)
  <2>1. PICK before \in SUBSET (1 .. n) : before = Closed(selected, goals)
    BY <1>2 DEF Closed
  <2>2. before \subseteq Closed(now, next)
    <3>1. ASSUME NEW i \in before PROVE i \in Closed(now, next)
      <4>1. i \in 1 .. n /\ selected[i].name \notin path
        BY <1>18, <2>1, <3>1 DEF Closed
      <4>2. now[i].name \notin Open(next)
        BY <1>4, <1>18, <1>21, <4>1
      <4> QED BY <1>4, <1>5, <4>1, <4>2 DEF Closed
    <3> QED BY <3>1
  <2>3. ASSUME NEW i \in before, NEW j \in 1 .. (n + 1), DependsOn(now[i], now[j])
        PROVE  j \in before
    <3>1. i \in 1 .. n /\ now[i] = selected[i] /\ selected[i].name \notin Open(goals)
      BY <1>4, <2>1 DEF Closed
    <3>2. CASE j = n + 1
      <4>1. PICK other \in Elements(selected[i].deps) : other.name = c.name
        BY <1>4, <2>3, <3>1, <3>2 DEF DependsOn
      <4>2. ~ Pending(selected[i], other, goals)
        BY <3>1 DEF Pending, Open
      <4>3. Met(other, selected, wanted)
        BY <1>21, <3>1, <4>1, <4>2 DEF Build, Answered
      <4> QED BY <4>1, <4>3 DEF Met
    <3>3. CASE j \in 1 .. n
      BY <1>2, <1>4, <2>1, <2>3, <3>1, <3>3 DEF Build, Grounded
    <3> QED BY <1>5, <3>2, <3>3
  <2>4. ASSUME NEW i \in 1 .. (n + 1), NEW j \in 1 .. (n + 1), NEW other \in Elements(now[i].deps),
               other.name = now[j].name
        PROVE  \/ Pending(now[i], other, next) \/ j \in before \/ j > i
    <3>1. CASE i = n + 1
      BY <1>4, <1>20, <2>4, <3>1
    <3>2. CASE i \in 1 .. n /\ j = n + 1
      BY <3>2
    <3>3. CASE i \in 1 .. n /\ j \in 1 .. n
      <4>1. now[i] = selected[i] /\ now[j] = selected[j]
        BY <1>4, <3>3
      <4>2. Pending(selected[i], other, goals) \/ j \in before \/ j > i
        BY <1>2, <2>1, <2>4, <3>3, <4>1 DEF Build, Grounded
      <4>3. other # need
        BY <1>21, <2>4, <3>3, <4>1
      <4> QED BY <1>19, <4>1, <4>2, <4>3
    <3> QED BY <1>5, <3>1, <3>2, <3>3
  <2>5. ASSUME NEW i \in Closed(now, next), i \notin before, NEW j \in 1 .. (n + 1),
               DependsOn(now[i], now[j])
        PROVE  j \in before \/ j > i
    <3>1. i \in 1 .. (n + 1) /\ now[i].name \notin Open(next)
      BY <1>4 DEF Closed
    <3>2. PICK other \in Elements(now[i].deps) : other.name = now[j].name
      BY <2>5 DEF DependsOn
    <3>3. ~ Pending(now[i], other, next)
      BY <3>1 DEF Pending, Open
    <3> QED BY <2>4, <3>1, <3>2, <3>3
  <2>6. ASSUME NEW i \in Closed(now, next), NEW j \in 1 .. (n + 1), DependsOn(now[i], now[j])
        PROVE  j \in Closed(now, next)
    <3>1. CASE i \in before
      BY <2>2, <2>3, <2>6, <3>1
    <3>2. CASE i \notin before
      <4>1. j \in before \/ j > i
        BY <2>5, <2>6, <3>2
      <4>2. ASSUME j > i, now[j].name \in Open(next) PROVE FALSE
        <5>1. i \in 1 .. n /\ now[i].name \notin Open(next)
          BY <1>4, <1>5, <4>2 DEF Closed
        <5>2. i # n + 1 /\ now[i] = selected[i] /\ now[i].name \in path
          BY <1>2, <1>4, <1>18, <2>1, <3>2, <5>1 DEF Closed
        <5>3. PICK k \in 1 .. Len(next) : now[j].name \in next[k].path
          BY <4>2 DEF Open
        <5>4. CASE k \in 1 .. m
          <6>1. now[i].name \in next[k].path
            BY <1>14, <5>2, <5>4
          <6> QED BY <5>1, <6>1 DEF Open
        <5>5. CASE k \notin 1 .. m
          <6>1. PICK l \in 1 .. Len(goals) : l > 1 /\ next[k] = goals[l]
            BY <1>15, <5>5
          <6>2. now[j].name # c.name
            BY <1>17, <1>18, <5>3, <6>1
          <6>3. j \in 1 .. n /\ now[j] = selected[j]
            BY <1>4, <1>5, <6>2
          <6>4. selected[i].name \in goals[l].path
            BY <1>2, <1>6, <4>2, <5>1, <5>2, <5>3, <6>1, <6>3 DEF Build, Nested
          <6> QED BY <5>1, <5>2, <6>1, <6>4 DEF Open
        <5> QED BY <5>4, <5>5
      <4> QED BY <1>4, <2>2, <4>1, <4>2 DEF Closed
    <3> QED BY <3>1, <3>2
  <2>7. Layered(now, Closed(now, next))
    <3>1. before \in SUBSET (1 .. (n + 1)) /\ n + 1 \in Nat
      BY <1>5
    <3>2. PICK closing \in SUBSET (1 .. (n + 1)) : closing = Closed(now, next) \ before
      BY <1>4 DEF Closed
    <3>3. Layered(now, before)
      <4>1. Layered(selected, before)
        BY <2>1 DEF Build, Grounded
      <4>2. \A i, j \in before : DependsOn(now[i], now[j]) <=> DependsOn(selected[i], selected[j])
        BY <1>4
      <4> QED BY <4>1, <4>2 DEF Layered
    <3>4. \A i \in before, j \in closing : ~ DependsOn(now[i], now[j])
      BY <2>3, <3>2
    <3>5. \A i, j \in closing : DependsOn(now[i], now[j]) => j > i
      BY <2>5, <3>2
    <3>6. Layered(now, before \cup closing)
      BY <3>1, <3>3, <3>4, <3>5, LayersGrow
    <3> QED BY <2>2, <3>2, <3>6
  <2> QED BY <1>4, <2>2, <2>4, <2>6, <2>7 DEF Grounded
<1>29. Build(now, more, next, request, catalog)
  BY <1>23, <1>24, <1>25, <1>26, <1>27, <1>28 DEF Build
<1> QED BY <1>3, <1>12, <1>29

\* The packages of a set can be the packages of the runtime, for the names requested.
Serves(set, request) ==
  /\ \A c, d \in set : c.name = d.name => c = d
  /\ request \subseteq {c.name : c \in set}
  /\ \A c \in set : c.fits /\ \A need \in Elements(c.deps) : \E d \in set : Admits(need, d)
  /\ \A group \in (SUBSET set) \ {{}} : \E c \in group : \A d \in group : ~ DependsOn(c, d)

\* A solution that contains what is selected has a package for the next goal, which is not on its path.
Fits(set, goal, wanted) ==
  /\ goal.need.name \notin goal.path
  /\ \E e \in set : e.name = goal.need.name /\ Satisfies(e, wanted \cup {goal.need})

LEMMA SolutionFits ==
  ASSUME NEW catalog, NEW request, NEW selected, NEW wanted, NEW goals,
         Build(selected, wanted, goals, request, catalog), goals # <<>>,
         NEW set, Serves(set, request), Elements(selected) \subseteq set
  PROVE  Fits(set, Head(goals), wanted)
<1> PICK need, path, more : need = Head(goals).need /\ path = Head(goals).path /\ more = wanted \cup {need}
  OBVIOUS
<1>1. /\ goals \in Seq(PgGoals(request)) /\ selected \in Seq(catalog)
      /\ Open(goals) \subseteq {c.name : c \in Elements(selected)}
  BY DEF Build, PgTyped
<1>2. /\ Len(goals) \in Nat \ {0} /\ need = goals[1].need /\ path = goals[1].path
      /\ 1 \in 1 .. Len(goals)
  BY <1>1
<1>3. ASSUME NEW other, Owed(other, selected, request)
      PROVE  \E d \in set : Admits(other, d)
  <2>1. ASSUME NEW name \in request, other = AnyOf(name) PROVE \E d \in set : Admits(other, d)
    <3>1. PICK d \in set : d.name = name
      BY DEF Serves
    <3>2. Admits(other, d)
      BY <2>1, <3>1 DEF Admits, AnyOf
    <3> QED BY <3>2
  <2>2. ASSUME NEW c \in Elements(selected), other \in Elements(c.deps)
        PROVE  \E d \in set : Admits(other, d)
    BY <2>2 DEF Serves
  <2> QED BY <1>3, <2>1, <2>2 DEF Owed
<1>4. \A other \in more : Owed(other, selected, request)
  BY <1>2 DEF Build, Accounted
<1>5. PICK e \in set : Admits(need, e)
  BY <1>3, <1>4
<1>6. e.name = need.name
  BY <1>5 DEF Admits
<1>7. Satisfies(e, more)
  <2>1. ASSUME NEW other \in more, other.name = e.name PROVE Admits(other, e)
    <3>1. PICK d \in set : Admits(other, d)
      BY <1>3, <1>4
    <3>2. d = e
      BY <2>1, <3>1 DEF Admits, Serves
    <3> QED BY <3>1, <3>2
  <2>2. e.fits
    BY DEF Serves
  <2> QED BY <2>1, <2>2 DEF Satisfies
<1>8. ASSUME need.name \in path PROVE FALSE
  <2>1. PICK group : group = {c \in Elements(selected) : c.name \in path}
    OBVIOUS
  <2>2. PICK first \in Elements(selected) : first.name = need.name
    BY <1>1, <1>2, <1>8 DEF Open
  <2>3. first = e /\ e \in group
    BY <1>6, <1>8, <2>1, <2>2 DEF Serves
  <2>4. ASSUME NEW c \in group PROVE \E d \in group : DependsOn(c, d)
    <3>1. PICK i \in 1 .. Len(selected) : selected[i] = c
      BY <2>1, <2>4 DEF Elements
    <3>2. CASE need \in Elements(c.deps)
      <4>1. DependsOn(c, e)
        BY <1>6, <3>2 DEF DependsOn
      <4> QED BY <2>3, <4>1
    <3>3. CASE \E j \in 1 .. Len(selected) : selected[j].name \in path /\ DependsOn(c, selected[j])
      <4>1. PICK j \in 1 .. Len(selected) : selected[j].name \in path /\ DependsOn(c, selected[j])
        BY <3>3
      <4>2. selected[j] \in group
        BY <2>1, <4>1 DEF Elements
      <4> QED BY <4>1, <4>2
    <3>4. c.name \in goals[1].path
      BY <1>2, <2>1
    <3> QED BY <1>2, <3>1, <3>2, <3>3, <3>4 DEF Build, Trailed
  <2>5. group \in (SUBSET set) \ {{}}
    BY <2>1, <2>3
  <2> QED BY <2>4, <2>5 DEF Serves
<1> QED BY <1>6, <1>7, <1>8 DEF Fits

\* A search without goals has found a solution.
LEMMA DoneServes ==
  ASSUME NEW catalog, NEW request, NEW selected, NEW wanted,
         Build(selected, wanted, <<>>, request, catalog)
  PROVE  /\ Serves(Elements(selected), request)
         /\ \A c \in Elements(selected) :
               c.name \in request \/ \E d \in Elements(selected) : DependsOn(d, c)
<1> PICK none : none = <<>>
  OBVIOUS
<1>1. Build(selected, wanted, none, request, catalog) /\ 1 .. Len(none) = {}
  OBVIOUS
<1>2. /\ selected \in Seq(catalog)
      /\ \A i, j \in 1 .. Len(selected) : selected[i].name = selected[j].name => i = j
  BY <1>1 DEF Build, PgTyped
<1>3. \A c, d \in Elements(selected) : c.name = d.name => c = d
  BY <1>2 DEF Elements
<1>4. request \subseteq {c.name : c \in Elements(selected)}
  BY <1>1 DEF Build, Answered
<1>5. ASSUME NEW c \in Elements(selected)
      PROVE  c.fits /\ \A need \in Elements(c.deps) : \E d \in Elements(selected) : Admits(need, d)
  <2>1. \A d \in Elements(selected) : Satisfies(d, wanted)
    BY <1>1 DEF Build, Accounted
  <2>2. ASSUME NEW need \in Elements(c.deps) PROVE \E d \in Elements(selected) : Admits(need, d)
    <3>1. Met(need, selected, wanted)
      BY <1>1 DEF Build, Answered, Pending
    <3>2. PICK d \in Elements(selected) : d.name = need.name
      BY <3>1 DEF Met
    <3>3. Admits(need, d)
      BY <2>1, <3>1, <3>2 DEF Met, Satisfies
    <3> QED BY <3>3
  <2> QED BY <2>1, <2>2 DEF Satisfies
<1>6. ASSUME NEW group \in (SUBSET Elements(selected)) \ {{}}
      PROVE  \E c \in group : \A d \in group : ~ DependsOn(c, d)
  <2>1. PICK places : places = {i \in 1 .. Len(selected) : selected[i] \in group}
    OBVIOUS
  <2>2. Open(none) = {}
    BY <1>1 DEF Open
  <2>3. Closed(selected, none) = 1 .. Len(selected)
    BY <2>2 DEF Closed
  <2>4. places # {} /\ places \subseteq Closed(selected, none)
    BY <1>6, <2>1, <2>3 DEF Elements
  <2>5. PICK i \in places : \A j \in places : ~ DependsOn(selected[i], selected[j])
    BY <1>1, <2>4 DEF Build, Grounded, Layered
  <2>6. \A d \in group : \E j \in places : selected[j] = d
    BY <2>1 DEF Elements
  <2>7. selected[i] \in group
    BY <2>1
  <2> QED BY <2>5, <2>6, <2>7
<1>7. \A c \in Elements(selected) :
         c.name \in request \/ \E d \in Elements(selected) : DependsOn(d, c)
  BY <1>1 DEF Build, Accounted
<1> QED BY <1>3, <1>4, <1>5, <1>6, <1>7 DEF Serves

\* The search begins with a goal for every name requested.
LEMMA StartBuilds ==
  ASSUME NEW catalog, NEW names, NEW n \in Nat, NEW start,
         start = [i \in 1 .. n |-> Goal(AnyOf(names[i]), {})],
         NEW request, request = {names[i] : i \in 1 .. n}
  PROVE  Build(<<>>, {AnyOf(name) : name \in request}, start, request, catalog)
<1>1. PICK none : none = <<>>
  OBVIOUS
<1>2. none \in Seq(catalog) /\ Len(none) = 0 /\ 1 .. Len(none) = {} /\ Elements(none) = {}
  <2>1. none \in Seq(catalog) /\ Len(none) = 0
    BY <1>1
  <2> QED BY <2>1 DEF Elements
<1>3. PICK wanted : wanted = {AnyOf(name) : name \in request}
  OBVIOUS
<1>4. \A i \in 1 .. n : start[i] = Goal(AnyOf(names[i]), {}) /\ names[i] \in request
  OBVIOUS
<1>5. \A i \in 1 .. n : /\ start[i].need = AnyOf(names[i]) /\ start[i].path = {}
                        /\ start[i] \in PgGoals(request)
  <2>1. ASSUME NEW i \in 1 .. n
        PROVE  /\ start[i].need = AnyOf(names[i]) /\ start[i].path = {}
               /\ start[i] \in PgGoals(request)
    <3>1. AnyOf(names[i]) \in PgNeeds(request)
      BY <1>4 DEF PgNeeds
    <3>2. Goal(AnyOf(names[i]), {}) \in PgGoals(request)
      BY <3>1 DEF Goal, PgGoals
    <3> QED BY <1>4, <3>2 DEF Goal
  <2> QED BY <2>1
<1>6. start \in Seq(PgGoals(request)) /\ Len(start) = n
  <2>1. start \in [1 .. n -> PgGoals(request)]
    BY <1>5
  <2> QED BY <2>1
<1>7. Open(start) = {}
  <2>1. \A k \in 1 .. Len(start) : start[k].path = {}
    BY <1>5, <1>6
  <2> QED BY <2>1 DEF Open
<1>8. PgTyped(none, wanted, start, request, catalog)
  BY <1>2, <1>3, <1>6, <1>7 DEF PgTyped, PgNeeds
<1>9. Accounted(none, wanted, start, request)
  <2>1. \A need \in wanted : Owed(need, none, request)
    BY <1>3 DEF Owed
  <2>2. \A k \in 1 .. Len(start) : Owed(start[k].need, none, request)
    BY <1>4, <1>5, <1>6 DEF Owed
  <2> QED BY <1>2, <2>1, <2>2 DEF Accounted
<1>10. Trailed(none, start) /\ Nested(none, start)
  <2>1. \A k \in 1 .. Len(start) : start[k].path = {}
    BY <1>5, <1>6
  <2>2. Trailed(none, start)
    BY <2>1 DEF Trailed
  <2>3. Nested(none, start)
    BY <2>1 DEF Nested
  <2> QED BY <2>2, <2>3
<1>11. Answered(none, wanted, start, request)
  <2>1. ASSUME NEW name \in request PROVE \E k \in 1 .. Len(start) : start[k].need.name = name
    <3>1. PICK i \in 1 .. n : names[i] = name
      OBVIOUS
    <3>2. start[i].need = AnyOf(name)
      BY <1>5, <3>1
    <3>3. AnyOf(name).name = name
      BY DEF AnyOf
    <3> QED BY <1>6, <3>2, <3>3
  <2> QED BY <1>2, <2>1 DEF Answered
<1>12. Grounded(none, start)
  <2>1. Closed(none, start) = {}
    BY <1>2 DEF Closed
  <2> QED BY <1>2, <2>1 DEF Grounded, Layered
<1>13. Build(none, wanted, start, request, catalog)
  BY <1>8, <1>9, <1>10, <1>11, <1>12 DEF Build
<1> QED BY <1>1, <1>3, <1>13

LEMMA FirstIsCandidate ==
  ASSUME NEW candidates \in SUBSET Manifests, candidates # {}
  PROVE  FirstCandidate(candidates) \in candidates
<1>1. \A c \in candidates : c.id \in Nat
  BY DEF Manifests
<1>2. PICK ids \in SUBSET Nat : ids = {c.id : c \in candidates}
  BY <1>1
<1>3. ids # {}
  BY <1>2
<1>4. PICK least \in ids : \A other \in ids : least <= other
  BY <1>3, LeastNatural
<1>5. \E c \in candidates : \A d \in candidates : c.id <= d.id
  BY <1>2, <1>4
<1> QED BY <1>5 DEF FirstCandidate

PgCodes == {"missing", "incompatible", "conflicting", "cyclic"}
PgTries(request, catalog) ==
  [path : SUBSET STRING, rest : Seq(PgGoals(request)), untried : SUBSET catalog,
   selected : Seq(catalog), wanted : SUBSET PgNeeds(request), code : PgCodes \cup {NoOne}]

\* Every candidate that was put aside can still be built on.
Tries(choice, request, catalog) ==
  \A c \in choice.untried :
     Build(Append(choice.selected, c), choice.wanted, Pursue(c, choice.path, choice.rest),
           request, catalog)

\* A solution contains what is selected, or what a choice would select next.
Reached(set, selected, choices, failing) ==
  \/ failing = NoOne /\ Elements(selected) \subseteq set
  \/ \E m \in 1 .. Len(choices) : \E c \in choices[m].untried :
        Elements(choices[m].selected) \cup {c} \subseteq set

Searched(selected, wanted, goals, choices, failing, request, catalog) ==
  /\ selected \in Seq(catalog) /\ failing \in PgCodes \cup {NoOne}
  /\ choices \in Seq(PgTries(request, catalog))
  /\ failing = NoOne => Build(selected, wanted, goals, request, catalog)
  /\ \A m \in 1 .. Len(choices) : Tries(choices[m], request, catalog)
  /\ \A set \in SUBSET catalog :
        Serves(set, request) => Reached(set, selected, choices, failing)

\* t is s and x after it; t is s without its last.
Longer(t, s, x, S) ==
  /\ t \in Seq(S) /\ Len(t) = Len(s) + 1 /\ t[Len(s) + 1] = x /\ Len(s) + 1 \in 1 .. Len(t)
  /\ \A k \in 1 .. Len(s) : k \in 1 .. Len(t) /\ t[k] = s[k]
  /\ \A k \in 1 .. Len(t) : k \in 1 .. Len(s) \/ k = Len(s) + 1
  /\ Elements(t) = Elements(s) \cup {x}
Shorter(t, s, S) ==
  /\ t \in Seq(S) /\ Len(t) = Len(s) - 1 /\ Len(s) \in 1 .. Len(s)
  /\ \A k \in 1 .. Len(t) : k \in 1 .. Len(s) /\ k < Len(s) /\ t[k] = s[k]
  /\ \A k \in 1 .. Len(s) : k = Len(s) \/ k \in 1 .. Len(t)

LEMMA AppendParts ==
  ASSUME NEW S, NEW s \in Seq(S), NEW x \in S, NEW t, t = Append(s, x)
  PROVE  Longer(t, s, x, S)
<1>1. /\ t \in Seq(S) /\ Len(t) = Len(s) + 1 /\ t[Len(s) + 1] = x
      /\ \A k \in 1 .. Len(s) : k \in 1 .. Len(t) /\ t[k] = s[k]
      /\ \A k \in 1 .. Len(t) : k \in 1 .. Len(s) \/ k = Len(s) + 1
      /\ Len(s) + 1 \in 1 .. Len(t)
  OBVIOUS
<1> QED BY <1>1 DEF Longer, Elements

LEMMA FrontParts ==
  ASSUME NEW S, NEW s \in Seq(S), s # <<>>, NEW t, t = SubSeq(s, 1, Len(s) - 1)
  PROVE  Shorter(t, s, S)
<1>1. Len(s) \in Nat \ {0}
  OBVIOUS
<1> PICK n \in Nat : n = Len(s) - 1
  BY <1>1
<1>2. t = SubSeq(s, 1, n) /\ 1 \in Int /\ n \in Int /\ \A i \in 1 .. n : s[i] \in S
  BY <1>1
<1>. t \in Seq(S) /\ Len(t) = n /\ \A i \in 1 .. n : t[i] = s[i]
  BY <1>2
<1>3. \A k \in 1 .. Len(t) : t[k] = s[k]
  OBVIOUS
<1> QED BY <1>1, <1>2, <1>3 DEF Shorter

\* A selected package that fits what is asked of it now is kept.
LEMMA RecognizeSearches ==
  ASSUME NEW catalog, catalog \subseteq Manifests, NEW request, NEW selected, NEW wanted,
         NEW goals, NEW choices, Searched(selected, wanted, goals, choices, NoOne, request, catalog),
         goals # <<>>, NEW need, need = Head(goals).need, need.name \notin Head(goals).path,
         NEW more, more = wanted \cup {need}, NEW rest, rest = Tail(goals),
         NEW found \in Elements(selected), found.name = need.name, Satisfies(found, more)
  PROVE  Searched(selected, more, rest, choices, NoOne, request, catalog)
<1>1. Build(selected, wanted, goals, request, catalog)
  BY DEF Searched
<1>2. Build(selected, more, rest, request, catalog)
  BY <1>1, RecognizeBuilds
<1> QED BY <1>2 DEF Searched

\* A goal for which no package can be found has no solution that contains what is selected.
NoneFits(catalog, selected, need, path, wanted) ==
  \A e \in catalog :
     \/ e.name # need.name \/ ~ Satisfies(e, wanted) \/ need.name \in path
     \/ \E c \in Elements(selected) : c.name = need.name /\ c # e

LEMMA FailSearches ==
  ASSUME NEW catalog, NEW request, NEW selected, NEW wanted,
         NEW goals, NEW choices, Searched(selected, wanted, goals, choices, NoOne, request, catalog),
         goals # <<>>, NEW need, need = Head(goals).need, NEW path, path = Head(goals).path,
         NEW more, more = wanted \cup {need}, NEW code \in PgCodes,
         NoneFits(catalog, selected, need, path, more)
  PROVE  Searched(selected, more, goals, choices, code, request, catalog)
<1>1. code # NoOne
  BY DEF PgCodes, NoOne
<1>2. Build(selected, wanted, goals, request, catalog)
  BY DEF Searched
<1>3. ASSUME NEW set \in SUBSET catalog, Serves(set, request), Elements(selected) \subseteq set
      PROVE  FALSE
  <2>0. Fits(set, Head(goals), wanted)
    BY <1>2, <1>3, SolutionFits
  <2>1. need.name \notin path /\ \E e \in set : e.name = need.name /\ Satisfies(e, more)
    BY <2>0 DEF Fits
  <2>2. PICK e \in set : e.name = need.name /\ Satisfies(e, more)
    BY <2>1
  <2>3. \A c \in Elements(selected) : c.name = need.name => c = e
    BY <1>3, <2>2 DEF Serves
  <2> QED BY <2>1, <2>2, <2>3 DEF NoneFits
<1>4. \A set \in SUBSET catalog : Serves(set, request) => Reached(set, selected, choices, code)
  BY <1>3 DEF Searched, Reached
<1> QED BY <1>1, <1>4 DEF Searched

\* The first candidate that fits is selected, the others are put aside.
Absent(selected, name) == \A d \in Elements(selected) : d.name # name
Fitted(fitting, catalog, name, wanted) ==
  fitting = {c \in catalog : c.name = name /\ Satisfies(c, wanted)}
Opens(choice, goal, rest, untried, selected, wanted) ==
  choice = [path |-> goal.path, rest |-> rest, untried |-> untried,
            selected |-> selected, wanted |-> wanted, code |-> NoOne]

LEMMA ChooseSearches ==
  ASSUME NEW catalog, catalog \subseteq Manifests, NEW request, NEW selected, NEW wanted,
         NEW goals, NEW choices, Searched(selected, wanted, goals, choices, NoOne, request, catalog),
         goals # <<>>, NEW goal, goal = Head(goals), NEW rest, rest = Tail(goals),
         NEW more, more = wanted \cup {goal.need},
         goal.need.name \notin goal.path, Absent(selected, goal.need.name),
         NEW fitting, Fitted(fitting, catalog, goal.need.name, more), NEW first \in fitting,
         NEW choice, Opens(choice, goal, rest, fitting \ {first}, selected, more),
         NEW now, now = Append(selected, first), NEW after, after = Append(choices, choice)
  PROVE  Searched(now, more, Pursue(first, goal.path, rest), after, NoOne, request, catalog)
<1> PICK need, path : need = goal.need /\ path = goal.path
  OBVIOUS
<1>. fitting = {c \in catalog : c.name = need.name /\ Satisfies(c, more)}
  BY DEF Fitted
<1>. choice = [path |-> path, rest |-> rest, untried |-> fitting \ {first},
               selected |-> selected, wanted |-> more, code |-> NoOne]
  BY DEF Opens
<1>1. Build(selected, wanted, goals, request, catalog)
  BY DEF Searched
<1>2. ASSUME NEW c \in fitting
      PROVE  Build(Append(selected, c), more, Pursue(c, path, rest), request, catalog)
  <2>1. c \in catalog /\ c.name = need.name /\ Satisfies(c, more)
    BY <1>2
  <2> QED BY <1>1, <2>1, ChooseBuilds DEF Absent
<1>3. selected \in Seq(catalog) /\ choices \in Seq(PgTries(request, catalog)) /\ first \in catalog
  BY DEF Searched
<1> PICK tries : tries = PgTries(request, catalog)
  OBVIOUS
<1>4. choice \in PgTries(request, catalog)
  <2>1. goals \in Seq(PgGoals(request)) /\ wanted \subseteq PgNeeds(request)
    BY <1>1 DEF Build, PgTyped
  <2>2. Head(goals) \in PgGoals(request) /\ rest \in Seq(PgGoals(request))
    BY <2>1
  <2>3. need \in PgNeeds(request) /\ path \in SUBSET STRING
    BY <2>2 DEF PgGoals
  <2>4. more \subseteq PgNeeds(request) /\ fitting \ {first} \subseteq catalog
    BY <2>1, <2>3
  <2> QED BY <1>3, <2>2, <2>3, <2>4 DEF PgTries
<1>5. choices \in Seq(tries) /\ choice \in tries
  BY <1>3, <1>4
<1>. Longer(after, choices, choice, tries)
  BY <1>5, AppendParts
<1>. Longer(now, selected, first, catalog)
  BY <1>3, AppendParts
<1>6. now \in Seq(catalog) /\ Elements(now) = Elements(selected) \cup {first}
  BY DEF Longer
<1>11. /\ after \in Seq(tries) /\ after[Len(choices) + 1] = choice /\ Len(choices) + 1 \in 1 .. Len(after)
       /\ \A k \in 1 .. Len(choices) : k \in 1 .. Len(after) /\ after[k] = choices[k]
       /\ \A k \in 1 .. Len(after) : k \in 1 .. Len(choices) \/ k = Len(choices) + 1
  BY DEF Longer
<1>7. /\ choice.untried = fitting \ {first} /\ choice.selected = selected
      /\ choice.wanted = more /\ choice.path = path /\ choice.rest = rest
  OBVIOUS
<1>8. Tries(choice, request, catalog)
  BY <1>2, <1>7 DEF Tries
<1>9. \A m \in 1 .. Len(after) : Tries(after[m], request, catalog)
  BY <1>8, <1>11 DEF Searched
<1>10. ASSUME NEW set \in SUBSET catalog, Serves(set, request)
       PROVE  Reached(set, now, after, NoOne)
  <2>1. CASE Elements(selected) \subseteq set
    <3>0. Fits(set, Head(goals), wanted)
      BY <1>1, <1>10, <2>1, SolutionFits
    <3>1. \E e \in set : e.name = need.name /\ Satisfies(e, more)
      BY <3>0 DEF Fits
    <3>2. PICK e \in set : e \in fitting
      BY <3>1
    <3>3. CASE e = first
      BY <1>6, <2>1, <3>2, <3>3 DEF Reached
    <3>4. CASE e # first
      <4>1. e \in choice.untried /\ Elements(choice.selected) \cup {e} \subseteq set
        BY <1>7, <2>1, <3>2, <3>4
      <4>2. PICK m \in 1 .. Len(after) : after[m] = choice
        BY <1>11, Zenon
      <4>3. e \in after[m].untried /\ Elements(after[m].selected) \cup {e} \subseteq set
        BY <4>1, <4>2, Zenon
      <4>4. \E c \in after[m].untried : Elements(after[m].selected) \cup {c} \subseteq set
        BY <4>3, Zenon
      <4> QED BY <4>4 DEF Reached
    <3> QED BY <3>3, <3>4
  <2>2. CASE ~ (Elements(selected) \subseteq set)
    <3>1. PICK m \in 1 .. Len(choices) : \E c \in choices[m].untried :
             Elements(choices[m].selected) \cup {c} \subseteq set
      BY <1>10, <2>2 DEF Searched, Reached
    <3> QED BY <1>11, <3>1 DEF Reached
  <2> QED BY <2>1, <2>2
<1>12. Build(now, more, Pursue(first, path, rest), request, catalog)
  BY <1>2
<1> QED BY <1>6, <1>9, <1>10, <1>11, <1>12 DEF Searched

\* A failure returns to the last choice, which tries its next candidate.
Innermost(choice, outer, choices) ==
  choices # <<>> /\ choice = choices[Len(choices)] /\ outer = SubSeq(choices, 1, Len(choices) - 1)
Retried(again, choice, next, code) == again = [choice EXCEPT !.untried = @ \ {next}, !.code = code]

LEMMA RetrySearches ==
  ASSUME NEW catalog, catalog \subseteq Manifests, NEW request, NEW selected, NEW wanted,
         NEW goals, NEW choices, NEW failing,
         Searched(selected, wanted, goals, choices, failing, request, catalog), failing # NoOne,
         NEW choice, NEW outer, Innermost(choice, outer, choices),
         NEW next \in choice.untried, NEW code \in PgCodes,
         NEW again, Retried(again, choice, next, code),
         NEW now, now = Append(choice.selected, next), NEW after, after = Append(outer, again)
  PROVE  Searched(now, choice.wanted, Pursue(next, choice.path, choice.rest), after, NoOne,
                  request, catalog)
<1>. choices # <<>> /\ choice = choices[Len(choices)] /\ outer = SubSeq(choices, 1, Len(choices) - 1)
  BY DEF Innermost
<1>. again = [choice EXCEPT !.untried = @ \ {next}, !.code = code]
  BY DEF Retried
<1>1. choices \in Seq(PgTries(request, catalog))
  BY DEF Searched
<1> PICK tries : tries = PgTries(request, catalog)
  OBVIOUS
<1>0. choices \in Seq(tries)
  BY <1>1
<1>. Shorter(outer, choices, tries)
  BY <1>0, FrontParts
<1>2. /\ outer \in Seq(tries) /\ Len(choices) \in 1 .. Len(choices)
      /\ \A k \in 1 .. Len(outer) : k \in 1 .. Len(choices) /\ outer[k] = choices[k]
      /\ \A k \in 1 .. Len(choices) : k = Len(choices) \/ k \in 1 .. Len(outer)
  BY DEF Shorter
<1>3. choice \in PgTries(request, catalog)
  BY <1>1, <1>2
<1>4. /\ choice.selected \in Seq(catalog) /\ choice.untried \in SUBSET catalog /\ next \in catalog
  BY <1>3 DEF PgTries
<1>5. /\ again \in PgTries(request, catalog) /\ again.untried = choice.untried \ {next}
      /\ again.selected = choice.selected /\ again.wanted = choice.wanted
      /\ again.path = choice.path /\ again.rest = choice.rest
  BY <1>3 DEF PgTries
<1>50. again \in tries
  BY <1>5
<1>. Longer(after, outer, again, tries)
  BY <1>2, <1>50, AppendParts
<1>. Longer(now, choice.selected, next, catalog)
  BY <1>4, AppendParts
<1>6. /\ after \in Seq(tries) /\ after[Len(outer) + 1] = again /\ Len(outer) + 1 \in 1 .. Len(after)
      /\ \A k \in 1 .. Len(outer) : k \in 1 .. Len(after) /\ after[k] = outer[k]
      /\ \A k \in 1 .. Len(after) : k \in 1 .. Len(outer) \/ k = Len(outer) + 1
  BY DEF Longer
<1>7. now \in Seq(catalog) /\ Elements(now) = Elements(choice.selected) \cup {next}
  BY DEF Longer
<1>8. Tries(choice, request, catalog)
  BY <1>2 DEF Searched
<1>9. Tries(again, request, catalog)
  BY <1>5, <1>8 DEF Tries
<1>10. \A m \in 1 .. Len(after) : Tries(after[m], request, catalog)
  BY <1>2, <1>6, <1>9 DEF Searched
<1>11. ASSUME NEW set \in SUBSET catalog, Serves(set, request)
       PROVE  Reached(set, now, after, NoOne)
  <2>1. PICK m \in 1 .. Len(choices) : \E c \in choices[m].untried :
           Elements(choices[m].selected) \cup {c} \subseteq set
    BY <1>11 DEF Searched, Reached
  <2>2. PICK c \in choices[m].untried : Elements(choices[m].selected) \cup {c} \subseteq set
    BY <2>1
  <2>3. CASE m = Len(choices)
    <3>1. CASE c = next
      BY <1>7, <2>2, <2>3, <3>1 DEF Reached
    <3>2. CASE c # next
      <4>1. c \in again.untried /\ Elements(again.selected) \cup {c} \subseteq set
        BY <1>5, <2>2, <2>3, <3>2
      <4>2. PICK k \in 1 .. Len(after) : after[k] = again
        BY <1>6, Zenon
      <4>3. c \in after[k].untried /\ Elements(after[k].selected) \cup {c} \subseteq set
        BY <4>1, <4>2, Zenon
      <4>4. \E d \in after[k].untried : Elements(after[k].selected) \cup {d} \subseteq set
        BY <4>3, Zenon
      <4> QED BY <4>4 DEF Reached
    <3> QED BY <3>1, <3>2
  <2>4. CASE m # Len(choices)
    <3>1. m \in 1 .. Len(outer) /\ outer[m] = choices[m]
      BY <1>2, <2>4
    <3>2. m \in 1 .. Len(after) /\ after[m] = choices[m]
      BY <1>6, <3>1, Zenon
    <3>3. c \in after[m].untried /\ Elements(after[m].selected) \cup {c} \subseteq set
      BY <2>2, <3>2
    <3> QED BY <3>2, <3>3 DEF Reached
  <2> QED BY <2>3, <2>4
<1>12. Build(now, choice.wanted, Pursue(next, choice.path, choice.rest), request, catalog)
  BY <1>8 DEF Tries
<1> QED BY <1>6, <1>7, <1>10, <1>11, <1>12 DEF Searched

\* A choice without candidates passes the failure on.
LEMMA GiveUpSearches ==
  ASSUME NEW catalog, NEW request, NEW selected, NEW wanted,
         NEW goals, NEW choices, NEW failing,
         Searched(selected, wanted, goals, choices, failing, request, catalog), failing # NoOne,
         NEW choice, NEW outer, Innermost(choice, outer, choices), choice.untried = {},
         NEW code \in PgCodes, NEW more
  PROVE  Searched(choice.selected, more, goals, outer, code, request, catalog)
<1>. choices # <<>> /\ choice = choices[Len(choices)] /\ outer = SubSeq(choices, 1, Len(choices) - 1)
  BY DEF Innermost
<1>1. choices \in Seq(PgTries(request, catalog))
  BY DEF Searched
<1> PICK tries : tries = PgTries(request, catalog)
  OBVIOUS
<1>0. choices \in Seq(tries)
  BY <1>1
<1>. Shorter(outer, choices, tries)
  BY <1>0, FrontParts
<1>2. /\ outer \in Seq(tries) /\ Len(choices) \in 1 .. Len(choices)
      /\ \A k \in 1 .. Len(outer) : k \in 1 .. Len(choices) /\ outer[k] = choices[k]
      /\ \A k \in 1 .. Len(choices) : k = Len(choices) \/ k \in 1 .. Len(outer)
  BY DEF Shorter
<1>3. choice \in PgTries(request, catalog)
  BY <1>1, <1>2
<1>4. choice.selected \in Seq(catalog)
  BY <1>3 DEF PgTries
<1>5. \A m \in 1 .. Len(outer) : Tries(outer[m], request, catalog)
  BY <1>2 DEF Searched
<1>6. code # NoOne
  BY DEF PgCodes, NoOne
<1>7. ASSUME NEW set \in SUBSET catalog, Serves(set, request)
      PROVE  Reached(set, choice.selected, outer, code)
  <2>1. PICK m \in 1 .. Len(choices) : \E c \in choices[m].untried :
           Elements(choices[m].selected) \cup {c} \subseteq set
    BY <1>7 DEF Searched, Reached
  <2>2. m # Len(choices)
    BY <2>1
  <2>3. m \in 1 .. Len(outer) /\ outer[m] = choices[m]
    BY <1>2, <2>2
  <2> QED BY <2>1, <2>3 DEF Reached
<1> QED BY <1>2, <1>4, <1>5, <1>6, <1>7 DEF Searched

----
(* The order *)
\* The order of the packages.  What a package that is visited still needs is left in its frame,
\* ordered already, or visited by the next frame.
Names(selected) == {c.name : c \in Elements(selected)}
Of(selected, name) == CHOOSE c \in Elements(selected) : c.name = name
FrameOf(selected, name) == [name |-> name, deps |-> NamesOf(Of(selected, name).deps)]
PgFrames(selected) == [name : Names(selected), deps : Seq(Names(selected))]

Leads(selected, from, to) == \E need \in Elements(Of(selected, from).deps) : need.name = to
Left(selected, frame, done) ==
  \A need \in Elements(Of(selected, frame.name).deps) : need.name \in Elements(frame.deps) \cup done
Above(visit, i) == IF i = Len(visit) THEN {} ELSE {visit[i + 1].name}

Ordered(selected, visit, order) ==
  /\ visit \in Seq(PgFrames(selected)) /\ order \in Seq(Names(selected))
  /\ \A i, j \in 1 .. Len(order) : order[i] = order[j] => i = j
  /\ \A i, j \in 1 .. Len(visit) : visit[i].name = visit[j].name => i = j
  /\ \A i \in 1 .. Len(visit) :
        /\ visit[i].name \notin Elements(order)
        /\ Left(selected, visit[i], Elements(order) \cup Above(visit, i))
        /\ \A name \in Elements(visit[i].deps) \cup Above(visit, i) : Leads(selected, visit[i].name, name)
  /\ \A i \in 1 .. Len(order) : \A need \in Elements(Of(selected, order[i]).deps) :
        \E j \in 1 .. (i - 1) : order[j] = need.name

LEMMA OfSelected ==
  ASSUME NEW selected, NEW request, Serves(Elements(selected), request)
  PROVE  /\ \A c \in Elements(selected) : Of(selected, c.name) = c
         /\ \A name \in Names(selected) :
               Of(selected, name) \in Elements(selected) /\ Of(selected, name).name = name
<1>1. ASSUME NEW c \in Elements(selected) PROVE Of(selected, c.name) = c
  <2>1. \A d \in Elements(selected) : d.name = c.name => d = c
    BY DEF Serves
  <2> QED BY <2>1 DEF Of
<1> QED BY <1>1 DEF Names

LEMMA FrameHasDependencies ==
  ASSUME NEW selected \in Seq(Manifests), NEW request, Serves(Elements(selected), request),
         NEW name \in Names(selected), NEW frame, frame = FrameOf(selected, name)
  PROVE  /\ frame \in PgFrames(selected) /\ frame.name = name /\ Left(selected, frame, {})
         /\ \A other \in Elements(frame.deps) : Leads(selected, name, other)
<1>1. PICK c \in Elements(selected) : c = Of(selected, name) /\ c.name = name
  BY OfSelected
<1>2. c \in Manifests
  BY DEF Elements
<1>3. c.deps \in Seq(Needs)
  BY <1>2 DEF Manifests
<1>4. PICK n \in Nat : n = Len(c.deps)
  BY <1>3
<1>5. \A i \in 1 .. n : c.deps[i].name \in Names(selected)
  <2>1. ASSUME NEW i \in 1 .. n PROVE c.deps[i].name \in Names(selected)
    <3>1. c.deps[i] \in Elements(c.deps)
      BY <1>4 DEF Elements
    <3>2. PICK d \in Elements(selected) : Admits(c.deps[i], d)
      BY <3>1 DEF Serves
    <3> QED BY <3>2 DEF Admits, Names
  <2> QED BY <2>1
<1>6. PICK deps : deps = NamesOf(c.deps)
  OBVIOUS
<1>7. deps = [i \in 1 .. n |-> c.deps[i].name]
  BY <1>4, <1>6 DEF NamesOf
<1>8. deps \in Seq(Names(selected)) /\ Len(deps) = n /\ \A i \in 1 .. n : deps[i] = c.deps[i].name
  BY <1>5, <1>7
<1>9. frame = [name |-> name, deps |-> deps]
  BY <1>1, <1>6 DEF FrameOf
<1>10. frame \in PgFrames(selected) /\ frame.name = name /\ frame.deps = deps
  BY <1>8, <1>9 DEF PgFrames
<1>11. ASSUME NEW need \in Elements(c.deps) PROVE need.name \in Elements(deps)
  <2>1. PICK i \in 1 .. n : c.deps[i] = need
    BY <1>4 DEF Elements
  <2> QED BY <1>8, <2>1 DEF Elements
<1>12. ASSUME NEW other \in Elements(deps) PROVE \E need \in Elements(c.deps) : need.name = other
  <2>1. PICK i \in 1 .. n : deps[i] = other
    BY <1>8 DEF Elements
  <2>2. c.deps[i] \in Elements(c.deps)
    BY <1>4 DEF Elements
  <2> QED BY <1>8, <2>1, <2>2
<1> QED BY <1>1, <1>10, <1>11, <1>12 DEF Left, Leads

LEMMA VisitStarts ==
  ASSUME NEW selected \in Seq(Manifests), NEW request, Serves(Elements(selected), request),
         NEW order, Ordered(selected, <<>>, order), NEW name \in Names(selected),
         name \notin Elements(order)
  PROVE  Ordered(selected, <<FrameOf(selected, name)>>, order)
<1>1. PICK frame, visit : frame = FrameOf(selected, name) /\ visit = <<frame>>
  OBVIOUS
<1>2. /\ frame \in PgFrames(selected) /\ frame.name = name /\ Left(selected, frame, {})
      /\ \A other \in Elements(frame.deps) : Leads(selected, name, other)
  BY <1>1, FrameHasDependencies
<1>3. /\ visit \in Seq(PgFrames(selected)) /\ Len(visit) = 1 /\ visit[1] = frame
      /\ \A i \in 1 .. Len(visit) : i = 1
  BY <1>1, <1>2
<1>4. Left(selected, frame, Elements(order) \cup {})
  BY <1>2 DEF Left
<1>5. Ordered(selected, visit, order)
  BY <1>2, <1>3, <1>4 DEF Ordered, Above
<1> QED BY <1>1, <1>5

\* The next dependency of the last frame is not being visited: that would be a cycle.
LEMMA NoCycle ==
  ASSUME NEW selected, NEW request, Serves(Elements(selected), request),
         NEW visit, NEW order, Ordered(selected, visit, order), visit # <<>>,
         visit[Len(visit)].deps # <<>>, NEW name, name = Head(visit[Len(visit)].deps)
  PROVE  name \in Names(selected) \ {frame.name : frame \in Elements(visit)}
<1>1. visit \in Seq(PgFrames(selected))
  BY DEF Ordered
<1>2. Len(visit) \in Nat \ {0} /\ Len(visit) \in 1 .. Len(visit)
  BY <1>1
<1>3. PICK n \in 1 .. Len(visit) : n = Len(visit)
  BY <1>2
<1>4. visit[n] \in PgFrames(selected)
  BY <1>1
<1>5. visit[n].deps \in Seq(Names(selected))
  BY <1>4 DEF PgFrames
<1>6. name \in Names(selected) /\ name \in Elements(visit[n].deps)
  BY <1>3, <1>5 DEF Elements
<1>7. Leads(selected, visit[n].name, name)
  BY <1>6 DEF Ordered
<1>8. ASSUME NEW frame \in Elements(visit), frame.name = name PROVE FALSE
  <2>1. PICK group : group = {Of(selected, visit[i].name) : i \in 1 .. Len(visit)}
    OBVIOUS
  <2>2. ASSUME NEW i \in 1 .. Len(visit) PROVE visit[i].name \in Names(selected)
    <3>1. visit[i] \in PgFrames(selected)
      BY <1>1
    <3> QED BY <3>1 DEF PgFrames
  <2>3. group \in (SUBSET Elements(selected)) \ {{}}
    BY <1>2, <2>1, <2>2, OfSelected
  <2>4. PICK m \in 1 .. Len(visit) : visit[m].name = name
    BY <1>8 DEF Elements
  <2>5. ASSUME NEW i \in 1 .. Len(visit)
        PROVE  \E j \in 1 .. Len(visit) : Leads(selected, visit[i].name, visit[j].name)
    <3>1. CASE i = n
      BY <1>7, <2>4, <3>1
    <3>2. CASE i # n
      <4>1. i + 1 \in 1 .. Len(visit) /\ i # Len(visit)
        BY <1>2, <1>3, <3>2
      <4>2. visit[i + 1].name \in Above(visit, i)
        BY <4>1 DEF Above
      <4> QED BY <4>1, <4>2 DEF Ordered
    <3> QED BY <3>1, <3>2
  <2>6. ASSUME NEW c \in group PROVE \E d \in group : DependsOn(c, d)
    <3>1. PICK i \in 1 .. Len(visit) : c = Of(selected, visit[i].name)
      BY <2>1
    <3>2. PICK j \in 1 .. Len(visit) : Leads(selected, visit[i].name, visit[j].name)
      BY <2>5
    <3>3. PICK d \in group : d = Of(selected, visit[j].name) /\ d.name = visit[j].name
      BY <2>1, <2>2, OfSelected
    <3> QED BY <3>1, <3>2, <3>3 DEF Leads, DependsOn
  <2> QED BY <2>3, <2>6 DEF Serves
<1> QED BY <1>6, <1>8

\* The last frame without its next dependency, which is ordered or visited next.
Popped(selected, visit, order, n, name, rest) ==
  /\ rest \in Seq(PgFrames(selected)) /\ Len(rest) = n /\ n \in 1 .. n
  /\ \A i \in 1 .. n : i # n => rest[i] = visit[i]
  /\ rest[n].name = visit[n].name
  /\ Left(selected, rest[n], Elements(order) \cup {name})
  /\ \A other \in Elements(rest[n].deps) \cup {name} : Leads(selected, visit[n].name, other)

LEMMA FramePops ==
  ASSUME NEW selected, NEW visit, NEW order, Ordered(selected, visit, order), visit # <<>>,
         NEW n, n = Len(visit), visit[n].deps # <<>>, NEW name, name = Head(visit[n].deps),
         NEW rest, rest = [visit EXCEPT ![n].deps = Tail(@)]
  PROVE  Popped(selected, visit, order, n, name, rest)
<1>1. visit \in Seq(PgFrames(selected))
  BY DEF Ordered
<1>2. n \in Nat \ {0} /\ n \in 1 .. n
  BY <1>1
<1>3. visit[n] \in PgFrames(selected)
  BY <1>1, <1>2
<1>4. PICK deps : deps = visit[n].deps
  OBVIOUS
<1>5. deps \in Seq(Names(selected)) /\ deps # <<>> /\ name = Head(deps) /\ visit[n].name \in Names(selected)
  BY <1>3, <1>4 DEF PgFrames
<1>6. PICK more : more = Tail(deps)
  OBVIOUS
<1>7. more \in Seq(Names(selected)) /\ Elements(deps) = {name} \cup Elements(more)
  <2>1. /\ more \in Seq(Names(selected)) /\ Len(more) = Len(deps) - 1 /\ name = deps[1]
        /\ Len(deps) \in Nat \ {0}
        /\ \A k \in 1 .. Len(more) : more[k] = deps[k + 1]
    BY <1>5, <1>6
  <2>2. ASSUME NEW k \in 1 .. Len(deps) PROVE deps[k] = name \/ \E l \in 1 .. Len(more) : more[l] = deps[k]
    <3>1. CASE k = 1
      BY <2>1, <3>1
    <3>2. CASE k # 1
      <4>1. k - 1 \in 1 .. Len(more) /\ (k - 1) + 1 = k
        BY <2>1, <3>2
      <4> QED BY <2>1, <4>1
    <3> QED BY <3>1, <3>2
  <2>3. ASSUME NEW l \in 1 .. Len(more) PROVE l + 1 \in 1 .. Len(deps) /\ more[l] = deps[l + 1]
    BY <2>1
  <2>4. 1 \in 1 .. Len(deps)
    BY <2>1
  <2>5. Elements(deps) \subseteq {name} \cup Elements(more)
    BY <2>2 DEF Elements
  <2>6. {name} \cup Elements(more) \subseteq Elements(deps)
    BY <2>1, <2>3, <2>4 DEF Elements
  <2> QED BY <2>1, <2>5, <2>6
<1>8. PICK frame : frame = [visit[n] EXCEPT !.deps = more]
  OBVIOUS
<1>9. frame \in PgFrames(selected) /\ frame.name = visit[n].name /\ frame.deps = more
  BY <1>3, <1>7, <1>8 DEF PgFrames
<1>10. rest = [visit EXCEPT ![n] = frame]
  BY <1>4, <1>6, <1>8
<1>11. /\ rest \in Seq(PgFrames(selected)) /\ Len(rest) = n /\ rest[n] = frame
       /\ \A i \in 1 .. n : i # n => rest[i] = visit[i]
  <2>1. PICK frames : frames = PgFrames(selected)
    OBVIOUS
  <2>2. visit \in [1 .. n -> frames] /\ frame \in frames
    BY <1>1, <1>2, <1>9, <2>1
  <2>3. rest \in [1 .. n -> frames] /\ rest[n] = frame /\ \A i \in 1 .. n : i # n => rest[i] = visit[i]
    BY <1>2, <1>10, <2>2
  <2>4. \A seq \in [1 .. n -> frames] : seq \in Seq(frames) /\ Len(seq) = n
    BY <1>2
  <2>5. rest \in Seq(frames) /\ Len(rest) = n
    BY <2>3, <2>4, Zenon
  <2> QED BY <2>1, <2>3, <2>5
<1>12. Above(visit, n) = {}
  BY DEF Above
<1>13. Left(selected, visit[n], Elements(order) \cup {})
  BY <1>2, <1>12 DEF Ordered
<1>14. Left(selected, frame, Elements(order) \cup {name})
  BY <1>4, <1>7, <1>9, <1>13 DEF Left
<1>15. \A other \in Elements(more) \cup {name} : Leads(selected, visit[n].name, other)
  BY <1>2, <1>4, <1>7 DEF Ordered
<1> QED BY <1>2, <1>9, <1>11, <1>14, <1>15 DEF Popped

LEMMA VisitSkips ==
  ASSUME NEW selected, NEW visit, NEW order, Ordered(selected, visit, order), visit # <<>>,
         NEW n, n = Len(visit), visit[n].deps # <<>>, Head(visit[n].deps) \in Elements(order),
         NEW rest, rest = [visit EXCEPT ![n].deps = Tail(@)]
  PROVE  Ordered(selected, rest, order)
<1> PICK name : name = Head(visit[n].deps)
  OBVIOUS
<1>0. Popped(selected, visit, order, n, name, rest)
  BY FramePops
<1>1. /\ rest \in Seq(PgFrames(selected)) /\ Len(rest) = n /\ n \in 1 .. n
      /\ \A i \in 1 .. n : i # n => rest[i] = visit[i]
      /\ rest[n].name = visit[n].name
      /\ Left(selected, rest[n], Elements(order) \cup {name})
      /\ \A other \in Elements(rest[n].deps) \cup {name} : Leads(selected, visit[n].name, other)
  BY <1>0 DEF Popped
<1>2. \A i \in 1 .. n : rest[i].name = visit[i].name
  BY <1>1
<1>3. \A i \in 1 .. n : i # n => i + 1 \in 1 .. n
  BY <1>1
<1>4. \A i \in 1 .. n : Above(rest, i) = Above(visit, i)
  BY <1>1, <1>2, <1>3 DEF Above
<1>5. ASSUME NEW i \in 1 .. n
      PROVE  /\ rest[i].name \notin Elements(order)
             /\ Left(selected, rest[i], Elements(order) \cup Above(rest, i))
             /\ \A other \in Elements(rest[i].deps) \cup Above(rest, i) : Leads(selected, rest[i].name, other)
  <2>1. CASE i = n
    <3>1. Above(rest, n) = {}
      BY <1>1 DEF Above
    <3>2. Elements(order) \cup {name} = Elements(order) \cup {}
      OBVIOUS
    <3>3. rest[n].name \notin Elements(order)
      BY <1>1 DEF Ordered
    <3> QED BY <1>1, <2>1, <3>1, <3>2, <3>3
  <2>2. CASE i # n
    BY <1>1, <1>4, <2>2 DEF Ordered
  <2> QED BY <2>1, <2>2
<1>6. \A i, j \in 1 .. n : rest[i].name = rest[j].name => i = j
  <2>1. \A i, j \in 1 .. n : visit[i].name = visit[j].name => i = j
    BY DEF Ordered
  <2> QED BY <1>2, <2>1
<1>7. /\ order \in Seq(Names(selected))
      /\ \A i, j \in 1 .. Len(order) : order[i] = order[j] => i = j
      /\ \A i \in 1 .. Len(order) : \A need \in Elements(Of(selected, order[i]).deps) :
            \E j \in 1 .. (i - 1) : order[j] = need.name
  BY DEF Ordered
<1>8. Len(rest) = n
  BY <1>1
<1>9. \A i, j \in 1 .. Len(rest) : rest[i].name = rest[j].name => i = j
  BY <1>6, <1>8, Zenon
<1>10. \A i \in 1 .. Len(rest) :
         /\ rest[i].name \notin Elements(order)
         /\ Left(selected, rest[i], Elements(order) \cup Above(rest, i))
         /\ \A other \in Elements(rest[i].deps) \cup Above(rest, i) : Leads(selected, rest[i].name, other)
  BY <1>5, <1>8, Zenon
<1>11. rest \in Seq(PgFrames(selected))
  BY <1>1
<1> QED BY <1>7, <1>9, <1>10, <1>11, Zenon DEF Ordered

LEMMA VisitDescends ==
  ASSUME NEW selected \in Seq(Manifests), NEW request, Serves(Elements(selected), request),
         NEW visit, NEW order, Ordered(selected, visit, order), visit # <<>>,
         NEW n, n = Len(visit), visit[n].deps # <<>>, NEW name, name = Head(visit[n].deps),
         name \in Names(selected), name \notin Elements(order),
         \A frame \in Elements(visit) : frame.name # name,
         NEW rest, rest = [visit EXCEPT ![n].deps = Tail(@)],
         NEW after, after = Append(rest, FrameOf(selected, name))
  PROVE  Ordered(selected, after, order)
<1>0. Popped(selected, visit, order, n, name, rest)
  BY FramePops
<1>1. /\ rest \in Seq(PgFrames(selected)) /\ Len(rest) = n /\ n \in 1 .. n
      /\ \A i \in 1 .. n : i # n => rest[i] = visit[i]
      /\ rest[n].name = visit[n].name
      /\ Left(selected, rest[n], Elements(order) \cup {name})
      /\ \A other \in Elements(rest[n].deps) \cup {name} : Leads(selected, visit[n].name, other)
  BY <1>0 DEF Popped
<1>2. PICK frame : frame = FrameOf(selected, name)
  OBVIOUS
<1>3. /\ frame \in PgFrames(selected) /\ frame.name = name /\ Left(selected, frame, {})
      /\ \A other \in Elements(frame.deps) : Leads(selected, name, other)
  BY <1>2, FrameHasDependencies
<1>4. Longer(after, rest, frame, PgFrames(selected))
  BY <1>1, <1>2, <1>3, AppendParts
<1>5. /\ after \in Seq(PgFrames(selected)) /\ Len(after) = n + 1 /\ after[n + 1] = frame
      /\ n \in Nat /\ n + 1 \in 1 .. Len(after)
      /\ \A i \in 1 .. n : i \in 1 .. Len(after) /\ after[i] = rest[i]
      /\ \A i \in 1 .. Len(after) : i \in 1 .. n \/ i = n + 1
  BY <1>1, <1>4 DEF Longer
<1>6. \A i \in 1 .. n : after[i].name = visit[i].name /\ visit[i].name # name
  BY <1>1, <1>5 DEF Elements
<1>7. \A i, j \in 1 .. Len(after) : after[i].name = after[j].name => i = j
  BY <1>3, <1>5, <1>6 DEF Ordered
<1>8. ASSUME NEW i \in 1 .. Len(after)
      PROVE  /\ after[i].name \notin Elements(order)
             /\ Left(selected, after[i], Elements(order) \cup Above(after, i))
             /\ \A other \in Elements(after[i].deps) \cup Above(after, i) :
                   Leads(selected, after[i].name, other)
  <2>1. CASE i = n + 1
    <3>1. Above(after, i) = {}
      BY <1>5, <2>1 DEF Above
    <3>2. Left(selected, frame, Elements(order) \cup {})
      BY <1>3 DEF Left
    <3>3. after[i] = frame
      BY <1>5, <2>1
    <3>4. name \notin Elements(order)
      BY <1>3
    <3>5. Left(selected, after[i], Elements(order) \cup Above(after, i))
      BY <3>1, <3>2, <3>3, Zenon
    <3>6. \A other \in Elements(after[i].deps) \cup Above(after, i) :
             Leads(selected, after[i].name, other)
      BY <1>3, <3>1, <3>3
    <3> QED BY <1>3, <3>3, <3>4, <3>5, <3>6, Zenon
  <2>2. CASE i = n
    <3>1. Above(after, i) = {name}
      BY <1>3, <1>5, <2>2 DEF Above
    <3>2. visit[n].name \notin Elements(order)
      BY <1>1 DEF Ordered
    <3>3. after[i] = rest[n] /\ after[i].name = visit[n].name
      BY <1>1, <1>5, <2>2
    <3>4. \A other \in Elements(rest[n].deps) \cup {name} : Leads(selected, after[i].name, other)
      BY <1>1, <3>3
    <3> QED BY <1>1, <3>1, <3>2, <3>3, <3>4
  <2>3. CASE i \in 1 .. n /\ i # n
    <3>1. i + 1 \in 1 .. n /\ i # Len(visit) /\ i # Len(after)
      BY <1>1, <1>5, <2>3
    <3>2. Above(after, i) = Above(visit, i)
      BY <1>6, <3>1 DEF Above
    <3>3. after[i] = visit[i]
      BY <1>1, <1>5, <2>3
    <3> QED BY <2>3, <3>2, <3>3 DEF Ordered
  <2> QED BY <1>5, <2>1, <2>2, <2>3
<1> QED BY <1>5, <1>7, <1>8 DEF Ordered

LEMMA VisitEnds ==
  ASSUME NEW selected, NEW visit, NEW order, Ordered(selected, visit, order), visit # <<>>,
         NEW n, n = Len(visit), visit[n].deps = <<>>,
         NEW outer, outer = SubSeq(visit, 1, n - 1), NEW now, now = Append(order, visit[n].name)
  PROVE  Ordered(selected, outer, now)
<1>1. visit \in Seq(PgFrames(selected)) /\ order \in Seq(Names(selected))
  BY DEF Ordered
<1>2. Shorter(outer, visit, PgFrames(selected))
  BY <1>1, FrontParts
<1>3. /\ outer \in Seq(PgFrames(selected)) /\ Len(outer) = n - 1 /\ n \in 1 .. n
      /\ \A i \in 1 .. Len(outer) : i \in 1 .. n /\ i < n /\ outer[i] = visit[i]
  BY <1>2 DEF Shorter
<1>4. PICK last : last = visit[n].name
  OBVIOUS
<1>5. visit[n] \in PgFrames(selected)
  BY <1>1, <1>3
<1>6. last \in Names(selected)
  BY <1>4, <1>5 DEF PgFrames
<1>7. Longer(now, order, last, Names(selected))
  BY <1>1, <1>4, <1>6, AppendParts
<1>8. PICK m \in Nat : m = Len(order)
  <2>1. Len(order) \in Nat
    BY <1>1
  <2> QED BY <2>1
<1>9. /\ now \in Seq(Names(selected)) /\ Len(now) = m + 1 /\ now[m + 1] = last
      /\ \A k \in 1 .. m : k \in 1 .. Len(now) /\ now[k] = order[k]
      /\ \A k \in 1 .. Len(now) : k \in 1 .. m \/ k = m + 1
      /\ Elements(now) = Elements(order) \cup {last}
  BY <1>7, <1>8 DEF Longer
<1>10. last \notin Elements(order)
  BY <1>3, <1>4 DEF Ordered
<1>11. \A k \in 1 .. m : now[k] # last /\ now[k] \in Elements(order)
  BY <1>8, <1>9, <1>10 DEF Elements
<1>12. \A i, j \in 1 .. Len(now) : now[i] = now[j] => i = j
  <2>1. \A i, j \in 1 .. m : order[i] = order[j] => i = j
    BY <1>8 DEF Ordered
  <2> QED BY <1>9, <1>11, <2>1
<1>13. \A i, j \in 1 .. Len(outer) : outer[i].name = outer[j].name => i = j
  BY <1>3 DEF Ordered
<1>14. ASSUME NEW i \in 1 .. Len(outer)
       PROVE  /\ outer[i].name \notin Elements(now)
              /\ Left(selected, outer[i], Elements(now) \cup Above(outer, i))
              /\ \A other \in Elements(outer[i].deps) \cup Above(outer, i) :
                    Leads(selected, outer[i].name, other)
  <2>1. i \in 1 .. n /\ i # n /\ outer[i] = visit[i] /\ n \in 1 .. n
    BY <1>3
  <2>2. visit[i].name # last
    BY <1>4, <2>1 DEF Ordered
  <2>3. /\ visit[i].name \notin Elements(order)
        /\ Left(selected, visit[i], Elements(order) \cup Above(visit, i))
        /\ \A other \in Elements(visit[i].deps) \cup Above(visit, i) :
              Leads(selected, visit[i].name, other)
    BY <2>1 DEF Ordered
  <2>4. Above(outer, i) \subseteq Above(visit, i) /\ Above(visit, i) \subseteq Above(outer, i) \cup {last}
    <3>1. CASE i = Len(outer)
      <4>1. i + 1 = n
        BY <1>3, <3>1
      <4> QED BY <1>4, <2>1, <3>1, <4>1 DEF Above
    <3>2. CASE i # Len(outer)
      <4>1. i + 1 \in 1 .. Len(outer)
        BY <1>3, <3>2
      <4>2. outer[i + 1] = visit[i + 1]
        BY <1>3, <4>1
      <4> QED BY <2>1, <3>2, <4>2 DEF Above
    <3> QED BY <3>1, <3>2
  <2>5. Left(selected, outer[i], Elements(now) \cup Above(outer, i))
    BY <1>9, <2>1, <2>3, <2>4 DEF Left
  <2> QED BY <1>9, <2>1, <2>2, <2>3, <2>4, <2>5
<1>15. ASSUME NEW i \in 1 .. Len(now), NEW need \in Elements(Of(selected, now[i]).deps)
       PROVE  \E j \in 1 .. (i - 1) : now[j] = need.name
  <2>1. CASE i = m + 1
    <3>1. Above(visit, n) = {} /\ Elements(visit[n].deps) = {}
      BY DEF Above, Elements
    <3>2. Left(selected, visit[n], Elements(order) \cup Above(visit, n))
      BY <1>3 DEF Ordered
    <3>3. need.name \in Elements(order)
      BY <1>4, <1>9, <1>15, <2>1, <3>1, <3>2 DEF Left
    <3>4. PICK j \in 1 .. m : order[j] = need.name
      BY <1>8, <3>3 DEF Elements
    <3>5. j \in 1 .. (i - 1) /\ now[j] = order[j]
      BY <1>9, <2>1
    <3> QED BY <3>4, <3>5
  <2>2. CASE i \in 1 .. m
    <3>1. need \in Elements(Of(selected, order[i]).deps) /\ i \in 1 .. Len(order)
      BY <1>8, <1>9, <2>2
    <3>2. PICK j \in 1 .. (i - 1) : order[j] = need.name
      BY <3>1 DEF Ordered
    <3>3. j \in 1 .. m
      BY <2>2
    <3> QED BY <1>9, <3>2, <3>3
  <2> QED BY <1>9, <2>1, <2>2
<1> QED BY <1>3, <1>9, <1>12, <1>13, <1>14, <1>15 DEF Ordered

----
(* What the packages bind *)
\* What the ordered packages bind: each contributes services, then each to the runtime.
Giver(order, n) ==
  IF n <= Len(order) THEN [name |-> order[n], stage |-> "services"]
  ELSE [name |-> order[n - Len(order)], stage |-> "runtime"]
BindsAt(selected, order, n, key) ==
  key \in Of(selected, Giver(order, n).name).binds[Giver(order, n).stage]

\* A capability belongs to the last contribution that bound it.
Bindings(selected, order, applied, owner) ==
  /\ applied \in 0 .. (2 * Len(order)) /\ owner \in [Capabilities -> Elements(order) \cup {NoOne}]
  /\ \A key \in Capabilities :
        \/ owner[key] = NoOne
        \/ \E n \in 1 .. applied :
              /\ owner[key] = Giver(order, n).name /\ BindsAt(selected, order, n, key)
              /\ \A m \in 1 .. applied : m > n => ~ BindsAt(selected, order, m, key)

\* The default route is the first one, unless the configuration has its own.
Routed(selected, order, applied, route, own) ==
  \/ /\ route = NoOne
     /\ own \/ \A m \in 1 .. Len(order) : m <= applied => ~ Of(selected, order[m]).routes
  \/ \E n \in 1 .. Len(order) :
        route = order[n] /\ \A m \in 1 .. (n - 1) : ~ Of(selected, order[m]).routes

LEMMA NamesAreNames ==
  ASSUME NEW selected \in Seq(Manifests)
  PROVE  Names(selected) \subseteq PackageNames /\ NoOne \notin Names(selected)
<1>1. ASSUME NEW c \in Elements(selected) PROVE c.name \in PackageNames
  <2>1. c \in Manifests
    BY DEF Elements
  <2> QED BY <2>1 DEF Manifests
<1> QED BY <1>1 DEF Names, PackageNames

LEMMA BindsNext ==
  ASSUME NEW selected, NEW order, order \in Seq(Names(selected)), NEW applied, NEW owner,
         Bindings(selected, order, applied, owner), applied < 2 * Len(order),
         NEW next, next = Giver(order, applied + 1),
         NEW after, after = Bound(owner, next.name, Of(selected, next.name).binds[next.stage])
  PROVE  Bindings(selected, order, applied + 1, after)
<1>1. PICK m \in Nat : m = Len(order)
  OBVIOUS
<1>2. PICK n \in Nat : n = applied
  BY <1>1 DEF Bindings
<1>3. /\ n + 1 \in 1 .. (n + 1) /\ n + 1 \in 0 .. (2 * m)
      /\ \A k \in 1 .. n : k \in 1 .. (n + 1)
      /\ \A k \in 1 .. (n + 1) : ~ (k > n + 1) /\ (k \in 1 .. n \/ k = n + 1)
  BY <1>1, <1>2
<1>4. next.name \in Elements(order)
  <2>1. CASE n + 1 <= m
    <3>1. next.name = order[n + 1] /\ n + 1 \in 1 .. m
      BY <1>1, <1>2, <2>1 DEF Giver
    <3> QED BY <1>1, <3>1 DEF Elements
  <2>2. CASE ~ (n + 1 <= m)
    <3>1. next.name = order[n + 1 - m] /\ n + 1 - m \in 1 .. m
      BY <1>1, <1>2, <2>2 DEF Giver
    <3> QED BY <1>1, <3>1 DEF Elements
  <2> QED BY <2>1, <2>2
<1>5. PICK keys : keys = Of(selected, next.name).binds[next.stage]
  OBVIOUS
<1>6. owner \in [Capabilities -> Elements(order) \cup {NoOne}]
  BY DEF Bindings
<1>7. /\ after \in [Capabilities -> Elements(order) \cup {NoOne}]
      /\ \A key \in Capabilities : after[key] = IF key \in keys THEN next.name ELSE owner[key]
  BY <1>4, <1>5, <1>6 DEF Bound
<1>8. \A key : key \in keys <=> BindsAt(selected, order, n + 1, key)
  BY <1>2, <1>5 DEF BindsAt
<1>9. ASSUME NEW key \in Capabilities
      PROVE  \/ after[key] = NoOne
             \/ \E k \in 1 .. (n + 1) :
                   /\ after[key] = Giver(order, k).name /\ BindsAt(selected, order, k, key)
                   /\ \A l \in 1 .. (n + 1) : l > k => ~ BindsAt(selected, order, l, key)
  <2>1. CASE key \in keys
    <3>1. after[key] = Giver(order, n + 1).name /\ BindsAt(selected, order, n + 1, key)
      BY <1>2, <1>7, <1>8, <2>1
    <3> QED BY <1>3, <3>1
  <2>2. CASE key \notin keys /\ owner[key] # NoOne
    <3>1. after[key] = owner[key] /\ ~ BindsAt(selected, order, n + 1, key)
      BY <1>7, <1>8, <2>2
    <3>2. PICK k \in 1 .. n :
             /\ owner[key] = Giver(order, k).name /\ BindsAt(selected, order, k, key)
             /\ \A l \in 1 .. n : l > k => ~ BindsAt(selected, order, l, key)
      BY <1>2, <2>2 DEF Bindings
    <3>3. \A l \in 1 .. (n + 1) : l > k => ~ BindsAt(selected, order, l, key)
      BY <1>3, <3>1, <3>2
    <3> QED BY <1>3, <3>1, <3>2, <3>3
  <2>3. CASE key \notin keys /\ owner[key] = NoOne
    BY <1>7, <2>3
  <2> QED BY <2>1, <2>2, <2>3
<1> QED BY <1>1, <1>2, <1>3, <1>7, <1>9 DEF Bindings

LEMMA RoutesNext ==
  ASSUME NEW selected \in Seq(Manifests), NEW order, order \in Seq(Names(selected)),
         NEW applied \in Nat, NEW route, NEW own, Routed(selected, order, applied, route, own),
         applied < 2 * Len(order), NEW next, next = Giver(order, applied + 1),
         NEW after, after = IF /\ next.stage = "services" /\ Of(selected, next.name).routes
                               /\ route = NoOne /\ ~ own
                            THEN next.name ELSE route
  PROVE  Routed(selected, order, applied + 1, after, own)
<1>1. PICK m \in Nat : m = Len(order)
  OBVIOUS
<1>2. CASE \E n \in 1 .. m : route = order[n] /\ \A k \in 1 .. (n - 1) : ~ Of(selected, order[k]).routes
  <2>1. \A n \in 1 .. m : order[n] # NoOne
    BY <1>1, NamesAreNames
  <2>2. after = route
    BY <1>2, <2>1
  <2> QED BY <1>1, <1>2, <2>2 DEF Routed
<1>3. CASE route = NoOne /\ own
  BY <1>3 DEF Routed
<1>4. CASE /\ route = NoOne /\ ~ own
           /\ \A k \in 1 .. m : k <= applied => ~ Of(selected, order[k]).routes
  <2>1. CASE applied + 1 <= m
    <3>1. next.name = order[applied + 1] /\ next.stage = "services"
      BY <1>1, <2>1 DEF Giver
    <3>2. CASE Of(selected, next.name).routes
      <4>1. after = order[applied + 1]
        BY <1>4, <3>1, <3>2
      <4>2. applied + 1 \in 1 .. m /\ \A k \in 1 .. (applied + 1 - 1) : k \in 1 .. m /\ k <= applied
        BY <1>1, <2>1
      <4>3. \A k \in 1 .. (applied + 1 - 1) : ~ Of(selected, order[k]).routes
        BY <1>4, <4>2
      <4> QED BY <1>1, <4>1, <4>2, <4>3 DEF Routed
    <3>3. CASE ~ Of(selected, next.name).routes
      <4>1. after = NoOne
        BY <1>4, <3>3
      <4>2. \A k \in 1 .. m : k <= applied + 1 => k <= applied \/ k = applied + 1
        BY <1>1
      <4>3. \A k \in 1 .. m : k <= applied + 1 => ~ Of(selected, order[k]).routes
        BY <1>4, <3>1, <3>3, <4>2
      <4> QED BY <1>1, <4>1, <4>3 DEF Routed
    <3> QED BY <3>2, <3>3
  <2>2. CASE ~ (applied + 1 <= m)
    <3>1. next.stage = "runtime"
      BY <1>1, <2>2 DEF Giver
    <3>2. after = NoOne
      BY <1>4, <3>1
    <3>3. \A k \in 1 .. m : k <= applied
      BY <1>1, <2>2
    <3> QED BY <1>1, <1>4, <3>2, <3>3 DEF Routed
  <2> QED BY <2>1, <2>2
<1> QED BY <1>1, <1>2, <1>3, <1>4 DEF Routed

\* A package has a place after that of its dependency.
LEMMA PlaceAfter ==
  ASSUME NEW selected, NEW request, Serves(Elements(selected), request),
         NEW visit, NEW order, Ordered(selected, visit, order), Names(selected) \subseteq Elements(order),
         NEW c \in Elements(selected), NEW d \in Elements(selected), DependsOn(c, d)
  PROVE  \E j \in 1 .. Len(order) : \E i \in 1 .. (j - 1) : order[j] = c.name /\ order[i] = d.name
<1>1. PICK j \in 1 .. Len(order) : order[j] = c.name
  BY DEF Names, Elements
<1>2. Of(selected, order[j]) = c
  BY <1>1, OfSelected
<1>3. PICK need \in Elements(c.deps) : need.name = d.name
  BY DEF DependsOn
<1>4. PICK i \in 1 .. (j - 1) : order[i] = need.name
  BY <1>2, <1>3 DEF Ordered
<1> QED BY <1>1, <1>3, <1>4

\* The name at a place is at no other, and the contributions of a place are two.
GivenAt(order, n, i) ==
  \/ n = i /\ Giver(order, n).stage = "services"
  \/ n = Len(order) + i /\ n # i /\ Giver(order, n).stage = "runtime"

LEMMA GiversOf ==
  ASSUME NEW selected, NEW request, Serves(Elements(selected), request),
         NEW visit, NEW order, Ordered(selected, visit, order), NEW i \in 1 .. Len(order),
         NEW n \in 1 .. (2 * Len(order)), Giver(order, n).name = order[i]
  PROVE  GivenAt(order, n, i)
<1>1. PICK m \in Nat : m = Len(order)
  BY DEF Ordered
<1>2. \A k, l \in 1 .. m : order[k] = order[l] => k = l
  BY <1>1 DEF Ordered
<1>3. CASE n <= m
  <2>1. Giver(order, n).name = order[n] /\ Giver(order, n).stage = "services" /\ n \in 1 .. m
    BY <1>1, <1>3 DEF Giver
  <2> QED BY <1>1, <1>2, <2>1 DEF GivenAt
<1>4. CASE ~ (n <= m)
  <2>1. Giver(order, n).name = order[n - m] /\ Giver(order, n).stage = "runtime" /\ n - m \in 1 .. m
    BY <1>1, <1>4 DEF Giver
  <2>2. n - m = i
    BY <1>1, <1>2, <2>1
  <2>3. n = m + i /\ n # i
    BY <1>1, <1>4, <2>2
  <2> QED BY <1>1, <2>1, <2>3 DEF GivenAt
<1> QED BY <1>3, <1>4

LEMMA DependentOverrides ==
  ASSUME NEW selected \in Seq(Manifests), NEW request, Serves(Elements(selected), request),
         NEW visit, NEW order, Ordered(selected, visit, order), Names(selected) \subseteq Elements(order),
         NEW owner, Bindings(selected, order, 2 * Len(order), owner),
         NEW c \in Elements(selected), NEW d \in Elements(selected), NEW key \in Capabilities,
         DependsOn(c, d),
         \/ key \in c.binds["runtime"]
         \/ key \in c.binds["services"] /\ \A e \in Elements(selected) : key \notin e.binds["runtime"]
  PROVE  owner[key] # d.name
<1>1. PICK m \in Nat : m = Len(order)
  BY DEF Ordered
<1>2. PICK j \in 1 .. m : \E i \in 1 .. (j - 1) : order[j] = c.name /\ order[i] = d.name
  BY <1>1, PlaceAfter
<1>3. PICK i \in 1 .. (j - 1) : order[j] = c.name /\ order[i] = d.name
  BY <1>2
<1>4. i \in 1 .. m /\ i < j /\ Of(selected, c.name) = c /\ Of(selected, d.name) = d
  BY <1>2, OfSelected
<1>5. SUFFICES ASSUME owner[key] = d.name PROVE FALSE
  OBVIOUS
<1>6. owner[key] # NoOne
  BY <1>5, NamesAreNames DEF Names
<1>7. PICK n \in 1 .. (2 * m) :
         /\ owner[key] = Giver(order, n).name /\ BindsAt(selected, order, n, key)
         /\ \A l \in 1 .. (2 * m) : l > n => ~ BindsAt(selected, order, l, key)
  BY <1>1, <1>6 DEF Bindings
<1>8. /\ n = i \/ n = m + i
      /\ n = i => Giver(order, n).stage = "services"
      /\ n # i => Giver(order, n).stage = "runtime"
  <2>1. i \in 1 .. Len(order) /\ n \in 1 .. (2 * Len(order)) /\ Giver(order, n).name = order[i]
    BY <1>1, <1>3, <1>4, <1>5, <1>7
  <2>2. GivenAt(order, n, i)
    BY <2>1, GiversOf
  <2> QED BY <1>1, <2>2 DEF GivenAt
<1>9. CASE key \in c.binds["runtime"]
  <2>1. Giver(order, m + j) = [name |-> c.name, stage |-> "runtime"]
    <3>1. ~ (m + j <= m) /\ m + j - m = j
      BY <1>1
    <3> QED BY <1>1, <1>3, <3>1 DEF Giver
  <2>2. BindsAt(selected, order, m + j, key)
    BY <1>4, <1>9, <2>1 DEF BindsAt
  <2>3. m + j \in 1 .. (2 * m) /\ m + j > n
    BY <1>4, <1>8
  <2> QED BY <1>7, <2>2, <2>3
<1>10. CASE key \in c.binds["services"] /\ \A e \in Elements(selected) : key \notin e.binds["runtime"]
  <2>1. Giver(order, j) = [name |-> c.name, stage |-> "services"]
    BY <1>1, <1>3 DEF Giver
  <2>2. BindsAt(selected, order, j, key)
    BY <1>4, <1>10, <2>1 DEF BindsAt
  <2>3. n = i
    <3>1. ASSUME n # i PROVE FALSE
      <4>1. key \in d.binds["runtime"]
        BY <1>4, <1>5, <1>7, <1>8, <3>1 DEF BindsAt
      <4> QED BY <1>10, <4>1
    <3> QED BY <3>1
  <2>4. j \in 1 .. (2 * m) /\ j > n
    BY <1>4, <2>3
  <2> QED BY <1>7, <2>2, <2>4
<1> QED BY <1>9, <1>10

LEMMA DependentDefers ==
  ASSUME NEW selected \in Seq(Manifests), NEW request, Serves(Elements(selected), request),
         NEW visit, NEW order, Ordered(selected, visit, order), Names(selected) \subseteq Elements(order),
         NEW route, NEW own, NEW applied, Routed(selected, order, applied, route, own),
         NEW c \in Elements(selected), NEW d \in Elements(selected), DependsOn(c, d), d.routes
  PROVE  route # c.name
<1>1. PICK j \in 1 .. Len(order) : \E i \in 1 .. (j - 1) : order[j] = c.name /\ order[i] = d.name
  BY PlaceAfter
<1>2. PICK i \in 1 .. (j - 1) : order[j] = c.name /\ order[i] = d.name
  BY <1>1
<1>3. c.name # NoOne
  BY NamesAreNames DEF Names
<1>4. SUFFICES ASSUME route = c.name PROVE FALSE
  OBVIOUS
<1>5. PICK n \in 1 .. Len(order) :
         route = order[n] /\ \A m \in 1 .. (n - 1) : ~ Of(selected, order[m]).routes
  BY <1>3, <1>4 DEF Routed
<1>6. n = j
  BY <1>2, <1>4, <1>5 DEF Ordered
<1>7. Of(selected, order[i]) = d
  BY <1>2, OfSelected
<1> QED BY <1>2, <1>5, <1>6, <1>7

----
(* The steps of a build *)
PkAt(catalog, request) ==
  /\ pgPhase \in {"start", "search", "order", "bind", "ready", "refused"}
  /\ pgPhase = "refused" <=> pgCode # NoOne
  /\ pgCode # "order"
  /\ pgCode \in PgCodes => \A set \in SUBSET catalog : ~ Serves(set, request)
  /\ pgSelected \in Seq(catalog)
  /\ pgPhase = "start" => pgSelected = <<>> /\ pgChoices = <<>> /\ pgFailing = NoOne
  /\ pgPhase = "search" =>
        Searched(pgSelected, pgWanted, pgGoals, pgChoices, pgFailing, request, catalog)
  /\ pgPhase \in {"start", "search", "refused"} => pgVisit = <<>> /\ pgOrder = <<>>
  /\ pgPhase \in {"order", "bind", "ready"} =>
        /\ Serves(Elements(pgSelected), request) /\ Ordered(pgSelected, pgVisit, pgOrder)
        /\ \A c \in Elements(pgSelected) :
              c.name \in request \/ \E d \in Elements(pgSelected) : DependsOn(d, c)
  /\ pgPhase \notin {"bind", "ready"} =>
        pgApplied = 0 /\ pgOwner = [key \in Capabilities |-> NoOne] /\ pgRoute = NoOne
  /\ pgPhase \in {"bind", "ready"} =>
        /\ pgVisit = <<>> /\ Names(pgSelected) \subseteq Elements(pgOrder)
        /\ Bindings(pgSelected, pgOrder, pgApplied, pgOwner)
        /\ Routed(pgSelected, pgOrder, pgApplied, pgRoute, pgConfig.ownModel)
  /\ pgPhase = "ready" => pgApplied = 2 * Len(pgOrder)

LEMMA SearchStarts ==
  ASSUME NEW catalog, NEW names, NEW n \in Nat, NEW start,
         start = [i \in 1 .. n |-> Goal(AnyOf(names[i]), {})],
         NEW request, request = {names[i] : i \in 1 .. n},
         NEW wanted, wanted = {AnyOf(name) : name \in request}
  PROVE  Searched(<<>>, wanted, start, <<>>, NoOne, request, catalog)
<1> PICK none : none = <<>>
  OBVIOUS
<1>1. Build(none, wanted, start, request, catalog)
  BY StartBuilds
<1> PICK tries : tries = PgTries(request, catalog)
  OBVIOUS
<1>2. none \in Seq(catalog) /\ none \in Seq(tries) /\ Len(none) = 0
  <2>1. <<>> \in Seq(catalog) /\ <<>> \in Seq(tries)
    OBVIOUS
  <2> QED BY <2>1
<1>3. 1 .. Len(none) = {} /\ Elements(none) = {}
  BY <1>2 DEF Elements
<1>4. \A set : Reached(set, none, none, NoOne)
  BY <1>3 DEF Reached
<1>5. Searched(none, wanted, start, none, NoOne, request, catalog)
  BY <1>1, <1>2, <1>3, <1>4 DEF Searched
<1> QED BY <1>5

LEMMA OrderStarts ==
  ASSUME NEW selected PROVE Ordered(selected, <<>>, <<>>)
<1> PICK none : none = <<>>
  OBVIOUS
<1>1. none \in Seq(PgFrames(selected)) /\ none \in Seq(Names(selected)) /\ Len(none) = 0
  <2>1. <<>> \in Seq(PgFrames(selected)) /\ <<>> \in Seq(Names(selected))
    OBVIOUS
  <2> QED BY <2>1
<1>2. 1 .. Len(none) = {}
  BY <1>1
<1>3. Ordered(selected, none, none)
  BY <1>1, <1>2 DEF Ordered
<1> QED BY <1>3

LEMMA BindingsStart ==
  ASSUME NEW selected, NEW order, order \in Seq(Names(selected)), NEW own
  PROVE  /\ Bindings(selected, order, 0, [key \in Capabilities |-> NoOne])
         /\ Routed(selected, order, 0, NoOne, own)
<1>1. PICK m \in Nat : m = Len(order)
  OBVIOUS
<1>2. 0 \in 0 .. (2 * m) /\ \A k \in 1 .. m : ~ (k <= 0)
  OBVIOUS
<1>3. PICK owner : owner = [key \in Capabilities |-> NoOne]
  OBVIOUS
<1>4. owner \in [Capabilities -> Elements(order) \cup {NoOne}] /\ \A key \in Capabilities : owner[key] = NoOne
  BY <1>3
<1>5. Bindings(selected, order, 0, owner)
  BY <1>1, <1>2, <1>4 DEF Bindings
<1> QED BY <1>1, <1>2, <1>3, <1>5 DEF Routed

LEMMA CatalogTyped ==
  ASSUME pgConfig \in PgConfigs
  PROVE  Catalog \subseteq Manifests /\ Len(Request) \in Nat
<1>1. PICK config : config = pgConfig
  OBVIOUS
<1>2. config \in [distribution : SUBSET STRING, enabled : SUBSET STRING, disabled : SUBSET STRING,
                  requested : Seq(PackageNames), externals : Seq(Manifests), ownModel : BOOLEAN]
  BY <1>1, PgAssumption
<1>3. config.requested \in Seq(PackageNames) /\ config.externals \in Seq(Manifests)
  BY <1>2
<1>4. Official \in Seq(Manifests)
  BY PgAssumption
<1>5. Len(Official) \in Nat /\ Distributed \subseteq 1 .. Len(Official)
  BY <1>4 DEF Distributed
<1>6. SelectedFirstParty \subseteq Manifests
  BY <1>4, <1>5 DEF SelectedFirstParty
<1>7. Accepted \subseteq Manifests
  BY <1>1, <1>3 DEF Accepted, Elements
<1>8. PICK m \in Nat : m = Cardinality(Distributed)
  <2>1. IsFiniteSet(1 .. Len(Official))
    BY <1>5, FS_Interval
  <2>2. IsFiniteSet(Distributed)
    BY <1>5, <2>1, FS_Subset
  <2> QED BY <2>2, FS_CardinalityType
<1>9. PICK first : first = [n \in 1 .. m |-> Official[Nth(n)].name]
  OBVIOUS
<1>10. PICK S : S = {first[n] : n \in 1 .. m} \cup PackageNames
  OBVIOUS
<1>11. first \in Seq(S) /\ config.requested \in Seq(S)
  <2>1. first \in [1 .. m -> S]
    BY <1>9, <1>10
  <2> QED BY <1>3, <1>10, <2>1
<1>12. Request = first \o config.requested
  BY <1>1, <1>8, <1>9 DEF Request
<1>13. Request \in Seq(S)
  BY <1>11, <1>12
<1> QED BY <1>6, <1>7, <1>13 DEF Catalog

Given(catalog, request) ==
  /\ catalog = Catalog /\ request = Elements(Request)
  /\ catalog \subseteq Manifests /\ Len(Request) \in Nat

LEMMA CodesAreOthers ==
  /\ NoOne \notin PgCodes /\ "order" \notin PgCodes
  /\ \A name, wanted : ConstraintFailure(name, wanted) \in PgCodes
BY DEF PgCodes, NoOne, ConstraintFailure

LEMMA StartKeeps ==
  ASSUME NEW catalog, NEW request, Given(catalog, request), PkAt(catalog, request), StartSearch
  PROVE  PkAt(catalog, request)'
<1>1. /\ pgPhase = "start" /\ pgVisit = <<>> /\ pgOrder = <<>>
      /\ pgSelected = <<>> /\ pgChoices = <<>> /\ pgFailing = NoOne
  BY DEF PkAt, StartSearch
<1>2. UNCHANGED <<pgConfig, orderVars, bindVars>>
  BY DEF StartSearch
<1>3. CASE \E code \in {"unselected dependency", "first-party request", "duplicate"} :
             Refuse(code) /\ UNCHANGED searchVars
  <2>1. PICK code \in {"unselected dependency", "first-party request", "duplicate"} :
          Refuse(code) /\ UNCHANGED searchVars
    BY <1>3
  <2>2. code \notin PgCodes /\ code # NoOne /\ code # "order"
    BY DEF PgCodes, NoOne
  <2> QED BY <1>1, <1>2, <2>1, <2>2 DEF PkAt, Refuse, searchVars, orderVars, bindVars
<1>4. CASE /\ pgPhase' = "search"
           /\ pgGoals' = [i \in 1..Len(Request) |-> Goal(AnyOf(Request[i]), {})]
           /\ pgWanted' = {AnyOf(name) : name \in Elements(Request)}
           /\ UNCHANGED <<pgCode, pgSelected, pgChoices, pgFailing>>
  <2>1. Searched(<<>>, pgWanted', pgGoals', <<>>, NoOne, request, catalog)
    <3>1. PICK n \in Nat : n = Len(Request)
      BY DEF Given
    <3>2. PICK names : names = Request
      OBVIOUS
    <3>3. request = {names[i] : i \in 1 .. n}
      BY <3>1, <3>2 DEF Given, Elements
    <3>4. PICK start, wanted : start = pgGoals' /\ wanted = pgWanted'
      OBVIOUS
    <3>5. start = [i \in 1 .. n |-> Goal(AnyOf(names[i]), {})]
      BY <1>4, <3>1, <3>2, <3>4
    <3>6. wanted = {AnyOf(name) : name \in request}
      BY <1>4, <3>4 DEF Given
    <3>7. Searched(<<>>, wanted, start, <<>>, NoOne, request, catalog)
      BY <3>3, <3>5, <3>6, SearchStarts
    <3> QED BY <3>4, <3>7
  <2>2. Searched(pgSelected, pgWanted, pgGoals, pgChoices, pgFailing, request, catalog)'
    BY <1>1, <1>4, <2>1
  <2> QED BY <1>1, <1>2, <1>4, <2>2 DEF PkAt, orderVars, bindVars
<1> QED BY <1>3, <1>4 DEF StartSearch

\* A step of the search that stays a search.
LEMMA SearchKeeps ==
  ASSUME NEW catalog, NEW request, PkAt(catalog, request), pgPhase = "search",
         UNCHANGED <<pgConfig, pgPhase, pgCode, orderVars, bindVars>>,
         Searched(pgSelected, pgWanted, pgGoals, pgChoices, pgFailing, request, catalog)'
  PROVE  PkAt(catalog, request)'
<1>1. pgSelected' \in Seq(catalog)
  BY DEF Searched
<1>2. pgPhase' = "search" /\ pgCode' = pgCode /\ pgConfig' = pgConfig /\ pgVisit' = pgVisit /\ pgOrder' = pgOrder
      /\ pgApplied' = pgApplied /\ pgOwner' = pgOwner /\ pgRoute' = pgRoute
  BY DEF orderVars, bindVars
<1> QED BY <1>1, <1>2 DEF PkAt

LEMMA RecognizeKeeps ==
  ASSUME NEW catalog, NEW request, Given(catalog, request), PkAt(catalog, request), Recognize
  PROVE  PkAt(catalog, request)'
<1>1. /\ pgPhase = "search" /\ pgFailing = NoOne /\ pgGoals # <<>>
      /\ UNCHANGED <<pgConfig, pgPhase, pgCode, orderVars, bindVars>> /\ pgWanted' = Wanted
  BY DEF Recognize, Searching
<1>2. Searched(pgSelected, pgWanted, pgGoals, pgChoices, NoOne, request, catalog)
  BY <1>1 DEF PkAt
<1>3. PICK selected, wanted, goals, choices :
        selected = pgSelected /\ wanted = pgWanted /\ goals = pgGoals /\ choices = pgChoices
  OBVIOUS
<1>4. PICK need, path, more : need = Head(goals).need /\ path = Head(goals).path /\ more = wanted \cup {need}
  OBVIOUS
<1>5. Searched(selected, wanted, goals, choices, NoOne, request, catalog) /\ goals # <<>>
  BY <1>1, <1>2, <1>3
<1>6. need = Current.need /\ path = Current.path /\ more = Wanted
  BY <1>3, <1>4 DEF Current, Wanted
<1>7. SUFFICES Searched(pgSelected, pgWanted, pgGoals, pgChoices, pgFailing, request, catalog)'
  BY <1>1, SearchKeeps
<1>8. ASSUME NEW code \in PgCodes, Fail(code),
             NoneFits(catalog, selected, need, path, more)
      PROVE  Searched(pgSelected, pgWanted, pgGoals, pgChoices, pgFailing, request, catalog)'
  <2>1. Searched(selected, more, goals, choices, code, request, catalog)
    BY <1>4, <1>5, <1>8, FailSearches
  <2>2. pgSelected' = selected /\ pgWanted' = more /\ pgGoals' = goals /\ pgChoices' = choices /\ pgFailing' = code
    BY <1>1, <1>3, <1>6, <1>8 DEF Fail
  <2> QED BY <2>1, <2>2
<1>9. CASE need.name \in path /\ Fail("cyclic")
  <2>1. "cyclic" \in PgCodes /\ NoneFits(catalog, selected, need, path, more)
    BY <1>9 DEF PgCodes, NoneFits
  <2> QED BY <1>8, <1>9, <2>1
<1>10. CASE /\ need.name \notin path /\ Chosen(need.name) # {}
            /\ \A c \in Chosen(need.name) : Satisfies(c, more)
            /\ pgGoals' = Tail(pgGoals) /\ UNCHANGED <<pgSelected, pgChoices, pgFailing>>
  <2>1. PICK found \in Elements(selected) : found.name = need.name /\ Satisfies(found, more)
    BY <1>3, <1>10 DEF Chosen
  <2>2. PICK rest : rest = Tail(goals)
    OBVIOUS
  <2>3. Searched(selected, more, rest, choices, NoOne, request, catalog)
    BY <1>4, <1>5, <1>10, <2>1, <2>2, RecognizeSearches DEF Given
  <2>4. pgSelected' = selected /\ pgWanted' = more /\ pgGoals' = rest /\ pgChoices' = choices /\ pgFailing' = NoOne
    BY <1>1, <1>3, <1>6, <1>10, <2>2
  <2> QED BY <2>3, <2>4
<1>11. CASE /\ \E c \in Chosen(need.name) : ~ Satisfies(c, more)
            /\ Fail(ConstraintFailure(need.name, more))
  <2>1. PICK c \in Elements(selected) : c.name = need.name /\ ~ Satisfies(c, more)
    BY <1>3, <1>11 DEF Chosen
  <2>2. NoneFits(catalog, selected, need, path, more)
    BY <2>1 DEF NoneFits
  <2> QED BY <1>8, <1>11, <2>2, CodesAreOthers
<1> QED BY <1>6, <1>9, <1>10, <1>11 DEF Recognize

LEMMA ChooseKeeps ==
  ASSUME NEW catalog, NEW request, Given(catalog, request), PkAt(catalog, request), Choose
  PROVE  PkAt(catalog, request)'
<1>1. /\ pgPhase = "search" /\ pgFailing = NoOne /\ pgGoals # <<>>
      /\ UNCHANGED <<pgConfig, pgPhase, pgCode, orderVars, bindVars>> /\ pgWanted' = Wanted
      /\ Current.need.name \notin Current.path /\ Chosen(Current.need.name) = {}
  BY DEF Choose, Searching
<1>2. Searched(pgSelected, pgWanted, pgGoals, pgChoices, NoOne, request, catalog)
  BY <1>1 DEF PkAt
<1>3. PICK selected, wanted, goals, choices :
        selected = pgSelected /\ wanted = pgWanted /\ goals = pgGoals /\ choices = pgChoices
  OBVIOUS
<1>4. PICK need, path, more, rest :
        need = Head(goals).need /\ path = Head(goals).path /\ more = wanted \cup {need} /\ rest = Tail(goals)
  OBVIOUS
<1>5. Searched(selected, wanted, goals, choices, NoOne, request, catalog) /\ goals # <<>>
  BY <1>1, <1>2, <1>3
<1>6. need = Current.need /\ path = Current.path /\ more = Wanted /\ rest = Tail(pgGoals)
  BY <1>3, <1>4 DEF Current, Wanted
<1>7. SUFFICES Searched(pgSelected, pgWanted, pgGoals, pgChoices, pgFailing, request, catalog)'
  BY <1>1, SearchKeeps
<1>8. PICK fitting : fitting = {c \in catalog : c.name = need.name /\ Satisfies(c, more)}
  OBVIOUS
<1>9. fitting = Fitting /\ fitting \subseteq Manifests
  BY <1>6, <1>8 DEF Fitting, CandidatesFor, Given
<1>10. need.name \notin path /\ Absent(selected, need.name)
  BY <1>1, <1>3, <1>6 DEF Chosen, Absent
<1>11. ASSUME NEW code \in PgCodes, Fail(code), fitting = {}
       PROVE  Searched(pgSelected, pgWanted, pgGoals, pgChoices, pgFailing, request, catalog)'
  <2>0. NoneFits(catalog, selected, need, path, more)
    BY <1>8, <1>11 DEF NoneFits
  <2>1. Searched(selected, more, goals, choices, code, request, catalog)
    BY <1>4, <1>5, <1>11, <2>0, FailSearches
  <2>2. pgSelected' = selected /\ pgWanted' = more /\ pgGoals' = goals /\ pgChoices' = choices /\ pgFailing' = code
    BY <1>1, <1>3, <1>6, <1>11 DEF Fail
  <2> QED BY <2>1, <2>2
<1>12. CASE CandidatesFor(need.name) = {} /\ Fail("missing")
  <2>1. "missing" \in PgCodes /\ fitting = {}
    BY <1>9, <1>12, <1>6 DEF PgCodes, Fitting
  <2> QED BY <1>11, <1>12, <2>1
<1>13. CASE Fitting = {} /\ Fail(ConstraintFailure(need.name, more))
  BY <1>9, <1>11, <1>13, CodesAreOthers
<1>14. CASE /\ Fitting # {}
            /\ pgSelected' = Append(pgSelected, FirstCandidate(Fitting))
            /\ pgGoals' = Pursue(FirstCandidate(Fitting), path, rest)
            /\ pgChoices' = Append(pgChoices,
                   [path |-> path, rest |-> rest, untried |-> Fitting \ {FirstCandidate(Fitting)},
                    selected |-> pgSelected, wanted |-> more, code |-> NoOne])
            /\ UNCHANGED pgFailing
  <2>1. PICK first : first = FirstCandidate(fitting)
    OBVIOUS
  <2>2. first \in fitting
    BY <1>9, <1>14, <2>1, FirstIsCandidate
  <2>3. PICK goal, choice : goal = Head(goals) /\ Opens(choice, goal, rest, fitting \ {first}, selected, more)
    BY DEF Opens
  <2>4. PICK now, after : now = Append(selected, first) /\ after = Append(choices, choice)
    OBVIOUS
  <2>5. Searched(now, more, Pursue(first, path, rest), after, NoOne, request, catalog)
    <3>1. catalog \subseteq Manifests
      BY DEF Given
    <3>2. Fitted(fitting, catalog, goal.need.name, more)
      BY <1>4, <1>8, <2>3 DEF Fitted
    <3>3. goal.need.name \notin goal.path /\ Absent(selected, goal.need.name)
      BY <1>4, <1>10, <2>3
    <3>4. rest = Tail(goals) /\ more = wanted \cup {goal.need} /\ path = goal.path
      BY <1>4, <2>3
    <3> QED BY <1>5, <2>2, <2>3, <2>4, <3>1, <3>2, <3>3, <3>4, ChooseSearches
  <2>6. /\ pgSelected' = now /\ pgWanted' = more /\ pgGoals' = Pursue(first, path, rest)
        /\ pgChoices' = after /\ pgFailing' = NoOne
    <3>1. choice = [path |-> path, rest |-> rest, untried |-> fitting \ {first},
                    selected |-> selected, wanted |-> more, code |-> NoOne]
      BY <1>4, <2>3 DEF Opens
    <3> QED BY <1>1, <1>3, <1>6, <1>9, <1>14, <2>1, <2>4, <3>1
  <2> QED BY <2>5, <2>6
<1> QED BY <1>6, <1>12, <1>13, <1>14 DEF Choose

LEMMA BacktrackKeeps ==
  ASSUME NEW catalog, NEW request, Given(catalog, request), PkAt(catalog, request), Backtrack
  PROVE  PkAt(catalog, request)'
<1>1. pgPhase = "search" /\ pgFailing # NoOne /\ UNCHANGED <<pgConfig, orderVars, bindVars>>
  BY DEF Backtrack
<1>2. Searched(pgSelected, pgWanted, pgGoals, pgChoices, pgFailing, request, catalog)
  BY <1>1 DEF PkAt
<1>3. PICK selected, wanted, goals, choices, failing :
        /\ selected = pgSelected /\ wanted = pgWanted /\ goals = pgGoals /\ choices = pgChoices
        /\ failing = pgFailing
  OBVIOUS
<1>4. Searched(selected, wanted, goals, choices, failing, request, catalog) /\ failing # NoOne
  BY <1>1, <1>2, <1>3
<1>5. failing \in PgCodes /\ failing # "order"
  BY <1>4, CodesAreOthers DEF Searched
<1>6. PICK choice, outer : choice = choices[Len(choices)] /\ outer = SubSeq(choices, 1, Len(choices) - 1)
  OBVIOUS
<1>7. PICK code : code = IF choice.code = NoOne THEN failing ELSE choice.code
  OBVIOUS
<1>8. CASE choices = <<>>
  <2>1. pgPhase' = "refused" /\ pgCode' = failing /\ UNCHANGED searchVars
    BY <1>3, <1>8 DEF Backtrack, Refuse
  <2>2. 1 .. Len(choices) = {}
    BY <1>8
  <2>3. \A set \in SUBSET catalog : ~ Serves(set, request)
    BY <1>4, <2>2 DEF Searched, Reached
  <2>4. /\ pgConfig' = pgConfig /\ pgSelected' = pgSelected /\ pgVisit' = pgVisit /\ pgOrder' = pgOrder
        /\ pgApplied' = pgApplied /\ pgOwner' = pgOwner /\ pgRoute' = pgRoute
    BY <1>1, <2>1 DEF searchVars, orderVars, bindVars
  <2> QED BY <1>1, <1>4, <1>5, <2>1, <2>3, <2>4 DEF PkAt
<1>9. CASE choices # <<>>
  <2>1. /\ pgWanted' = choice.wanted /\ UNCHANGED <<pgPhase, pgCode>>
        /\ \/ /\ choice.untried = {} /\ pgSelected' = choice.selected /\ pgChoices' = outer
              /\ pgFailing' = code /\ UNCHANGED pgGoals
           \/ /\ choice.untried # {}
              /\ pgSelected' = Append(choice.selected, FirstCandidate(choice.untried))
              /\ pgGoals' = Pursue(FirstCandidate(choice.untried), choice.path, choice.rest)
              /\ pgChoices' = Append(outer, [choice EXCEPT !.untried = @ \ {FirstCandidate(choice.untried)},
                                                           !.code = code])
              /\ pgFailing' = NoOne
    BY <1>3, <1>6, <1>7, <1>9 DEF Backtrack, Restored
  <2>2. SUFFICES Searched(pgSelected, pgWanted, pgGoals, pgChoices, pgFailing, request, catalog)'
    BY <1>1, <2>1, SearchKeeps
  <2>3. choice \in PgTries(request, catalog)
    <3>1. choices \in Seq(PgTries(request, catalog))
      BY <1>4 DEF Searched
    <3> PICK tries : tries = PgTries(request, catalog)
      OBVIOUS
    <3>2. choices \in Seq(tries) /\ Len(choices) \in 1 .. Len(choices)
      BY <1>9, <3>1
    <3> QED BY <1>6, <3>2
  <2>4. choice.untried \subseteq catalog /\ choice.code \in PgCodes \cup {NoOne}
    BY <2>3 DEF PgTries
  <2>5. code \in PgCodes
    BY <1>5, <1>7, <2>4
  <2>6. CASE /\ choice.untried = {} /\ pgSelected' = choice.selected /\ pgChoices' = outer
             /\ pgFailing' = code /\ UNCHANGED pgGoals
    <3>1. PICK more : more = choice.wanted
      OBVIOUS
    <3>2. Innermost(choice, outer, choices) /\ choice.untried = {}
      BY <1>6, <1>9, <2>6 DEF Innermost
    <3>3. Searched(choice.selected, more, goals, outer, code, request, catalog)
      BY <1>4, <2>5, <3>2, GiveUpSearches
    <3> QED BY <1>3, <2>1, <2>6, <3>1, <3>3
  <2>7. CASE /\ choice.untried # {}
             /\ pgSelected' = Append(choice.selected, FirstCandidate(choice.untried))
             /\ pgGoals' = Pursue(FirstCandidate(choice.untried), choice.path, choice.rest)
             /\ pgChoices' = Append(outer, [choice EXCEPT !.untried = @ \ {FirstCandidate(choice.untried)},
                                                          !.code = code])
             /\ pgFailing' = NoOne
    <3>1. PICK next : next = FirstCandidate(choice.untried)
      OBVIOUS
    <3>2. next \in choice.untried
      BY <2>4, <2>7, <3>1, FirstIsCandidate DEF Given
    <3>3. PICK again : Retried(again, choice, next, code)
      BY DEF Retried
    <3>4. PICK now, after : now = Append(choice.selected, next) /\ after = Append(outer, again)
      OBVIOUS
    <3>5. catalog \subseteq Manifests
      BY DEF Given
    <3>6. Searched(now, choice.wanted, Pursue(next, choice.path, choice.rest), after, NoOne, request, catalog)
      <4>1. Innermost(choice, outer, choices)
        BY <1>6, <1>9 DEF Innermost
      <4> QED BY <1>4, <2>5, <3>2, <3>3, <3>4, <3>5, <4>1, RetrySearches
    <3>7. again = [choice EXCEPT !.untried = @ \ {next}, !.code = code]
      BY <3>3 DEF Retried
    <3> QED BY <2>1, <2>7, <3>1, <3>4, <3>6, <3>7
  <2> QED BY <2>1, <2>6, <2>7
<1> QED BY <1>8, <1>9

LEMMA FinishKeeps ==
  ASSUME NEW catalog, NEW request, Given(catalog, request), PkAt(catalog, request), FinishSearch
  PROVE  PkAt(catalog, request)'
<1>1. /\ pgPhase = "search" /\ pgFailing = NoOne /\ pgGoals = <<>> /\ pgPhase' = "order"
      /\ UNCHANGED <<pgConfig, pgCode, searchVars, orderVars, bindVars>>
  BY DEF FinishSearch
<1>2. Build(pgSelected, pgWanted, <<>>, request, catalog)
  BY <1>1 DEF PkAt, Searched
<1>3. /\ Serves(Elements(pgSelected), request)
      /\ \A c \in Elements(pgSelected) :
            c.name \in request \/ \E d \in Elements(pgSelected) : DependsOn(d, c)
  BY <1>2, DoneServes
<1>4. pgVisit = <<>> /\ pgOrder = <<>>
  BY <1>1 DEF PkAt
<1>5. Ordered(pgSelected, pgVisit, pgOrder)
  BY <1>4, OrderStarts
<1>6. /\ pgConfig' = pgConfig /\ pgCode' = pgCode /\ pgSelected' = pgSelected /\ pgVisit' = pgVisit /\ pgOrder' = pgOrder
      /\ pgApplied' = pgApplied /\ pgOwner' = pgOwner /\ pgRoute' = pgRoute
  BY <1>1 DEF searchVars, orderVars, bindVars
<1>7. (/\ Serves(Elements(pgSelected), request) /\ Ordered(pgSelected, pgVisit, pgOrder)
       /\ \A c \in Elements(pgSelected) :
             c.name \in request \/ \E d \in Elements(pgSelected) : DependsOn(d, c))'
  BY <1>3, <1>5, <1>6
<1> QED BY <1>1, <1>6, <1>7 DEF PkAt

\* A step that only visits and orders.
LEMMA OrderKeeps ==
  ASSUME NEW catalog, NEW request, PkAt(catalog, request), pgPhase = "order", pgPhase' = "order",
         UNCHANGED <<pgConfig, pgCode, searchVars, bindVars>>,
         Ordered(pgSelected, pgVisit', pgOrder')
  PROVE  PkAt(catalog, request)'
<1>1. /\ pgConfig' = pgConfig /\ pgCode' = pgCode /\ pgSelected' = pgSelected
      /\ pgApplied' = pgApplied /\ pgOwner' = pgOwner /\ pgRoute' = pgRoute
  BY DEF searchVars, bindVars
<1>2. Ordered(pgSelected, pgVisit, pgOrder)'
  BY <1>1
<1>3. (/\ Serves(Elements(pgSelected), request)
       /\ \A c \in Elements(pgSelected) :
             c.name \in request \/ \E d \in Elements(pgSelected) : DependsOn(d, c))'
  BY <1>1 DEF PkAt
<1> QED BY <1>1, <1>2, <1>3 DEF PkAt

LEMMA ResolvedTypes ==
  ASSUME NEW catalog, NEW request, Given(catalog, request), PkAt(catalog, request),
         pgPhase \in {"order", "bind", "ready"}
  PROVE  /\ pgSelected \in Seq(Manifests) /\ Serves(Elements(pgSelected), request)
         /\ Ordered(pgSelected, pgVisit, pgOrder) /\ pgOrder \in Seq(Names(pgSelected))
         /\ \A name : FrameOf(pgSelected, name) = Frame(name)
         /\ \A name : Of(pgSelected, name) = SelectedOf(name)
<1>1. pgSelected \in Seq(catalog) /\ Serves(Elements(pgSelected), request) /\ Ordered(pgSelected, pgVisit, pgOrder)
  BY DEF PkAt
<1>2. pgSelected \in Seq(Manifests)
  BY <1>1 DEF Given
<1>3. \A name : Of(pgSelected, name) = SelectedOf(name)
  BY DEF Of, SelectedOf
<1>4. \A name : FrameOf(pgSelected, name) = Frame(name)
  BY <1>3 DEF FrameOf, Frame
<1> QED BY <1>1, <1>2, <1>3, <1>4 DEF Ordered

LEMMA VisitNextKeeps ==
  ASSUME NEW catalog, NEW request, Given(catalog, request), PkAt(catalog, request), VisitNext
  PROVE  PkAt(catalog, request)'
<1>1. /\ pgPhase = "order" /\ pgVisit = <<>>
      /\ UNCHANGED <<pgConfig, pgCode, searchVars, pgOrder, bindVars>>
  BY DEF VisitNext
<1>2. /\ pgSelected \in Seq(Manifests) /\ Serves(Elements(pgSelected), request)
      /\ Ordered(pgSelected, pgVisit, pgOrder) /\ pgOrder \in Seq(Names(pgSelected))
      /\ \A name : FrameOf(pgSelected, name) = Frame(name)
  BY <1>1, ResolvedTypes
<1>3. /\ pgConfig' = pgConfig /\ pgCode' = pgCode /\ pgSelected' = pgSelected /\ pgOrder' = pgOrder
      /\ pgApplied' = pgApplied /\ pgOwner' = pgOwner /\ pgRoute' = pgRoute
  BY <1>1 DEF searchVars, bindVars
<1>4. CASE {c.name : c \in Elements(pgSelected)} \subseteq Visited /\ pgPhase' = "bind" /\ UNCHANGED pgVisit
  <2>1. Names(pgSelected) \subseteq Elements(pgOrder)
    BY <1>4 DEF Names, Visited
  <2>2. pgApplied = 0 /\ pgOwner = [key \in Capabilities |-> NoOne] /\ pgRoute = NoOne
    BY <1>1 DEF PkAt
  <2>3. /\ Bindings(pgSelected, pgOrder, pgApplied, pgOwner)
        /\ Routed(pgSelected, pgOrder, pgApplied, pgRoute, pgConfig.ownModel)
    BY <1>2, <2>2, BindingsStart
  <2>4. (/\ pgVisit = <<>> /\ Names(pgSelected) \subseteq Elements(pgOrder)
         /\ Bindings(pgSelected, pgOrder, pgApplied, pgOwner)
         /\ Routed(pgSelected, pgOrder, pgApplied, pgRoute, pgConfig.ownModel))'
    BY <1>1, <1>3, <1>4, <2>1, <2>3
  <2>5. (/\ Serves(Elements(pgSelected), request) /\ Ordered(pgSelected, pgVisit, pgOrder)
         /\ \A c \in Elements(pgSelected) :
               c.name \in request \/ \E d \in Elements(pgSelected) : DependsOn(d, c))'
    BY <1>1, <1>3, <1>4 DEF PkAt
  <2> QED BY <1>1, <1>3, <1>4, <2>4, <2>5 DEF PkAt
<1>5. CASE /\ \E i \in 1..Len(pgSelected) :
                 /\ pgSelected[i].name \notin Visited
                 /\ \A j \in 1..(i - 1) : pgSelected[j].name \in Visited
                 /\ pgVisit' = <<Frame(pgSelected[i].name)>>
           /\ UNCHANGED pgPhase
  <2>1. PICK name \in Names(pgSelected) : name \notin Elements(pgOrder) /\ pgVisit' = <<Frame(name)>>
    BY <1>5 DEF Names, Elements, Visited
  <2>2. Ordered(pgSelected, <<FrameOf(pgSelected, name)>>, pgOrder)
    BY <1>1, <1>2, <2>1, VisitStarts
  <2>3. Ordered(pgSelected, pgVisit', pgOrder')
    BY <1>2, <1>3, <2>1, <2>2
  <2> QED BY <1>1, <1>3, <1>5, <2>3, OrderKeeps DEF searchVars, bindVars
<1> QED BY <1>4, <1>5 DEF VisitNext

LEMMA VisitDependencyKeeps ==
  ASSUME NEW catalog, NEW request, Given(catalog, request), PkAt(catalog, request), VisitDependency
  PROVE  PkAt(catalog, request)'
<1>1. /\ pgPhase = "order" /\ pgVisit # <<>> /\ pgVisit[Len(pgVisit)].deps # <<>>
      /\ UNCHANGED <<pgConfig, searchVars, pgOrder, bindVars>>
  BY DEF VisitDependency
<1>2. /\ pgSelected \in Seq(Manifests) /\ Serves(Elements(pgSelected), request)
      /\ Ordered(pgSelected, pgVisit, pgOrder)
      /\ \A name : FrameOf(pgSelected, name) = Frame(name)
  BY <1>1, ResolvedTypes
<1>3. PICK selected, visit, order : selected = pgSelected /\ visit = pgVisit /\ order = pgOrder
  OBVIOUS
<1>4. PICK n, name : n = Len(visit) /\ name = Head(visit[n].deps)
  OBVIOUS
<1>5. PICK rest : rest = [visit EXCEPT ![n].deps = Tail(@)]
  OBVIOUS
<1>6. /\ selected \in Seq(Manifests) /\ Serves(Elements(selected), request)
      /\ Ordered(selected, visit, order) /\ visit # <<>> /\ visit[n].deps # <<>>
  BY <1>1, <1>2, <1>3, <1>4
<1>7. name \in Names(selected) \ {frame.name : frame \in Elements(visit)}
  BY <1>4, <1>6, NoCycle
<1>8. Chosen(name) # {} /\ name \notin Visiting
  BY <1>3, <1>7 DEF Chosen, Visiting, Names
<1>9. /\ pgVisit' = IF name \in Visited THEN rest ELSE Append(rest, Frame(name))
      /\ UNCHANGED <<pgPhase, pgCode>>
  BY <1>3, <1>4, <1>5, <1>8 DEF VisitDependency
<1>10. Ordered(selected, pgVisit', order)
  <2>1. CASE name \in Elements(order)
    <3>1. Ordered(selected, rest, order)
      BY <1>4, <1>5, <1>6, <2>1, VisitSkips
    <3> QED BY <1>3, <1>9, <2>1, <3>1 DEF Visited
  <2>2. CASE name \notin Elements(order)
    <3>1. PICK after : after = Append(rest, FrameOf(selected, name))
      OBVIOUS
    <3>2. \A frame \in Elements(visit) : frame.name # name
      BY <1>7
    <3>3. Ordered(selected, after, order)
      BY <1>4, <1>5, <1>6, <1>7, <2>2, <3>1, <3>2, VisitDescends
    <3>4. pgVisit' = after
      BY <1>2, <1>3, <1>9, <2>2, <3>1 DEF Visited
    <3> QED BY <3>3, <3>4
  <2> QED BY <2>1, <2>2
<1>11. Ordered(pgSelected, pgVisit', pgOrder')
  BY <1>1, <1>3, <1>10
<1> QED BY <1>1, <1>9, <1>11, OrderKeeps

LEMMA FinishVisitKeeps ==
  ASSUME NEW catalog, NEW request, Given(catalog, request), PkAt(catalog, request), FinishVisit
  PROVE  PkAt(catalog, request)'
<1>1. /\ pgPhase = "order" /\ pgVisit # <<>> /\ pgVisit[Len(pgVisit)].deps = <<>>
      /\ UNCHANGED <<pgConfig, pgPhase, pgCode, searchVars, bindVars>>
      /\ pgOrder' = Append(pgOrder, pgVisit[Len(pgVisit)].name)
      /\ pgVisit' = SubSeq(pgVisit, 1, Len(pgVisit) - 1)
  BY DEF FinishVisit
<1>2. Ordered(pgSelected, pgVisit, pgOrder)
  BY <1>1, ResolvedTypes
<1>3. PICK selected, visit, order : selected = pgSelected /\ visit = pgVisit /\ order = pgOrder
  OBVIOUS
<1>4. PICK n, outer, now :
        n = Len(visit) /\ outer = SubSeq(visit, 1, n - 1) /\ now = Append(order, visit[n].name)
  OBVIOUS
<1>5. Ordered(selected, visit, order) /\ visit # <<>> /\ visit[n].deps = <<>>
  BY <1>1, <1>2, <1>3, <1>4
<1>6. Ordered(selected, outer, now)
  BY <1>4, <1>5, VisitEnds
<1>7. Ordered(pgSelected, pgVisit', pgOrder')
  BY <1>1, <1>3, <1>4, <1>6
<1> QED BY <1>1, <1>7, OrderKeeps

LEMMA ApplyKeeps ==
  ASSUME NEW catalog, NEW request, Given(catalog, request), PkAt(catalog, request), ApplyContribution
  PROVE  PkAt(catalog, request)'
<1>1. /\ pgPhase = "bind" /\ pgApplied < 2 * Len(pgOrder) /\ pgApplied' = pgApplied + 1
      /\ UNCHANGED <<pgConfig, pgPhase, pgCode, searchVars, orderVars>>
  BY DEF ApplyContribution
<1>2. /\ pgSelected \in Seq(Manifests) /\ pgOrder \in Seq(Names(pgSelected))
      /\ \A name : Of(pgSelected, name) = SelectedOf(name)
  BY <1>1, ResolvedTypes
<1>3. PICK selected, order, applied, owner, route, own :
        /\ selected = pgSelected /\ order = pgOrder /\ applied = pgApplied /\ owner = pgOwner
        /\ route = pgRoute /\ own = pgConfig.ownModel
  OBVIOUS
<1>4. /\ Bindings(selected, order, applied, owner) /\ Routed(selected, order, applied, route, own)
      /\ pgVisit = <<>> /\ Names(pgSelected) \subseteq Elements(pgOrder)
  BY <1>1, <1>3 DEF PkAt
<1>5. selected \in Seq(Manifests) /\ order \in Seq(Names(selected)) /\ applied < 2 * Len(order)
  BY <1>1, <1>2, <1>3
<1>6. applied \in Nat
  BY <1>4, <1>5 DEF Bindings
<1>7. PICK next : next = Giver(order, applied + 1)
  OBVIOUS
<1>8. next = Contribution(pgApplied + 1)
  BY <1>3, <1>7 DEF Giver, Contribution
<1>9. PICK after : after = Bound(owner, next.name, Of(selected, next.name).binds[next.stage])
  OBVIOUS
<1>10. Bindings(selected, order, applied + 1, after)
  BY <1>4, <1>5, <1>7, <1>9, BindsNext
<1>11. PICK way : way = IF /\ next.stage = "services" /\ Of(selected, next.name).routes
                          /\ route = NoOne /\ ~ own
                       THEN next.name ELSE route
  OBVIOUS
<1>12. Routed(selected, order, applied + 1, way, own)
  BY <1>4, <1>5, <1>6, <1>7, <1>11, RoutesNext
<1>13. pgOwner' = after /\ pgRoute' = way
  BY <1>2, <1>3, <1>8, <1>9, <1>11 DEF ApplyContribution
<1>14. /\ pgConfig' = pgConfig /\ pgPhase' = "bind" /\ pgCode' = pgCode /\ pgSelected' = pgSelected
       /\ pgVisit' = pgVisit /\ pgOrder' = pgOrder
  BY <1>1 DEF searchVars, orderVars
<1>15. (/\ pgVisit = <<>> /\ Names(pgSelected) \subseteq Elements(pgOrder)
        /\ Bindings(pgSelected, pgOrder, pgApplied, pgOwner)
        /\ Routed(pgSelected, pgOrder, pgApplied, pgRoute, pgConfig.ownModel))'
  BY <1>1, <1>3, <1>4, <1>10, <1>12, <1>13, <1>14
<1>16. (/\ Serves(Elements(pgSelected), request) /\ Ordered(pgSelected, pgVisit, pgOrder)
        /\ \A c \in Elements(pgSelected) :
              c.name \in request \/ \E d \in Elements(pgSelected) : DependsOn(d, c))'
  BY <1>1, <1>14 DEF PkAt
<1> QED BY <1>1, <1>14, <1>15, <1>16 DEF PkAt

LEMMA AssemblyKeeps ==
  ASSUME NEW catalog, NEW request, Given(catalog, request), PkAt(catalog, request), FinishAssembly
  PROVE  PkAt(catalog, request)'
<1>1. /\ pgPhase = "bind" /\ pgApplied = 2 * Len(pgOrder) /\ pgPhase' = "ready"
      /\ pgConfig' = pgConfig /\ pgCode' = pgCode /\ pgSelected' = pgSelected
      /\ pgVisit' = pgVisit /\ pgOrder' = pgOrder
      /\ pgApplied' = pgApplied /\ pgOwner' = pgOwner /\ pgRoute' = pgRoute
  BY DEF FinishAssembly, searchVars, orderVars, bindVars
<1>2. (/\ pgVisit = <<>> /\ Names(pgSelected) \subseteq Elements(pgOrder)
       /\ Bindings(pgSelected, pgOrder, pgApplied, pgOwner)
       /\ Routed(pgSelected, pgOrder, pgApplied, pgRoute, pgConfig.ownModel))'
  BY <1>1 DEF PkAt
<1>3. (/\ Serves(Elements(pgSelected), request) /\ Ordered(pgSelected, pgVisit, pgOrder)
       /\ \A c \in Elements(pgSelected) :
             c.name \in request \/ \E d \in Elements(pgSelected) : DependsOn(d, c))'
  BY <1>1 DEF PkAt
<1> QED BY <1>1, <1>2, <1>3 DEF PkAt

\* What holds in every state of a build: while it searches, what is selected can still be part
\* of every solution that no choice put aside; afterwards the packages serve the request, and
\* each is ordered and binds after its dependencies.
PkInd == pgConfig \in PgConfigs /\ PkAt(Catalog, Elements(Request))

LEMMA PackagesBegin == PgInit => PkInd
<1> SUFFICES ASSUME PgInit PROVE PkInd
  OBVIOUS
<1>1. PICK catalog, request : catalog = Catalog /\ request = Elements(Request)
  OBVIOUS
<1>2. <<>> \in Seq(catalog)
  OBVIOUS
<1>3. NoOne \notin PgCodes /\ NoOne # "order"
  BY CodesAreOthers DEF NoOne
<1>4. /\ pgConfig \in PgConfigs /\ pgPhase = "start" /\ pgCode = NoOne /\ pgSelected = <<>>
      /\ pgChoices = <<>> /\ pgFailing = NoOne /\ pgVisit = <<>> /\ pgOrder = <<>>
      /\ pgOwner = [key \in Capabilities |-> NoOne] /\ pgApplied = 0 /\ pgRoute = NoOne
  BY DEF PgInit
<1>5. PkAt(catalog, request)
  BY <1>2, <1>3, <1>4 DEF PkAt
<1> QED BY <1>1, <1>4, <1>5 DEF PkInd

LEMMA PackagesKeep == PkInd /\ [PgNext]_pgVars => PkInd'
<1> SUFFICES ASSUME PkInd, [PgNext]_pgVars PROVE PkInd'
  OBVIOUS
<1>1. PICK catalog, request : catalog = Catalog /\ request = Elements(Request)
  OBVIOUS
<1>2. Given(catalog, request) /\ PkAt(catalog, request)
  BY <1>1, CatalogTyped DEF PkInd, Given
<1>3. pgConfig' = pgConfig
  BY DEF PgNext, StartSearch, Recognize, Choose, Backtrack, FinishSearch, VisitNext,
         VisitDependency, FinishVisit, ApplyContribution, FinishAssembly, pgVars
<1>4. Catalog' = Catalog /\ Request' = Request
  BY <1>3 DEF Catalog, SelectedFirstParty, Distributed, Accepted, OfficialNames, Request, Nth
<1>5. PkAt(catalog, request)'
  <2>1. CASE StartSearch
    BY <1>2, <2>1, StartKeeps
  <2>2. CASE Recognize
    BY <1>2, <2>2, RecognizeKeeps
  <2>3. CASE Choose
    BY <1>2, <2>3, ChooseKeeps
  <2>4. CASE Backtrack
    BY <1>2, <2>4, BacktrackKeeps
  <2>5. CASE FinishSearch
    BY <1>2, <2>5, FinishKeeps
  <2>6. CASE VisitNext
    BY <1>2, <2>6, VisitNextKeeps
  <2>7. CASE VisitDependency
    BY <1>2, <2>7, VisitDependencyKeeps
  <2>8. CASE FinishVisit
    BY <1>2, <2>8, FinishVisitKeeps
  <2>9. CASE ApplyContribution
    BY <1>2, <2>9, ApplyKeeps
  <2>10. CASE FinishAssembly
    BY <1>2, <2>10, AssemblyKeeps
  <2>11. CASE UNCHANGED pgVars
    BY <1>2, <2>11 DEF PkAt, pgVars
  <2> QED BY <2>1, <2>2, <2>3, <2>4, <2>5, <2>6, <2>7, <2>8, <2>9, <2>10, <2>11 DEF PgNext
<1>6. PkAt(Catalog, Elements(Request))'
  BY <1>1, <1>4, <1>5
<1> QED BY <1>3, <1>6 DEF PkInd

LEMMA PackagesImply == PkInd => PackagesSafe
<1> SUFFICES ASSUME PkInd PROVE PackagesSafe
  OBVIOUS
<1>1. PICK catalog, request : catalog = Catalog /\ request = Elements(Request)
  OBVIOUS
<1>2. Given(catalog, request) /\ PkAt(catalog, request)
  BY <1>1, CatalogTyped DEF PkInd, Given
<1>3. \A set : Solves(set) <=> Serves(set, request)
  BY <1>1 DEF Solves, Serves
<1>4. ASSUME pgPhase \in {"order", "bind", "ready"}
      PROVE  /\ pgSelected \in Seq(Manifests) /\ Serves(Elements(pgSelected), request)
             /\ Ordered(pgSelected, pgVisit, pgOrder) /\ pgOrder \in Seq(Names(pgSelected))
             /\ \A name : Of(pgSelected, name) = SelectedOf(name)
  BY <1>2, <1>4, ResolvedTypes
<1>5. pgPhase \in {"start", "search", "refused"} => Visited = {} /\ Visiting = {} /\ Len(pgOrder) = 0
  BY <1>2 DEF PkAt, Visited, Visiting, Elements
<1>6. PgTypeOK
  <2>1. \A c \in Elements(pgSelected) : c \in Catalog
    BY <1>1, <1>2 DEF PkAt, Elements
  <2>2. Visited \cup Visiting \subseteq {c.name : c \in Elements(pgSelected)}
    <3>1. CASE pgPhase \in {"order", "bind", "ready"}
      <4>1. pgVisit \in Seq(PgFrames(pgSelected)) /\ pgOrder \in Seq(Names(pgSelected))
        BY <1>4, <3>1 DEF Ordered
      <4>2. Visited \subseteq Names(pgSelected)
        BY <4>1 DEF Visited, Elements
      <4>3. Elements(pgVisit) \subseteq PgFrames(pgSelected)
        BY <4>1 DEF Elements
      <4>4. \A frame \in PgFrames(pgSelected) : frame.name \in Names(pgSelected)
        BY DEF PgFrames
      <4>5. Visiting \subseteq Names(pgSelected)
        BY <4>3, <4>4 DEF Visiting
      <4> QED BY <4>2, <4>5 DEF Names
    <3>2. CASE pgPhase \in {"start", "search", "refused"}
      BY <1>5, <3>2
    <3> QED BY <1>2, <3>1, <3>2 DEF PkAt
  <2>3. pgOwner \in [Capabilities -> Visited \cup {NoOne}]
    <3>1. CASE pgPhase \in {"bind", "ready"}
      BY <1>2, <3>1 DEF PkAt, Bindings, Visited
    <3>2. CASE pgPhase \notin {"bind", "ready"}
      BY <1>2, <3>2 DEF PkAt
    <3> QED BY <3>1, <3>2
  <2>4. pgRoute \in Visited \cup {NoOne}
    <3>1. CASE pgPhase \in {"bind", "ready"}
      BY <1>2, <3>1 DEF PkAt, Routed, Visited, Elements
    <3>2. CASE pgPhase \notin {"bind", "ready"}
      BY <1>2, <3>2 DEF PkAt
    <3> QED BY <3>1, <3>2
  <2> QED BY <1>2, <2>1, <2>2, <2>3, <2>4 DEF PgTypeOK, PkAt
<1>7. ResolutionIsSound
  BY <1>3, <1>4 DEF ResolutionIsSound
<1>8. NothingLeftOver
  BY <1>1, <1>2 DEF NothingLeftOver, PkAt
<1>9. RefusedOnlyIfImpossible
  BY <1>1, <1>2, <1>3 DEF RefusedOnlyIfImpossible, PkAt, PgCodes
<1>10. DependenciesFirst
  <2>1. ASSUME NEW i \in 1..Len(pgOrder), NEW need \in Elements(SelectedOf(pgOrder[i]).deps)
        PROVE  \E j \in 1..(i - 1) : pgOrder[j] = need.name
    <3>1. pgPhase \in {"order", "bind", "ready"}
      <4>1. Len(pgOrder) # 0
        OBVIOUS
      <4> QED BY <1>2, <1>5, <4>1 DEF PkAt
    <3>2. Ordered(pgSelected, pgVisit, pgOrder) /\ Of(pgSelected, pgOrder[i]) = SelectedOf(pgOrder[i])
      BY <1>4, <3>1
    <3> QED BY <2>1, <3>2 DEF Ordered
  <2> QED BY <1>2, <2>1 DEF DependenciesFirst, PkAt
<1>11. DependentsOverride
  <2>1. SUFFICES ASSUME pgPhase = "ready"
        PROVE  /\ \A c, d \in Elements(pgSelected), key \in Capabilities :
                     DependsOn(c, d) /\ key \in c.binds["runtime"] => pgOwner[key] # d.name
               /\ \A c, d \in Elements(pgSelected), key \in Capabilities :
                     /\ DependsOn(c, d) /\ key \in c.binds["services"]
                     /\ \A e \in Elements(pgSelected) : key \notin e.binds["runtime"]
                     => pgOwner[key] # d.name
               /\ \A c, d \in Elements(pgSelected) :
                     DependsOn(c, d) /\ d.routes => pgRoute # c.name
    BY DEF DependentsOverride
  <2>2. /\ pgSelected \in Seq(Manifests) /\ Serves(Elements(pgSelected), request)
        /\ Ordered(pgSelected, pgVisit, pgOrder)
    BY <1>4, <2>1
  <2>3. /\ Names(pgSelected) \subseteq Elements(pgOrder)
        /\ Bindings(pgSelected, pgOrder, 2 * Len(pgOrder), pgOwner)
        /\ Routed(pgSelected, pgOrder, pgApplied, pgRoute, pgConfig.ownModel)
    BY <1>2, <2>1 DEF PkAt
  <2>4. \A c, d \in Elements(pgSelected), key \in Capabilities :
           /\ DependsOn(c, d)
           /\ \/ key \in c.binds["runtime"]
              \/ key \in c.binds["services"] /\ \A e \in Elements(pgSelected) : key \notin e.binds["runtime"]
           => pgOwner[key] # d.name
    BY <2>2, <2>3, DependentOverrides
  <2>5. \A c, d \in Elements(pgSelected) : DependsOn(c, d) /\ d.routes => pgRoute # c.name
    BY <2>2, <2>3, DependentDefers
  <2> QED BY <2>4, <2>5
<1> QED BY <1>6, <1>7, <1>8, <1>9, <1>10, <1>11 DEF PackagesSafe

\* Whatever the catalog, the packages and the configuration: what the search accepts solves the
\* request and holds nothing else, what it refuses has no solution, the order is always found
\* and puts dependencies first, and dependents override what their dependencies bind
\* (package_system/resolution.py, package_system/manifests.py, runtime_kernel/kernel.py).
THEOREM PackageSafety == PgSpec => []PackagesSafe
<1>1. PgSpec => []PkInd
  BY PackagesBegin, PackagesKeep, PTL DEF PgSpec
<1> QED BY <1>1, PackagesImply, PTL
====
