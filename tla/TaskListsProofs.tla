--------------------------- MODULE TaskListsProofs ---------------------------
(***************************************************************************)
(* Proofs of the properties of TaskLists and TaskListService for any       *)
(* number of callers, watchers, tasks and owners.  The properties of a     *)
(* list are inductive together: a claim that finds no blocker, or a view   *)
(* that hides archived entries, is right only because edges are mirrored   *)
(* and archived entries completed.  As concurrent calls the operations     *)
(* need the lock: one caller at a time is between load and the return of   *)
(* save, and the snapshot it loaded is the stored one.                     *)
(***************************************************************************)
EXTENDS TaskListService, TLAPS

----
(* Task lists *)

\* The inductive invariant, over a list l.
MirroredIn(l) ==
  \A t, u \in Tasks :
    /\ u \in l.blocks[t] <=> t \in l.blockedBy[u]
    /\ u \in l.blocks[t] => InList(l, t) /\ InList(l, u) /\ t # u

ArchivedIn(l) == \A t \in Tasks : l.archived[t] => l.status[t] = "completed"

SingleIn(l) ==
  Strict => \A t, u \in Tasks :
    l.status[t] = "in_progress" /\ l.status[u] = "in_progress" => t = u

Sound(l) ==
  /\ l \in Lists
  /\ MirroredIn(l)
  /\ ArchivedIn(l)
  /\ SingleIn(l)
  /\ AcyclicGraph(Edges(l))

----
\* The graph operators.

\* What _path_exists reaches from t is closed under the edges.
LEMMA ReachableClosed ==
  ASSUME NEW E \in SUBSET (Tasks \X Tasks), NEW t \in Tasks,
         NEW x \in Tasks, NEW y \in Tasks,
         PathExists(E, t, x), <<x, y>> \in E
  PROVE  PathExists(E, t, y)
PROOF
  <1> SUFFICES ASSUME NEW S \in SUBSET Tasks, t \in S,
                      \A e \in E : e[1] \in S => e[2] \in S
               PROVE  y \in S
    BY DEF PathExists
  <1>1. x \in S
    BY DEF PathExists
  <1> QED
    BY <1>1

LEMMA ReachableStart ==
  ASSUME NEW E, NEW t \in Tasks
  PROVE  PathExists(E, t, t)
PROOF
  BY DEF PathExists

\* New edges into t leave the graph acyclic when no new blocker is reachable from t:
\* the check of add_dependency and of create's blocked_by.
LEMMA AcyclicAddInto ==
  ASSUME NEW E \in SUBSET (Tasks \X Tasks), NEW t \in Tasks, NEW B \in SUBSET Tasks,
         AcyclicGraph(E), \A b \in B : ~PathExists(E, t, b)
  PROVE  AcyclicGraph(E \cup (B \X {t}))
PROOF
  <1> DEFINE R == {x \in Tasks : PathExists(E, t, x)}
  <1> SUFFICES ASSUME NEW S \in SUBSET Tasks, S # {},
                      \A x \in S : \E y \in S : <<y, x>> \in E \cup (B \X {t})
               PROVE  FALSE
    BY DEF AcyclicGraph
  <1>1. PICK x \in S : \A y \in S : <<y, x>> \notin E
    BY DEF AcyclicGraph
  <1>2. PICK b \in S : <<b, x>> \in B \X {t}
    BY <1>1
  <1>3. b \in S \ R
    BY <1>2
  <1>4. PICK y \in S \ R : \A z \in S \ R : <<z, y>> \notin E
    BY <1>3 DEF AcyclicGraph
  <1>5. y # t
    BY <1>4, ReachableStart
  <1>6. PICK z \in S : <<z, y>> \in E
    BY <1>4, <1>5
  <1>7. z \in R
    BY <1>4, <1>6
  <1>8. y \in R
    BY <1>6, <1>7, ReachableClosed
  <1> QED
    BY <1>4, <1>8

LEMMA AcyclicSubgraph ==
  ASSUME NEW E, NEW F \in SUBSET E, AcyclicGraph(E)
  PROVE  AcyclicGraph(F)
PROOF
  BY DEF AcyclicGraph

\* A new blocker that nothing blocks closes no cycle.
LEMMA AcyclicAddSource ==
  ASSUME NEW E \in SUBSET (Tasks \X Tasks), NEW t \in Tasks, NEW B \in SUBSET Tasks,
         AcyclicGraph(E), t \notin B, \A u \in Tasks : <<u, t>> \notin E
  PROVE  AcyclicGraph(E \cup ({t} \X B))
PROOF
  <1> SUFFICES ASSUME NEW S \in SUBSET Tasks, S # {}
               PROVE  \E x \in S : \A y \in S : <<y, x>> \notin E \cup ({t} \X B)
    BY DEF AcyclicGraph
  <1>1. CASE t \in S
    BY <1>1
  <1>2. CASE t \notin S
    BY <1>2 DEF AcyclicGraph
  <1> QED
    BY <1>1, <1>2

\* The edges read back from a list written by _tasks_from_graph are those written.
LEMMA EdgesOfWithEdges ==
  ASSUME NEW l \in Lists, NEW E \in SUBSET (Tasks \X Tasks),
         \A e \in E : InList(l, e[1]) /\ InList(l, e[2]) /\ e[1] # e[2]
  PROVE  Edges(WithEdges(l, E)) = E
PROOF
  BY DEF Edges, WithEdges, InList, Lists

----
\* One mutation.

\* The edges of a sound list lie between entries of it and have no loops.
LEMMA EdgesTyped ==
  ASSUME NEW l
  PROVE  /\ Edges(l) \in SUBSET (Tasks \X Tasks)
         /\ \A e \in Edges(l) : InList(l, e[1]) /\ InList(l, e[2]) /\ e[1] # e[2]
PROOF
  BY DEF Edges

\* Rewriting the edges of a list keeps it a list, and mirrors them.
LEMMA WithEdgesSound ==
  ASSUME NEW l \in Lists, NEW E \in SUBSET (Tasks \X Tasks),
         \A e \in E : InList(l, e[1]) /\ InList(l, e[2]) /\ e[1] # e[2],
         ArchivedIn(l), SingleIn(l), AcyclicGraph(E)
  PROVE  Sound(WithEdges(l, E))
PROOF
  <1> DEFINE m == WithEdges(l, E)
  <1> SUFFICES Sound(m)
    OBVIOUS
  <1>1. m \in Lists
    BY DEF WithEdges, Lists
  <1>2. /\ m.status = l.status
        /\ m.archived = l.archived
        /\ \A t \in Tasks : m.blocks[t] = {u \in Tasks : <<t, u>> \in E}
        /\ \A t \in Tasks : m.blockedBy[t] = {u \in Tasks : <<u, t>> \in E}
    BY DEF WithEdges, Lists
  <1>5. Edges(m) = E
    BY EdgesOfWithEdges
  <1> HIDE DEF m
  <1>3. MirroredIn(m)
    <2>1. \A t, u \in Tasks : <<t, u>> \in E => InList(l, t) /\ InList(l, u) /\ t # u
      OBVIOUS
    <2>2. \A t \in Tasks : InList(m, t) <=> InList(l, t)
      BY <1>2 DEF InList
    <2> SUFFICES ASSUME NEW t \in Tasks, NEW u \in Tasks
                 PROVE  /\ u \in m.blocks[t] <=> t \in m.blockedBy[u]
                        /\ u \in m.blocks[t] => InList(m, t) /\ InList(m, u) /\ t # u
      BY DEF MirroredIn
    <2>3. u \in m.blocks[t] <=> <<t, u>> \in E
      BY <1>2
    <2>4. t \in m.blockedBy[u] <=> <<t, u>> \in E
      BY <1>2
    <2> QED
      BY <2>1, <2>2, <2>3, <2>4
  <1>4. ArchivedIn(m) /\ SingleIn(m)
    BY <1>2 DEF ArchivedIn, SingleIn
  <1> QED
    BY <1>1, <1>3, <1>4, <1>5 DEF Sound

\* A mutation that leaves the edges and the set of entries alone keeps the list sound
\* when it respects the archive and the strict policy.
LEMMA SameEdges ==
  ASSUME NEW l, Sound(l), NEW m \in Lists,
         m.blocks = l.blocks, m.blockedBy = l.blockedBy,
         \A t \in Tasks : InList(m, t) <=> InList(l, t),
         ArchivedIn(m), SingleIn(m)
  PROVE  Sound(m)
PROOF
  <1>1. MirroredIn(m)
    BY DEF Sound, MirroredIn
  <1>2. Edges(m) = Edges(l)
    BY DEF Edges
  <1> QED
    BY <1>1, <1>2 DEF Sound

\* create
LEMMA CreateSound ==
  ASSUME NEW l, NEW m, Sound(l), NEW t \in Tasks, NEW o \in Owners \cup {NoOwner},
         NEW blocked \in SUBSET Tasks, NEW blockers \in SUBSET Tasks,
         Create(l, m, t, o, blocked, blockers)
  PROVE  Sound(m)
PROOF
  <1> DEFINE new == [l EXCEPT !.status[t] = "pending", !.owner[t] = o]
             out == Edges(new) \cup ({t} \X blocked)
             all == out \cup (blockers \X {t})
  <1>1. new \in Lists /\ InList(new, t) /\ ~InList(l, t)
    BY DEF Sound, Lists, InList, TaskListStatus, Create
  <1>2. /\ new.blocks = l.blocks /\ new.blockedBy = l.blockedBy /\ new.archived = l.archived
        /\ \A u \in Tasks \ {t} : new.status[u] = l.status[u]
        /\ new.status[t] = "pending"
    BY DEF Sound, Lists
  <1>3. \A u \in Tasks : /\ t \notin l.blocks[u] /\ u \notin l.blocks[t]
                         /\ t \notin l.blockedBy[u] /\ u \notin l.blockedBy[t]
    BY <1>1 DEF Sound, MirroredIn
  <1>4. Edges(new) = Edges(l)
    BY <1>1, <1>2, <1>3 DEF Edges, InList
  <1>5. \A u \in Tasks : <<u, t>> \notin Edges(l)
    BY <1>1 DEF Edges
  <1>6. ArchivedIn(new) /\ SingleIn(new)
    <2>1. ~l.archived[t]
      BY <1>1 DEF Sound, ArchivedIn, InList, TaskListStatus
    <2> QED
      BY <1>2, <2>1 DEF Sound, ArchivedIn, SingleIn
  <1>7. CASE blocked \cup blockers = {}
    <2>1. m = new
      BY <1>7 DEF Create
    <2>2. MirroredIn(new)
      BY <1>2, <1>3 DEF Sound, MirroredIn, InList
    <2> QED
      BY <1>1, <1>4, <1>6, <2>1, <2>2 DEF Sound
  <1>8. CASE blocked \cup blockers # {}
    <2>1. m = WithEdges(new, all)
      BY <1>8 DEF Create
    <2>2. \A u \in blocked \cup blockers : InList(new, u) /\ u # t
      BY <1>1, <1>2 DEF Create, Mutable, InList
    <2>3. AcyclicGraph(out)
      <3>1. Edges(l) \in SUBSET (Tasks \X Tasks) /\ AcyclicGraph(Edges(l))
        BY EdgesTyped DEF Sound
      <3>2. t \notin blocked
        BY <2>2
      <3> QED
        BY <1>4, <1>5, <3>1, <3>2, AcyclicAddSource
    <2>4. out \in SUBSET (Tasks \X Tasks)
      BY EdgesTyped
    <2>5. \A b \in blockers : ~PathExists(out, t, b)
      BY DEF Create
    <2>6. AcyclicGraph(all)
      BY <2>3, <2>4, <2>5, AcyclicAddInto
    <2>7. all \in SUBSET (Tasks \X Tasks)
      BY <2>4
    <2>8. \A e \in all : InList(new, e[1]) /\ InList(new, e[2]) /\ e[1] # e[2]
      BY <1>1, <2>2, EdgesTyped
    <2> HIDE DEF all
    <2> QED
      BY <1>1, <1>6, <2>1, <2>6, <2>7, <2>8, WithEdgesSound
  <1> QED
    BY <1>7, <1>8

\* update, archive, unarchive and release touch one entry's status, owner and archive
\* flag.
LEMMA UpdateSound ==
  ASSUME NEW l, NEW m, Sound(l), NEW t \in Tasks, NEW s \in TaskListStatus,
         Update(l, m, t, s)
  PROVE  Sound(m)
PROOF
  <1>1. /\ m \in Lists /\ m.blocks = l.blocks /\ m.blockedBy = l.blockedBy
        /\ m.archived = l.archived /\ m.status = [l.status EXCEPT ![t] = s]
    BY DEF Sound, Lists, Update
  <1>2. l \in Lists /\ InList(l, t) /\ ~l.archived[t] /\ (s = "in_progress" => MayStart(l, t))
    BY DEF Sound, Update, Mutable
  <1>3. \A u \in Tasks : InList(m, u) <=> InList(l, u)
    BY <1>1, <1>2 DEF InList, Lists
  <1>4. ArchivedIn(m)
    BY <1>1, <1>2 DEF Sound, ArchivedIn, Lists
  <1>5. SingleIn(m)
    BY <1>1, <1>2 DEF Sound, SingleIn, MayStart, Lists
  <1> QED
    BY <1>1, <1>3, <1>4, <1>5, SameEdges

LEMMA ArchiveSound ==
  ASSUME NEW l, NEW m, Sound(l), NEW t \in Tasks, Archive(l, m, t) \/ Unarchive(l, m, t)
  PROVE  Sound(m)
PROOF
  <1>1. /\ m \in Lists /\ m.blocks = l.blocks /\ m.blockedBy = l.blockedBy
        /\ m.status = l.status
        /\ \A u \in Tasks : m.archived[u] => l.archived[u] \/ l.status[u] = "completed"
    <2>1. CASE Archive(l, m, t)
      BY <2>1 DEF Sound, Lists, Archive
    <2>2. CASE Unarchive(l, m, t)
      BY <2>2 DEF Sound, Lists, Unarchive
    <2> QED
      BY <2>1, <2>2
  <1>2. \A u \in Tasks : InList(m, u) <=> InList(l, u)
    BY <1>1 DEF InList
  <1>3. ArchivedIn(m) /\ SingleIn(m)
    BY <1>1 DEF Sound, ArchivedIn, SingleIn
  <1> QED
    BY <1>1, <1>2, <1>3, SameEdges

LEMMA ReleaseSound ==
  ASSUME NEW l, NEW m, Sound(l), NEW t \in Tasks, Release(l, m, t)
  PROVE  Sound(m)
PROOF
  <1>1. /\ l \in Lists /\ m \in Lists /\ m.blocks = l.blocks /\ m.blockedBy = l.blockedBy
        /\ m.archived = l.archived
        /\ m.status = [l.status EXCEPT ![t] = IF @ = "completed" THEN @ ELSE "pending"]
    BY DEF Sound, Lists, Release, TaskListStatus
  <1>2. \A u \in Tasks : InList(m, u) <=> InList(l, u)
    BY <1>1 DEF InList, Lists, Release, Mutable, TaskListStatus
  <1>3. ArchivedIn(m) /\ SingleIn(m)
    BY <1>1 DEF Sound, ArchivedIn, SingleIn, Lists
  <1> QED
    BY <1>1, <1>2, <1>3, SameEdges

\* delete
LEMMA DeleteSound ==
  ASSUME NEW l, NEW m, Sound(l), NEW t \in Tasks, Delete(l, m, t)
  PROVE  Sound(m)
PROOF
  <1> DEFINE r == [l EXCEPT !.status[t] = "deleted", !.owner[t] = NoOwner,
                            !.archived[t] = FALSE]
  <1>1. /\ l \in Lists /\ r \in Lists /\ r.blocks = l.blocks /\ r.blockedBy = l.blockedBy
        /\ r.archived = [l.archived EXCEPT ![t] = FALSE]
        /\ r.status = [l.status EXCEPT ![t] = "deleted"]
    BY DEF Sound, Lists
  <1>2. m = WithEdges(r, Edges(r))
    BY DEF Delete
  <1> HIDE DEF r
  <1>3. Edges(r) \in SUBSET Edges(l)
    BY <1>1 DEF Edges, InList, Lists, TaskListStatus
  <1>4. AcyclicGraph(Edges(r))
    BY <1>3, AcyclicSubgraph DEF Sound
  <1>5. ArchivedIn(r) /\ SingleIn(r)
    BY <1>1 DEF Sound, ArchivedIn, SingleIn, Lists
  <1> QED
    BY <1>1, <1>2, <1>4, <1>5, EdgesTyped, WithEdgesSound

\* claim and assign_next
LEMMA ClaimSound ==
  ASSUME NEW l, NEW m, Sound(l), NEW t \in Tasks, NEW o \in Owners,
         NEW start \in BOOLEAN, NEW busy \in BOOLEAN, Claim(l, m, t, o, start, busy)
  PROVE  Sound(m)
PROOF
  <1> DEFINE desired == IF start THEN "in_progress" ELSE l.status[t]
  <1>1. /\ l \in Lists /\ InList(l, t) /\ ~l.archived[t]
        /\ desired \in TaskListStatus
        /\ desired = "in_progress" => MayStart(l, t)
        /\ m = [l EXCEPT !.owner[t] = o, !.status[t] = desired]
    BY DEF Sound, Claim, Mutable, InList, TaskListStatus
  <1> HIDE DEF desired
  <1>2. /\ m \in Lists /\ m.blocks = l.blocks /\ m.blockedBy = l.blockedBy
        /\ m.archived = l.archived /\ m.status = [l.status EXCEPT ![t] = desired]
    BY <1>1 DEF Lists
  <1>3. \A u \in Tasks : InList(m, u) <=> InList(l, u)
    BY <1>1, <1>2 DEF InList, Lists
  <1>4. ArchivedIn(m)
    BY <1>1, <1>2 DEF Sound, ArchivedIn, Lists
  <1>5. SingleIn(m)
    BY <1>1, <1>2 DEF Sound, SingleIn, MayStart, Lists
  <1> QED
    BY <1>2, <1>3, <1>4, <1>5, SameEdges

\* add_dependency and remove_dependency
LEMMA AddDependencySound ==
  ASSUME NEW l, NEW m, Sound(l), NEW b \in Tasks, NEW t \in Tasks,
         AddDependency(l, m, b, t)
  PROVE  Sound(m)
PROOF
  <1> DEFINE E == Edges(l) \cup {<<b, t>>}
  <1>1. m = WithEdges(l, E) /\ InList(l, b) /\ InList(l, t) /\ b # t
    BY DEF AddDependency, Mutable
  <1>2. E \in SUBSET (Tasks \X Tasks)
    BY EdgesTyped
  <1>3. \A e \in E : InList(l, e[1]) /\ InList(l, e[2]) /\ e[1] # e[2]
    BY <1>1, EdgesTyped
  <1>4. AcyclicGraph(E)
    <2>1. CASE <<b, t>> \in Edges(l)
      <3>1. E = Edges(l)
        BY <2>1
      <3> QED
        BY <3>1 DEF Sound
    <2>2. CASE ~PathExists(Edges(l), t, b)
      <3>1. AcyclicGraph(Edges(l) \cup ({b} \X {t}))
        BY <2>2, EdgesTyped, AcyclicAddInto DEF Sound
      <3>2. E = Edges(l) \cup ({b} \X {t})
        OBVIOUS
      <3> QED
        BY <3>1, <3>2
    <2> QED
      BY <2>1, <2>2 DEF AddDependency
  <1> HIDE DEF E
  <1> QED
    BY <1>1, <1>2, <1>3, <1>4, WithEdgesSound DEF Sound

LEMMA RemoveDependencySound ==
  ASSUME NEW l, NEW m, Sound(l), NEW b \in Tasks, NEW t \in Tasks,
         RemoveDependency(l, m, b, t)
  PROVE  Sound(m)
PROOF
  <1> DEFINE E == Edges(l) \ {<<b, t>>}
  <1>1. m = WithEdges(l, E)
    BY DEF RemoveDependency
  <1>2. /\ E \in SUBSET (Tasks \X Tasks)
        /\ \A e \in E : InList(l, e[1]) /\ InList(l, e[2]) /\ e[1] # e[2]
    BY EdgesTyped
  <1>3. AcyclicGraph(E)
    <2>1. E \in SUBSET Edges(l)
      OBVIOUS
    <2> QED
      BY <2>1, AcyclicSubgraph DEF Sound
  <1> HIDE DEF E
  <1> QED
    BY <1>1, <1>2, <1>3, WithEdgesSound DEF Sound

LEMMA MutationSound ==
  ASSUME NEW l, NEW m, Sound(l), Mutation(l, m)
  PROVE  Sound(m)
PROOF
  <1>1. CASE \E t \in Tasks, o \in Owners \cup {NoOwner}, blocked, blockers \in SUBSET Tasks :
               Create(l, m, t, o, blocked, blockers)
    BY <1>1, CreateSound
  <1>2. CASE \E t \in Tasks, s \in TaskListStatus : Update(l, m, t, s)
    BY <1>2, UpdateSound
  <1>3. CASE \E t \in Tasks : Archive(l, m, t)
    BY <1>3, ArchiveSound
  <1>4. CASE \E t \in Tasks : Unarchive(l, m, t)
    BY <1>4, ArchiveSound
  <1>5. CASE \E t \in Tasks : Delete(l, m, t)
    BY <1>5, DeleteSound
  <1>6. CASE \E t \in Tasks : Release(l, m, t)
    BY <1>6, ReleaseSound
  <1>7. CASE \E t \in Tasks, o \in Owners, start, busy \in BOOLEAN :
               Claim(l, m, t, o, start, busy)
    BY <1>7, ClaimSound
  <1>8. CASE \E o \in Owners, start, busy \in BOOLEAN : AssignNext(l, m, o, start, busy)
    BY <1>8, ClaimSound DEF AssignNext
  <1>9. CASE \E b, t \in Tasks : AddDependency(l, m, b, t)
    BY <1>9, AddDependencySound
  <1>10. CASE \E b, t \in Tasks : RemoveDependency(l, m, b, t)
    BY <1>10, RemoveDependencySound
  <1> QED
    BY <1>1, <1>2, <1>3, <1>4, <1>5, <1>6, <1>7, <1>8, <1>9, <1>10 DEF Mutation

----
\* The inductive invariant holds in every state, for any number of tasks and owners.
THEOREM AlwaysSound == Spec => []Sound(list)
PROOF
  <1>1. Init => Sound(list)
    <2> SUFFICES ASSUME Init PROVE Sound(list)
      OBVIOUS
    <2>1. list \in Lists
      BY DEF Init, EmptyList, Lists
    <2>2. MirroredIn(list) /\ ArchivedIn(list) /\ SingleIn(list)
      BY DEF Init, EmptyList, MirroredIn, ArchivedIn, SingleIn
    <2>3. Edges(list) = {}
      BY DEF Init, EmptyList, Edges
    <2> QED
      BY <2>1, <2>2, <2>3 DEF Sound, AcyclicGraph
  <1>2. Sound(list) /\ [Next]_list => Sound(list)'
    <2> SUFFICES ASSUME Sound(list), [Next]_list PROVE Sound(list')
      OBVIOUS
    <2>1. CASE Next
      BY <2>1, MutationSound DEF Next
    <2>2. CASE UNCHANGED list
      BY <2>2
    <2> QED
      BY <2>1, <2>2
  <1> QED
    BY <1>1, <1>2, PTL DEF Spec

\* The stored snapshot is always a task list.
THEOREM TypeCorrect == Spec => []TypeOK
PROOF
  <1>1. Sound(list) => TypeOK
    BY DEF Sound, TypeOK
  <1> QED
    BY <1>1, AlwaysSound, PTL

\* create, add_dependency, remove_dependency and delete keep the graph acyclic.
THEOREM AcyclicTheorem == Spec => []Acyclic
PROOF
  <1>1. Sound(list) => Acyclic
    BY DEF Sound, Acyclic
  <1> QED
    BY <1>1, AlwaysSound, PTL

\* Both directions of every edge agree and no edge dangles.
THEOREM MirroredTheorem == Spec => []Mirrored
PROOF
  <1>1. Sound(list) => Mirrored
    BY DEF Sound, MirroredIn, Mirrored
  <1> QED
    BY <1>1, AlwaysSound, PTL

\* Archived entries stay completed.
THEOREM ArchivedTheorem == Spec => []ArchivedIsCompleted
PROOF
  <1>1. Sound(list) => ArchivedIsCompleted
    BY DEF Sound, ArchivedIn, ArchivedIsCompleted
  <1> QED
    BY <1>1, AlwaysSound, PTL

\* With the strict policy at most one entry is in progress.
THEOREM SingleTheorem == Spec => []SingleInProgress
PROOF
  <1>1. Sound(list) => SingleInProgress
    BY DEF Sound, SingleIn, SingleInProgress
  <1> QED
    BY <1>1, AlwaysSound, PTL

\* The orchestration view and the claim agree on what is unblocked.
THEOREM AvailableTheorem == Spec => []AvailableIsUnblocked
PROOF
  <1>1. Sound(list) => AvailableIsUnblocked
    <2> SUFFICES ASSUME Sound(list), NEW t \in Tasks, Available(list, t),
                        NEW b \in UnresolvedBlockers(list, t)
                 PROVE  FALSE
      BY DEF AvailableIsUnblocked
    <2>1. b \in Tasks /\ <<b, t>> \in Edges(list) /\ list.status[b] # "completed"
      BY DEF UnresolvedBlockers
    <2>2. b \in list.blockedBy[t] /\ InList(list, b)
      BY <2>1 DEF Edges, Sound, MirroredIn
    <2>3. ~list.archived[b]
      BY <2>1 DEF Sound, ArchivedIn
    <2> QED
      BY <2>1, <2>2, <2>3 DEF Available, ViewBlockers
  <1> QED
    BY <1>1, AlwaysSound, PTL

\* No entry is taken from its owner or claimed while it is blocked.
THEOREM OwnerTheorem == Spec => OwnerKeepsTask
PROOF
  <1> DEFINE Kept(t) == /\ InList(list, t)
                        /\ list'.owner[t] \notin {list.owner[t], NoOwner}
                        => list.owner[t] = NoOwner /\ UnresolvedBlockers(list, t) = {}
  <1>1. Sound(list) /\ [Next]_list => [\A t \in Tasks : Kept(t)]_list
    <2> SUFFICES ASSUME Sound(list), Next, NEW t \in Tasks PROVE Kept(t)
      OBVIOUS
    <2>1. list \in Lists
      BY DEF Sound
    <2>2. CASE \E u \in Tasks, o \in Owners \cup {NoOwner}, blocked, blockers \in SUBSET Tasks :
                 Create(list, list', u, o, blocked, blockers)
      <3>1. PICK u \in Tasks, o \in Owners \cup {NoOwner}, blocked, blockers \in SUBSET Tasks :
                   Create(list, list', u, o, blocked, blockers)
        BY <2>2
      <3>2. list'.owner = [list.owner EXCEPT ![u] = o]
        BY <2>1, <3>1 DEF Create, WithEdges, Lists
      <3>3. ~InList(list, u)
        BY <3>1 DEF Create, InList, TaskListStatus
      <3> QED
        BY <2>1, <3>2, <3>3 DEF Lists
    <2>3. CASE \E u \in Tasks, o \in Owners, start, busy \in BOOLEAN :
                 Claim(list, list', u, o, start, busy)
      <3>1. PICK u \in Tasks, o \in Owners, start, busy \in BOOLEAN :
                   Claim(list, list', u, o, start, busy)
        BY <2>3
      <3>2. /\ list'.owner = [list.owner EXCEPT ![u] = o]
            /\ list.owner[u] \in {o, NoOwner} /\ UnresolvedBlockers(list, u) = {}
        BY <2>1, <3>1 DEF Claim, Lists
      <3> QED
        BY <2>1, <3>2 DEF Lists
    <2>4. CASE \E o \in Owners, start, busy \in BOOLEAN :
                 AssignNext(list, list', o, start, busy)
      BY <2>3, <2>4 DEF AssignNext
    <2>5. CASE \/ \E u \in Tasks, s \in TaskListStatus : Update(list, list', u, s)
               \/ \E u \in Tasks : Archive(list, list', u)
               \/ \E u \in Tasks : Unarchive(list, list', u)
               \/ \E b, u \in Tasks : AddDependency(list, list', b, u)
               \/ \E b, u \in Tasks : RemoveDependency(list, list', b, u)
      <3>1. list'.owner = list.owner
        BY <2>1, <2>5 DEF Update, Archive, Unarchive, AddDependency, RemoveDependency,
                          WithEdges, Lists
      <3> QED
        BY <3>1
    <2>6. CASE \E u \in Tasks : Delete(list, list', u) \/ Release(list, list', u)
      <3>1. PICK u \in Tasks : Delete(list, list', u) \/ Release(list, list', u)
        BY <2>6
      <3>2. list'.owner = [list.owner EXCEPT ![u] = NoOwner]
        BY <2>1, <3>1 DEF Delete, Release, WithEdges, Lists
      <3> QED
        BY <2>1, <3>2 DEF Lists
    <2> QED
      BY <2>2, <2>3, <2>4, <2>5, <2>6 DEF Next, Mutation
  <1> QED
    BY <1>1, AlwaysSound, PTL DEF Spec, OwnerKeepsTask

\* Everything the runs check of a task list as one invariant.
THEOREM SafeTheorem == Spec => []TaskListSafe
PROOF
  <1>1. TypeOK /\ Acyclic /\ Mirrored /\ ArchivedIsCompleted /\ AvailableIsUnblocked
        /\ SingleInProgress => TaskListSafe
    BY DEF TaskListSafe
  <1> QED
    BY <1>1, TypeCorrect, AcyclicTheorem, MirroredTheorem, ArchivedTheorem, AvailableTheorem,
       SingleTheorem, PTL

----
(* The list as concurrent calls *)

LockHeld ==
  /\ \A c \in Callers : call[c].pc \in {"loaded", "saved"} => c \in lock
  /\ \A c, d \in lock : c = d

LoadedIsStored == \A c \in Callers : call[c].pc = "loaded" => call[c].loaded = list

ServiceInv ==
  /\ ServiceTypeOK
  /\ LockHeld
  /\ LoadedIsStored
  /\ Sound(list)
  /\ WatchersCatchUp

\* The value of call, typed as a function of records.
CallType ==
  [pc : {"idle", "loaded", "saved", "notifying"}, loaded : Lists,
   saved : 0..MaxSaves, untold : SUBSET Watchers]

LEMMA EmptySound == Sound(EmptyList) /\ EmptyList \in Lists
PROOF
  <1>1. EmptyList \in Lists
    BY DEF EmptyList, Lists
  <1>2. MirroredIn(EmptyList) /\ ArchivedIn(EmptyList) /\ SingleIn(EmptyList)
    BY DEF EmptyList, MirroredIn, ArchivedIn, SingleIn
  <1>3. Edges(EmptyList) = {}
    BY DEF EmptyList, Edges
  <1> QED
    BY <1>1, <1>2, <1>3 DEF Sound, AcyclicGraph

LEMMA QuietType == Quiet \in CallType
PROOF
  <1>1. 0 \in 0..MaxSaves
    BY ServiceAssumption
  <1> QED
    BY <1>1, EmptySound DEF Quiet, CallType

LEMMA InitService == ServiceInit => ServiceInv
PROOF
  <1> SUFFICES ASSUME ServiceInit PROVE ServiceInv
    OBVIOUS
  <1> USE EmptySound, QuietType
  <1>1. ServiceTypeOK
    <2>1. 0 \in 0..MaxSaves
      BY ServiceAssumption
    <2>2. list \in Lists /\ lock \in SUBSET Callers /\ broken \in BOOLEAN
      BY DEF ServiceInit
    <2>3. call \in [Callers -> CallType]
      BY DEF ServiceInit
    <2>4. /\ version \in 0..MaxSaves
          /\ watcher \in [Watchers -> {"absent", "opening", "reading", "open"}]
          /\ told \in [Watchers -> SUBSET (0..MaxSaves)]
      BY <2>1 DEF ServiceInit
    <2> QED
      BY <2>2, <2>3, <2>4 DEF ServiceTypeOK, CallType
  <1>2. LockHeld /\ LoadedIsStored
    BY DEF ServiceInit, LockHeld, LoadedIsStored, Quiet
  <1>3. Sound(list)
    BY DEF ServiceInit
  <1>4. WatchersCatchUp
    BY DEF ServiceInit, WatchersCatchUp
  <1> QED
    BY <1>1, <1>2, <1>3, <1>4 DEF ServiceInv

\* A caller that loads: nobody else holds the lock.
LEMMA LoadInv ==
  ASSUME ServiceInv, NEW c \in Callers, Load(c)
  PROVE  ServiceInv'
PROOF
  <1> DEFINE r == [Quiet EXCEPT !.pc = "loaded", !.loaded = list]
  <1> USE DEF ServiceInv
  <1>1. r \in CallType /\ r.pc = "loaded" /\ r.loaded = list
    BY QuietType DEF Sound, Quiet, CallType
  <1> HIDE DEF r
  <1>2. call' = [call EXCEPT ![c] = r] /\ lock' = {c} /\ lock = {} /\ call[c].pc = "idle"
    BY DEF Load, r
  <1>3. UNCHANGED <<list, version, watcher, told, broken>>
    BY DEF Load
  <1>4. call \in [Callers -> CallType]
    BY DEF ServiceTypeOK, CallType
  <1>5. ServiceTypeOK'
    BY <1>1, <1>2, <1>3, <1>4 DEF ServiceTypeOK, CallType
  <1>6. LockHeld' /\ LoadedIsStored'
    BY <1>1, <1>2, <1>3, <1>4 DEF LockHeld, LoadedIsStored
  <1>7. WatchersCatchUp'
    BY <1>2, <1>3, <1>4 DEF WatchersCatchUp
  <1> QED
    BY <1>3, <1>5, <1>6, <1>7

\* A caller that saves: its snapshot is the stored one, and the new one is announced
\* by this caller.
LEMMA SaveInv ==
  ASSUME ServiceInv, NEW c \in Callers, Save(c)
  PROVE  ServiceInv' /\ Mutation(list, list')
PROOF
  <1> USE DEF ServiceInv
  <1> DEFINE r == [call[c] EXCEPT !.pc = "saved", !.saved = version + 1]
  <1>1. call \in [Callers -> CallType]
    BY DEF ServiceTypeOK, CallType
  <1>2. version + 1 \in 0..MaxSaves /\ version' = version + 1 /\ version \in 0..MaxSaves
    BY ServiceAssumption DEF Save, ServiceTypeOK
  <1>3. r \in CallType /\ r.pc = "saved" /\ r.saved = version + 1
    BY <1>1, <1>2 DEF CallType
  <1>4. call' = [call EXCEPT ![c] = r]
    BY <1>1 DEF Save, CallType
  <1>5. call[c].pc = "loaded" /\ UNCHANGED <<lock, watcher, told, broken>>
    BY DEF Save
  <1>6. Mutation(list, list')
    BY <1>5 DEF Save, LoadedIsStored
  <1>7. Sound(list') /\ list' \in Lists
    BY <1>6, MutationSound DEF Sound
  <1> HIDE DEF r
  <1>8. ServiceTypeOK'
    BY <1>1, <1>2, <1>3, <1>4, <1>5, <1>7 DEF ServiceTypeOK, CallType
  <1>9. LockHeld' /\ LoadedIsStored'
    BY <1>1, <1>3, <1>4, <1>5 DEF LockHeld, LoadedIsStored, ServiceTypeOK
  <1>10. WatchersCatchUp'
    BY <1>1, <1>2, <1>3, <1>4 DEF WatchersCatchUp
  <1> QED
    BY <1>6, <1>7, <1>8, <1>9, <1>10

LEMMA GiveUpInv ==
  ASSUME ServiceInv, NEW c \in Callers, GiveUp(c)
  PROVE  ServiceInv'
PROOF
  <1> USE DEF ServiceInv
  <1>1. call \in [Callers -> CallType]
    BY DEF ServiceTypeOK, CallType
  <1>2. /\ call' = [call EXCEPT ![c] = Quiet] /\ lock' = lock \ {c}
        /\ UNCHANGED <<list, version, watcher, told>> /\ broken' \in BOOLEAN
        /\ call[c].pc \in {"loaded", "saved"}
        /\ ~broken' => ~broken /\ call[c].pc # "saved"
    BY DEF GiveUp, ServiceTypeOK
  <1>3. Quiet.pc = "idle"
    BY DEF Quiet
  <1>4. ServiceTypeOK'
    BY <1>1, <1>2, QuietType DEF ServiceTypeOK, CallType
  <1>5. LockHeld' /\ LoadedIsStored'
    BY <1>1, <1>2, <1>3 DEF LockHeld, LoadedIsStored
  <1>6. WatchersCatchUp'
    BY <1>1, <1>2, <1>3 DEF WatchersCatchUp
  <1> QED
    BY <1>2, <1>4, <1>5, <1>6

LEMMA UnlockInv ==
  ASSUME ServiceInv, NEW c \in Callers, Unlock(c)
  PROVE  ServiceInv'
PROOF
  <1> USE DEF ServiceInv
  <1> DEFINE r == [call[c] EXCEPT !.pc = "notifying", !.untold = Registered]
  <1>1. call \in [Callers -> CallType]
    BY DEF ServiceTypeOK, CallType
  <1>2. r \in CallType /\ r.pc = "notifying" /\ r.saved = call[c].saved /\ r.untold = Registered
    BY <1>1 DEF CallType, Registered
  <1>3. call' = [call EXCEPT ![c] = r]
    BY <1>1 DEF Unlock, CallType
  <1>4. /\ call[c].pc = "saved" /\ lock' = lock \ {c}
        /\ UNCHANGED <<list, version, watcher, told, broken>>
    BY DEF Unlock
  <1> HIDE DEF r
  <1>5. ServiceTypeOK'
    BY <1>1, <1>2, <1>3, <1>4 DEF ServiceTypeOK, CallType
  <1>6. LockHeld' /\ LoadedIsStored'
    BY <1>1, <1>2, <1>3, <1>4 DEF LockHeld, LoadedIsStored
  <1>7. WatchersCatchUp'
    BY <1>1, <1>2, <1>3, <1>4 DEF WatchersCatchUp, Registered
  <1> QED
    BY <1>4, <1>5, <1>6, <1>7

\* Announcements, whether the watcher answers or raises.
LEMMA TellInv ==
  ASSUME ServiceInv, NEW c \in Callers, NEW w \in Watchers, Tell(c, w) \/ TellRaises(c, w)
  PROVE  ServiceInv'
PROOF
  <1> USE DEF ServiceInv
  <1> DEFINE r == [call[c] EXCEPT !.untold = @ \ {w}]
  <1>1. call \in [Callers -> CallType]
    BY DEF ServiceTypeOK, CallType
  <1>2. /\ r \in CallType /\ r.pc = call[c].pc /\ r.saved = call[c].saved
        /\ r.loaded = call[c].loaded /\ r.untold = call[c].untold \ {w}
    BY <1>1 DEF CallType
  <1>3. call' = [call EXCEPT ![c] = r] /\ call[c].pc = "notifying"
    BY <1>1 DEF Tell, TellRaises, CallType
  <1>4. UNCHANGED <<list, lock, version, broken>>
    BY DEF Tell, TellRaises
  <1> HIDE DEF r
  <1>5. ServiceTypeOK'
    <2>1. CASE Tell(c, w)
      <3>1. call[c].saved \in 0..MaxSaves
        BY <1>1 DEF CallType
      <3> QED
        BY <1>1, <1>2, <1>3, <1>4, <2>1, <3>1 DEF ServiceTypeOK, CallType, Tell
    <2>2. CASE TellRaises(c, w)
      BY <1>1, <1>2, <1>3, <1>4, <2>2 DEF ServiceTypeOK, CallType, TellRaises
    <2> QED
      BY <2>1, <2>2
  <1>6. LockHeld' /\ LoadedIsStored'
    BY <1>1, <1>2, <1>3, <1>4 DEF LockHeld, LoadedIsStored
  <1>7. WatchersCatchUp'
    <2>1. CASE Tell(c, w)
      <3>1. UNCHANGED watcher /\ told' = [told EXCEPT ![w] = IF w \in Registered
                                            THEN @ \cup {call[c].saved} ELSE @]
        BY <2>1 DEF Tell
      <3> QED
        BY <1>1, <1>2, <1>3, <1>4, <3>1 DEF WatchersCatchUp, Registered, ServiceTypeOK
    <2>2. CASE TellRaises(c, w)
      <3>1. /\ watcher' = [watcher EXCEPT ![w] = "absent"]
            /\ told' = [told EXCEPT ![w] = {}]
        BY <2>2 DEF TellRaises
      <3> QED
        BY <1>1, <1>2, <1>3, <1>4, <3>1 DEF WatchersCatchUp, ServiceTypeOK
    <2> QED
      BY <2>1, <2>2
  <1> QED
    BY <1>4, <1>5, <1>6, <1>7

LEMMA ReturnInv ==
  ASSUME ServiceInv, NEW c \in Callers, Return(c)
  PROVE  ServiceInv'
PROOF
  <1> USE DEF ServiceInv
  <1>1. call \in [Callers -> CallType]
    BY DEF ServiceTypeOK, CallType
  <1>2. /\ call' = [call EXCEPT ![c] = Quiet] /\ call[c].pc = "notifying"
        /\ call[c].untold = {} /\ UNCHANGED <<list, lock, version, watcher, told, broken>>
    BY DEF Return
  <1>3. Quiet.pc = "idle"
    BY DEF Quiet
  <1>4. ServiceTypeOK'
    BY <1>1, <1>2, QuietType DEF ServiceTypeOK, CallType
  <1>5. LockHeld' /\ LoadedIsStored'
    BY <1>1, <1>2, <1>3 DEF LockHeld, LoadedIsStored
  <1>6. WatchersCatchUp'
    BY <1>1, <1>2, <1>3 DEF WatchersCatchUp
  <1> QED
    BY <1>2, <1>4, <1>5, <1>6

LEMMA WatcherInv ==
  ASSUME ServiceInv, NEW w \in Watchers, Watch(w) \/ LoadFirst(w) \/ FirstSnapshot(w) \/ Unwatch(w)
  PROVE  ServiceInv'
PROOF
  <1> USE DEF ServiceInv
  <1>1. UNCHANGED <<list, lock, call, version, broken>>
    BY DEF Watch, LoadFirst, FirstSnapshot, Unwatch
  <1>2. ServiceTypeOK'
    BY <1>1 DEF ServiceTypeOK, Watch, LoadFirst, FirstSnapshot, Unwatch
  <1>3. LockHeld' /\ LoadedIsStored'
    BY <1>1 DEF LockHeld, LoadedIsStored
  <1>4. WatchersCatchUp'
    BY <1>1 DEF WatchersCatchUp, ServiceTypeOK, Watch, LoadFirst, FirstSnapshot, Unwatch
  <1> QED
    BY <1>1, <1>2, <1>3, <1>4

----
\* Every step keeps the invariant and is a mutation of the stored list or leaves it.
LEMMA ServiceStep ==
  ASSUME ServiceInv, [ServiceNext]_serviceVars
  PROVE  ServiceInv' /\ [Next]_list
PROOF
  <1>1. CASE UNCHANGED serviceVars
    BY <1>1 DEF serviceVars, ServiceInv, ServiceTypeOK, LockHeld, LoadedIsStored,
                WatchersCatchUp
  <1>2. CASE \E c \in Callers : Load(c)
    BY <1>2, LoadInv DEF Load
  <1>3. CASE \E c \in Callers : Save(c)
    BY <1>3, SaveInv DEF Next
  <1>4. CASE \E c \in Callers : GiveUp(c)
    BY <1>4, GiveUpInv DEF GiveUp
  <1>5. CASE \E c \in Callers : Unlock(c)
    BY <1>5, UnlockInv DEF Unlock
  <1>6. CASE \E c \in Callers, w \in Watchers : Tell(c, w) \/ TellRaises(c, w)
    BY <1>6, TellInv DEF Tell, TellRaises
  <1>7. CASE \E c \in Callers : Return(c)
    BY <1>7, ReturnInv DEF Return
  <1>8. CASE \E w \in Watchers : Watch(w) \/ LoadFirst(w) \/ FirstSnapshot(w) \/ Unwatch(w)
    BY <1>8, WatcherInv DEF Watch, LoadFirst, FirstSnapshot, Unwatch
  <1> QED
    BY <1>1, <1>2, <1>3, <1>4, <1>5, <1>6, <1>7, <1>8 DEF ServiceNext, CallStep

\* The strengthened invariant holds however calls and watchers interleave.
THEOREM ServiceInvariant == ServiceSpec => []ServiceInv
PROOF
  BY InitService, ServiceStep, PTL DEF ServiceSpec

\* Type correctness of the service.
THEOREM ServiceTypeCorrect == ServiceSpec => []ServiceTypeOK
PROOF
  <1>1. ServiceInv => ServiceTypeOK
    BY DEF ServiceInv
  <1> QED
    BY <1>1, ServiceInvariant, PTL

\* A watcher that stays registered is called with every snapshot that becomes current.
THEOREM CatchUpTheorem == ServiceSpec => []WatchersCatchUp
PROOF
  <1>1. ServiceInv => WatchersCatchUp
    BY DEF ServiceInv
  <1> QED
    BY <1>1, ServiceInvariant, PTL

\* Suspending, failing and cancelled calls still make an atomic task list: the lock
\* loses no update.
THEOREM ServiceRefinement == ServiceSpec => ImplementsTaskLists
PROOF
  <1>1. ServiceInit => Init
    BY DEF ServiceInit, Init
  <1>2. ServiceInv /\ [ServiceNext]_serviceVars => [Next]_list
    BY ServiceStep
  <1> QED
    BY <1>1, <1>2, ServiceInvariant, PTL DEF ServiceSpec, Spec, ImplementsTaskLists
=============================================================================
