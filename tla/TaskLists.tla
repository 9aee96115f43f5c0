------------------------------ MODULE TaskLists ------------------------------
(***************************************************************************)
(* One shared task list (task_lists.py): entries with a status, an owner,  *)
(* an archive flag and dependencies, and the operations of                 *)
(* DefaultTaskListService on them, each taken as one atomic mutation.      *)
(* An operation that raises, or that finds nothing to change, saves        *)
(* nothing and is not a step.  TaskListService models the locking, storing *)
(* and watching around the mutations and implements this specification.    *)
(***************************************************************************)
EXTENDS Integers

CONSTANTS
  MaxTasks,   \* bound on the tasks ever created; a task is its creation rank
  Owners,     \* the owners that may claim tasks
  NoOwner,    \* owner None
  Strict      \* TaskDisciplinePolicy.strict_single_in_progress

ASSUME TaskListsAssumption ==
  /\ MaxTasks \in Nat
  /\ NoOwner \notin Owners
  /\ Strict \in BOOLEAN

Tasks == 1..MaxTasks
TaskListStatus == {"pending", "in_progress", "completed"}

VARIABLE list  \* the stored snapshot

\* absent: not created yet; deleted: created and deleted, its id is not used again.
Lists ==
  [status : [Tasks -> TaskListStatus \cup {"absent", "deleted"}],
   owner : [Tasks -> Owners \cup {NoOwner}],
   archived : [Tasks -> BOOLEAN],
   blocks : [Tasks -> SUBSET Tasks],
   blockedBy : [Tasks -> SUBSET Tasks]]

EmptyList ==
  [status |-> [t \in Tasks |-> "absent"],
   owner |-> [t \in Tasks |-> NoOwner],
   archived |-> [t \in Tasks |-> FALSE],
   blocks |-> [t \in Tasks |-> {}],
   blockedBy |-> [t \in Tasks |-> {}]]

\* The stored snapshot is a task list.
TypeOK == list \in Lists

InList(l, t) == l.status[t] \in TaskListStatus
Mutable(l, t) == InList(l, t) /\ ~l.archived[t]

----
\* The dependency graph.  An entry stores both directions of its edges.

\* _normalized_dependency_graph: the edges between entries of the list that either
\* end mentions, self-loops dropped.
Edges(l) ==
  {e \in Tasks \X Tasks :
     /\ InList(l, e[1])
     /\ InList(l, e[2])
     /\ e[1] # e[2]
     /\ e[2] \in l.blocks[e[1]] \/ e[1] \in l.blockedBy[e[2]]}

\* _tasks_from_graph: both directions rewritten from the edges E.
\* (Mutation: only the blocker's side is rewritten.)
WithEdgesOneSided(l, E) ==
  [l EXCEPT !.blocks = [t \in Tasks |-> {u \in Tasks : <<t, u>> \in E}]]
WithEdges(l, E) ==
  [l EXCEPT !.blocks = [t \in Tasks |-> {u \in Tasks : <<t, u>> \in E}],
            !.blockedBy = [t \in Tasks |-> {u \in Tasks : <<u, t>> \in E}]]

\* _path_exists: the target is in every set that holds start and is closed under E.
\* (Mutation: only direct edges are followed.)
DirectEdgeExists(E, start, target) == start = target \/ <<start, target>> \in E
PathExists(E, start, target) ==
  \A S \in SUBSET Tasks :
    /\ start \in S
    /\ \A e \in E : e[1] \in S => e[2] \in S
    => target \in S

\* _unresolved_blockers, as task_claim sees them.
UnresolvedBlockers(l, t) ==
  {b \in Tasks : <<b, t>> \in Edges(l) /\ l.status[b] # "completed"}

\* The blockers of the orchestration view: archived ones are projected away.
\* (Mutation: only blockers nobody has started count.)
PendingBlockers(l, t) ==
  {b \in l.blockedBy[t] : InList(l, b) /\ ~l.archived[b] /\ l.status[b] = "pending"}
ViewBlockers(l, t) ==
  {b \in l.blockedBy[t] : InList(l, b) /\ ~l.archived[b] /\ l.status[b] # "completed"}

\* _readiness_state = AVAILABLE, for an entry the view shows.
Available(l, t) ==
  /\ Mutable(l, t)
  /\ l.status[t] = "pending"
  /\ l.owner[t] = NoOwner
  /\ ViewBlockers(l, t) = {}

\* _validate_single_in_progress, when the policy asks for it.
MayStart(l, t) ==
  Strict => \A u \in Tasks \ {t} : l.status[u] # "in_progress"

\* _assert_owner_available
OwnerAvailable(l, t, o) ==
  \A u \in Tasks \ {t} :
    InList(l, u) /\ l.owner[u] = o => l.status[u] = "completed"

----
\* The mutations, as relations between the loaded list l and the saved list m.

\* create: ids are fresh; blocks and blockedBy name mutable entries and the edges are
\* added one by one, each refused when it would close a cycle.  The new entry has no
\* edge yet, so a cycle can only go from a new blocked entry to a new blocker.
Create(l, m, t, o, blocked, blockers) ==
  LET new == [l EXCEPT !.status[t] = "pending", !.owner[t] = o]
      out == Edges(new) \cup ({t} \X blocked)
  IN  /\ l.status[t] = "absent"
      /\ \A u \in Tasks : u < t => l.status[u] # "absent"
      /\ \A u \in blocked \cup blockers : Mutable(l, u)
      /\ \A b \in blockers : ~PathExists(out, t, b)
      /\ m = IF blocked \cup blockers = {} THEN new
             ELSE WithEdges(new, out \cup (blockers \X {t}))

\* update: the patch may set any status; it checks neither owner nor blockers.
\* (Mutation: archived entries are not protected.)
UpdateArchived(l, m, t, s) ==
  /\ InList(l, t)
  /\ s = "in_progress" => MayStart(l, t)
  /\ m = [l EXCEPT !.status[t] = s]
Update(l, m, t, s) ==
  /\ Mutable(l, t)
  /\ s = "in_progress" => MayStart(l, t)
  /\ m = [l EXCEPT !.status[t] = s]

Archive(l, m, t) ==
  /\ Mutable(l, t)
  /\ l.status[t] = "completed"
  /\ m = [l EXCEPT !.archived[t] = TRUE]

Unarchive(l, m, t) ==
  /\ InList(l, t)
  /\ l.archived[t]
  /\ m = [l EXCEPT !.archived[t] = FALSE]

\* delete drops the entry and every edge to it.
Delete(l, m, t) ==
  LET remaining == [l EXCEPT !.status[t] = "deleted", !.owner[t] = NoOwner,
                             !.archived[t] = FALSE]
  IN  /\ InList(l, t)
      /\ l.archived[t]
      /\ m = WithEdges(remaining, Edges(remaining))

\* _claim_task: start is set_in_progress, busy is enforce_owner_busy.
\* (Mutations: a claimed entry is taken over; re-claiming skips the strict check; the
\* readiness CLAIMED is stored as the status.)
ClaimTakesOver(l, m, t, o, start, busy) ==
  LET desired == IF start THEN "in_progress" ELSE l.status[t]
  IN  /\ Mutable(l, t)
      /\ l.status[t] # "completed"
      /\ UnresolvedBlockers(l, t) = {}
      /\ busy => OwnerAvailable(l, t, o)
      /\ desired = "in_progress" => MayStart(l, t)
      /\ m = [l EXCEPT !.owner[t] = o, !.status[t] = desired]
ClaimRestarts(l, m, t, o, start, busy) ==
  LET desired == IF start THEN "in_progress" ELSE l.status[t]
  IN  /\ Mutable(l, t)
      /\ l.status[t] # "completed"
      /\ UnresolvedBlockers(l, t) = {}
      /\ \/ l.owner[t] = o
         \/ /\ l.owner[t] = NoOwner
            /\ busy => OwnerAvailable(l, t, o)
            /\ desired = "in_progress" => MayStart(l, t)
      /\ m = [l EXCEPT !.owner[t] = o, !.status[t] = desired]
ClaimStoresReadiness(l, m, t, o, start, busy) ==
  /\ Mutable(l, t)
  /\ l.status[t] # "completed"
  /\ UnresolvedBlockers(l, t) = {}
  /\ l.owner[t] = NoOwner /\ (busy => OwnerAvailable(l, t, o))
  /\ start => MayStart(l, t)
  /\ m = [l EXCEPT !.owner[t] = o, !.status[t] = IF start THEN "in_progress" ELSE "claimed"]
Claim(l, m, t, o, start, busy) ==
  LET desired == IF start THEN "in_progress" ELSE l.status[t]
  IN  /\ Mutable(l, t)
      /\ l.status[t] # "completed"
      /\ UnresolvedBlockers(l, t) = {}
      /\ \/ l.owner[t] = o /\ desired # l.status[t]
         \/ l.owner[t] = NoOwner /\ (busy => OwnerAvailable(l, t, o))
      /\ desired = "in_progress" => MayStart(l, t)
      /\ m = [l EXCEPT !.owner[t] = o, !.status[t] = desired]

\* assign_next claims the oldest entry the view shows as available.
AssignNext(l, m, o, start, busy) ==
  \E t \in Tasks :
    /\ Available(l, t)
    /\ \A u \in Tasks : u < t => ~Available(l, u)
    /\ Claim(l, m, t, o, start, busy)

\* _release_task: a completed entry stays completed.
Release(l, m, t) ==
  /\ Mutable(l, t)
  /\ m = [l EXCEPT !.owner[t] = NoOwner,
                   !.status[t] = IF @ = "completed" THEN @ ELSE "pending"]
  /\ m # l

AddDependency(l, m, b, t) ==
  /\ Mutable(l, b)
  /\ Mutable(l, t)
  /\ b # t
  /\ <<b, t>> \in Edges(l) \/ ~PathExists(Edges(l), t, b)
  /\ m = WithEdges(l, Edges(l) \cup {<<b, t>>})
  /\ m # l

RemoveDependency(l, m, b, t) ==
  /\ Mutable(l, b)
  /\ Mutable(l, t)
  /\ m = WithEdges(l, Edges(l) \ {<<b, t>>})
  /\ m # l

Mutation(l, m) ==
  \/ \E t \in Tasks, o \in Owners \cup {NoOwner}, blocked, blockers \in SUBSET Tasks :
       Create(l, m, t, o, blocked, blockers)
  \/ \E t \in Tasks, s \in TaskListStatus : Update(l, m, t, s)
  \/ \E t \in Tasks : Archive(l, m, t)
  \/ \E t \in Tasks : Unarchive(l, m, t)
  \/ \E t \in Tasks : Delete(l, m, t)
  \/ \E t \in Tasks : Release(l, m, t)
  \/ \E t \in Tasks, o \in Owners, start, busy \in BOOLEAN : Claim(l, m, t, o, start, busy)
  \/ \E o \in Owners, start, busy \in BOOLEAN : AssignNext(l, m, o, start, busy)
  \/ \E b, t \in Tasks : AddDependency(l, m, b, t)
  \/ \E b, t \in Tasks : RemoveDependency(l, m, b, t)

Init == list = EmptyList
Next == Mutation(list, list')
Spec == Init /\ [][Next]_list

----
\* No chain of create, add_dependency, remove_dependency and delete closes a cycle:
\* every set of entries has one that nothing in the set blocks, so work can go on.
AcyclicGraph(E) ==
  \A S \in SUBSET Tasks : S # {} => \E t \in S : \A u \in S : <<u, t>> \notin E
Acyclic == AcyclicGraph(Edges(list))

\* Both directions of every stored edge agree, and no edge dangles after a deletion.
Mirrored ==
  \A t, u \in Tasks :
    /\ u \in list.blocks[t] <=> t \in list.blockedBy[u]
    /\ u \in list.blocks[t] => InList(list, t) /\ InList(list, u) /\ t # u

\* Archiving is for completed work, and an archived entry cannot be reopened: whatever
\* hides it from the view also resolves it as a blocker.
ArchivedIsCompleted ==
  \A t \in Tasks : list.archived[t] => list.status[t] = "completed"

\* What the orchestration view shows as available is never refused as blocked by the
\* claim that follows, although the two compute their blockers differently.
AvailableIsUnblocked ==
  \A t \in Tasks : Available(list, t) => UnresolvedBlockers(list, t) = {}

\* With the strict policy at most one entry of the list is in progress, whichever of
\* update, claim and assign_next started it.
SingleInProgress ==
  Strict => \A t, u \in Tasks :
    list.status[t] = "in_progress" /\ list.status[u] = "in_progress" => t = u

\* An entry changes owner only through nobody: no claim takes an entry from the agent
\* that holds it, and no entry is claimed while something blocks it.
OwnerKeepsTask ==
  [][\A t \in Tasks :
       /\ InList(list, t)
       /\ list'.owner[t] \notin {list.owner[t], NoOwner}
       => list.owner[t] = NoOwner /\ UnresolvedBlockers(list, t) = {}]_list

\* What every sequence of task list operations keeps: the graph is acyclic and stored at
\* both ends, archived entries stay resolved, and what is offered can be claimed.
TaskListSafe ==
  /\ TypeOK
  /\ Acyclic
  /\ Mirrored
  /\ ArchivedIsCompleted
  /\ AvailableIsUnblocked
  /\ SingleInProgress
=============================================================================
