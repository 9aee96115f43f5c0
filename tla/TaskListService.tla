--------------------------- MODULE TaskListService ---------------------------
(***************************************************************************)
(* The concurrent side of DefaultTaskListService (task_lists.py): callers  *)
(* that load, mutate and save one task list under its asyncio lock, and    *)
(* the watchers that are told about each saved snapshot after the lock is  *)
(* released.  The store is any TaskListStore: load and save may suspend    *)
(* and may raise (the two built-in stores never suspend).  The mutations   *)
(* themselves are those of TaskLists, which this specification implements. *)
(***************************************************************************)
EXTENDS TaskLists

CONSTANTS
  Callers,     \* tasks that call a mutating operation
  Watchers,    \* watchers of the list
  MaxSaves     \* bound on saved snapshots

ASSUME ServiceAssumption == MaxSaves \in Nat

VARIABLES
  lock,     \* the callers inside `async with self._lock_for(list_id)`
  call,     \* per caller: where it is suspended, the snapshot it loaded, the number
            \* of the snapshot it saved, and the watchers it still has to call
  version,  \* history: the number of the stored snapshot
  watcher,  \* per watcher: absent, opening (registered), reading (its first snapshot is
            \* loaded and about to be delivered), open
  told,     \* history: the snapshots each registered watcher has been called with, and
            \* the first one from when it is loaded
  broken    \* history: a call was cut off after its snapshot was stored

serviceVars == <<list, lock, call, version, watcher, told, broken>>

Quiet == [pc |-> "idle", loaded |-> EmptyList, saved |-> 0, untold |-> {}]

\* Every variable has its type.
ServiceTypeOK ==
  /\ list \in Lists
  /\ lock \in SUBSET Callers
  /\ call \in [Callers -> [pc : {"idle", "loaded", "saved", "notifying"}, loaded : Lists,
                           saved : 0..MaxSaves, untold : SUBSET Watchers]]
  /\ version \in 0..MaxSaves
  /\ watcher \in [Watchers -> {"absent", "opening", "reading", "open"}]
  /\ told \in [Watchers -> SUBSET (0..MaxSaves)]
  /\ broken \in BOOLEAN

ServiceInit ==
  /\ list = EmptyList
  /\ lock = {}
  /\ call = [c \in Callers |-> Quiet]
  /\ version = 0
  /\ watcher = [w \in Watchers |-> "absent"]
  /\ told = [w \in Watchers |-> {}]
  /\ broken = FALSE

Registered == {w \in Watchers : watcher[w] # "absent"}

\* A caller gets the lock and store.load returns the snapshot.
\* (Mutations: the lock is not taken; a record without an archive flag is loaded as
\* it is stored.)
LoadUnlocked(c) ==
  /\ call[c].pc = "idle"
  /\ call' = [call EXCEPT ![c] = [Quiet EXCEPT !.pc = "loaded", !.loaded = list]]
  /\ lock' = lock \cup {c}
  /\ UNCHANGED <<list, version, watcher, told, broken>>
LoadRaw(c) ==
  /\ call[c].pc = "idle"
  /\ lock = {}
  /\ call' = [call EXCEPT ![c] = [Quiet EXCEPT !.pc = "loaded",
                 !.loaded = [list EXCEPT !.archived = [t \in Tasks |-> NoOwner]]]]
  /\ lock' = {c}
  /\ UNCHANGED <<list, version, watcher, told, broken>>
Load(c) ==
  /\ call[c].pc = "idle"
  /\ lock = {}
  /\ call' = [call EXCEPT ![c] = [Quiet EXCEPT !.pc = "loaded", !.loaded = list]]
  /\ lock' = {c}
  /\ UNCHANGED <<list, version, watcher, told, broken>>

\* The mutation of the loaded snapshot is saved; store.save has not returned yet.
Save(c) ==
  /\ call[c].pc = "loaded"
  /\ version < MaxSaves
  /\ Mutation(call[c].loaded, list')
  /\ version' = version + 1
  /\ call' = [call EXCEPT ![c].pc = "saved", ![c].saved = version + 1]
  /\ UNCHANGED <<lock, watcher, told, broken>>

\* Nothing to save, a refused operation, or an exception or cancellation: the lock is
\* released.  Cut off inside save, the stored snapshot is never announced.
\* (Mutation: an exception leaves the lock taken.)
GiveUpLocked(c) ==
  /\ call[c].pc \in {"loaded", "saved"}
  /\ call' = [call EXCEPT ![c] = Quiet]
  /\ broken' = (broken \/ call[c].pc = "saved")
  /\ UNCHANGED <<list, lock, version, watcher, told>>
GiveUp(c) ==
  /\ call[c].pc \in {"loaded", "saved"}
  /\ call' = [call EXCEPT ![c] = Quiet]
  /\ lock' = lock \ {c}
  /\ broken' = (broken \/ call[c].pc = "saved")
  /\ UNCHANGED <<list, version, watcher, told>>

\* save returned: the lock is released and the watchers of this moment will be told.
\* (Mutation: only the watchers that have their first snapshot are told.)
UnlockForOpen(c) ==
  /\ call[c].pc = "saved"
  /\ lock' = lock \ {c}
  /\ call' = [call EXCEPT ![c].pc = "notifying",
                          ![c].untold = {w \in Watchers : watcher[w] = "open"}]
  /\ UNCHANGED <<list, version, watcher, told, broken>>
Unlock(c) ==
  /\ call[c].pc = "saved"
  /\ lock' = lock \ {c}
  /\ call' = [call EXCEPT ![c].pc = "notifying", ![c].untold = Registered]
  /\ UNCHANGED <<list, version, watcher, told, broken>>

\* _notify_watchers calls one watcher after the other; each may suspend the caller, and
\* one that raises is removed.
Tell(c, w) ==
  /\ call[c].pc = "notifying"
  /\ w \in call[c].untold
  /\ call' = [call EXCEPT ![c].untold = @ \ {w}]
  /\ told' = [told EXCEPT ![w] = IF w \in Registered THEN @ \cup {call[c].saved} ELSE @]
  /\ UNCHANGED <<list, lock, version, watcher, broken>>

TellRaises(c, w) ==
  /\ call[c].pc = "notifying"
  /\ w \in call[c].untold
  /\ call' = [call EXCEPT ![c].untold = @ \ {w}]
  /\ watcher' = [watcher EXCEPT ![w] = "absent"]
  /\ told' = [told EXCEPT ![w] = {}]
  /\ UNCHANGED <<list, lock, version, broken>>

Return(c) ==
  /\ call[c].pc = "notifying"
  /\ call[c].untold = {}
  /\ call' = [call EXCEPT ![c] = Quiet]
  /\ UNCHANGED <<list, lock, version, watcher, told, broken>>

\* watch: the watcher is registered under a fresh id, one that no announcement on its
\* way refers to, then loads a snapshot without the lock, then is called with it.
Watch(w) ==
  /\ watcher[w] = "absent"
  /\ \A c \in Callers : w \notin call[c].untold
  /\ watcher' = [watcher EXCEPT ![w] = "opening"]
  /\ UNCHANGED <<list, lock, call, version, told, broken>>

LoadFirst(w) ==
  /\ watcher[w] = "opening"
  /\ watcher' = [watcher EXCEPT ![w] = "reading"]
  /\ told' = [told EXCEPT ![w] = @ \cup {version}]
  /\ UNCHANGED <<list, lock, call, version, broken>>

FirstSnapshot(w) ==
  /\ watcher[w] = "reading"
  /\ watcher' = [watcher EXCEPT ![w] = "open"]
  /\ UNCHANGED <<list, lock, call, version, told, broken>>

\* unsubscribe, or the first callback raises.
Unwatch(w) ==
  /\ watcher[w] # "absent"
  /\ watcher' = [watcher EXCEPT ![w] = "absent"]
  /\ told' = [told EXCEPT ![w] = {}]
  /\ UNCHANGED <<list, lock, call, version, broken>>

CallStep(c) ==
  \/ Save(c)
  \/ GiveUp(c)
  \/ Unlock(c)
  \/ \E w \in Watchers : Tell(c, w) \/ TellRaises(c, w)
  \/ Return(c)

ServiceNext ==
  \/ \E c \in Callers : Load(c) \/ CallStep(c)
  \/ \E w \in Watchers : Watch(w) \/ LoadFirst(w) \/ FirstSnapshot(w) \/ Unwatch(w)

ServiceSpec == ServiceInit /\ [][ServiceNext]_serviceVars

\* A suspended call goes on: stores and watchers answer or raise.
FairServiceSpec ==
  /\ ServiceSpec
  /\ \A c \in Callers : WF_serviceVars(CallStep(c))
  /\ \A w \in Watchers : WF_serviceVars(LoadFirst(w) \/ FirstSnapshot(w))

----
\* The service is the atomic task list: no caller saves a mutation of a snapshot that
\* another caller has replaced, whatever suspends, raises or is cancelled.
ImplementsTaskLists == Spec

\* Whenever no call has an announcement pending, every watcher that loaded its first
\* snapshot has been called with the snapshot that is stored now; one that registers
\* while others mutate misses nothing.  A call cut off inside save voids this.
WatchersCatchUp ==
  \A w \in Watchers :
    watcher[w] \in {"reading", "open"} /\ ~broken =>
      \/ version \in told[w]
      \/ \E c \in Callers :
           /\ call[c].saved = version
           /\ call[c].pc = "saved" \/ (call[c].pc = "notifying" /\ w \in call[c].untold)

\* The lock of the list is always given back.
LockIsReleased == \A c \in Callers : c \in lock ~> c \notin lock
=============================================================================
