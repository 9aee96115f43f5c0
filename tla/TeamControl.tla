---- MODULE TeamControl ----
(***************************************************************************)
(* The team store and the team control plane (team_control_plane.py): a    *)
(* session makes a team and leads it, registers teammates, removes them    *)
(* and deletes the team.  Removal waits for the teammate's runner, so two  *)
(* calls can be under way at once, a call can be cancelled half way, and   *)
(* two runtimes share the files of the store.  The leader learns of its    *)
(* team from updates queued to its session.                                *)
(***************************************************************************)
EXTENDS Naturals, Sequences, FiniteSets, SequencesExt

CONSTANTS TcTeams,     \* 1 .. n: the teams that can be made, in order
          TcMembers,   \* 1 .. n: the teammates that can be registered, in order
          TcNames,     \* their names
          TcCallers,   \* calls that can be under way at once
          TcCrashes,   \* bound on crashes
          TcQueueMax   \* bound on the updates queued to the leader's session

ASSUME TcAssumption ==
    /\ TcTeams \subseteq Nat \ {0} /\ TcMembers \subseteq Nat \ {0}
    /\ "leader" \notin TcNames /\ "none" \notin TcNames /\ TcCrashes \in Nat /\ TcQueueMax \in Nat

VARIABLES tcTeam,      \* team.json: none, active, deleted; "gone" when a failed creation removed it
          tcBound,     \* the team the leader's session is bound to; 0 for none
          tcMember,    \* the member records, with the teammate runtime's registration
          tcCall,      \* the calls under way
          tcOnline,    \* the leader's session is registered with the runtime
          tcQueue,     \* updates of its private context that wait in it; 0 clears the team
          tcContext,   \* the team its private context names
          tcCrashed,   \* crashes so far
          tcLost,      \* history: teams whose binding was never written, or was taken away
          tcOdd,       \* history: members whose call was cut short, or came while the team was being deleted
          tcMisled     \* history: the last update was lost, is not made yet or was already out of date

tcVars == <<tcTeam, tcBound, tcMember, tcCall, tcOnline, tcQueue, tcContext, tcCrashed, tcLost, tcOdd, tcMisled>>
tcGhosts == <<tcLost, tcOdd>>

TcNoMember == [team |-> 0, name |-> "none", status |-> "none", runner |-> "none"]
NoCall == [op |-> "none", at |-> "idle", team |-> 0, now |-> 0, left |-> {}, listed |-> {}]

TcInit ==
    /\ tcTeam = [t \in TcTeams |-> "none"]
    /\ tcBound = 0
    /\ tcMember = [m \in TcMembers |-> TcNoMember]
    /\ tcCall = [c \in TcCallers |-> NoCall]
    /\ tcOnline = TRUE /\ tcQueue = <<>> /\ tcContext = 0
    /\ tcCrashed = 0 /\ tcLost = {} /\ tcOdd = {} /\ tcMisled = FALSE

TcActive(t) == t \in TcTeams /\ tcTeam[t] = "active"
MembersOf(t) == {m \in TcMembers : tcMember[m].team = t /\ tcMember[m].status = "active"}

\* The private context of the caller names a team; a team that is not active is not believed, and
\* the binding of the session decides.
Resolved(hint) == IF TcActive(hint) THEN hint ELSE IF TcActive(tcBound) THEN tcBound ELSE 0

Hints == {0, tcContext}
Free(c) == tcCall[c].at = "idle"
EndsCall(c) == tcCall' = [tcCall EXCEPT ![c] = NoCall]

\* An update reaches only a session that is registered.
QueueUpdate(t) ==
    /\ Len(tcQueue) < TcQueueMax
    /\ tcQueue' = IF tcOnline THEN Append(tcQueue, t) ELSE tcQueue
    /\ tcMisled' = (~tcOnline \/ (t # 0 /\ t # tcBound'))

----
(* The store. *)

\* Mutant: a creation that fails leaves the files it wrote.
UndoneNot(t) == tcTeam

\* A creation that fails removes the team's files, and the binding, whoever wrote it.
Undone(t) == [tcTeam EXCEPT ![t] = "gone"]

\* team.json and the leader's member record are written first.
WriteTeam(c, t) ==
    /\ tcTeam' = [tcTeam EXCEPT ![t] = "active"]
    /\ tcCall' = [tcCall EXCEPT ![c] = [NoCall EXCEPT !.op = "create", !.at = "bind", !.team = t]]

\* The binding is written last, if none is there.
BindLeader(c) ==
    /\ tcCall[c].at = "bind" /\ tcBound = 0
    /\ tcBound' = tcCall[c].team
    /\ tcCall' = [tcCall EXCEPT ![c].at = "said"]
    /\ tcMisled' = TRUE
    /\ UNCHANGED <<tcTeam, tcMember, tcOnline, tcQueue, tcContext, tcCrashed, tcGhosts>>

\* Another runtime bound the session in between: the cleanup takes that binding away as well.
BindFails(c) ==
    /\ tcCall[c].at = "bind" /\ tcBound # 0
    /\ tcTeam' = Undone(tcCall[c].team)
    /\ tcBound' = 0 /\ tcLost' = tcLost \cup {tcBound} /\ tcMisled' = TRUE
    /\ EndsCall(c)
    /\ UNCHANGED <<tcMember, tcOnline, tcQueue, tcContext, tcCrashed, tcOdd>>

\* Mutant: the binding stays when the team is deleted.
UnboundNot == tcBound

\* A deletion removes the binding of the leader's session, whichever team it names by now.
Unbound == 0

RemovedFrom(members) == [m \in TcMembers |-> IF m \in members THEN [tcMember[m] EXCEPT !.status = "removed"] ELSE tcMember[m]]

----
(* The calls. *)

\* A team that is there is used again, and the leader is told of it.
ReuseTeam(c) ==
    /\ Free(c) /\ TcActive(tcBound)
    /\ UNCHANGED tcBound
    /\ QueueUpdate(tcBound)
    /\ UNCHANGED <<tcTeam, tcMember, tcCall, tcOnline, tcContext, tcCrashed, tcGhosts>>

CreateTeam(c) ==
    /\ Free(c) /\ ~TcActive(tcBound)
    /\ \E t \in TcTeams : tcTeam[t] = "none" /\ (\A u \in TcTeams : u < t => tcTeam[u] # "none") /\ WriteTeam(c, t)
    /\ tcBound' = 0
    /\ UNCHANGED <<tcMember, tcOnline, tcQueue, tcContext, tcCrashed, tcGhosts, tcMisled>>

\* The event of the creation has been emitted; only now is the leader told, whatever has become of
\* the team.
TellLeader(c) ==
    /\ tcCall[c].at = "said"
    /\ EndsCall(c)
    /\ UNCHANGED tcBound
    /\ QueueUpdate(tcCall[c].team)
    /\ UNCHANGED <<tcTeam, tcMember, tcOnline, tcContext, tcCrashed, tcGhosts>>

\* Mutant: no name is compared.
NameTakenNot(t, name) == FALSE

NameTaken(t, name) == \E m \in MembersOf(t) : tcMember[m].name = name

\* The record is saved before the runner knows of the teammate; if that fails the record stays.
RegisterMember(c, hint, name, m, works) ==
    LET t == Resolved(hint) IN
    /\ Free(c) /\ t # 0 /\ ~NameTaken(t, name)
    /\ tcMember[m] = TcNoMember /\ \A n \in TcMembers : n < m => tcMember[n] # TcNoMember
    /\ tcMember' = [tcMember EXCEPT ![m] = [team |-> t, name |-> name, status |-> "active",
                                            runner |-> IF works THEN "up" ELSE "none"]]
    /\ tcOdd' = IF works /\ \A d \in TcCallers : tcCall[d].op = "delete" => tcCall[d].team # t
                THEN tcOdd ELSE tcOdd \cup {m}
    /\ UNCHANGED <<tcTeam, tcBound, tcCall, tcOnline, tcQueue, tcContext, tcCrashed, tcLost, tcMisled>>

RemoveMember(c, hint, m) ==
    LET t == Resolved(hint) IN
    /\ Free(c) /\ t # 0 /\ m \in MembersOf(t)
    /\ tcCall' = [tcCall EXCEPT ![c] = [op |-> "remove", at |-> "next", team |-> t, now |-> 0, left |-> {m}, listed |-> {m}]]
    /\ UNCHANGED <<tcTeam, tcBound, tcMember, tcOnline, tcQueue, tcContext, tcCrashed, tcGhosts, tcMisled>>

\* The members are listed once, before the first of them is shut down.
DeleteTeam(c, hint) ==
    LET t == Resolved(hint) IN
    /\ Free(c) /\ t # 0 /\ MembersOf(t) # {}
    /\ tcCall' = [tcCall EXCEPT ![c] = [op |-> "delete", at |-> "next", team |-> t, now |-> 0,
                                        left |-> MembersOf(t), listed |-> MembersOf(t)]]
    /\ UNCHANGED <<tcTeam, tcBound, tcMember, tcOnline, tcQueue, tcContext, tcCrashed, tcGhosts, tcMisled>>

\* The team is tombstoned, its binding removed and the leader told, all in one step.
Tombstones(t) ==
    /\ tcTeam' = [tcTeam EXCEPT ![t] = "deleted"]
    /\ tcBound' = Unbound
    /\ tcLost' = IF TcActive(tcBound) /\ tcBound # t THEN tcLost \cup {tcBound} ELSE tcLost
    /\ QueueUpdate(0)

DeleteEmptyTeam(c, hint) ==
    /\ Free(c) /\ Resolved(hint) # 0 /\ MembersOf(Resolved(hint)) = {}
    /\ Tombstones(Resolved(hint))
    /\ UNCHANGED <<tcMember, tcCall, tcOnline, tcContext, tcCrashed, tcOdd>>

\* The runner of the next member is asked to stop; one that is gone is not asked.
StopNext(c, m) ==
    /\ tcCall[c].at = "next" /\ m \in tcCall[c].left
    /\ tcCall' = [tcCall EXCEPT ![c].at = "stop", ![c].now = m]
    /\ tcMember' = [tcMember EXCEPT ![m].runner = IF @ = "up" THEN "stopping" ELSE @]
    /\ UNCHANGED <<tcTeam, tcBound, tcOnline, tcQueue, tcContext, tcCrashed, tcGhosts, tcMisled>>

\* The runner has stopped and the teammate is forgotten.
WithoutRunner(c) == [tcMember EXCEPT ![tcCall[c].now].runner = "gone"]
IsLast(c) == tcCall[c].at = "stop" /\ tcCall[c].left = {tcCall[c].now}

MemberStopped(c) ==
    /\ tcCall[c].at = "stop" /\ ~IsLast(c)
    /\ tcMember' = WithoutRunner(c)
    /\ tcCall' = [tcCall EXCEPT ![c].at = "next", ![c].left = @ \ {tcCall[c].now}, ![c].now = 0]
    /\ UNCHANGED <<tcTeam, tcBound, tcOnline, tcQueue, tcContext, tcCrashed, tcGhosts, tcMisled>>

\* The store follows once every runner has stopped.
TcFinished(c) ==
    [m \in TcMembers |-> IF m = tcCall[c].now THEN [RemovedFrom(tcCall[c].listed)[m] EXCEPT !.runner = "gone"]
                         ELSE RemovedFrom(tcCall[c].listed)[m]]

RemovalDone(c) ==
    /\ IsLast(c) /\ tcCall[c].op = "remove"
    /\ tcMember' = TcFinished(c)
    /\ EndsCall(c)
    /\ UNCHANGED <<tcTeam, tcBound, tcOnline, tcQueue, tcContext, tcCrashed, tcGhosts, tcMisled>>

DeletionDone(c) ==
    /\ IsLast(c) /\ tcCall[c].op = "delete"
    /\ tcMember' = TcFinished(c)
    /\ EndsCall(c)
    /\ Tombstones(tcCall[c].team)
    /\ UNCHANGED <<tcOnline, tcContext, tcCrashed, tcOdd>>

\* The turn of the caller is cancelled at one of the call's awaits: nothing is put back.
CallCut(c) ==
    /\ tcCall[c].at \in {"said", "next", "stop"}
    /\ EndsCall(c)
    /\ tcOdd' = tcOdd \cup tcCall[c].listed
    /\ UNCHANGED <<tcTeam, tcBound, tcMember, tcOnline, tcQueue, tcContext, tcCrashed, tcLost, tcMisled>>

----
(* The leader's session, and crashes. *)

ApplyUpdate ==
    /\ tcQueue # <<>>
    /\ tcContext' = Head(tcQueue) /\ tcQueue' = Tail(tcQueue)
    /\ UNCHANGED <<tcTeam, tcBound, tcMember, tcCall, tcOnline, tcCrashed, tcGhosts, tcMisled>>

\* What waits in a session that closes is lost; the context it has reached is kept with it. Here it is
\* opened again before the next call.
SessionCloses ==
    /\ tcOnline /\ tcQueue # <<>> /\ tcQueue' = <<>>
    /\ tcMisled' = TRUE
    /\ UNCHANGED <<tcTeam, tcBound, tcMember, tcCall, tcOnline, tcContext, tcCrashed, tcGhosts>>

SessionOpens ==
    /\ ~tcOnline /\ tcOnline' = TRUE
    /\ UNCHANGED <<tcTeam, tcBound, tcMember, tcCall, tcQueue, tcContext, tcCrashed, tcGhosts, tcMisled>>

\* The runtime dies. A creation may stand between its files, a deletion between the tombstone and the
\* binding. One with no call under way loses no more than a session that closes.
TcCrash ==
    /\ tcCrashed < TcCrashes /\ tcCrashed' = tcCrashed + 1
    /\ \E c \in TcCallers : ~Free(c)
    /\ LET unbinding == {c \in TcCallers : IsLast(c) /\ tcCall[c].op = "delete"}
           cut == UNION {tcCall[c].listed : c \in TcCallers}
           making == {tcCall[c].team : c \in {d \in TcCallers : tcCall[d].at = "bind"}} IN
       \E dying \in {{}} \cup {{c} : c \in unbinding} :
         /\ tcTeam' = [t \in TcTeams |-> IF \E c \in dying : tcCall[c].team = t THEN "deleted" ELSE tcTeam[t]]
         /\ tcMember' = IF dying = {} THEN tcMember ELSE TcFinished(CHOOSE c \in dying : TRUE)
         /\ tcLost' = tcLost \cup making \cup {tcCall[c].team : c \in dying}
         /\ tcOdd' = tcOdd \cup (IF dying = {} THEN cut ELSE cut \ tcCall[CHOOSE c \in dying : TRUE].listed)
    /\ tcMisled' = TRUE
    /\ tcCall' = [c \in TcCallers |-> NoCall]
    /\ tcOnline' = FALSE /\ tcQueue' = <<>>
    /\ UNCHANGED <<tcBound, tcContext>>

TcCallStep(c) ==
    \/ ReuseTeam(c) \/ CreateTeam(c) \/ BindLeader(c) \/ BindFails(c) \/ TellLeader(c)
    \/ \E hint \in Hints :
         \/ DeleteTeam(c, hint) \/ DeleteEmptyTeam(c, hint)
         \/ \E m \in TcMembers : \/ RemoveMember(c, hint, m)
                                 \/ \E name \in TcNames, works \in BOOLEAN : RegisterMember(c, hint, name, m, works)
    \/ \E m \in TcMembers : StopNext(c, m)
    \/ MemberStopped(c) \/ RemovalDone(c) \/ DeletionDone(c) \/ CallCut(c)

TcNext == (\E c \in TcCallers : TcCallStep(c)) \/ ApplyUpdate \/ SessionCloses \/ SessionOpens \/ TcCrash

TcSpec == TcInit /\ [][TcNext]_tcVars

----
TcTypeOK ==
    /\ tcTeam \in [TcTeams -> {"none", "active", "deleted", "gone"}]
    /\ tcBound \in {0} \cup TcTeams /\ tcContext \in {0} \cup TcTeams
    /\ \A m \in TcMembers : /\ tcMember[m].status \in {"none", "active", "removed"}
                            /\ tcMember[m].runner \in {"none", "up", "stopping", "gone"}
    /\ tcOnline \in BOOLEAN /\ tcMisled \in BOOLEAN /\ tcCrashed \in 0 .. TcCrashes
    /\ tcQueue \in Seq({0} \cup TcTeams) /\ Len(tcQueue) <= TcQueueMax
    /\ tcLost \subseteq TcTeams /\ tcOdd \subseteq TcMembers

\* An active team is the one its leader's session is bound to, unless a creation is between its
\* files or the binding was taken by a failed creation, an overtaken deletion or a crash
\* (FileBackedTeamStore.create_team, tombstone_team).
ActiveIsBound ==
    /\ \A t \in TcTeams : TcActive(t) => \/ t = tcBound \/ t \in tcLost
                                         \/ \E c \in TcCallers : tcCall[c].at = "bind" /\ tcCall[c].team = t
    /\ tcBound # 0 => TcActive(tcBound) \/ tcBound \in tcLost

\* An active member has its runner or is being stopped, a member that is not has none, and a deleted
\* team has no members, unless a call was cut short or came while the team was being deleted
\* (remove_member, delete_team, register_member).
MembersAreServed ==
    \A m \in TcMembers \ tcOdd :
        /\ tcMember[m].status = "active" =>
             /\ tcMember[m].runner = "up" \/ \E c \in TcCallers : m \in tcCall[c].listed
             /\ TcActive(tcMember[m].team)
        /\ tcMember[m].status = "removed" => tcMember[m].runner = "gone"

\* No two active members of a team have one name (register_member).
NamesAreUnique ==
    \A m, n \in TcMembers : /\ tcMember[m].status = "active" /\ tcMember[n].status = "active"
                            /\ tcMember[m].team = tcMember[n].team /\ tcMember[m].name = tcMember[n].name
                            => m = n

\* The last update on its way to the leader, or its context, names the team its session is bound to,
\* unless that update was lost or out of date when it was made (_queue_session_private_updates).
LeaderIsTold ==
    \/ tcMisled
    \/ (IF tcQueue = <<>> THEN tcContext ELSE Last(tcQueue)) = tcBound
    \/ tcLost # {}

\* What is checked of the control plane, as one invariant.
ControlSafe == TcTypeOK /\ ActiveIsBound /\ MembersAreServed /\ NamesAreUnique /\ LeaderIsTold
====
