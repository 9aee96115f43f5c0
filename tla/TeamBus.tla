---- MODULE TeamBus ----
(***************************************************************************)
(* The team message bus (team_message_bus.py) with the two places it       *)
(* delivers to: the session of the leader, whose queue is lost when it     *)
(* closes and is filled again from the stored deliveries when it opens     *)
(* (weavert_team/assembly.py), and the teammates' mailboxes, each emptied  *)
(* by a runner (RuntimeTeamRunnerManager).  Deliveries are stored before   *)
(* they are routed, and routed one after the other with awaits between.    *)
(***************************************************************************)
EXTENDS Naturals, Sequences, FiniteSets, SequencesExt

CONSTANTS TbMates,     \* the teammates of the team
          TbMessages,  \* what may be sent: [id, from, to, prio, turn]; turn says whether the leader answers it
          TbEvents     \* bound on prompts, closings, crashes, writes that fail and runs that raise, together

ASSUME TbAssumption ==
    /\ "leader" \notin TbMates /\ TbEvents \in Nat
    /\ IsFiniteSet(TbMessages) /\ {"prompt", "none"} \cap {g.id : g \in TbMessages} = {}
    /\ \A g, h \in TbMessages : g.id = h.id => g = h
    /\ \A g \in TbMessages : g.from \in TbMates \cup {"leader"} /\ g.to \in TbMates \cup {"leader", "*"} /\ g.prio \in Nat

VARIABLES tbMate,      \* the teammates: "active", "forgotten" by the runtime with the record still there, "removed"
          tbDelivery,  \* the stored deliveries of each message: none, pending or delivered
          tbToGo,      \* recipients of a message that are still to be routed to
          tbStatus,    \* the leader's session: offline, idle, ready, waiting
          tbQueue,     \* its queued commands: [msg, prio, turn], the user's prompt among them
          tbNow,       \* the command it is handling
          tbAt,        \* and how far: none, ack, turn
          tbHeard,     \* how often each message was recorded in the leader's transcript
          tbBox,       \* the teammates' mailboxes
          tbRunner,    \* their runners: off or on
          tbUsed,      \* such events so far
          tbExcuse     \* history: what each message or teammate met (see the properties)

tbVars == <<tbMate, tbDelivery, tbToGo, tbStatus, tbQueue, tbNow, tbAt, tbHeard, tbBox, tbRunner, tbUsed, tbExcuse>>
tbSession == <<tbStatus, tbQueue, tbNow, tbAt>>
tbMates == <<tbBox, tbRunner>>

TbIds == {g.id : g \in TbMessages}
TbPeople == TbMates \cup {"leader"}
Prompt == [msg |-> "prompt", prio |-> 10, turn |-> TRUE]
NoCommand == [msg |-> "none", prio |-> 0, turn |-> FALSE]
Excuses == {"twice", "skipped", "dropped", "unrun"}

TbInit ==
    /\ tbMate = [m \in TbMates |-> "active"]
    /\ tbDelivery = [i \in TbIds |-> [r \in TbPeople |-> "none"]]
    /\ tbToGo = [i \in TbIds |-> {}]
    /\ tbStatus = "offline" /\ tbQueue = <<>> /\ tbNow = NoCommand /\ tbAt = "none"
    /\ tbHeard = [i \in TbIds |-> 0]
    /\ tbBox = [m \in TbMates |-> {}] /\ tbRunner = [m \in TbMates |-> "off"]
    /\ tbUsed = 0
    /\ tbExcuse = [e \in Excuses |-> {}]

Message(i) == CHOOSE g \in TbMessages : g.id = i
Spends == tbUsed < TbEvents /\ tbUsed' = tbUsed + 1
Team == {"leader"} \cup {m \in TbMates : tbMate[m] # "removed"}
Published(i) == \E r \in TbPeople : tbDelivery[i][r] # "none"
Pending(i) == tbDelivery[i]["leader"] = "pending"
IsQueued(i) == \E k \in DOMAIN tbQueue : tbQueue[k].msg = i

\* Commands of higher priority go first, those of one priority in the order they came.
Enqueued(queue, command) ==
    InsertAt(queue, 1 + Cardinality({k \in DOMAIN queue : queue[k].prio >= command.prio}), command)

\* What the leader is handed. A workflow request that needs no answer any more is only shown.
IngressOf(i, turn) == [msg |-> i, prio |-> Message(i).prio, turn |-> turn]
LeaderIngress(i) == {IngressOf(i, turn) : turn \in IF Message(i).turn THEN {TRUE} ELSE BOOLEAN}

----
(* Sending. *)

\* A broadcast is for everyone else in the team.
Recipients(g) == IF g.to = "*" THEN Team \ {g.from} ELSE {g.to}

\* The message reaches the leader's session. One that has not started is started, and because
\* something is queued by then the pending deliveries are not replayed.
RouteToLeader(i) ==
    /\ \/ tbStatus = "offline" /\ UNCHANGED <<tbStatus, tbQueue, tbExcuse>>
       \/ /\ tbStatus # "offline"
          /\ \E command \in LeaderIngress(i) : tbQueue' = Enqueued(tbQueue, command)
          /\ tbStatus' = IF tbStatus = "idle" THEN "ready" ELSE tbStatus
          /\ tbExcuse' = IF tbStatus # "idle" THEN tbExcuse
                         ELSE [tbExcuse EXCEPT !["skipped"] = @ \cup {j \in TbIds \ {i} : Pending(j) /\ ~IsQueued(j)}]
    /\ UNCHANGED <<tbNow, tbAt, tbMates>>

\* Mutant: a runner that has ended is taken for one that runs.
RunnerKept(m) == IF tbBox[m] = {} THEN tbRunner[m] ELSE "on"

\* A runner that is not running any more is started again.
RunnerFor(m) == "on"

\* The message goes to the teammate's mailbox, and a runner is there to read it.
RouteToTeammate(i, m) ==
    /\ tbBox' = [tbBox EXCEPT ![m] = @ \cup {i}]
    /\ tbRunner' = [tbRunner EXCEPT ![m] = RunnerFor(m)]
    /\ tbExcuse' = [tbExcuse EXCEPT !["unrun"] = @ \ {m}]
    /\ UNCHANGED tbSession

\* A teammate that is gone by now ends the call: the recipients after it get nothing.
RouteFails(i) ==
    /\ tbExcuse' = [tbExcuse EXCEPT !["dropped"] = @ \cup {i}]
    /\ UNCHANGED <<tbSession, tbMates>>

Route(i, r, others) ==
    \/ r = "leader" /\ RouteToLeader(i) /\ tbToGo' = [tbToGo EXCEPT ![i] = others]
    \/ r # "leader" /\ tbMate[r] = "active" /\ RouteToTeammate(i, r) /\ tbToGo' = [tbToGo EXCEPT ![i] = others]
    \/ r # "leader" /\ tbMate[r] # "active" /\ RouteFails(i) /\ tbToGo' = [tbToGo EXCEPT ![i] = {}]

\* The message is stored with its deliveries and routed to the first recipient.
SendMessage(g) ==
    /\ ~Published(g.id) /\ g.from \in Team /\ Recipients(g) \subseteq Team
    /\ tbDelivery' = [tbDelivery EXCEPT ![g.id] = [r \in TbPeople |-> IF r \in Recipients(g) THEN "pending" ELSE "none"]]
    /\ \E r \in Recipients(g) : Route(g.id, r, Recipients(g) \ {r})
    /\ UNCHANGED <<tbMate, tbHeard, tbUsed>>

RouteNext(i) ==
    /\ \E r \in tbToGo[i] : Route(i, r, tbToGo[i] \ {r})
    /\ UNCHANGED <<tbMate, tbDelivery, tbHeard, tbUsed>>

----
(* The leader's session. *)

Register ==
    /\ tbStatus = "offline" /\ tbStatus' = "idle"
    /\ UNCHANGED <<tbMate, tbDelivery, tbToGo, tbQueue, tbNow, tbAt, tbHeard, tbMates, tbUsed, tbExcuse>>

\* Mutant: messages that are already delivered are replayed as well.
ReplayableAll == {i \in TbIds : tbDelivery[i]["leader"] # "none"}

\* The deliveries that have not been acknowledged.
Replayable == {i \in TbIds : Pending(i)}

\* Mutant: nothing is replayed.
OpenedQueuesNever == {tbQueue}

ReplayOrders ==
    {order \in SetToSeqs(Replayable) :
        \A j, k \in DOMAIN order : j < k => Message(order[j]).prio >= Message(order[k]).prio}

\* Opening a session replays what is pending, unless commands wait in it already.
OpenedQueues ==
    IF tbQueue # <<>> THEN {tbQueue}
    ELSE {[k \in DOMAIN order |-> IngressOf(order[k], Message(order[k]).turn \/ turn)] :
            order \in ReplayOrders, turn \in BOOLEAN}

\* What is being handled, or still to be routed, is pending too and comes a second time.
OpenExcuse ==
    IF tbQueue # <<>> THEN [tbExcuse EXCEPT !["skipped"] = @ \cup {i \in TbIds : Pending(i) /\ ~IsQueued(i)}]
    ELSE [tbExcuse EXCEPT !["twice"] = @ \cup {i \in Replayable : "leader" \in tbToGo[i] \/ tbNow.msg = i},
                          !["skipped"] = @ \ Replayable]

StartSession ==
    /\ tbStatus = "idle" /\ tbStatus' = "ready"
    /\ tbQueue' \in OpenedQueues /\ tbExcuse' = OpenExcuse
    /\ UNCHANGED <<tbMate, tbDelivery, tbToGo, tbNow, tbAt, tbHeard, tbMates, tbUsed>>

\* A one-shot prompt resumes the session it is given, which opens it again.
ResumeAndPrompt ==
    /\ tbStatus # "offline" /\ Spends
    /\ \E opened \in OpenedQueues : tbQueue' = Enqueued(opened, Prompt)
    /\ tbExcuse' = OpenExcuse
    /\ tbStatus' = "ready"
    /\ UNCHANGED <<tbMate, tbDelivery, tbToGo, tbNow, tbAt, tbHeard, tbMates>>

\* A prompt queued to a session that has not started opens it with a command waiting.
PromptFirst ==
    /\ tbStatus = "idle" /\ Spends
    /\ tbStatus' = "ready" /\ tbQueue' = Enqueued(tbQueue, Prompt)
    /\ tbExcuse' = [tbExcuse EXCEPT !["skipped"] = @ \cup {j \in TbIds : Pending(j) /\ ~IsQueued(j)}]
    /\ UNCHANGED <<tbMate, tbDelivery, tbToGo, tbNow, tbAt, tbHeard, tbMates>>

\* The next command is taken and its message recorded in the transcript.
TakeCommand ==
    /\ tbStatus \in {"ready", "waiting"} /\ tbAt = "none" /\ tbQueue # <<>>
    /\ tbNow' = Head(tbQueue) /\ tbQueue' = Tail(tbQueue)
    /\ tbAt' = IF Head(tbQueue).msg = "prompt" THEN "turn" ELSE "ack"
    /\ tbHeard' = [i \in TbIds |-> IF i = Head(tbQueue).msg THEN tbHeard[i] + 1 ELSE tbHeard[i]]
    /\ UNCHANGED <<tbMate, tbDelivery, tbToGo, tbStatus, tbMates, tbUsed, tbExcuse>>

\* The delivery is acknowledged before the turn is run.
AcknowledgeDelivery ==
    /\ tbAt = "ack"
    /\ tbDelivery' = [tbDelivery EXCEPT ![tbNow.msg]["leader"] = "delivered"]
    /\ tbAt' = IF tbNow.turn THEN "turn" ELSE "none"
    /\ tbNow' = IF tbNow.turn THEN tbNow ELSE NoCommand
    /\ UNCHANGED <<tbMate, tbToGo, tbStatus, tbQueue, tbHeard, tbMates, tbUsed, tbExcuse>>

\* The acknowledgement cannot be written: the turn is not run and the delivery stays pending.
ReceiptFails ==
    /\ tbAt = "ack" /\ Spends
    /\ tbAt' = "none" /\ tbNow' = NoCommand
    /\ tbExcuse' = [tbExcuse EXCEPT !["twice"] = @ \cup {tbNow.msg}, !["skipped"] = @ \cup {tbNow.msg}]
    /\ UNCHANGED <<tbMate, tbDelivery, tbToGo, tbStatus, tbQueue, tbHeard, tbMates>>

EndTurn ==
    /\ tbAt = "turn" /\ tbAt' = "none" /\ tbNow' = NoCommand
    /\ tbStatus' \in {"ready", "waiting"}
    /\ UNCHANGED <<tbMate, tbDelivery, tbToGo, tbQueue, tbHeard, tbMates, tbUsed, tbExcuse>>

CloseSession ==
    /\ tbStatus # "offline" /\ tbAt = "none" /\ Spends
    /\ tbStatus' = "offline" /\ tbQueue' = <<>>
    /\ UNCHANGED <<tbMate, tbDelivery, tbToGo, tbNow, tbAt, tbHeard, tbMates, tbExcuse>>

----
(* The teammates. *)

\* The runner reads until its mailbox is empty; an item that fails is put back to be read again.
RunnerReads(m, i) ==
    /\ tbRunner[m] = "on" /\ i \in tbBox[m]
    /\ tbBox' = [tbBox EXCEPT ![m] = @ \ {i}]
    /\ tbRunner' = [tbRunner EXCEPT ![m] = IF tbBox[m] = {i} THEN "off" ELSE "on"]
    /\ UNCHANGED <<tbMate, tbDelivery, tbToGo, tbSession, tbHeard, tbUsed, tbExcuse>>

\* A run that raises ends the runner. The item is put back, and waits with the others.
RunnerRaises(m) ==
    /\ tbRunner[m] = "on" /\ Spends
    /\ tbRunner' = [tbRunner EXCEPT ![m] = "off"]
    /\ tbExcuse' = [tbExcuse EXCEPT !["unrun"] = @ \cup {m}]
    /\ UNCHANGED <<tbMate, tbDelivery, tbToGo, tbSession, tbHeard, tbBox>>

\* A removal forgets the teammate first and marks its record afterwards.
ForgetTeammate(m) ==
    /\ tbMate[m] = "active" /\ tbMate' = [tbMate EXCEPT ![m] = "forgotten"]
    /\ tbBox' = [tbBox EXCEPT ![m] = {}] /\ tbRunner' = [tbRunner EXCEPT ![m] = "off"]
    /\ UNCHANGED <<tbDelivery, tbToGo, tbSession, tbHeard, tbUsed, tbExcuse>>

RemoveTeammateRecord(m) ==
    /\ tbMate[m] = "forgotten" /\ tbMate' = [tbMate EXCEPT ![m] = "removed"]
    /\ UNCHANGED <<tbDelivery, tbToGo, tbSession, tbHeard, tbMates, tbUsed, tbExcuse>>

\* The runtime dies and comes back. No runner is started for what the mailboxes hold.
BusCrash ==
    /\ Spends
    /\ tbStatus' = "offline" /\ tbQueue' = <<>> /\ tbNow' = NoCommand /\ tbAt' = "none"
    /\ tbToGo' = [i \in TbIds |-> {}]
    /\ tbRunner' = [m \in TbMates |-> "off"]
    /\ tbExcuse' = [tbExcuse EXCEPT !["twice"] = @ \cup (IF tbAt = "ack" THEN {tbNow.msg} ELSE {}),
                                    !["dropped"] = @ \cup {i \in TbIds : tbToGo[i] # {}},
                                    !["unrun"] = @ \cup {m \in TbMates : tbRunner[m] = "on"}]
    /\ UNCHANGED <<tbMate, tbDelivery, tbHeard, tbBox>>

TbNext ==
    \/ \E g \in TbMessages : SendMessage(g)
    \/ \E i \in TbIds : RouteNext(i)
    \/ Register \/ StartSession \/ ResumeAndPrompt \/ PromptFirst
    \/ TakeCommand \/ AcknowledgeDelivery \/ ReceiptFails \/ EndTurn \/ CloseSession
    \/ \E m \in TbMates : \/ RunnerRaises(m) \/ ForgetTeammate(m) \/ RemoveTeammateRecord(m)
                          \/ \E i \in TbIds : RunnerReads(m, i)
    \/ BusCrash

TbSpec == TbInit /\ [][TbNext]_tbVars

----
TbTypeOK ==
    /\ tbMate \in [TbMates -> {"active", "forgotten", "removed"}]
    /\ tbDelivery \in [TbIds -> [TbPeople -> {"none", "pending", "delivered"}]]
    /\ \A i \in TbIds : tbToGo[i] \subseteq TbPeople /\ tbHeard[i] \in Nat
    /\ tbStatus \in {"offline", "idle", "ready", "waiting"} /\ tbAt \in {"none", "ack", "turn"}
    /\ \A k \in DOMAIN tbQueue : tbQueue[k].msg \in TbIds \cup {"prompt"}
    /\ tbRunner \in [TbMates -> {"off", "on"}] /\ \A m \in TbMates : tbBox[m] \subseteq TbIds

\* A delivery the leader has acknowledged is in its transcript (_execute_ingress_completion_receipts
\* comes after _record_ingress_messages).
AcknowledgedIsHeard == \A i \in TbIds : tbDelivery[i]["leader"] = "delivered" => tbHeard[i] > 0

\* A pending delivery is in the queue of an open session, being handled, or still to be routed; else
\* the session was opened with commands waiting, which skips the replay
\* (weavert_team/assembly.py: replay_pending_leader_messages).
PendingIsComing ==
    tbStatus \in {"ready", "waiting"} =>
        \A i \in TbIds : Pending(i) => \/ IsQueued(i) \/ tbNow.msg = i
                                       \/ "leader" \in tbToGo[i] \/ i \in tbExcuse["skipped"] \cup tbExcuse["dropped"]

\* The leader hears a message once, unless it was replayed while it was being routed or handled, or
\* its acknowledgement was lost (replay_pending_leader_messages, acknowledge_delivery).
HeardOnce == \A i \in TbIds \ tbExcuse["twice"] :
    tbHeard[i] + Cardinality({k \in DOMAIN tbQueue : tbQueue[k].msg = i}) <= 1

\* What waits in a teammate's mailbox has a runner, unless a run raised or the runtime came back from
\* a crash and nothing was sent since (ensure_runner, drain_teammate).
WaitingHasRunner == \A m \in TbMates \ tbExcuse["unrun"] : tbBox[m] # {} <=> tbRunner[m] = "on"

\* What is checked of the message bus, as one invariant.
BusSafe == TbTypeOK /\ AcknowledgedIsHeard /\ PendingIsComing /\ HeardOnce /\ WaitingHasRunner
====
