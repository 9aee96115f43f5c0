--------------------------- MODULE TeamWorkflows ---------------------------
(***************************************************************************)
(* One team workflow: the durable record of a permission request or of a   *)
(* member's shutdown (team_workflows.py), the deadline task that closes    *)
(* it, the callers that answer it and, for a permission, the bridge that   *)
(* holds the teammate's tool call until the leader and then the host have  *)
(* decided (teammate_orchestration/service.py).                            *)
(*                                                                         *)
(* Workflows share nothing: the lock, the record and the deadline task are *)
(* per workflow id, so one workflow is the whole service.  Every handler   *)
(* is split where the code awaits.  A handler keeps the copy of the record *)
(* it built before the await, and writes that copy back after it.          *)
(***************************************************************************)
EXTENDS Naturals, FiniteSets

CONSTANTS
    Responders,   \* callers of respond_model and respond_host
    Role,         \* Role[c]: "leader", "teammate" (a model call) or "host"
    Observers,    \* TRUE when get / list_workflows may be called at any time
    WfMaxCrashes  \* bound on the crashes

WfRoles == {"leader", "teammate", "host"}

ASSUME WfAssumption ==
    /\ Role \in [Responders -> WfRoles]
    /\ {"requester", "deadline", "nobody"} \cap Responders = {}
    /\ Observers \in BOOLEAN
    /\ WfMaxCrashes \in Nat

VARIABLES
    wfRec,      \* the stored record, or NoRec before it is created
    wfDue,      \* the deadline has passed
    wfTimer,    \* the deadline task: "none", "armed" or "emitting"
    wfLock,     \* holder of the workflow's asyncio lock, or "nobody"
    wfPc,       \* wfPc[c]: where caller c is suspended
    wfCopy,     \* wfCopy[c]: the record caller c built before its await
    wfHost,     \* what the host answered the bridge: "none", "allow", "deny"
    wfOutcome,  \* what the bridge returned to the tool call
    wfAnswer,   \* the status wait_for_terminal returned, or "none"
    wfSaid,     \* history: the actions stored so far, also those a stale write undid
    wfCrashes   \* crashes so far

wfVars == <<wfRec, wfDue, wfTimer, wfLock, wfPc, wfCopy, wfHost, wfOutcome, wfAnswer,
            wfSaid, wfCrashes>>

WfKinds == {"permission", "shutdown"}
WfTerminal == {"completed", "rejected", "timed_out", "forced_closed"}
WfStatus == {"pending", "waiting_host", "acknowledged"} \cup WfTerminal
WfActions == {"approve", "reject", "acknowledge", "complete", "host_allow",
              "host_deny", "force_close", "deadline_expired",
              "transport_request", "transport_response"}

(* The fields the code decides on; hist is transition_history as a set of  *)
(* its actions.                                                            *)
WfRecord == [kind : WfKinds, status : WfStatus, hist : SUBSET WfActions]
NoRec == [kind |-> "none", status |-> "none", hist |-> {}]

WfCallers == Responders \cup {"requester"}
WfLockers == Responders \cup {"requester", "deadline", "nobody"}

Exists == wfRec # NoRec
Closed(r) == r.status \in WfTerminal

(* _mutate_record *)
Mutate(r, action, status) ==
    [r EXCEPT !.status = status, !.hist = @ \cup {action}]

(* allowed_workflow_actions: a closed record allows none.                  *)
AllowedActions(r) ==
    {a \in {"approve", "reject"} : r.kind = "permission" /\ r.status = "pending"}
      \cup {a \in {"acknowledge", "complete"} :
               /\ r.kind = "shutdown"
               /\ r.status = "pending" \/ (r.status = "acknowledged" /\ a = "complete")}

(* Mutant: the action is stored in the place of the status it leads to. *)
ApplyActionRaw(r, action) == Mutate(r, action, action)

(* _apply_action: the status an allowed action leads to. *)
ApplyAction(r, action) ==
    Mutate(r, action,
           CASE action = "approve"     -> "waiting_host"
             [] action = "reject"      -> "rejected"
             [] action = "acknowledge" -> "acknowledged"
             [] action = "complete"    -> "completed")

(* _validate_authority; the targeted teammate is the one teammate there is. *)
MayRespond(c, r) ==
    \/ Role[c] \in {"host", "leader"}
    \/ r.kind = "shutdown"

(* The expired form of a record, as the deadline task, get and recovery    *)
(* build it.                                                               *)
Expired(r) ==
    Mutate(r, "deadline_expired",
           IF r.kind = "shutdown" THEN "forced_closed" ELSE "timed_out")

ReleasedBy(c) == IF wfLock = c THEN "nobody" ELSE wfLock

(* _schedule_deadline and _cancel_deadline: whatever the deadline task was *)
(* doing it stops, even between its save and the waking of the waiters.    *)
TimerAfter(r) == IF Closed(r) THEN "none" ELSE "armed"

(* _resolve_waiters, with the program counters the handler leaves.  The one *)
(* caller of wait_for_terminal is the requester of a shutdown.              *)
Wake(r, pc) ==
    IF pc["requester"] = "parked"
    THEN wfPc' = [pc EXCEPT !["requester"] = "done"] /\ wfAnswer' = r.status
    ELSE wfPc' = pc /\ UNCHANGED wfAnswer

WfTypeOK ==
    /\ wfRec \in WfRecord \cup {NoRec}
    /\ wfDue \in BOOLEAN
    /\ wfTimer \in {"none", "armed", "emitting"}
    /\ wfLock \in WfLockers
    /\ wfPc \in [WfCallers -> {"idle", "request", "request2", "created", "poll",
                               "ask", "record", "emit", "parked", "done", "gone"}]
    /\ wfCopy \in [WfCallers \cup {"deadline"} -> WfRecord \cup {NoRec}]
    /\ wfHost \in {"none", "allow", "deny"}
    /\ wfOutcome \in {"none", "allow", "deny"}
    /\ wfAnswer \in {"none"} \cup WfTerminal
    /\ wfSaid \subseteq WfActions
    /\ wfCrashes \in 0..WfMaxCrashes

WfInit ==
    /\ wfRec = NoRec
    /\ wfDue = FALSE
    /\ wfTimer = "none"
    /\ wfLock = "nobody"
    /\ wfPc = [c \in WfCallers |-> "idle"]
    /\ wfCopy = [c \in WfCallers \cup {"deadline"} |-> NoRec]
    /\ wfHost = "none"
    /\ wfOutcome = "none"
    /\ wfAnswer = "none"
    /\ wfSaid = {}
    /\ wfCrashes = 0

----
(* Creation: the record is stored and its deadline armed before the        *)
(* request is sent over the message bus.                                   *)
CreateWorkflow(k) ==
    LET r == [kind |-> k, status |-> "pending", hist |-> {}] IN
    /\ wfPc["requester"] = "idle"
    /\ ~Exists
    /\ wfRec' = r
    /\ wfTimer' = "armed"
    /\ wfCopy' = [wfCopy EXCEPT !["requester"] = r]
    /\ wfPc' = [wfPc EXCEPT !["requester"] = "request"]
    /\ UNCHANGED <<wfDue, wfLock, wfHost, wfOutcome, wfAnswer, wfSaid, wfCrashes>>

AfterRequest(pc, k) ==
    CASE k = "permission"                    -> "poll"
      [] k = "shutdown" /\ pc = "request"    -> "request2"
      [] OTHER                               -> "created"

(* _emit_workflow_request after the send: the copy made before the send is *)
(* saved without the lock, over whatever was stored meanwhile.  A send     *)
(* that fails saves nothing.  A shutdown is sent to the member and to the  *)
(* leader; a permission is then polled by the bridge.                      *)
EmitRequest ==
    LET r == wfCopy["requester"]
        sent == Mutate(r, "transport_request", r.status)
    IN
    /\ wfPc["requester"] \in {"request", "request2"}
    /\ \/ /\ wfRec' = sent
          /\ wfCopy' = [wfCopy EXCEPT !["requester"] = sent]
       \/ UNCHANGED <<wfRec, wfCopy>>
    /\ wfPc' = [wfPc EXCEPT !["requester"] = AfterRequest(@, r.kind)]
    /\ UNCHANGED <<wfDue, wfTimer, wfLock, wfHost, wfOutcome, wfAnswer, wfSaid, wfCrashes>>

----
(* A handler that holds the lock saves its transition and then awaits the  *)
(* event and the response.                                                 *)
Decide(c, r) ==
    /\ wfRec' = r
    /\ wfCopy' = [wfCopy EXCEPT ![c] = r]
    /\ wfLock' = c
    /\ wfSaid' = wfSaid \cup r.hist

(* _emit_workflow_response: the send may fail, and then nothing is saved.  *)
EmitResponse(c) ==
    \/ wfRec' = Mutate(wfCopy[c], "transport_response", wfCopy[c].status)
    \/ UNCHANGED wfRec

(* _respond, up to its first await. *)
Respond(c, action) ==
    /\ Exists
    /\ wfPc[c] = "idle"
    /\ wfLock = "nobody"
    /\ action \in AllowedActions(wfRec)
    /\ MayRespond(c, wfRec)
    /\ Decide(c, ApplyAction(wfRec, action))
    /\ wfTimer' = TimerAfter(wfRec')
    /\ wfPc' = [wfPc EXCEPT ![c] = "emit"]
    /\ UNCHANGED <<wfDue, wfHost, wfOutcome, wfAnswer, wfCrashes>>

(* force_close_shutdown, up to its first await. *)
ForceClose(c) ==
    /\ Exists
    /\ wfPc[c] = "idle"
    /\ wfLock = "nobody"
    /\ Role[c] = "host"
    /\ wfRec.kind = "shutdown"
    /\ ~Closed(wfRec)
    /\ Decide(c, Mutate(wfRec, "force_close", "forced_closed"))
    /\ wfTimer' = "none"
    /\ wfPc' = [wfPc EXCEPT ![c] = "emit"]
    /\ UNCHANGED <<wfDue, wfHost, wfOutcome, wfAnswer, wfCrashes>>

(* Mutant: waiters are not woken. *)
FinishRespondQuietly(c) ==
    /\ c \in Responders
    /\ wfPc[c] = "emit"
    /\ EmitResponse(c)
    /\ IF Closed(wfCopy[c])
       THEN /\ wfTimer' = "none"
            /\ wfPc' = [wfPc EXCEPT ![c] = "idle"] /\ UNCHANGED wfAnswer
       ELSE /\ UNCHANGED <<wfTimer, wfAnswer>>
            /\ wfPc' = [wfPc EXCEPT ![c] = "idle"]
    /\ wfLock' = ReleasedBy(c)
    /\ wfCopy' = [wfCopy EXCEPT ![c] = NoRec]
    /\ UNCHANGED <<wfDue, wfHost, wfOutcome, wfSaid, wfCrashes>>

(* Mutant: the lock is kept. *)
FinishRespondLocked(c) ==
    /\ c \in Responders
    /\ wfPc[c] = "emit"
    /\ EmitResponse(c)
    /\ IF Closed(wfCopy[c])
       THEN /\ wfTimer' = "none"
            /\ Wake(wfCopy[c], [wfPc EXCEPT ![c] = "idle"])
       ELSE /\ UNCHANGED <<wfTimer, wfAnswer>>
            /\ wfPc' = [wfPc EXCEPT ![c] = "idle"]
    /\ UNCHANGED wfLock
    /\ wfCopy' = [wfCopy EXCEPT ![c] = NoRec]
    /\ UNCHANGED <<wfDue, wfHost, wfOutcome, wfSaid, wfCrashes>>

(* The rest of _respond and force_close_shutdown: waiters are woken only   *)
(* when the handler's own transition closed the workflow.                  *)
FinishRespond(c) ==
    /\ c \in Responders
    /\ wfPc[c] = "emit"
    /\ EmitResponse(c)
    /\ IF Closed(wfCopy[c])
       THEN /\ wfTimer' = "none"
            /\ Wake(wfCopy[c], [wfPc EXCEPT ![c] = "idle"])
       ELSE /\ UNCHANGED <<wfTimer, wfAnswer>>
            /\ wfPc' = [wfPc EXCEPT ![c] = "idle"]
    /\ wfLock' = ReleasedBy(c)
    /\ wfCopy' = [wfCopy EXCEPT ![c] = NoRec]
    /\ UNCHANGED <<wfDue, wfHost, wfOutcome, wfSaid, wfCrashes>>

----
(* Deadlines.                                                              *)
PassDeadline ==
    /\ Exists /\ ~wfDue
    /\ wfDue' = TRUE
    /\ UNCHANGED <<wfRec, wfTimer, wfLock, wfPc, wfCopy, wfHost, wfOutcome, wfAnswer, wfSaid, wfCrashes>>

(* _deadline_worker, with the lock: an open record is closed. *)
DeadlineFires ==
    /\ wfTimer = "armed"
    /\ wfDue
    /\ wfLock = "nobody"
    /\ IF Closed(wfRec)
       THEN /\ wfTimer' = "none"
            /\ UNCHANGED <<wfRec, wfCopy, wfLock, wfSaid>>
       ELSE /\ Decide("deadline", Expired(wfRec))
            /\ wfTimer' = "emitting"
    /\ UNCHANGED <<wfDue, wfPc, wfHost, wfOutcome, wfAnswer, wfCrashes>>

DeadlineEmits ==
    /\ wfTimer = "emitting"
    /\ EmitResponse("deadline")
    /\ wfTimer' = "none"
    /\ wfLock' = ReleasedBy("deadline")
    /\ wfCopy' = [wfCopy EXCEPT !["deadline"] = NoRec]
    /\ Wake(wfCopy["deadline"], wfPc)
    /\ UNCHANGED <<wfDue, wfHost, wfOutcome, wfSaid, wfCrashes>>

(* Mutant: a reader closes whatever is overdue. *)
ObserveOverdue ==
    LET r == IF wfDue THEN Expired(wfRec) ELSE wfRec IN
    /\ Exists
    /\ wfRec' = r
    /\ wfSaid' = wfSaid \cup r.hist
    /\ wfTimer' = TimerAfter(r)
    /\ wfLock' = ReleasedBy("deadline")
    /\ wfCopy' = [wfCopy EXCEPT !["deadline"] = NoRec]
    /\ UNCHANGED <<wfDue, wfPc, wfHost, wfOutcome, wfAnswer, wfCrashes>>

(* get, is_pending and list_workflows: an overdue record is closed on the  *)
(* spot, outside the lock and without waking anybody; any other reading    *)
(* restarts the deadline task.                                             *)
Observe ==
    LET r == IF wfDue /\ ~Closed(wfRec) THEN Expired(wfRec) ELSE wfRec IN
    /\ Exists
    /\ wfRec' = r
    /\ wfSaid' = wfSaid \cup r.hist
    /\ wfTimer' = TimerAfter(r)
    /\ wfLock' = ReleasedBy("deadline")
    /\ wfCopy' = [wfCopy EXCEPT !["deadline"] = NoRec]
    /\ UNCHANGED <<wfDue, wfPc, wfHost, wfOutcome, wfAnswer, wfCrashes>>

----
(* wait_for_terminal *)
AwaitTerminal ==
    /\ wfPc["requester"] = "created"
    /\ IF Closed(wfRec)
       THEN /\ wfPc' = [wfPc EXCEPT !["requester"] = "done"]
            /\ wfAnswer' = wfRec.status
       ELSE /\ wfPc' = [wfPc EXCEPT !["requester"] = "parked"]
            /\ UNCHANGED wfAnswer
    /\ UNCHANGED <<wfRec, wfDue, wfTimer, wfLock, wfCopy, wfHost, wfOutcome, wfSaid, wfCrashes>>

----
(* The permission bridge: request_permission of the wrapped host.          *)

(* Mutant: the approval of the leader is the answer. *)
BridgeTrustsLeader ==
    /\ wfPc["requester"] = "poll"
    /\ wfRec.status # "pending" \/ wfDue
    /\ wfPc' = [wfPc EXCEPT !["requester"] = "done"]
    /\ wfOutcome' = IF wfRec.status \in {"waiting_host", "completed"} THEN "allow" ELSE "deny"
    /\ UNCHANGED <<wfRec, wfDue, wfTimer, wfLock, wfCopy, wfHost, wfAnswer, wfSaid, wfCrashes>>

(* wait_for_permission_resolution returns: the record left pending, or its *)
(* deadline passed first.  Only a record waiting for the host goes on to   *)
(* the host; any other is the answer.                                      *)
BridgeResolved ==
    /\ wfPc["requester"] = "poll"
    /\ wfRec.status # "pending" \/ wfDue
    /\ IF wfRec.status = "waiting_host"
       THEN /\ wfPc' = [wfPc EXCEPT !["requester"] = "ask"]
            /\ UNCHANGED wfOutcome
       ELSE /\ wfPc' = [wfPc EXCEPT !["requester"] = "done"]
            /\ wfOutcome' = IF wfRec.status = "completed" THEN "allow" ELSE "deny"
    /\ UNCHANGED <<wfRec, wfDue, wfTimer, wfLock, wfCopy, wfHost, wfAnswer, wfSaid, wfCrashes>>

(* The host answers; an exception is a denial. *)
HostAnswers(answer) ==
    /\ wfPc["requester"] = "ask"
    /\ wfHost' = answer
    /\ wfPc' = [wfPc EXCEPT !["requester"] = "record"]
    /\ UNCHANGED <<wfRec, wfDue, wfTimer, wfLock, wfCopy, wfOutcome, wfAnswer, wfSaid, wfCrashes>>

(* record_permission_host_outcome: a record closed meanwhile stands and is *)
(* the answer.  A record that is open but no longer waits for the host     *)
(* fails the call, and the tool call with it.                              *)
RecordHostOutcome ==
    /\ wfPc["requester"] = "record"
    /\ wfLock = "nobody"
    /\ CASE Closed(wfRec) ->
              /\ wfPc' = [wfPc EXCEPT !["requester"] = "done"]
              /\ wfOutcome' = IF wfRec.status = "completed" THEN "allow" ELSE "deny"
              /\ UNCHANGED <<wfRec, wfCopy, wfLock, wfTimer, wfSaid>>
         [] wfRec.status = "waiting_host" ->
              /\ Decide("requester", IF wfHost = "allow"
                                     THEN Mutate(wfRec, "host_allow", "completed")
                                     ELSE Mutate(wfRec, "host_deny", "rejected"))
              /\ wfTimer' = "none"
              /\ wfPc' = [wfPc EXCEPT !["requester"] = "emit"]
              /\ UNCHANGED wfOutcome
         [] OTHER ->
              /\ wfPc' = [wfPc EXCEPT !["requester"] = "gone"]
              /\ UNCHANGED <<wfRec, wfCopy, wfLock, wfTimer, wfOutcome, wfSaid>>
    /\ UNCHANGED <<wfDue, wfHost, wfAnswer, wfCrashes>>

FinishHostOutcome ==
    /\ wfPc["requester"] = "emit"
    /\ EmitResponse("requester")
    /\ wfLock' = ReleasedBy("requester")
    /\ wfOutcome' = IF wfCopy["requester"].status = "completed" THEN "allow" ELSE "deny"
    /\ wfPc' = [wfPc EXCEPT !["requester"] = "done"]
    /\ wfCopy' = [wfCopy EXCEPT !["requester"] = NoRec]
    /\ UNCHANGED <<wfDue, wfTimer, wfHost, wfAnswer, wfSaid, wfCrashes>>

----
(* The process dies, and recover_pending closes or re-arms what it finds.  *)
(* Calls and waiters of the old process are gone.                          *)
CrashAndRecover ==
    LET r == IF wfDue /\ ~Closed(wfRec) THEN Expired(wfRec) ELSE wfRec IN
    /\ Exists
    /\ wfCrashes < WfMaxCrashes
    /\ wfCrashes' = wfCrashes + 1
    /\ wfRec' = r
    /\ wfSaid' = wfSaid \cup r.hist
    /\ wfTimer' = TimerAfter(r)
    /\ wfLock' = "nobody"
    /\ wfPc' = [c \in WfCallers |-> IF c = "requester" THEN "gone" ELSE "idle"]
    /\ wfCopy' = [c \in WfCallers \cup {"deadline"} |-> NoRec]
    /\ UNCHANGED <<wfDue, wfHost, wfOutcome, wfAnswer>>

----
Bridge == BridgeResolved \/ (\E a \in {"allow", "deny"} : HostAnswers(a))
             \/ RecordHostOutcome \/ FinishHostOutcome

(* The service and the bridge, with its answers from any responder.        *)
WfService ==
    \/ \E k \in WfKinds : CreateWorkflow(k)
    \/ EmitRequest
    \/ \E c \in Responders : FinishRespond(c)
    \/ PassDeadline
    \/ DeadlineFires
    \/ DeadlineEmits
    \/ Observers /\ Observe
    \/ Bridge

WfAnswers(c) == ForceClose(c) \/ \E a \in WfActions : Respond(c, a)

(* Every coroutine that can run runs: the event loop is fair, time passes  *)
(* and the host answers.  Responders answer only if they want to.          *)
WfFairness ==
    /\ WF_wfVars(EmitRequest)
    /\ \A c \in Responders : WF_wfVars(FinishRespond(c))
    /\ WF_wfVars(PassDeadline)
    /\ WF_wfVars(DeadlineFires)
    /\ WF_wfVars(DeadlineEmits)
    /\ WF_wfVars(Bridge)

----
(* A tool call of a teammate is allowed only when the leader's approval    *)
(* was stored and the host then allowed it: no interleaving of deadline,   *)
(* late answer, restart and stale write lets one of the two consents do    *)
(* for both.                                                               *)
GrantNeedsBoth == wfOutcome = "allow" => "approve" \in wfSaid /\ wfHost = "allow"

(* A stored permission that reads completed carries both consents in its   *)
(* own history, and a denied one never carries the host's consent: the     *)
(* audit trail of the record agrees with its status whatever copy was      *)
(* written last.                                                           *)
HistoryExplainsStatus ==
    Exists => /\ wfRec.status = "waiting_host" => "approve" \in wfRec.hist
              /\ wfRec.kind = "permission" /\ wfRec.status = "completed"
                   => {"approve", "host_allow"} \subseteq wfRec.hist
              /\ wfRec.kind = "permission" /\ wfRec.status # "completed"
                   => "host_allow" \notin wfRec.hist
              /\ Closed(wfRec) => wfRec.hist \ {"transport_request", "acknowledge", "approve"} # {}

(* A closed workflow stays closed as it was decided                        *)
(* (tests/test_team_workflows.py: terminal workflows reject follow-up      *)
(* responses).                                                             *)
TerminalIsFinal ==
    [][Exists /\ Closed(wfRec) => wfRec'.status = wfRec.status]_wfVars

(* A tool call held by the bridge is answered.                             *)
BridgeAnswers == wfPc["requester"] \in {"poll", "ask", "record", "emit"}
                    ~> wfPc["requester"] \in {"done", "gone"}
=============================================================================
