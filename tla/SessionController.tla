-------------------------- MODULE SessionController --------------------------
(***************************************************************************)
(* One live session (session_runtime/controller.py): the priority queue of *)
(* inbound events, the calls that drain it (stream_until_idle, directly or *)
(* through submit_runtime_event, a host prompt or a child-run              *)
(* continuation), the turn each admitted event runs, interrupt(), and      *)
(* close().                                                                *)
(*                                                                         *)
(* Nothing stops two calls from draining the same session at once.  The    *)
(* built-in transcript stores never suspend, so popping a command and      *)
(* recording its message is one step; host output, completion receipts,    *)
(* hooks, the turn itself and the memory updates after it do suspend.      *)
(***************************************************************************)
EXTENDS Naturals, Sequences, FiniteSets

CONSTANTS
  Events,        \* inbound events, each submitted at most once
  ChildRuns,     \* the events that are child-run continuations
  Kind,          \* the admission of each event
  Priority,      \* the ingress priority of each event
  Calls,         \* tasks that may prompt, submit to or drain the session
  Closers,       \* tasks that may close it
  MaxInterrupts  \* bound on interrupt() calls

\* prompt: a user prompt, notice: any other event that admits a turn;
\* transcript: recorded only; local: neither recorded nor run.
Kinds == {"prompt", "notice", "transcript", "local"}

ASSUME SessionAssumption ==
  /\ ChildRuns \subseteq Events
  /\ Kind \in [Events -> Kinds]
  /\ Priority \in [Events -> Nat]
  /\ \A e \in ChildRuns : Kind[e] = "notice"
  /\ MaxInterrupts \in Nat

Admits(e) == Kind[e] \in {"prompt", "notice"}
Recorded(e) == Kind[e] # "local"

VARIABLES
  status,      \* state.status
  active,      \* state.active_turn_id: the event whose turn it is ({}: None)
  queue,       \* state.queued_commands
  call,        \* where each task is suspended, and the event it holds
  transcript,  \* the events recorded in the transcript, in order
  closed,      \* _closed
  closeTask,   \* _close_task ({}: None)
  closer,      \* where each closing task is
  awaited,     \* the task each second close() call awaits
  interrupts,  \* interrupt() calls so far
  arrived,     \* history: events in the order they were queued
  wanted,      \* history: events submitted to be drained since the last interruption
  taken,       \* history: events popped from the queue
  dropped,     \* history: continuations the bridge did not deliver
  failed,      \* history: events whose handling raised
  ended        \* history: SessionEnd dispatches

vars == <<status, active, queue, call, transcript, closed, closeTask, closer, awaited,
          interrupts, arrived, wanted, taken, dropped, failed, ended>>

ClosedStatus == {"completed", "failed", "stopped"}
Status == {"idle", "ready", "running", "waiting", "interrupted"} \cup ClosedStatus

\* starting:  inside start(); drain tells whether the call goes on to drain
\* reopening: inside the resume() of a host prompt
\* armed:     the prompt is queued and its event stream not advanced yet
\* admitting: a command was popped; its replay outputs or receipts are awaited
\* turn:      inside run_turn_stream;  ending: past its terminal event
CallState == {"idle", "starting", "reopening", "armed", "admitting", "turn", "ending"}
Draining == {"admitting", "turn", "ending"}

\* Every variable has its type.
TypeOK ==
  /\ status \in Status
  /\ active \in SUBSET Events
  /\ queue \in Seq(Events)
  /\ call \in [Calls -> [pc : CallState, event : SUBSET Events, drain : BOOLEAN]]
  /\ transcript \in Seq(Events)
  /\ closed \in BOOLEAN
  /\ closeTask \in SUBSET Closers
  /\ closer \in [Closers -> {"idle", "closing", "callback", "after", "joined", "done"}]
  /\ awaited \in [Closers -> SUBSET Closers]
  /\ interrupts \in Nat
  /\ arrived \in Seq(Events)
  /\ wanted \in SUBSET Events
  /\ taken \in SUBSET Events
  /\ dropped \in SUBSET Events
  /\ failed \in SUBSET Events
  /\ ended \in Nat

Idle == [pc |-> "idle", event |-> {}, drain |-> FALSE]

Init ==
  /\ status = "idle"
  /\ active = {}
  /\ queue = <<>>
  /\ call = [c \in Calls |-> Idle]
  /\ transcript = <<>>
  /\ closed = FALSE
  /\ closeTask = {}
  /\ closer = [k \in Closers |-> "idle"]
  /\ awaited = [k \in Closers |-> {}]
  /\ interrupts = 0
  /\ arrived = <<>>
  /\ wanted = {}
  /\ taken = {}
  /\ dropped = {}
  /\ failed = {}
  /\ ended = 0

----
\* enqueue_event appends and sorts by (-priority, created_at): the queue is sorted already,
\* so the new event goes behind the last one of at least its priority.
\* (Mutations: the newest of equal priority goes first; equal priorities coalesce.)
QueuedNewestFirst(q, e) ==
  SelectSeq(q, LAMBDA x : Priority[x] > Priority[e]) \o <<e>>
    \o SelectSeq(q, LAMBDA x : Priority[x] <= Priority[e])
QueuedCoalescing(q, e) ==
  SelectSeq(q, LAMBDA x : Priority[x] > Priority[e]) \o <<e>>
    \o SelectSeq(q, LAMBDA x : Priority[x] < Priority[e])
Queued(q, e) ==
  [i \in 1..(Len(q) + 1) |->
     IF i <= Len(q) /\ Priority[q[i]] >= Priority[e] THEN q[i]
     ELSE IF i > 1 /\ Priority[q[i - 1]] < Priority[e] THEN q[i - 1]
     ELSE e]

\* The events some task already submitted.
Submitted ==
  {arrived[i] : i \in 1..Len(arrived)} \cup dropped \cup UNION {call[c].event : c \in Calls}

\* The head of the drain loop: with q queued, status st and active turn act, the call
\* c either returns or pops the next command, classifies it and records its message.
\* (Mutation: the command stays queued until its turn ends.)
LoopPeeks(c, q, st, act) ==
  /\ status' = st
  /\ queue' = q
  /\ active' = act
  /\ IF q = <<>>
     THEN /\ call' = [call EXCEPT ![c] = Idle]
          /\ UNCHANGED <<transcript, taken>>
     ELSE /\ call' = [call EXCEPT ![c] = [Idle EXCEPT !.pc = "admitting", !.event = {Head(q)}]]
          /\ transcript' = Append(transcript, Head(q))
          /\ taken' = taken \cup {Head(q)}
Loop(c, q, st, act) ==
  /\ status' = st
  /\ IF q = <<>>
     THEN /\ call' = [call EXCEPT ![c] = Idle]
          /\ queue' = q
          /\ active' = act
          /\ UNCHANGED <<transcript, taken>>
     ELSE LET e == Head(q)
          IN  /\ call' = [call EXCEPT ![c] = [Idle EXCEPT !.pc = "admitting", !.event = {e}]]
              /\ queue' = Tail(q)
              /\ active' = IF Admits(e) THEN act ELSE {}
              /\ transcript' = IF Recorded(e) THEN Append(transcript, e) ELSE transcript
              /\ taken' = taken \cup {e}

CloseVars == <<closed, closeTask, closer, awaited, ended>>

----
\* submit_runtime_event(e, drain): queue the event, start an idle session, and drain
\* unless drain is off or the session is running or interrupted.
Submit(c, e, drain) ==
  /\ call[c].pc = "idle"
  /\ e \notin Submitted
  /\ arrived' = Append(arrived, e)
  /\ wanted' = IF drain /\ status # "interrupted" THEN wanted \cup {e} ELSE wanted
  /\ \/ /\ status = "idle"
        /\ queue' = Queued(queue, e)
        /\ call' = [call EXCEPT ![c] = [Idle EXCEPT !.pc = "starting", !.drain = drain]]
        /\ UNCHANGED <<status, active, transcript, taken>>
     \/ /\ status # "idle"
        /\ ~drain \/ status \in {"running", "interrupted"}
        /\ queue' = Queued(queue, e)
        /\ UNCHANGED <<status, active, call, transcript, taken>>
     \/ /\ status \notin {"idle", "running", "interrupted"}
        /\ drain
        /\ Loop(c, Queued(queue, e), status, active)
  /\ UNCHANGED <<dropped, failed, interrupts>>
  /\ UNCHANGED CloseVars

\* ChildRunContinuationBridge.deliver: a terminal child run wakes a waiting session and
\* is queued for one that is not; an interrupted or closed session never gets it.
Deliver(c, e) ==
  IF closed \/ status \in {"interrupted"} \cup ClosedStatus
  THEN /\ call[c].pc = "idle"
       /\ e \notin Submitted
       /\ dropped' = dropped \cup {e}
       /\ UNCHANGED <<status, active, queue, call, transcript, interrupts, arrived,
                      wanted, taken, failed>>
       /\ UNCHANGED CloseVars
  ELSE Submit(c, e, status = "waiting")

\* start() reached from submit_runtime_event: the session is ready whatever happened
\* while its hooks ran.
FinishStart(c) ==
  /\ call[c].pc = "starting"
  /\ IF call[c].drain
     THEN Loop(c, queue, "ready", active)
     ELSE /\ status' = "ready"
          /\ call' = [call EXCEPT ![c] = Idle]
          /\ UNCHANGED <<active, queue, transcript, taken>>
  /\ UNCHANGED <<interrupts, arrived, wanted, dropped, failed>>
  /\ UNCHANGED CloseVars

\* A host prompt: resume() and start() reopen the session, the prompt is queued, and
\* its event stream is advanced later.
Prompt(c, e) ==
  /\ call[c].pc = "idle"
  /\ e \notin Submitted
  /\ call' = [call EXCEPT ![c] = [Idle EXCEPT !.pc = "reopening", !.event = {e}]]
  /\ UNCHANGED <<status, active, queue, transcript, interrupts, arrived, wanted, taken,
                 dropped, failed>>
  /\ UNCHANGED CloseVars

FinishReopening(c) ==
  /\ call[c].pc = "reopening"
  /\ \E e \in call[c].event :
       /\ queue' = Queued(queue, e)
       /\ arrived' = Append(arrived, e)
       /\ wanted' = wanted \cup {e}
  /\ status' = "ready"
  /\ active' = {}
  /\ call' = [call EXCEPT ![c] = [Idle EXCEPT !.pc = "armed"]]
  /\ UNCHANGED <<transcript, interrupts, taken, dropped, failed>>
  /\ UNCHANGED CloseVars

Advance(c) ==
  /\ call[c].pc = "armed"
  /\ Loop(c, queue, status, active)
  /\ UNCHANGED <<interrupts, arrived, wanted, dropped, failed>>
  /\ UNCHANGED CloseVars

----
\* Replay outputs and completion receipts are done: an event that admits no turn makes
\* the session ready unless it waits, any other starts its turn, whatever the status
\* became in the meantime.
FinishAdmission(c) ==
  /\ call[c].pc = "admitting"
  /\ \E e \in call[c].event :
       \/ /\ ~Admits(e)
          /\ Loop(c, queue, IF status = "waiting" THEN status ELSE "ready", active)
       \/ /\ Admits(e)
          /\ status' = "running"
          /\ active' = {e}
          /\ call' = [call EXCEPT ![c].pc = "turn"]
          /\ UNCHANGED <<queue, transcript, taken>>
  /\ UNCHANGED <<interrupts, arrived, wanted, dropped, failed>>
  /\ UNCHANGED CloseVars

\* The terminal event of the turn, with its session status hint.
\* (Mutation: the hint is stored as the status.)
TurnEndsRawHint(c, hint) ==
  /\ call[c].pc = "turn"
  /\ status' = hint
  /\ call' = [call EXCEPT ![c].pc = "ending"]
  /\ wanted' = IF hint = "interrupted" THEN {} ELSE wanted
  /\ UNCHANGED <<active, queue, transcript, interrupts, arrived, taken, dropped, failed>>
  /\ UNCHANGED CloseVars
TurnEnds(c, hint) ==
  /\ call[c].pc = "turn"
  /\ status' = IF hint = "none" THEN status ELSE hint
  /\ call' = [call EXCEPT ![c].pc = "ending"]
  /\ wanted' = IF hint = "interrupted" THEN {} ELSE wanted
  /\ UNCHANGED <<active, queue, transcript, interrupts, arrived, taken, dropped, failed>>
  /\ UNCHANGED CloseVars

\* Back in the loop: an interrupted session stops draining.
\* (Mutations: the status is not reset; a waiting session stops draining too.)
FinishTurnKeepsStatus(c) ==
  /\ call[c].pc = "ending"
  /\ Loop(c, queue, status, {})
  /\ UNCHANGED <<interrupts, arrived, wanted, dropped, failed>>
  /\ UNCHANGED CloseVars
FinishTurnStopsWaiting(c) ==
  /\ call[c].pc = "ending"
  /\ IF status \in {"interrupted", "waiting"}
     THEN /\ call' = [call EXCEPT ![c] = Idle]
          /\ active' = {}
          /\ UNCHANGED <<status, queue, transcript, taken>>
     ELSE Loop(c, queue, "ready", {})
  /\ UNCHANGED <<interrupts, arrived, wanted, dropped, failed>>
  /\ UNCHANGED CloseVars
FinishTurn(c) ==
  /\ call[c].pc = "ending"
  /\ IF status = "interrupted"
     THEN /\ call' = [call EXCEPT ![c] = Idle]
          /\ active' = {}
          /\ UNCHANGED <<status, queue, transcript, taken>>
     ELSE Loop(c, queue, IF status = "waiting" THEN status ELSE "ready", {})
  /\ UNCHANGED <<interrupts, arrived, wanted, dropped, failed>>
  /\ UNCHANGED CloseVars

\* A receipt, the host or a store raises out of the loop: the popped command is gone
\* and the status stays what it was.
HandlingRaises(c) ==
  /\ call[c].pc \in Draining
  /\ failed' = failed \cup call[c].event
  /\ call' = [call EXCEPT ![c] = Idle]
  /\ UNCHANGED <<status, active, queue, transcript, interrupts, arrived, wanted, taken,
                 dropped>>
  /\ UNCHANGED CloseVars

Interrupt ==
  /\ interrupts < MaxInterrupts
  /\ interrupts' = interrupts + 1
  /\ status' = "interrupted"
  /\ wanted' = {}
  /\ UNCHANGED <<active, queue, call, transcript, arrived, taken, dropped, failed>>
  /\ UNCHANGED CloseVars

----
SessionVars == <<queue, call, transcript, interrupts, arrived, taken, dropped, failed>>

\* close(): the first caller runs the SessionEnd hooks, a second one awaits the task
\* of the first, a later one returns.
\* (Mutation: a close in progress does not hold off another.)
CloseStartsUnguarded(k) ==
  /\ closer[k] = "idle"
  /\ ~closed
  /\ closeTask' = {k}
  /\ closer' = [closer EXCEPT ![k] = "closing"]
  /\ ended' = ended + 1
  /\ UNCHANGED <<status, active, wanted, closed, awaited>>
  /\ UNCHANGED SessionVars
CloseStarts(k) ==
  /\ closer[k] = "idle"
  /\ ~closed
  /\ closeTask = {}
  /\ closeTask' = {k}
  /\ closer' = [closer EXCEPT ![k] = "closing"]
  /\ ended' = ended + 1
  /\ UNCHANGED <<status, active, wanted, closed, awaited>>
  /\ UNCHANGED SessionVars

\* (Mutation: the second caller awaits its own task.)
CloseJoinsItself(k) ==
  /\ closer[k] = "idle"
  /\ ~closed
  /\ closeTask # {}
  /\ closer' = [closer EXCEPT ![k] = "joined"]
  /\ awaited' = [awaited EXCEPT ![k] = {k}]
  /\ UNCHANGED <<status, active, wanted, closed, closeTask, ended>>
  /\ UNCHANGED SessionVars
CloseJoins(k) ==
  /\ closer[k] = "idle"
  /\ ~closed
  /\ closeTask # {}
  /\ closer' = [closer EXCEPT ![k] = "joined"]
  /\ awaited' = [awaited EXCEPT ![k] = closeTask]
  /\ UNCHANGED <<status, active, wanted, closed, closeTask, ended>>
  /\ UNCHANGED SessionVars

\* The finally block, up to the close callback.
CloseFinally(k, final) ==
  /\ closer[k] = "closing"
  /\ closer' = [closer EXCEPT ![k] = "callback"]
  /\ closed' = TRUE
  /\ active' = {}
  /\ status' = final
  /\ wanted' = IF final = "interrupted" THEN {} ELSE wanted
  /\ UNCHANGED <<closeTask, awaited, ended>>
  /\ UNCHANGED SessionVars

CloseReturns(k) ==
  /\ closer[k] = "callback"
  /\ closer' = [closer EXCEPT ![k] = "after"]
  /\ closeTask' = {}
  /\ UNCHANGED <<status, active, wanted, closed, awaited, ended>>
  /\ UNCHANGED SessionVars

\* The task that ran close() ends; only then do the calls that joined it return.
CloserEnds(k) ==
  /\ \/ closer[k] = "after"
     \/ closer[k] = "joined" /\ \A j \in awaited[k] : closer[j] = "done"
  /\ closer' = [closer EXCEPT ![k] = "done"]
  /\ awaited' = [awaited EXCEPT ![k] = {}]
  /\ UNCHANGED <<status, active, wanted, closed, closeTask, ended>>
  /\ UNCHANGED SessionVars

----
CallStep(c) ==
  \/ FinishStart(c)
  \/ FinishReopening(c)
  \/ Advance(c)
  \/ FinishAdmission(c)
  \/ \E hint \in {"none", "waiting", "interrupted"} : TurnEnds(c, hint)
  \/ FinishTurn(c)

CloseStep(k) ==
  \/ \E final \in ClosedStatus \cup {"interrupted"} : CloseFinally(k, final)
  \/ CloseReturns(k)
  \/ CloserEnds(k)

Next ==
  \/ \E c \in Calls, e \in Events \ ChildRuns :
       (\E drain \in BOOLEAN : Submit(c, e, drain)) \/ (Kind[e] = "prompt" /\ Prompt(c, e))
  \/ \E c \in Calls, e \in ChildRuns : Deliver(c, e)
  \/ \E c \in Calls : CallStep(c) \/ HandlingRaises(c)
  \/ Interrupt
  \/ \E k \in Closers : CloseStarts(k) \/ CloseJoins(k) \/ CloseStep(k)

Spec == Init /\ [][Next]_vars

\* Suspended coroutines go on: hooks, host output, turns and memory updates end.
\* Nobody needs to submit, interrupt, fail or close.
FairSpec ==
  /\ Spec
  /\ \A c \in Calls : WF_vars(CallStep(c))
  /\ \A k \in Closers : WF_vars(CloseStep(k))

----
\* However many calls drain the session, an event is handled by one of them only: a
\* popped command is not queued any more and no second call holds it.
HandledOnce ==
  /\ \A i, j \in 1..Len(queue) : queue[i] = queue[j] => i = j
  /\ \A i \in 1..Len(queue) : queue[i] \notin taken
  /\ \A c, d \in Calls :
       c # d => call[c].event \cap call[d].event = {}

\* No event disappears: what arrived is queued, or was taken by a call.
NothingLost ==
  \A i \in 1..Len(arrived) :
    arrived[i] \in taken \/ \E j \in 1..Len(queue) : queue[j] = arrived[i]

\* The transcript deviates from the order of arrival only where an event with a
\* higher priority overtakes; concurrent drains do not reorder it.
OvertakenByPriorityOnly ==
  \A i, j \in 1..Len(transcript) : \A m, n \in 1..Len(arrived) :
    /\ i < j
    /\ transcript[i] = arrived[n]
    /\ transcript[j] = arrived[m]
    /\ m < n
    => Priority[transcript[i]] > Priority[transcript[j]]

\* submit_runtime_event may leave an event to a running session: while the status is
\* running some call is inside the drain loop and will find it.  The exception is a
\* call that raised, which leaves the status behind.
RunningHasDrain ==
  status = "running" =>
    failed # {} \/ \E c \in Calls : call[c].pc \in {"turn", "ending"}

\* close() dispatches SessionEnd once, however many tasks close the session.
SessionEndsOnce == ended <= 1

\* An event submitted to be drained is taken, unless the session is interrupted
\* afterwards or a call raised: submit_runtime_event may refuse to drain because the
\* session runs, and no event is then left for a drain that has already ended.
WantedEventIsTaken ==
  \A e \in Events :
    e \in wanted ~> (e \in taken \/ e \notin wanted \/ failed # {})

\* Every close() call returns.
CloseCallReturns ==
  \A k \in Closers : closer[k] # "idle" ~> closer[k] = "done"

\* However many tasks drain and close one session, its events are handled once and in
\* order, none is stranded, and the session ends once.
SessionSafe ==
  /\ TypeOK
  /\ HandledOnce
  /\ NothingLost
  /\ OvertakenByPriorityOnly
  /\ RunningHasDrain
  /\ SessionEndsOnce
=============================================================================
