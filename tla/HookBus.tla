------------------------------- MODULE HookBus -------------------------------
(***************************************************************************)
(* The hook bus (hooks/bus.py).  Registrations come from the runtime       *)
(* configuration and the host (templates, copied into every session), from *)
(* definitions, sessions and turns.  A dispatch copies the templates that  *)
(* the session lacks, takes the active registrations in the order of their *)
(* precedence and awaits their handlers one by one; registrations are      *)
(* made, released and expired, and other dispatches run, in between.       *)
(*                                                                         *)
(* A registration is named by its position in the creation order.  The     *)
(* epoch and the creation index of a record only grow with it, so the      *)
(* precedence of two records is that of their sources, then their names.   *)
(***************************************************************************)
EXTENDS SequencesExt

CONSTANTS
    HkSessions, HkDispatchers,
    HkRequests,      \* the registration requests of the instance
    HkPayloads,      \* phase and kind of execution of the dispatches
    MaxRegistrations, MaxHookTurns  \* bounds

None == 0  \* no session, turn or template

ASSUME HkAssumption ==
    /\ HkRequests \subseteq
          [source : {"config", "host", "definition", "session", "turn"},
           life : {"template", "session", "turn"}, once : BOOLEAN, inherit : BOOLEAN,
           bound : BOOLEAN, phase : {"PreToolUse", "Stop"}, fields : SUBSET {"input", "go", "stop"},
           effect : [input : BOOLEAN, go : BOOLEAN, stop : {"none", "continue", "halt"}]]
    /\ HkPayloads \subseteq [phase : {"PreToolUse", "Stop"}, child : BOOLEAN]
    /\ IsFiniteSet(HkDispatchers)
    /\ MaxRegistrations \in Nat /\ MaxHookTurns \in Nat

VARIABLES
    hkRecords,   \* _records, by name
    hkBound,     \* the callback that templates name is bound
    hkOpen,      \* the sessions that are open
    hkTurn,      \* the turn of each session
    hkDispatch,  \* the running dispatch of each task
    hkFired      \* how many dispatches used the effects of each one-shot record

hkVars == <<hkRecords, hkBound, hkOpen, hkTurn, hkDispatch, hkFired>>

----
(* Registration *)

SourcePrecedence(source) ==
    CASE source = "config" -> 0 [] source = "host" -> 1 [] source = "definition" -> 2
      [] source = "session" -> 3 [] source = "turn" -> 4

PhaseFields(phase) == IF phase = "Stop" THEN {"go", "stop"} ELSE {"input", "go"}

\* The surfaces that may register for one turn: session.hooks.advanced.turn, and documents.
TurnScopeAllowed(source) == source \in {"definition", "turn"}

Callable(request) == request.bound \/ hkBound

(* _validate_request. *)
Rejected(request, turn) ==
    \/ request.life = "turn" /\ (turn = None \/ ~TurnScopeAllowed(request.source))
    \/ request.life # "template" /\ ~Callable(request)
    \/ ~(request.fields \subseteq PhaseFields(request.phase))

HkRecord(request, session, turn, state, parent) ==
    [request |-> request, session |-> session,
     turn |-> IF request.life = "turn" THEN turn ELSE None,
     activeFrom |-> turn, state |-> state, parent |-> parent]

RegisterRequest(request, session, turn) ==
    LET home == IF request.life = "template" THEN None ELSE session
        state == IF Rejected(request, turn) THEN "rejected"
                 ELSE IF request.life = "template" THEN "pending" ELSE "active"
    IN  /\ Len(hkRecords) < MaxRegistrations
        /\ hkRecords' = Append(hkRecords, HkRecord(request, home, turn, state, None))
        /\ hkFired' = Append(hkFired, 0)
        /\ UNCHANGED <<hkBound, hkOpen, hkTurn, hkDispatch>>

BindCallback ==
    /\ ~hkBound
    /\ hkBound' = TRUE
    /\ UNCHANGED <<hkRecords, hkOpen, hkTurn, hkDispatch, hkFired>>

\* Mutant: a template is copied whatever became of it.
MissingTemplatesAny(session) ==
    {t \in DOMAIN hkRecords :
        /\ hkRecords[t].request.life = "template" /\ hkRecords[t].parent = None
        /\ hkRecords[t].state # "rejected"
        /\ Callable(hkRecords[t].request)
        /\ \A r \in DOMAIN hkRecords : hkRecords[r].parent = t => hkRecords[r].session # session}

(* materialize_session: every pending template whose callback is bound and *)
(* that the session never had a copy of.                                   *)
MissingTemplates(session) ==
    {t \in DOMAIN hkRecords :
        /\ hkRecords[t].state = "pending"
        /\ Callable(hkRecords[t].request)
        /\ \A r \in DOMAIN hkRecords : hkRecords[r].parent = t => hkRecords[r].session # session}

\* The records of rs by their ranks, and by their names where these are equal.
Precedes(rank, a, b) == rank[a] < rank[b] \/ (rank[a] = rank[b] /\ a < b)
InOrder(rs, rank) ==
    CHOOSE s \in SetToSeqs(rs) : \A i, j \in DOMAIN s : i < j => Precedes(rank, s[i], s[j])

Materialized(session) ==
    LET missing == InOrder(MissingTemplates(session), [t \in MissingTemplates(session) |-> 0])
    IN  hkRecords \o [i \in DOMAIN missing |->
            HkRecord(hkRecords[missing[i]].request, session, None, "active", missing[i])]

FiredFor(records) == [r \in DOMAIN records |-> IF r \in DOMAIN hkFired THEN hkFired[r] ELSE 0]

(* _ensure_session_runtime_started: a session starts, or is opened again.  *)
OpenSession(session) ==
    /\ session \notin hkOpen
    /\ hkOpen' = hkOpen \cup {session}
    /\ hkRecords' = Materialized(session)
    /\ hkFired' = FiredFor(hkRecords')
    /\ UNCHANGED <<hkBound, hkTurn, hkDispatch>>

----
(* Release *)

\* Mutant: what is no longer active is stored in a state of its own.
WithStateInactive(rs, state) ==
    [r \in DOMAIN hkRecords |->
        IF r \in rs /\ hkRecords[r].state = "active"
        THEN [hkRecords[r] EXCEPT !.state = "inactive"] ELSE hkRecords[r]]

\* The state of those active records in rs becomes state.
WithState(rs, state) ==
    [r \in DOMAIN hkRecords |->
        IF r \in rs /\ hkRecords[r].state = "active"
        THEN [hkRecords[r] EXCEPT !.state = state] ELSE hkRecords[r]]

Copies(template) == {r \in DOMAIN hkRecords : hkRecords[r].parent = template}

(* release_registration: a template takes its active copies with it. *)
ReleaseRegistration(r) ==
    /\ hkRecords[r].state \in {"pending", "active"}
    /\ hkRecords' = [WithState(Copies(r), "released") EXCEPT ![r].state = "released"]
    /\ UNCHANGED <<hkBound, hkOpen, hkTurn, hkDispatch, hkFired>>

(* release_owner: a skill or an agent that ends gives up its definitions. *)
ReleaseOwner(session) ==
    LET owned == {r \in DOMAIN hkRecords : /\ hkRecords[r].session = session
                                           /\ hkRecords[r].request.source = "definition"}
    IN  /\ hkRecords' = WithState(owned, "released")
        /\ hkRecords' # hkRecords
        /\ UNCHANGED <<hkBound, hkOpen, hkTurn, hkDispatch, hkFired>>

(* clear_session, when the session closes. *)
ClearSession(session) ==
    /\ session \in hkOpen
    /\ hkOpen' = hkOpen \ {session}
    /\ hkRecords' = WithState({r \in DOMAIN hkRecords : hkRecords[r].session = session}, "expired")
    /\ UNCHANGED <<hkBound, hkTurn, hkDispatch, hkFired>>

(* release_turn, at the end of the turn. *)
ReleaseTurn(session) ==
    /\ hkTurn[session] < MaxHookTurns
    /\ hkRecords' = WithState({r \in DOMAIN hkRecords :
                                  /\ hkRecords[r].session = session
                                  /\ hkRecords[r].turn = hkTurn[session]}, "expired")
    /\ hkTurn' = [hkTurn EXCEPT ![session] = @ + 1]
    /\ UNCHANGED <<hkBound, hkOpen, hkDispatch, hkFired>>

----
(* Dispatch *)

(* _turn_scope_matches and _dispatch_visibility_matches *)
Visible(record, turn, child) ==
    /\ record.request.life = "turn" => record.turn = turn
    /\ child => record.request.inherit \/ (record.activeFrom # None /\ record.activeFrom = turn)

\* Mutant: in the order of their registration.
InOrderOfCreation(rs, records) == InOrder(rs, [r \in rs |-> 0])

InOrderOfPrecedence(rs, records) ==
    InOrder(rs, [r \in rs |-> SourcePrecedence(records[r].request.source)])

NoDispatch == [session |-> None, phase |-> "Stop", todo |-> <<>>, used |-> <<>>]

BeginDispatch(d, session, payload) ==
    LET records == Materialized(session)
        active == {r \in DOMAIN records :
                      /\ records[r].session = session
                      /\ records[r].state = "active"
                      /\ records[r].request.phase = payload.phase
                      /\ Visible(records[r], hkTurn[session], payload.child)}
    IN  /\ hkDispatch[d] = NoDispatch
        /\ active # {}
        /\ hkRecords' = records
        /\ hkFired' = FiredFor(records)
        /\ hkDispatch' = [hkDispatch EXCEPT ![d] =
              [session |-> session, phase |-> payload.phase,
               todo |-> InOrderOfPrecedence(active, records), used |-> <<>>]]
        /\ UNCHANGED <<hkBound, hkOpen, hkTurn>>

(* _sanitize_effect: the fields of the phase, and of the contract when it  *)
(* names any, remain.                                                      *)
Sanitized(r) ==
    LET request == hkRecords[r].request
        allowed == PhaseFields(request.phase)
                   \cap (IF request.fields = {} THEN {"input", "go", "stop"} ELSE request.fields)
    IN  [name |-> r,
         input |-> request.effect.input /\ "input" \in allowed,
         go |-> request.effect.go \/ "go" \notin allowed,
         stop |-> IF "stop" \in allowed THEN request.effect.stop ELSE "none"]

(* The next handler returns its effect. *)
HandlerReturns(d) ==
    LET r == Head(hkDispatch[d].todo)
    IN  /\ hkDispatch[d].todo # <<>>
        /\ hkDispatch' = [hkDispatch EXCEPT ![d].todo = Tail(@),
                                            ![d].used = Append(@, Sanitized(r))]
        /\ UNCHANGED <<hkRecords, hkBound, hkOpen, hkTurn, hkFired>>

(* It raises or times out, and is passed over. *)
HandlerFails(d) ==
    /\ hkDispatch[d].todo # <<>>
    /\ hkDispatch' = [hkDispatch EXCEPT ![d].todo = Tail(@)]
    /\ UNCHANGED <<hkRecords, hkBound, hkOpen, hkTurn, hkFired>>

(* The task of the dispatch is cancelled in a handler. *)
DispatchCancelled(d) ==
    /\ hkDispatch[d].todo # <<>>
    /\ hkDispatch' = [hkDispatch EXCEPT ![d] = NoDispatch]
    /\ UNCHANGED <<hkRecords, hkBound, hkOpen, hkTurn, hkFired>>

StopRank(stop) == CASE stop = "none" -> 0 [] stop = "allow" -> 0 [] stop = "continue" -> 1
                    [] stop = "block" -> 2 [] stop = "halt" -> 3

(* A hook that only refuses to go on blocks the session in the Stop phase. *)
DispositionOf(effect, phase) ==
    IF effect.stop = "none" /\ phase = "Stop" /\ ~effect.go THEN "block" ELSE effect.stop

\* Mutant: the last disposition wins.
AggregateStopLast(used, phase) ==
    LET given == SelectSeq([i \in DOMAIN used |-> DispositionOf(used[i], phase)],
                           LAMBDA stop : stop # "none")
    IN  IF given = <<>> THEN "allow" ELSE Last(given)

\* The strongest disposition.
AggregateStop(used, phase) ==
    LET given == {"allow"} \cup ({DispositionOf(used[i], phase) : i \in DOMAIN used} \ {"none"})
    IN  CHOOSE stop \in given : \A other \in given : StopRank(other) <= StopRank(stop)

(* _aggregate_dispatch_result: the last input wins, one refusal suffices,  *)
(* and after Stop the disposition decides.                                 *)
AggregateDispatchResult(used, phase) ==
    LET rewrites == {i \in DOMAIN used : used[i].input}
        stop == AggregateStop(used, phase)
    IN  [input |-> IF rewrites = {} THEN None
                   ELSE used[CHOOSE i \in rewrites : \A j \in rewrites : j <= i].name,
         go |-> IF phase = "Stop" THEN stop \notin {"block", "halt"}
                ELSE \A i \in DOMAIN used : used[i].go,
         stop |-> stop]

UsedOnce(run) == {r \in {run.used[i].name : i \in DOMAIN run.used} : hkRecords[r].request.once}

\* Mutant: one-shot hooks are left alone.
FinishDispatchKeepsOnce(d) ==
    LET run == hkDispatch[d]
    IN  /\ run # NoDispatch /\ run.todo = <<>>
        /\ hkDispatch' = [hkDispatch EXCEPT ![d] = NoDispatch]
        /\ hkFired' = [r \in DOMAIN hkFired |-> IF r \in UsedOnce(run) THEN hkFired[r] + 1 ELSE hkFired[r]]
        /\ UNCHANGED <<hkRecords, hkBound, hkOpen, hkTurn>>

(* The result is returned and the one-shot hooks that were used expire. *)
FinishDispatch(d) ==
    LET run == hkDispatch[d]
    IN  /\ run # NoDispatch /\ run.todo = <<>>
        /\ hkRecords' = WithState(UsedOnce(run), "expired")
        /\ hkDispatch' = [hkDispatch EXCEPT ![d] = NoDispatch]
        /\ hkFired' = [r \in DOMAIN hkFired |-> IF r \in UsedOnce(run) THEN hkFired[r] + 1 ELSE hkFired[r]]
        /\ UNCHANGED <<hkBound, hkOpen, hkTurn>>

----
HkInit ==
    /\ hkRecords = <<>>
    /\ hkBound = FALSE
    /\ hkOpen = {}
    /\ hkTurn = [session \in HkSessions |-> 1]
    /\ hkDispatch = [d \in HkDispatchers |-> NoDispatch]
    /\ hkFired = <<>>

HkNext ==
    \/ \E request \in HkRequests, session \in HkSessions :
          \E turn \in {None, hkTurn[session]} : RegisterRequest(request, session, turn)
    \/ BindCallback
    \/ \E session \in HkSessions :
          \/ OpenSession(session) \/ ReleaseOwner(session)
          \/ ClearSession(session) \/ ReleaseTurn(session)
    \/ \E r \in DOMAIN hkRecords : ReleaseRegistration(r)
    \/ \E d \in HkDispatchers :
          \/ \E session \in HkSessions, payload \in HkPayloads : BeginDispatch(d, session, payload)
          \/ HandlerReturns(d) \/ HandlerFails(d) \/ DispatchCancelled(d) \/ FinishDispatch(d)

HkSpec == HkInit /\ [][HkNext]_hkVars

----
(* Properties *)

HkTypeOK ==
    /\ \A r \in DOMAIN hkRecords :
          /\ hkRecords[r].state \in {"pending", "active", "released", "expired", "rejected"}
          /\ hkRecords[r].session \in HkSessions \cup {None}
          /\ hkRecords[r].parent \in DOMAIN hkRecords \cup {None}
    /\ DOMAIN hkFired = DOMAIN hkRecords
    /\ \A d \in HkDispatchers : ToSet(hkDispatch[d].todo) \subseteq DOMAIN hkRecords

\* The dispatches whose handlers have all run, and what they return.
Answering == {d \in HkDispatchers : hkDispatch[d] # NoDispatch /\ hkDispatch[d].todo = <<>>}
ResultOf(d) == AggregateDispatchResult(hkDispatch[d].used, hkDispatch[d].phase)
SourceOf(r) == SourcePrecedence(hkRecords[r].request.source)

(* A session gets each template once, however many dispatches race to copy *)
(* it, and a released template has no active copy left                     *)
(* (materialize_session, release_registration).                            *)
TemplatesAreCopiedOnce ==
    \A t \in DOMAIN hkRecords :
        /\ \A a, b \in Copies(t) : hkRecords[a].session = hkRecords[b].session => a = b
        /\ hkRecords[t].state = "released" =>
              \A copy \in Copies(t) : hkRecords[copy].state # "active"

(* A one-shot hook is used by the dispatches that were running when it     *)
(* was first used, never by a later one: at most once by every task        *)
(* (once_to_expire in dispatch).                                           *)
OnceIsBounded ==
    \A r \in DOMAIN hkRecords :
        hkRecords[r].request.once => hkFired[r] <= Cardinality(HkDispatchers)

(* Among the hooks that rewrite the input the one of the highest source    *)
(* wins, whatever order they were registered in (SOURCE_PRECEDENCE).       *)
HighestSourceWins ==
    \A d \in Answering : \A i \in DOMAIN hkDispatch[d].used :
        hkDispatch[d].used[i].input => SourceOf(hkDispatch[d].used[i].name) <= SourceOf(ResultOf(d).input)

(* What one hook vetoed no other hook allows: the result is at least as    *)
(* strict as every effect of the dispatch (_aggregate_dispatch_result).    *)
VetoStands ==
    \A d \in Answering : \A i \in DOMAIN hkDispatch[d].used :
        LET effect == hkDispatch[d].used[i]
        IN  /\ ~effect.go /\ effect.stop # "continue" => ~ResultOf(d).go
            /\ effect.stop = "halt" => ResultOf(d).stop = "halt"

(* The default of the configuration: a session that opens, for the first   *)
(* time or again after it was closed, has the hooks of every pending       *)
(* template (materialize_session).                                         *)
SessionInheritsTemplates ==
    [][\A session \in hkOpen' \ hkOpen, t \in DOMAIN hkRecords :
          hkRecords[t].state = "pending" /\ Callable(hkRecords[t].request)
          => \E copy \in DOMAIN hkRecords' : /\ hkRecords'[copy].parent = t
                                             /\ hkRecords'[copy].session = session
                                             /\ hkRecords'[copy].state = "active"]_hkVars

(* However registrations, sessions and dispatches overlap, hooks are       *)
(* copied once, used once and aggregated by their precedence.              *)
HookSafe ==
    /\ HkTypeOK
    /\ TemplatesAreCopiedOnce
    /\ OnceIsBounded
    /\ HighestSourceWins
    /\ VetoStands
=============================================================================
