---------------------------- MODULE ToolPipeline ----------------------------
(***************************************************************************)
(* What one tool call goes through (tool_resolution.py, tool_runtime.py,   *)
(* tool_lifecycle.py) and what it leaves behind: name, pool, schema,       *)
(* validator, PreToolUse hook, permission, execution, PostToolUse hook,    *)
(* and the updates of the shared context, which the orchestrator applies   *)
(* in the order of the calls when the batch is finalized.                  *)
(*                                                                         *)
(* Every await lets the other calls, the host and an interrupt in.  The    *)
(* tasks of a batch, their lanes and cascades are the subject of           *)
(* ToolCalls; here a call waits for the earlier ones it conflicts with.    *)
(* The compat scheduler (agent_runtime.py, skill_runtime.py) resolves and  *)
(* executes a call in one piece and applies no updates.                    *)
(***************************************************************************)
EXTENDS Naturals, Sequences, FiniteSets

CONSTANTS TpBatches  \* batches: how they are run, the calls, and the pool

ASSUME TpAssumption == \A batch \in TpBatches : Len(batch.calls) \in Nat

VARIABLES tpBatch,     \* the batch
          tpCall,      \* of each call: how far it is, its input and what it asked for
          tpPool,      \* the tools of the turn
          tpSeen,      \* the observation of each path in file_state
          tpTouched,   \* ghost: what was last done to each path
          tpHeard,     \* ghost: how often the host heard each notification
          tpPhase,     \* how far the batch is
          tpStopped,   \* request_interrupt was called
          tpApplied    \* how many calls' updates are applied

tpVars == <<tpBatch, tpCall, tpPool, tpSeen, tpTouched, tpHeard, tpPhase, tpStopped, tpApplied>>

\* Inputs are told apart by who wrote them last.
TpWriters == {"model", "validator", "hook", "check", "host"}
TpStatuses == {"none", "success", "error", "denied", "cancelled"}
TpStages == {"unseen", "validate", "hook", "check", "authorize", "queued", "execute", "post", "failing",
            "ended", "lost"}

TpCalls == 1 .. Len(tpBatch.calls)
TpPaths == UNION {tpBatch.calls[i].paths : i \in TpCalls}
Asked(i) == tpBatch.calls[i]
TpNew == [at |-> "unseen", input |-> "model", allowed |-> "none", ran |-> "none", status |-> "none",
          wants |-> {}, cancel |-> FALSE, late |-> FALSE]

TpInit ==
    /\ tpBatch \in TpBatches
    /\ tpCall = [i \in TpCalls |-> TpNew]
    /\ tpPool = tpBatch.pool
    /\ tpSeen = [p \in TpPaths |-> "none"] /\ tpTouched = [p \in TpPaths |-> "none"]
    /\ tpHeard = [i \in TpCalls |-> 0]
    /\ tpPhase = "open" /\ tpStopped = FALSE /\ tpApplied = 0

----
(* Resolution: resolve_tool_call, and the first half of execute_tool_call. *)

Put(i, at) == tpCall' = [tpCall EXCEPT ![i].at = at]
Ended(i, status) == tpCall' = [tpCall EXCEPT ![i].at = "ended", ![i].status = status]
TpRest == <<tpBatch, tpPool, tpSeen, tpTouched, tpHeard, tpPhase, tpStopped, tpApplied>>

Compat == tpBatch.by = "scheduler"

\* Mutant: any registered tool will do.
InPoolAny(tool) == TRUE

\* An empty pool restricts nothing.
InPool(tool) == tpPool = {} \/ tool \in tpPool

\* The input has what the schema requires, nothing else if that is closed, and no declared field of
\* another type. Only what the model sent is checked.
FitsSchema(schema, input) ==
    /\ schema.required \subseteq input.keys
    /\ schema.closed => input.keys \subseteq schema.properties
    /\ input.wrong \cap schema.properties = {}

\* What the name, the pool and the schema say, without an await.
NameVerdict(i) ==
    IF Asked(i).tool \notin tpBatch.registry THEN "error"
    ELSE IF ~InPool(Asked(i).tool) THEN "denied"
    ELSE IF ~FitsSchema(Asked(i).schema, Asked(i).given) THEN "error"
    ELSE "none"

\* The exclusive lane: a tool that is not concurrency_safe, or writes who knows where.
Exclusive(i) == Asked(i).alone \/ (~Asked(i).reads /\ Asked(i).paths = {})

\* Mutant: only exclusive calls wait.
ConflictsExclusive(i, j) == Exclusive(i) \/ Exclusive(j)

\* Calls that share a lane with i and come before it.
Conflicts(i, j) == Exclusive(i) \/ Exclusive(j) \/ Asked(i).paths \cap Asked(j).paths # {}
EarlierThan(i) == {j \in 1 .. (i - 1) : Conflicts(i, j)}

\* The orchestrator observes the calls one after another; the scheduler starts the read-only ones
\* that follow one another together.
Together(k) == Asked(k).reads /\ ~Asked(k).alone
MayObserve(i) ==
    /\ \A j \in 1 .. (i - 1) :
           IF Compat THEN tpCall[j].at \in {"ended", "lost"} \/ \A k \in j .. i : Together(k)
           ELSE tpCall[j].at \in {"queued", "execute", "post", "failing", "ended", "lost"}

ObserveCall(i) ==
    /\ tpPhase = "open" /\ tpCall[i].at = "unseen" /\ MayObserve(i)
    /\ IF NameVerdict(i) # "none" THEN Ended(i, NameVerdict(i)) ELSE Put(i, "validate")
    /\ UNCHANGED TpRest

\* A handler that raises: the compat call fails, the batch of the orchestrator is given up.
GivenUp(i) ==
    IF Compat
    THEN Put(i, "failing") /\ UNCHANGED TpRest
    ELSE Put(i, "lost") /\ tpPhase' = "broken" /\ UNCHANGED <<tpBatch, tpPool, tpSeen, tpTouched, tpHeard, tpStopped, tpApplied>>

Validate(i) ==
    /\ tpCall[i].at = "validate" /\ ~tpCall[i].cancel
    /\ CASE Asked(i).validator = "raises" -> GivenUp(i)
         [] Asked(i).validator = "rejects" -> Ended(i, "error") /\ UNCHANGED TpRest
         [] Asked(i).validator = "rewrites" ->
                tpCall' = [tpCall EXCEPT ![i].at = "hook", ![i].input = "validator"] /\ UNCHANGED TpRest
         [] OTHER -> Put(i, "hook") /\ UNCHANGED TpRest

\* The hook may veto or rewrite; what it rewrote is not validated again.
PreToolUse(i) ==
    /\ tpCall[i].at = "hook" /\ ~tpCall[i].cancel
    /\ CASE Asked(i).pre = "veto" -> Ended(i, "denied")
         [] Asked(i).pre = "rewrites" ->
                tpCall' = [tpCall EXCEPT ![i].at = "check", ![i].input = "hook"]
         [] OTHER -> tpCall' = [tpCall EXCEPT ![i].at = "check"]
    /\ UNCHANGED TpRest

\* The tool's own check; an empty rewrite is taken for none.
CheckPermissions(i) ==
    /\ tpCall[i].at = "check" /\ ~tpCall[i].cancel
    /\ IF Asked(i).check = "raises" THEN GivenUp(i)
       ELSE /\ tpCall' = [tpCall EXCEPT ![i].at = "authorize",
                                        ![i].input = IF Asked(i).check = "rewrites" THEN "check" ELSE @]
            /\ UNCHANGED TpRest

\* The permission service, or the handler of a context without services. What it allows is the
\* input it was asked about, or the one it answers with.
Authorize(i) ==
    /\ tpCall[i].at = "authorize" /\ ~tpCall[i].cancel
    /\ \/ Ended(i, "denied")
       \/ Ended(i, IF Compat THEN "denied" ELSE "cancelled")  \* left undecided
       \/ \E input \in {tpCall[i].input, "host"} :
              tpCall' = [tpCall EXCEPT ![i].at = IF Compat THEN "execute" ELSE "queued",
                                       ![i].input = input, ![i].allowed = input]
    /\ UNCHANGED TpRest

----
(* Execution: execute_resolved_tool_call, and the second half of            *)
(* execute_tool_call.                                                       *)

\* A call that waited starts, unless the turn was interrupted and its tool minds.
Start(i) ==
    /\ tpCall[i].at = "queued" /\ ~tpCall[i].cancel
    /\ \A j \in EarlierThan(i) : tpCall[j].at \in {"ended", "lost"}
    /\ IF tpStopped /\ Asked(i).cancels THEN Ended(i, "cancelled") 
       ELSE tpCall' = [tpCall EXCEPT ![i].at = "execute", ![i].late = tpStopped]
    /\ UNCHANGED TpRest

\* The kind of observation a successful call leaves.
ObservedBy(i) == IF Asked(i).reads THEN "read" ELSE "write"

\* Mutant: the input of the model is executed.
ExecutedInputRaw(i) == "model"

ExecutedInput(i) == tpCall[i].input

\* The executor does its work, says what it has to say and asks for a new pool.
Said(i) == (IF Asked(i).notes THEN {"tool"} ELSE {}) \cup (IF Asked(i).refresh THEN {"refresh"} ELSE {})

Execute(i) ==
    /\ tpCall[i].at = "execute" /\ ~tpCall[i].cancel
    /\ IF Asked(i).missing THEN Ended(i, "error") /\ UNCHANGED TpRest
       ELSE /\ tpCall' = [tpCall EXCEPT ![i].at = IF Asked(i).ends = "raises" THEN "failing" ELSE "post",
                                        ![i].ran = ExecutedInput(i), ![i].wants = @ \cup Said(i)]
            /\ tpTouched' = [p \in TpPaths |-> IF p \in Asked(i).paths THEN ObservedBy(i) ELSE tpTouched[p]]
            /\ UNCHANGED <<tpBatch, tpPool, tpSeen, tpHeard, tpPhase, tpStopped, tpApplied>>

\* A notification of a hook goes to the host at once and is recorded as an update as well.
PostNotes(i) ==
    IF Asked(i).post = "notes"
    THEN tpHeard' = [tpHeard EXCEPT ![i] = @ + 1] ELSE UNCHANGED tpHeard

ResultOf(i) ==
    IF Asked(i).post = "vetoes" THEN "denied"
    ELSE IF Asked(i).ends = "exits" /\ ~Compat THEN "error"
    ELSE "success"

PostToolUse(i) ==
    /\ tpCall[i].at = "post" /\ ~tpCall[i].cancel
    /\ IF Asked(i).post = "raises" THEN Put(i, "failing")
       ELSE tpCall' = [tpCall EXCEPT ![i].at = "ended", ![i].status = ResultOf(i),
                                     ![i].wants = IF Asked(i).post = "notes" THEN @ \cup {"hook"} ELSE @]
    /\ PostNotes(i)
    /\ UNCHANGED <<tpBatch, tpPool, tpSeen, tpTouched, tpPhase, tpStopped, tpApplied>>

\* except Exception: PostToolUseFailure is dispatched and the call is an error.
CallFails(i) == tpCall[i].at = "failing" /\ ~tpCall[i].cancel /\ Ended(i, "error") /\ UNCHANGED TpRest

\* interrupt(): the orchestrator cancels every task, the scheduler those whose tool minds. A task
\* of the scheduler that has not had its first step takes the whole run down.
Cancellable(i) ==
    IF Compat THEN tpCall[i].at \notin {"unseen", "ended", "lost"} /\ Asked(i).cancels
    ELSE tpCall[i].at \in {"queued", "execute", "post", "failing"}
NeverBegun == {i \in TpCalls : Compat /\ tpCall[i].at = "unseen" /\ MayObserve(i) /\ Together(i) /\ Asked(i).cancels}

Interrupt ==
    /\ tpPhase \in {"open", "broken"} /\ ~tpStopped /\ \A i \in TpCalls : ~tpCall[i].cancel
    /\ tpStopped' = ~Compat
    /\ tpCall' = [i \in TpCalls |->
                     IF Cancellable(i) THEN [tpCall[i] EXCEPT !.cancel = TRUE]
                     ELSE IF i \in NeverBegun THEN [tpCall[i] EXCEPT !.at = "lost"] ELSE tpCall[i]]
    /\ tpCall' # tpCall
    /\ tpPhase' = IF NeverBegun # {} THEN "broken" ELSE tpPhase
    /\ UNCHANGED <<tpBatch, tpPool, tpSeen, tpTouched, tpHeard, tpApplied>>

\* Mutant: the updates of a cancelled call are dropped.
KeptByNone(i) == {}

\* What a cancelled call has said so far is kept.
KeptBy(i) == tpCall[i].wants

\* The cancellation is delivered at the await the call is in. A call that had not begun leaves no
\* updates; one whose failure hook is interrupted is cancelled as a task.
Cancelled(i) ==
    /\ tpCall[i].cancel
    /\ tpCall' = [tpCall EXCEPT ![i].at = "ended", ![i].status = "cancelled", ![i].cancel = FALSE,
                                ![i].wants = IF tpCall[i].at \in {"queued", "failing"} THEN {} ELSE KeptBy(i)]
    /\ UNCHANGED TpRest

----
(* finalize: the updates, in the order of the calls. *)

AllEnded == \A i \in TpCalls : tpCall[i].at = "ended"

\* BEFORE_REPLAY: of each call what it recorded, then the observations. A recorded notification is
\* sent to the host, also that of a hook, which the host has heard already. A requested pool is
\* fetched from the host; when that raises, finalize ends there.
ToldAgain(i) == Cardinality(tpCall[i].wants \cap {"tool", "hook"})

ApplyUpdates ==
    /\ tpPhase = "open" /\ ~Compat /\ AllEnded /\ tpApplied < Len(tpBatch.calls)
    /\ LET i == tpApplied + 1
           asked == "refresh" \in tpCall[i].wants
       IN \E served \in IF asked THEN BOOLEAN ELSE {TRUE} :
              /\ tpHeard' = [tpHeard EXCEPT ![i] = @ + IF served THEN ToldAgain(i) ELSE Cardinality(tpCall[i].wants \cap {"tool"})]
              /\ tpPool' = IF asked /\ served THEN tpBatch.refreshed ELSE tpPool
              /\ tpSeen' = IF ~served \/ tpCall[i].status # "success" THEN tpSeen
                           ELSE [p \in TpPaths |-> IF p \in Asked(i).paths THEN ObservedBy(i) ELSE tpSeen[p]]
              /\ tpPhase' = IF served THEN "open" ELSE "broken"
              /\ tpApplied' = IF served THEN i ELSE tpApplied
    /\ UNCHANGED <<tpBatch, tpCall, tpTouched, tpStopped>>

\* The results are replayed in the order of the calls.
Replay ==
    /\ tpPhase = "open" /\ ~Compat /\ AllEnded /\ tpApplied = Len(tpBatch.calls)
    /\ tpPhase' = "closed"
    /\ UNCHANGED <<tpBatch, tpCall, tpPool, tpSeen, tpTouched, tpHeard, tpStopped, tpApplied>>

\* run() of the scheduler only collects the results.
Collect ==
    /\ tpPhase = "open" /\ Compat /\ AllEnded
    /\ tpPhase' = "closed"
    /\ UNCHANGED <<tpBatch, tpCall, tpPool, tpSeen, tpTouched, tpHeard, tpStopped, tpApplied>>

TpNext ==
    \/ \E i \in DOMAIN tpCall :
          \/ ObserveCall(i) \/ Validate(i) \/ PreToolUse(i) \/ CheckPermissions(i) \/ Authorize(i) \/ Start(i)
          \/ Execute(i) \/ PostToolUse(i) \/ CallFails(i) \/ Cancelled(i)
    \/ Interrupt \/ ApplyUpdates \/ Replay \/ Collect

TpSpec == TpInit /\ [][TpNext]_tpVars

----
TpTypeOK ==
    /\ tpBatch \in TpBatches /\ tpApplied \in 0 .. Len(tpBatch.calls) /\ tpStopped \in BOOLEAN
    /\ \A i \in TpCalls :
          /\ tpCall[i].at \in TpStages /\ tpCall[i].input \in TpWriters /\ tpCall[i].status \in TpStatuses
          /\ tpCall[i].at = "ended" <=> tpCall[i].status # "none"
    /\ tpPhase \in {"open", "broken", "closed"}

\* A tool runs on the input the permission service allowed, and it was in the pool the turn had when
\* the call was resolved (tool_resolution.py:83, 196; execute_resolved_tool_call).
RunsAsAllowed ==
    \A i \in TpCalls : tpCall[i].ran # "none" =>
        /\ tpCall[i].ran = tpCall[i].allowed
        /\ Asked(i).tool \in tpBatch.registry /\ (tpBatch.pool = {} \/ Asked(i).tool \in tpBatch.pool)

\* Once a batch is replayed, file_state says of each path what was last done to it, though calls
\* ended in another order than they are replayed in; unless the last one to touch it did its work
\* and is not a success all the same (cancelled, vetoed or failed after the fact).
ObservationsAgree ==
    tpPhase = "closed" /\ ~Compat =>
        \A p \in TpPaths :
            \/ tpSeen[p] = tpTouched[p]
            \/ \E i \in TpCalls : p \in Asked(i).paths /\ tpCall[i].ran # "none" /\ tpCall[i].status # "success"

\* The host hears what a tool said exactly once, cancelled or not, and what a PostToolUse hook said
\* twice (_emit_hook_notifications records what it has just sent); only a call whose failure hook
\* was interrupted goes unheard (tool_orchestration.py:250, 499).
SaidIsHeard ==
    tpPhase = "closed" /\ ~Compat =>
        \A i \in TpCalls :
            \/ tpCall[i].status = "cancelled" /\ (Asked(i).ends = "raises" \/ Asked(i).post = "raises")
            \/ tpHeard[i] = (IF tpCall[i].ran # "none" /\ Asked(i).notes THEN 1 ELSE 0)
                             + (IF "hook" \in tpCall[i].wants THEN 2 ELSE 0)

\* A tool that minds interrupts and had not begun when the turn was interrupted does nothing
\* (tool_runtime.py:977).
NothingAfterInterrupt == \A i \in TpCalls : tpCall[i].late => ~Asked(i).cancels

\* What the tool pipeline promises.
PipelineSafe == TpTypeOK /\ RunsAsAllowed /\ ObservationsAgree /\ SaidIsHeard /\ NothingAfterInterrupt
=============================================================================
