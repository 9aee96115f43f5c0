----------------------------- MODULE WebResearch -----------------------------
(***************************************************************************)
(* One web_research call of the web-research kit: the deterministic loop   *)
(* of queries, inspected pages and replanned queries, the loop that a      *)
(* model plans, the ledger both write, and the result made of it.          *)
(* A page stands for its url and its handle; what providers, pages and     *)
(* models answer is chosen by the steps.                                   *)
(***************************************************************************)
EXTENDS Naturals, FiniteSets

CONSTANTS Pages,         \* public pages
          Tier,          \* the source tier of each: "official", "media_report" or "general"
          WsRequests,    \* requests: strategy, hard (profile), required (freshness), plan (queries),
                         \* search, fetch, find, desired, turns, together (budget)
          Floor,         \* the budget to which a broad objective is raised
          MaxActions,    \* bound: actions a planner proposes in a turn
          WsResponses    \* what a synthesizer can answer: a set of claims, each with the page it
                         \* cites (a page or "unknown"), its key, whether it supports or denies

ASSUME WsAssumption ==
    /\ IsFiniteSet(Pages) /\ MaxActions \in Nat
    /\ WsRequests \subseteq
         [strategy : {"deterministic", "pro"}, hard : BOOLEAN, required : BOOLEAN, plan : Nat, search : Nat,
          fetch : Nat, find : Nat, desired : Nat, turns : Nat, together : Nat]
    /\ \A k \in {"search", "fetch", "find", "desired", "turns", "together"} : Floor[k] \in Nat

VARIABLE ws  \* the WebResearchLoopState, the position of the loop, and its result

Kinds == {"search", "fetch", "find"}
Budget == {"search", "fetch", "find", "desired", "turns", "together"}
MaxPasses == 4  \* _WEB_RESEARCH_MAX_REPLAN_PASSES
MaxInvalid == 3
Smaller(m, n) == IF m < n THEN m ELSE n
Larger(m, n) == IF m > n THEN m ELSE n
NoResult == [stop |-> "none", gaps |-> FALSE, conflict |-> FALSE, cites |-> {}]

WsInit == \E q \in WsRequests :
    ws = [request |-> q, stage |-> IF q.strategy = "pro" THEN "plan" ELSE "search",
          used |-> [k \in Kinds |-> 0], marks |-> {}, gaps |-> FALSE, fresh |-> {},
          sources |-> {}, evidence |-> {}, direct |-> {},
          queries |-> q.plan, passes |-> {}, low |-> FALSE, found |-> {}, chosen |-> {}, selected |-> {}, had |-> 0,
          turn |-> 0, raised |-> FALSE, intent |-> "none", left |-> 0, executed |-> FALSE, invalid |-> 0,
          claims |-> {}, repaired |-> FALSE, status |-> "none", result |-> NoResult]

----
(* The ledger                                                              *)
\* reserve
Reserved(r, kind) == r.used[kind] < r.request[kind]
Reserve(r, kind) ==
    IF Reserved(r, kind) THEN [r EXCEPT !.used[kind] = @ + 1] ELSE [r EXCEPT !.marks = @ \cup {"budget"}]

RecordFailure(r) == [r EXCEPT !.marks = @ \cup {"failure"}]
RecordRejection(r) == [r EXCEPT !.marks = @ \cup {"policy"}]
RecordGap(r) == [r EXCEPT !.gaps = TRUE]
RecordSearch(r, pages, outcome) == [r EXCEPT !.sources = @ \cup pages, !.fresh = @ \cup {outcome}]
RecordFetch(r, p) == [r EXCEPT !.sources = @ \cup {p}, !.evidence = @ \cup {<<p, "page">>}]
RecordFind(r, p) == [r EXCEPT !.sources = @ \cup {p}, !.evidence = @ \cup {<<p, "match">>}]
RecordSnippets(r, pages) == [r EXCEPT !.evidence = @ \cup {<<p, "snippet">> : p \in pages}]

\* _inspected_source_count_locked: evidence of any kind counts, once per source.
InspectedAll(r) == r.evidence                       \* Mutant: every piece of evidence counts.
Inspected(r) == {e[1] : e \in r.evidence}
PagesRead(r) == {e[1] : e \in {f \in r.evidence : f[2] = "page"}}

StaleSources(r) == r.request.required /\ ("enforced" \notin r.fresh \/ "fallback" \in r.fresh)

\* stop_reason, without evidence and with it.
StopReasonOfSources(r, child) ==                    \* Mutant: failures and refusals are forgotten.
    IF r.evidence = {} THEN "partial_result"
    ELSE IF Cardinality(Inspected(r)) < r.request.desired THEN "partial_result" ELSE "sufficient_evidence"

StopReason(r, child) ==
    IF r.evidence = {} THEN
        IF "policy" \in r.marks THEN "policy_blocked"
        ELSE IF "budget" \in r.marks THEN "budget_exhausted"
        ELSE IF r.request.required /\ "enforced" \notin r.fresh THEN "freshness_unsupported"
        ELSE IF "failure" \in r.marks \/ child \in {"none", "sufficient_evidence"} THEN "partial_result"
        ELSE child
    ELSE IF StaleSources(r) THEN "freshness_unsupported"
    ELSE IF r.marks \cap {"budget", "failure"} # {} \/ Cardinality(Inspected(r)) < r.request.desired
    THEN "partial_result"
    ELSE "sufficient_evidence"

----
(* The deterministic loop                                                  *)
\* _replan_pass_candidates and _next_replan_pass: the first family not used yet, and its queries.
Offers(r) ==
    (IF \E p \in r.sources : Tier[p] = "official" THEN {} ELSE {"official_confirmation"})
    \cup (IF \E p \in r.sources : Tier[p] = "media_report" THEN {} ELSE {"credible_reporting"})
    \cup {"wider_discovery"}
Replanned(r) ==
    LET new == Offers(r) \ r.passes
        family == IF "official_confirmation" \in new THEN "official_confirmation"
                  ELSE IF "credible_reporting" \in new THEN "credible_reporting" ELSE "wider_discovery" IN
    IF new = {} THEN r
    ELSE [r EXCEPT !.passes = @ \cup {family}, !.queries = @ + (IF family = "official_confirmation" THEN 1 ELSE 2)]

\* _evaluate_loop_progress
Decision(r) ==
    LET stop == StopReason(r, "none")
        pieces == Cardinality(r.evidence)
        says(reason, again) == [stop |-> reason, replan |-> again]
        more == Cardinality(r.passes) < MaxPasses /\ Reserved(r, "search") IN
    IF stop = "sufficient_evidence" THEN says(stop, FALSE)
    ELSE IF "policy" \in r.marks /\ pieces = 0 THEN says("policy_blocked", FALSE)
    ELSE IF "budget" \in r.marks
            \/ (~Reserved(r, "search") /\ ~Reserved(r, "fetch") /\ pieces < r.request.desired)
    THEN says("budget_exhausted", FALSE)
    ELSE IF stop = "freshness_unsupported" THEN says(stop, FALSE)
    ELSE IF "failure" \in r.marks /\ pieces > 0 THEN says("partial_result", FALSE)
    ELSE IF r.low THEN IF more THEN says("remaining_gaps", TRUE)
                       ELSE IF r.passes # {} /\ pieces > 0 THEN says("partial_result", FALSE)
                       ELSE says("remaining_gaps", FALSE)
    ELSE IF pieces < r.request.desired /\ more THEN says("remaining_gaps", TRUE)
    ELSE IF pieces > 0 THEN says("partial_result", FALSE) ELSE says("remaining_gaps", FALSE)

\* _loop_decision_is_terminal; what it says without pending queries ends a loop that has ended.
FinalStops == {"sufficient_evidence", "budget_exhausted", "policy_blocked", "freshness_unsupported"}

ContinuedAlways(r) == [Replanned(r) EXCEPT !.stage = "search"]  \* Mutant: only the queries end the loop.

Continued(r) ==
    IF Decision(r).replan THEN [Replanned(r) EXCEPT !.stage = "search"]
    ELSE [r EXCEPT !.stage = IF Decision(r).stop \in FinalStops THEN "project" ELSE "search"]

SearchFails ==
    /\ ws.stage = "search" /\ ws.queries > 0 /\ Reserved(ws, "search")
    /\ ws' = Continued([RecordGap(RecordFailure(Reserve(ws, "search")))
                            EXCEPT !.queries = @ - 1, !.low = TRUE])

\* _select_pages_for_inspection: selected pages come after all others, and one page of each domain.
Limit(r) ==
    LET fetches == r.request.fetch - r.used["fetch"]
        needed == Larger(IF r.request.desired > Cardinality(r.evidence)
                         THEN r.request.desired - Cardinality(r.evidence) ELSE 0, 1) IN
    Smaller(fetches, Smaller(needed, r.request.together))
Selections(r, pages) ==
    LET fresh == pages \ r.selected IN
    IF Limit(r) = 0 \/ pages = {} THEN {{}}
    ELSE IF fresh = {} THEN {{p} : p \in pages}
    ELSE {s \in SUBSET fresh : s # {} /\ Cardinality(s) <= Limit(r)}

Search ==
    /\ ws.stage = "search" /\ ws.queries > 0 /\ Reserved(ws, "search")
    /\ \E pages \in SUBSET Pages, outcome \in IF ws.request.required THEN {"enforced", "unsupported", "fallback"} ELSE {"none"} :
         LET searched == RecordSearch(Reserve(ws, "search"), pages, outcome) IN
         \E s \in Selections(ws, pages) :
             ws' = [searched EXCEPT !.stage = "inspect", !.queries = @ - 1, !.found = pages, !.chosen = s,
                        !.selected = @ \cup s, !.had = Cardinality(ws.evidence)]

\* web_fetch_tool of the next page: refused before the budget is touched, failed, or recorded.
Inspect ==
    /\ ws.stage = "inspect"
    /\ \E p \in ws.chosen :
         LET next == [ws EXCEPT !.chosen = @ \ {p}] IN
         ws' \in {RecordRejection(next), RecordFailure(Reserve(next, "fetch")),
                  RecordFetch(Reserve(next, "fetch"), p)}

\* The pages are done: snippets fill in, and the loop decides.
Evaluate ==
    /\ ws.stage = "inspect" /\ ws.chosen = {}
    /\ LET progress == Cardinality(ws.evidence) > ws.had
           short == Cardinality(ws.evidence) < ws.request.desired
           backfill == ~ws.request.hard /\ short /\ (~progress \/ ~Reserved(ws, "search"))
           snippets == IF backfill THEN ws.found \ Inspected(ws) ELSE {} IN
       \E s \in SUBSET snippets :
           ws' = Continued([RecordSnippets(ws, s) EXCEPT !.low = ~progress /\ s = {}, !.found = {}, !.had = 0])

\* The queries or the search budget have run out.
LoopEnds ==
    /\ ws.stage = "search" /\ (ws.queries = 0 \/ ~Reserved(ws, "search"))
    /\ ws' = [ws EXCEPT !.stage = "project"]

----
(* The loop that a model plans                                             *)
\* _scale_pro_budget_runtime: budgets only rise, once.
Raised(r) ==
    LET up == [k \in Budget |-> Larger(r.request[k], Floor[k])] IN
    IF r.raised THEN r
    ELSE [r EXCEPT !.request = [f \in DOMAIN @ |-> IF f \in Budget THEN up[f] ELSE @[f]],
                   !.raised = \E k \in Budget : up[k] > r.request[k]]

\* _pro_runtime_terminal_decision and _direct_url_only_evidence
OnlyDirect(r) == r.evidence # {} /\ r.direct # {} /\ Inspected(r) \subseteq r.direct
TerminalOfLedger(r) == StopReason(r, r.intent)  \* Mutant: direct urls may be all there is.
TerminalDecision(r) ==
    IF OnlyDirect(r) /\ r.request.desired > 1 THEN "remaining_gaps" ELSE StopReason(r, r.intent)

\* The loop is left with a decision; what it kept for itself is dropped.
Leave(r) ==
    [r EXCEPT !.stage = "synthesize", !.status = TerminalDecision(r),
              !.turn = 0, !.raised = FALSE, !.intent = "none", !.left = 0, !.executed = FALSE, !.invalid = 0]

PlanFails ==
    /\ ws.stage = "plan" /\ ws.turn < ws.request.turns
    /\ ws' = Leave(RecordGap(ws))

Plan ==
    /\ ws.stage = "plan" /\ ws.turn < ws.request.turns
    /\ \E broad \in BOOLEAN, gap \in BOOLEAN, n \in 0 .. MaxActions,
         intent \in {ws.intent, "sufficient_evidence", "partial_result"} :
         LET sized == IF broad THEN Raised(ws) ELSE ws
             told == IF gap THEN RecordGap(sized) ELSE sized IN
         ws' = [told EXCEPT !.stage = "act", !.left = n, !.intent = intent, !.executed = FALSE]

\* _execute_validated_planner_action
Accepted(r) == [r EXCEPT !.executed = TRUE, !.left = @ - 1]
Refused(r) == [RecordGap(r) EXCEPT !.invalid = Smaller(@ + 1, MaxInvalid), !.left = @ - 1]
Attempt(kind, record) ==
    ws' \in IF Reserved(ws, kind)
            THEN {Accepted(record), Refused(RecordFailure(Reserve(ws, kind)))}
            ELSE {Refused(Reserve(ws, kind))}

ActSearch ==
    \E pages \in SUBSET Pages, outcome \in IF ws.request.required THEN {"enforced", "unsupported", "fallback"} ELSE {"none"} :
        Attempt("search", RecordSearch(Reserve(ws, "search"), pages, outcome))
ActFetch == \E p \in ws.sources : Attempt("fetch", RecordFetch(Reserve(ws, "fetch"), p))
ActDirect == \E p \in Pages :
    Attempt("fetch", [RecordFetch(Reserve(ws, "fetch"), p) EXCEPT !.direct = @ \cup {p}])
ActFind == \E p \in PagesRead(ws), matches \in BOOLEAN :
    Attempt("find", IF matches THEN RecordFind(Reserve(ws, "find"), p) ELSE Reserve(ws, "find"))
ActRejected == ws' \in {Refused(ws), Refused(RecordRejection(ws))}
\* A stop action counts as one that was not executed, and leaves no gap.
ActStop == ws' = [ws EXCEPT !.invalid = Smaller(@ + 1, MaxInvalid), !.left = @ - 1]

Act ==
    /\ ws.stage = "act" /\ ws.left > 0
    /\ ActSearch \/ ActFetch \/ ActDirect \/ ActFind \/ ActRejected \/ ActStop

TurnEnds ==
    /\ ws.stage = "act" /\ ws.left = 0
    /\ LET enough == TerminalDecision(ws) = "sufficient_evidence"
           stops == enough \/ (ws.intent # "none" /\ ~ws.executed) \/ ws.invalid >= MaxInvalid IN
       ws' = IF ~stops THEN [ws EXCEPT !.stage = "plan", !.turn = @ + 1, !.executed = FALSE]
             ELSE Leave(IF ws.intent = "sufficient_evidence" /\ ~enough THEN RecordGap(ws) ELSE ws)

TurnsRunOut ==
    /\ ws.stage = "plan" /\ ws.turn >= ws.request.turns
    /\ ws' = Leave(ws)

\* _run_pro_synthesis: claims without evidence are rejected, with one attempt to repair them.
BoundTo(r, claims) == {c \in claims : c.page \in Inspected(r)}

SynthesisFails ==
    /\ ws.stage = "synthesize"
    /\ ws' = [RecordGap(ws) EXCEPT !.stage = "project"]

Synthesize ==
    /\ ws.stage = "synthesize"
    /\ \E claims \in WsResponses :
         ws' = [ws EXCEPT !.claims = claims,
                    !.stage = IF BoundTo(ws, claims) = claims /\ claims # {} THEN "verify" ELSE "repair"]

Repair ==
    /\ ws.stage = "repair"
    /\ \E claims \in {ws.claims} \cup WsResponses :
         ws' = [ws EXCEPT !.claims = claims, !.stage = "verify", !.repaired = TRUE]

\* _verify_answer_proof, of one answer unit for each claim: a unit is accepted when the verifier
\* finds it entailed and its claim is in the proof state.
AcceptedUnitsVerified(entailed) == entailed  \* Mutant: the references are not resolved.
AcceptedUnits(entailed) == entailed \cap BoundTo(ws, ws.claims)

Verify ==
    /\ ws.stage = "verify"
    /\ \E entailed \in SUBSET ws.claims, fails \in BOOLEAN :
         LET units == IF fails THEN {} ELSE AcceptedUnits(entailed)
             rejected == BoundTo(ws, ws.claims) # ws.claims
             dropped == ws.claims = {} \/ units # ws.claims
             next == [ws EXCEPT !.stage = "project", !.result.cites = units] IN
         ws' = IF rejected \/ dropped THEN RecordGap(next) ELSE next

----
(* The result                                                              *)
\* _detect_claim_conflicts: bound claims about one thing that support and deny it.
Conflicting(r) ==
    \E c, d \in BoundTo(r, r.claims) : c.key = d.key /\ c.supports /\ ~d.supports

\* refine_web_research_stop_reason
RefinedNot(r, stop, child) == stop  \* Mutant: what the loop says stands.
Refined(r, stop, child) ==
    IF child = "remaining_gaps" THEN child
    ELSE IF Conflicting(r) /\ stop \in {"sufficient_evidence", "partial_result"} THEN "unresolved_conflict"
    ELSE IF (r.gaps \/ StaleSources(r)) /\ stop = "sufficient_evidence" THEN "remaining_gaps" ELSE stop

\* _project_web_research_result, with the status that the loop returned.
Project ==
    /\ ws.stage = "project"
    /\ LET status == IF ws.request.strategy = "pro" THEN ws.status ELSE Decision(ws).stop
           stop == StopReason(ws, status) IN
       ws' = [ws EXCEPT !.stage = "done", !.status = status,
                  !.result = [stop |-> Refined(ws, stop, status), cites |-> ws.result.cites,
                              gaps |-> ws.gaps \/ stop # "sufficient_evidence", conflict |-> Conflicting(ws)]]

WsNext ==
    \/ SearchFails \/ Search \/ Inspect \/ Evaluate \/ LoopEnds
    \/ PlanFails \/ Plan \/ Act \/ TurnEnds \/ TurnsRunOut
    \/ SynthesisFails \/ Synthesize \/ Repair \/ Verify \/ Project

WsSpec == WsInit /\ [][WsNext]_ws

----
(* Properties                                                              *)
WsTypeOK ==
    /\ ws.used \in [Kinds -> Nat] /\ ws.marks \subseteq {"policy", "budget", "failure"}
    /\ ws.sources \subseteq Pages /\ ws.evidence \subseteq Pages \X {"page", "match", "snippet"}
    /\ ws.chosen \subseteq ws.selected /\ ws.selected \subseteq Pages /\ ws.direct \subseteq Pages
    /\ ws.invalid \in 0..MaxInvalid /\ ws.left \in 0..MaxActions

\* "sufficient_evidence", which callers read as high confidence, is earned: as many sources as were
\* asked for, fresh if they have to be, found by a search, and nothing failed, was refused for its
\* budget, missing or in conflict on the way.
SufficientIsEarned ==
    ws.stage = "done" /\ ws.result.stop = "sufficient_evidence" =>
        /\ Cardinality({e[1] : e \in ws.evidence}) >= ws.request.desired
        /\ ws.marks \subseteq {"policy"} /\ ~ws.result.gaps /\ ~ws.result.conflict
        /\ ~StaleSources(ws)
        /\ ws.request.desired > 1 => ~OnlyDirect(ws)

\* A loop that has what it was asked for does not search on.
EnoughIsEnough == ws.stage = "search" => StopReason(ws, "none") # "sufficient_evidence"

\* Neither loop, nor a budget raised on the way, spends more than the budget.
BudgetHolds == \A k \in Kinds : ws.used[k] <= ws.request[k]

\* What the answer cites was inspected, and the pages of the evidence are among the sources.
AnswerIsBacked ==
    /\ \A c \in ws.result.cites : c.page \in Inspected(ws)
    /\ Inspected(ws) \subseteq ws.sources

\* A profile that has to be strict takes no snippet for evidence.
StrictIsInspected == ws.request.hard => \A e \in ws.evidence : e[2] # "snippet"

ResearchSafe ==
    WsTypeOK /\ SufficientIsEarned /\ EnoughIsEnough /\ BudgetHolds /\ AnswerIsBacked /\ StrictIsInspected
=============================================================================
