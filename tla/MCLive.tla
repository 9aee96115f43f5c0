------------------------------- MODULE MCLive -------------------------------
(***************************************************************************)
(* Two components with liveness properties that share one run: part says   *)
(* which of them a behaviour is about.                                     *)
(***************************************************************************)
EXTENDS MCSessionController, TeamShutdown

VARIABLE part

MCRole == [c \in Responders |->
    IF c = "lead" THEN "leader" ELSE IF c = "app" THEN "host" ELSE "teammate"]

LvInit == part \in {"session", "team"} /\ Init /\ TmInit

LvNext ==
    /\ UNCHANGED part
    /\ \/ part = "session" /\ MCNext /\ UNCHANGED teamVars
       \/ part = "team" /\ TeamNext /\ UNCHANGED vars

Live(which, action) == part = which /\ action

LvSpec ==
    /\ LvInit /\ [][LvNext]_<<part, vars, teamVars>>
    /\ \A c \in Calls : WF_vars(Live("session", CallStep(c)))
    /\ \A k \in Closers : WF_vars(Live("session", CloseStep(k)))
    /\ WF_wfVars(Live("team", EmitRequest))
    /\ \A c \in Responders : WF_wfVars(Live("team", FinishRespond(c)))
    /\ WF_wfVars(Live("team", PassDeadline)) /\ WF_wfVars(Live("team", DeadlineFires))
    /\ WF_wfVars(Live("team", DeadlineEmits))
    /\ WF_wfVars(Live("team", Bridge))
    /\ WF_teamVars(Live("team", NextWorkItem))
    /\ \A p \in Parties : WF_teamVars(Live("team", Party(p)))
    /\ WF_teamVars(Live("team", RemoveMember))
=============================================================================
