----------------------------- MODULE MCRecovery -----------------------------
(***************************************************************************)
(* The components that outlive a process, checked one at a time in one     *)
(* run: part says which of them a behaviour is about.                      *)
(***************************************************************************)
EXTENDS Mailbox, MemoryConsolidation

VARIABLE part

MCHome == [s \in McSessions |-> IF s = "s1" THEN "p1" ELSE "p2"]
MCTurns == [s \in McSessions |-> IF s = "s1" THEN 2 ELSE 1]

----
RcInit ==
    /\ part \in {"mailbox", "consolidation"}
    /\ Init /\ McInit

Only(which, action, others) == part = which /\ action /\ UNCHANGED <<part, others>>
Within(which, action) == part = which /\ action

RcNext ==
    \/ Only("mailbox", Next, mcVars)
    \/ Only("consolidation", McNext, vars)

RcSpec ==
    /\ RcInit /\ [][RcNext]_<<part, vars, mcVars>>
    /\ \A p \in Procs : WF_vars(Within("mailbox", Publish(p)))
    /\ \A w \in Workers : WF_vars(Within("mailbox", WorkerStep(w)))
    /\ WF_vars(Within("mailbox", LeaseExpires))
=============================================================================
