------------------------------- MODULE Mailbox -------------------------------
(***************************************************************************)
(* The file-backed mailbox of one teammate (teammate_orchestration/        *)
(* mailbox.py), one action per file operation.  Clients publish messages   *)
(* from their own threads or processes; workers are processes that recover *)
(* stale claims once when they start, then claim, work, heartbeat, and     *)
(* complete or retry what they claimed.  Any of them may crash between two *)
(* file operations and leaves its files behind.                            *)
(*                                                                         *)
(* A write that goes through a temporary file of its own and a rename is   *)
(* one step, together with the test that found the file's path.  A claim   *)
(* has no live run or permission wait linked to it; the delay before a     *)
(* retry is not modelled.                                                  *)
(***************************************************************************)
EXTENDS Integers, FiniteSets

CONSTANTS
  Messages,    \* message ids; each has one client that publishes it
  Workers,     \* processes that serve the mailbox
  RetryMax,    \* retry_max_attempts
  MaxFiles,    \* bound on the envelope files ever created
  MaxCrashes,  \* bound on the crashes
  Stalls       \* a lease may end while its worker is still working

ASSUME MailboxAssumption ==
  /\ Messages # {}
  /\ Messages \cap Workers = {}
  /\ RetryMax \in Nat \ {0}
  /\ MaxFiles \in Nat \ {0}
  /\ MaxCrashes \in Nat
  /\ Stalls \in BOOLEAN

Files == 1..MaxFiles
Procs == Messages \cup Workers

VARIABLES
  file,     \* the envelope files: directory, message, attempt and what was last written
  expired,  \* the claims whose lease has run out
  proc,     \* per client and worker: where it is, and the file and envelope it holds
  crashes,  \* number of crashes so far
  torn      \* history: a claim read an envelope that was not completely written

vars == <<file, expired, proc, crashes, torn>>

\* A file keeps its identity while it is renamed from directory to directory: temp is a
\* .tmp- name inside the inbox.  partial: still being written; ready: as published;
\* claimed: with the claim's data; done, failed, retry: with a terminal state.
Dirs == {"none", "temp", "inbox", "claimed", "done", "failed", "retry"}
Contents == {"partial", "ready", "claimed", "done", "failed", "retry"}
Terminal == {"done", "failed", "retry"}

\* Every variable has its type; in particular no attempt is beyond the ceiling.
TypeOK ==
  /\ file \in [Files -> [dir : Dirs, msg : Messages, attempt : 1..RetryMax,
                         content : Contents]]
  /\ expired \subseteq Files
  /\ proc \in [Procs -> [pc : {"new", "recovering", "idle", "listed", "read", "renamed", "working",
                               "archiving", "moving", "requeue", "writing", "written", "gone"},
                         f : Files, msg : Messages, attempt : 1..RetryMax,
                         verdict : Terminal, from : {"temp", "inbox"},
                         recovery : BOOLEAN, todo : SUBSET Files, names : SUBSET Messages]]
  /\ crashes \in 0..MaxCrashes
  /\ torn \in BOOLEAN

AnyMessage == CHOOSE m \in Messages : TRUE
NoFile == [dir |-> "none", msg |-> AnyMessage, attempt |-> 1, content |-> "ready"]
At(pc) == [pc |-> pc, f |-> 1, msg |-> AnyMessage, attempt |-> 1, verdict |-> "done",
           from |-> "inbox", recovery |-> FALSE, todo |-> {}, names |-> {}]

Init ==
  /\ file = [f \in Files |-> NoFile]
  /\ expired = {}
  /\ proc = [p \in Procs |-> IF p \in Workers THEN At("new")
                             ELSE [At("requeue") EXCEPT !.msg = p]]
  /\ crashes = 0
  /\ torn = FALSE

\* A mailbox call returns: to the client, to the recovery or to the worker's loop.  One
\* that raises ends the recovery, which the worker will run again.
Return(p) ==
  proc' = [proc EXCEPT ![p] =
    IF p \in Messages THEN At("gone")
    ELSE IF @.recovery THEN [At("recovering") EXCEPT !.recovery = TRUE, !.todo = proc[p].todo]
    ELSE At("idle")]
Raise(p) ==
  proc' = [proc EXCEPT ![p] =
    At(IF p \in Messages THEN "gone" ELSE IF @.recovery THEN "new" ELSE "idle")]

----
\* publish: by a client, or by a worker that requeues the next attempt.

\* The temporary file is opened in the inbox.
OpenTemp(p) ==
  \E f \in Files :
    /\ proc[p].pc = "requeue"
    /\ \A g \in Files : file[g].dir = "none" <=> g >= f
    /\ file' = [file EXCEPT ![f] = [dir |-> "temp", msg |-> proc[p].msg,
                                    attempt |-> proc[p].attempt, content |-> "partial"]]
    /\ proc' = [proc EXCEPT ![p].pc = "writing", ![p].f = f]
    /\ UNCHANGED <<expired, crashes, torn>>

FinishTemp(p) ==
  /\ proc[p].pc = "writing"
  /\ file' = [file EXCEPT ![proc[p].f].content = "ready"]
  /\ proc' = [proc EXCEPT ![p].pc = "written"]
  /\ UNCHANGED <<expired, crashes, torn>>

\* The temporary file is renamed to <message>.json.  It stays when that name exists
\* (FileExistsError), and may have been claimed under its own name (FileNotFoundError).
RenameTemp(p) ==
  LET f == proc[p].f
      exists == \E g \in Files : file[g].dir = "inbox" /\ file[g].msg = proc[p].msg
  IN  /\ proc[p].pc = "written"
      /\ IF ~exists /\ file[f].dir = "temp"
         THEN file' = [file EXCEPT ![f].dir = "inbox"] /\ Return(p)
         ELSE UNCHANGED file /\ Raise(p)
      /\ UNCHANGED <<expired, crashes, torn>>

----
\* claim_next

\* The published envelope with a message's name; another attempt may take over the name.
InInbox(m) == {g \in Files : file[g].dir = "inbox" /\ file[g].msg = m}

\* glob("*.json") lists the messages in the inbox and the temporary files beside them.
ClaimList(w) ==
  LET temps == {f \in Files : file[f].dir = "temp"}
      names == {m \in Messages : InInbox(m) # {}}
  IN  /\ proc[w].pc = "idle"
      /\ temps # {} \/ names # {}
      /\ proc' = [proc EXCEPT ![w] = [At("listed") EXCEPT !.todo = temps, !.names = names]]
      /\ UNCHANGED <<file, expired, crashes, torn>>

\* The next listed name is read; one that is gone is skipped.  Temporary files sort first,
\* and one that is only half written raises out of claim_next.
ClaimRead(w) ==
  LET temps == proc[w].todo
      listed == [proc[w] EXCEPT !.pc = "read"]
  IN  /\ proc[w].pc = "listed"
      /\ \/ \E f \in temps :
              IF file[f].dir = "temp" /\ file[f].content = "partial"
              THEN torn' = TRUE /\ Raise(w)
              ELSE /\ proc' = [proc EXCEPT ![w] =
                        IF file[f].dir = "temp"
                        THEN [listed EXCEPT !.from = "temp", !.f = f, !.msg = file[f].msg,
                                !.attempt = file[f].attempt, !.todo = temps \ {f}]
                        ELSE [@ EXCEPT !.todo = temps \ {f}]]
                   /\ UNCHANGED torn
         \/ /\ temps = {}
            /\ \E m \in proc[w].names : \E g \in InInbox(m) :
                 proc' = [proc EXCEPT ![w] =
                   [listed EXCEPT !.from = "inbox", !.f = g, !.msg = m,
                      !.attempt = file[g].attempt, !.names = proc[w].names \ {m}]]
            /\ UNCHANGED torn
         \/ /\ temps = {}
            /\ \E m \in proc[w].names :
                 /\ InInbox(m) = {}
                 /\ proc' = [proc EXCEPT ![w].names = @ \ {m}]
            /\ UNCHANGED torn
      /\ UNCHANGED <<file, expired, crashes>>

\* Nothing listed could be claimed.
ClaimNone(w) ==
  /\ proc[w].pc = "listed"
  /\ proc[w].todo = {} /\ proc[w].names = {}
  /\ Return(w)
  /\ UNCHANGED <<file, expired, crashes, torn>>

\* What the name that was read stands for when it is renamed.
ClaimSource(w) ==
  IF proc[w].from = "inbox" THEN InInbox(proc[w].msg)
  ELSE {proc[w].f} \cap {f \in Files : file[f].dir = "temp"}

\* The rename decides who has the claim; a name that is gone is skipped.
\* (Mutation: a name that is gone counts as claimed.)
ClaimRenameAnyway(w) ==
  /\ proc[w].pc = "read"
  /\ \/ \E g \in ClaimSource(w) :
          /\ file' = [file EXCEPT ![g].dir = "claimed"]
          /\ proc' = [proc EXCEPT ![w].pc = "renamed", ![w].f = g]
     \/ /\ ClaimSource(w) = {}
        /\ proc' = [proc EXCEPT ![w].pc = "renamed"]
        /\ UNCHANGED file
  /\ UNCHANGED <<expired, crashes, torn>>
ClaimRename(w) ==
  /\ proc[w].pc = "read"
  /\ \/ \E g \in ClaimSource(w) :
          /\ file' = [file EXCEPT ![g].dir = "claimed"]
          /\ proc' = [proc EXCEPT ![w].pc = "renamed", ![w].f = g]
     \/ /\ ClaimSource(w) = {}
        /\ proc' = [proc EXCEPT ![w].pc = "listed"]
        /\ UNCHANGED file
  /\ UNCHANGED <<expired, crashes, torn>>

\* The envelope that was read is written into the renamed file, with the claim's data
\* and a fresh lease.
ClaimWrite(w) ==
  /\ proc[w].pc = "renamed"
  /\ file' = [file EXCEPT ![proc[w].f].content = "claimed",
                          ![proc[w].f].attempt = proc[w].attempt]
  /\ proc' = [proc EXCEPT ![w].pc = "working", ![w].todo = {}, ![w].names = {}]
  /\ UNCHANGED <<expired, crashes, torn>>

----
\* Working on a claim, and the lease.

\* claim_path: the worker's own claim, or any other claim of the same message.
ClaimPath(w) ==
  IF file[proc[w].f].dir = "claimed" THEN {proc[w].f}
  ELSE {g \in Files : file[g].dir = "claimed" /\ file[g].msg = proc[w].msg}

\* The claim a worker has written and not yet archived; 0 for none.
Held(w) == IF proc[w].pc \in {"working", "archiving", "moving"} THEN proc[w].f ELSE 0

\* A heartbeat rewrites the claim it finds with a fresh lease.
Heartbeat(w) ==
  /\ proc[w].pc = "working"
  /\ \E g \in ClaimPath(w) : g \in expired /\ expired' = expired \ {g}
  /\ UNCHANGED <<file, proc, crashes, torn>>

\* The lease of a claim that has one runs out when nobody renews it in time.
LeaseExpires ==
  \E f \in Files :
    /\ file[f].dir = "claimed"
    /\ file[f].content = "claimed"
    /\ f \notin expired
    /\ Stalls \/ \A w \in Workers : f # Held(w)
    /\ expired' = expired \cup {f}
    /\ UNCHANGED <<file, proc, crashes, torn>>

\* fail_or_retry compares the attempt with the ceiling.
\* (Mutation: the ceiling is reached one attempt later.)
FailVerdictLate(attempt) == IF attempt > RetryMax THEN "failed" ELSE "retry"
FailVerdict(attempt) == IF attempt >= RetryMax THEN "failed" ELSE "retry"

\* The agent run ends, or raises.
Finish(w) ==
  /\ proc[w].pc = "working"
  /\ \E v \in {"done", FailVerdict(proc[w].attempt)} :
       proc' = [proc EXCEPT ![w].pc = "archiving", ![w].verdict = v]
  /\ UNCHANGED <<file, expired, crashes, torn>>

\* _move_claim_to_terminal: the terminal envelope is written over the claim, which is
\* then renamed; without a claim of the message the call raises.
ArchiveWrite(w) ==
  /\ proc[w].pc = "archiving"
  /\ \E g \in ClaimPath(w) :
       /\ file' = [file EXCEPT ![g].content = proc[w].verdict,
                               ![g].attempt = proc[w].attempt]
       /\ proc' = [proc EXCEPT ![w].pc = "moving", ![w].f = g]
  /\ UNCHANGED <<expired, crashes, torn>>

ArchiveRaises(w) ==
  /\ proc[w].pc = "archiving"
  /\ ClaimPath(w) = {}
  /\ Raise(w)
  /\ UNCHANGED <<file, expired, crashes, torn>>

\* The rename into done/, failed/ or retry/; a retried message is published again.
\* (Mutations: it is not published again; the attempt is not counted.)
ArchiveMoveForgets(w) ==
  LET f == proc[w].f
  IN  /\ proc[w].pc = "moving"
      /\ IF file[f].dir = "claimed"
         THEN file' = [file EXCEPT ![f].dir = proc[w].verdict] /\ Return(w)
         ELSE UNCHANGED file /\ Raise(w)
      /\ expired' = expired \ {f}
      /\ UNCHANGED <<crashes, torn>>
ArchiveMoveSameAttempt(w) ==
  LET f == proc[w].f
  IN  /\ proc[w].pc = "moving"
      /\ IF file[f].dir = "claimed"
         THEN /\ file' = [file EXCEPT ![f].dir = proc[w].verdict]
              /\ IF proc[w].verdict # "retry" THEN Return(w)
                 ELSE proc' = [proc EXCEPT ![w].pc = "requeue"]
         ELSE UNCHANGED file /\ Raise(w)
      /\ expired' = expired \ {f}
      /\ UNCHANGED <<crashes, torn>>
ArchiveMove(w) ==
  LET f == proc[w].f
  IN  /\ proc[w].pc = "moving"
      /\ IF file[f].dir = "claimed"
         THEN /\ file' = [file EXCEPT ![f].dir = proc[w].verdict]
              /\ IF proc[w].verdict # "retry" THEN Return(w)
                 ELSE proc' = [proc EXCEPT ![w].pc = "requeue", ![w].attempt = @ + 1]
         ELSE UNCHANGED file /\ Raise(w)
      /\ expired' = expired \ {f}
      /\ UNCHANGED <<crashes, torn>>

----
\* recover, once in the life of a process, before its first claim.

\* stale_claim: no terminal state, a lease that has run out.
Stale(f) ==
  /\ file[f].dir = "claimed"
  /\ file[f].content = "claimed"
  /\ f \in expired

\* The listing of recover, with the claims it will find stale.
\* (Mutation: the comparison with the lease is turned around.)
RecoverListLive(w) ==
  /\ proc[w].pc = "new"
  /\ proc' = [proc EXCEPT ![w] = [At("recovering") EXCEPT !.recovery = TRUE,
       !.todo = {f \in Files : file[f].dir = "claimed" /\ ~Stale(f)}]]
  /\ UNCHANGED <<file, expired, crashes, torn>>
RecoverList(w) ==
  /\ proc[w].pc = "new"
  /\ proc' = [proc EXCEPT ![w] = [At("recovering") EXCEPT !.recovery = TRUE,
                                    !.todo = {f \in Files : Stale(f)}]]
  /\ UNCHANGED <<file, expired, crashes, torn>>

\* Each listed stale claim is failed or retried.
RecoverNext(w) ==
  \E f \in proc[w].todo :
    /\ proc[w].pc = "recovering"
    /\ proc' = [proc EXCEPT ![w] = [proc[w] EXCEPT !.pc = "archiving", !.f = f,
                  !.msg = file[f].msg, !.attempt = file[f].attempt,
                  !.verdict = FailVerdict(file[f].attempt), !.todo = proc[w].todo \ {f}]]
    /\ UNCHANGED <<file, expired, crashes, torn>>

RecoverDone(w) ==
  /\ proc[w].pc = "recovering"
  /\ proc[w].todo = {}
  /\ proc' = [proc EXCEPT ![w] = At("idle")]
  /\ UNCHANGED <<file, expired, crashes, torn>>

\* A process dies and loses what it held in memory; workers are restarted.
Crash(p) ==
  /\ crashes < MaxCrashes
  /\ proc[p].pc # "gone"
  /\ crashes' = crashes + 1
  /\ proc' = [proc EXCEPT ![p] = At(IF p \in Workers THEN "new" ELSE "gone")]
  /\ UNCHANGED <<file, expired, torn>>

Publish(p) == OpenTemp(p) \/ FinishTemp(p) \/ RenameTemp(p)

WorkerStep(w) ==
  \/ ClaimList(w) \/ ClaimRead(w) \/ ClaimNone(w) \/ ClaimRename(w) \/ ClaimWrite(w)
  \/ Finish(w) \/ ArchiveWrite(w) \/ ArchiveRaises(w) \/ ArchiveMove(w)
  \/ RecoverList(w) \/ RecoverNext(w) \/ RecoverDone(w)

Next ==
  \/ \E p \in Procs : Publish(p) \/ Crash(p)
  \/ \E w \in Workers : WorkerStep(w) \/ Heartbeat(w)
  \/ LeaseExpires

Spec == Init /\ [][Next]_vars

\* Clients and workers run on, agent runs end, and leases that nobody renews run out.
FairSpec ==
  /\ Spec
  /\ \A p \in Procs : WF_vars(Publish(p))
  /\ \A w \in Workers : WF_vars(WorkerStep(w))
  /\ WF_vars(LeaseExpires)

----
\* Claims are exclusive: no two workers take the same published envelope, whatever
\* names it has had, who crashed and whose lease ran out.
ClaimsExclusive ==
  \A v, w \in Workers :
    /\ v # w
    /\ proc[v].pc \in {"renamed", "working"}
    /\ proc[w].pc \in {"renamed", "working"}
    => proc[v].f # proc[w].f

Created(m) == {f \in Files : file[f].dir # "none" /\ file[f].msg = m}

\* Every attempt of a message is published once, and once the message is done or failed
\* no other file can bring it back.
EachAttemptOnce ==
  \A m \in Messages : \A f, g \in Created(m) :
    f # g => /\ file[f].attempt # file[g].attempt
             /\ file[f].dir \in {"done", "failed"} => file[g].dir = "retry"

\* A message whose publication has been completed stays in the mailbox until it is done
\* or failed: some file other than an archived retry holds it, or a worker is about to
\* write one.
PublishedIsKept ==
  \A m \in Messages :
    Created(m) # {} /\ proc[m].pc = "gone" =>
      \/ \E f \in Created(m) : file[f].dir # "retry"
      \/ \E w \in Workers : proc[w].pc = "requeue" /\ proc[w].msg = m

Settled(m) == \E f \in Created(m) : file[f].dir \in {"done", "failed"}

\* Every message whose publication has begun is eventually done or failed.
MessageSettles == \A m \in Messages : Created(m) # {} ~> Settled(m)

\* A worker that survives its start fails or retries every claim whose lease was over
\* when it started.
StaleAtStartIsRetried ==
  \A f \in Files, w \in Workers :
    (crashes = MaxCrashes /\ proc[w].pc = "new" /\ Stale(f)) ~> file[f].dir # "claimed"
=============================================================================
