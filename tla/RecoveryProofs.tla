------------------------- MODULE RecoveryProofs -------------------------
(***************************************************************************)
(* Proofs about what processes share through files.  Mailbox, for any      *)
(* messages, workers, retry ceiling and number of crashes, and whether or  *)
(* not leases end early: its types, the exclusiveness of claims, that what *)
(* was published is kept until a process dies, and that one process        *)
(* publishes an attempt once.  MemoryConsolidation, for any processes,     *)
(* sessions, turns, ticks and crashes: ConsolidationSafe, from what the    *)
(* thread of a process knows at each step, whose the lock file is, and     *)
(* what a run has read of a session.                                       *)
(***************************************************************************)
EXTENDS Mailbox, MemoryConsolidation, TLAPS

\* A claim that is being retried has attempts left, so the next one is within the
\* ceiling.
RetryHasAttempts ==
  \A p \in Procs :
    proc[p].pc \in {"archiving", "moving"} /\ proc[p].verdict = "retry"
      => proc[p].attempt < RetryMax

\* What a worker has claimed has left the inbox, and no file ever goes back there.
ClaimLeftInbox ==
  \A w \in Workers :
    proc[w].pc \in {"renamed", "working"} => file[proc[w].f].dir \in {"claimed"} \cup Terminal

IndInv == TypeOK /\ RetryHasAttempts /\ ClaimLeftInbox /\ ClaimsExclusive

\* CHOOSE picks one of the messages.
LEMMA AnyMessageType == AnyMessage \in Messages
  BY MailboxAssumption DEF AnyMessage

\* The constants in the form the steps below use them.
LEMMA Constants ==
  /\ RetryMax \in Nat /\ RetryMax >= 1
  /\ MaxFiles \in Nat /\ MaxFiles >= 1
  /\ MaxCrashes \in Nat
  /\ 1 \in Files
  /\ 1 \in 1..RetryMax
  BY MailboxAssumption DEF Files

\* The set of states of a process.
ProcStates ==
  [pc : {"new", "recovering", "idle", "listed", "read", "renamed", "working",
         "archiving", "moving", "requeue", "writing", "written", "gone"},
   f : Files, msg : Messages, attempt : 1..RetryMax,
   verdict : Terminal, from : {"temp", "inbox"},
   recovery : BOOLEAN, todo : SUBSET Files, names : SUBSET Messages]

FileStates == [dir : Dirs, msg : Messages, attempt : 1..RetryMax, content : Contents]

\* A process that holds nothing is well typed.
LEMMA AtType ==
  ASSUME NEW pc \in {"new", "recovering", "idle", "listed", "read", "renamed", "working",
                     "archiving", "moving", "requeue", "writing", "written", "gone"}
  PROVE  At(pc) \in ProcStates
  BY AnyMessageType, Constants DEF At, ProcStates, Terminal

\* The three parts of the invariant that speak of processes and files, when one
\* process p changes and files change so that none goes back to the inbox.
LEMMA ProcStep ==
  ASSUME IndInv, NEW p \in Procs, NEW q \in ProcStates,
         proc' = [proc EXCEPT ![p] = q],
         file' \in [Files -> FileStates],
         expired' \subseteq Files, crashes' \in 0..MaxCrashes, torn' \in BOOLEAN,
         \A f \in Files : file[f].dir \in {"claimed"} \cup Terminal
                            => file'[f].dir \in {"claimed"} \cup Terminal,
         q.pc \in {"archiving", "moving"} /\ q.verdict = "retry" => q.attempt < RetryMax,
         q.pc \in {"renamed", "working"} =>
           /\ file'[q.f].dir \in {"claimed"} \cup Terminal
           /\ \/ proc[p].pc \in {"renamed", "working"} /\ proc[p].f = q.f
              \/ file[q.f].dir \in {"temp", "inbox"}
  PROVE  IndInv'
<1> USE DEF IndInv
<1>1. proc \in [Procs -> ProcStates] /\ file \in [Files -> FileStates]
  BY DEF TypeOK, ProcStates, FileStates
<1>2. proc' \in [Procs -> ProcStates]
  BY <1>1
<1>3. TypeOK'
  BY <1>2 DEF TypeOK, ProcStates, FileStates
<1>4. \A r \in Procs : r # p => proc'[r] = proc[r]
  BY <1>1
<1>5. proc'[p] = q
  BY <1>1
<1>6. RetryHasAttempts'
  BY <1>4, <1>5 DEF RetryHasAttempts
<1>7. \A r \in Procs : proc[r].f \in Files
  BY <1>1 DEF ProcStates
<1>8. ClaimLeftInbox'
  BY <1>4, <1>5, <1>7 DEF ClaimLeftInbox, Procs
<1>9. ASSUME NEW v \in Workers, NEW w \in Workers, v # w,
             proc'[v].pc \in {"renamed", "working"}, proc'[w].pc \in {"renamed", "working"}
      PROVE  proc'[v].f # proc'[w].f
  <2>1. CASE v # p /\ w # p
    BY <1>4, <1>9, <2>1 DEF ClaimsExclusive, Procs
  <2>2. CASE v = p
    <3>1. proc'[w] = proc[w] /\ proc'[v] = q
      BY <1>4, <1>5, <1>9, <2>2 DEF Procs
    <3>2. file[proc[w].f].dir \in {"claimed"} \cup Terminal
      BY <3>1, <1>9 DEF ClaimLeftInbox
    <3>3. CASE file[q.f].dir \in {"temp", "inbox"}
      BY <3>1, <3>2, <3>3 DEF Terminal
    <3>4. CASE proc[p].pc \in {"renamed", "working"} /\ proc[p].f = q.f
      BY <3>1, <3>4, <2>2, <1>9 DEF ClaimsExclusive
    <3> QED BY <3>1, <3>3, <3>4, <1>9
  <2>3. CASE w = p
    <3>1. proc'[v] = proc[v] /\ proc'[w] = q
      BY <1>4, <1>5, <1>9, <2>3 DEF Procs
    <3>2. file[proc[v].f].dir \in {"claimed"} \cup Terminal
      BY <3>1, <1>9 DEF ClaimLeftInbox
    <3>3. CASE file[q.f].dir \in {"temp", "inbox"}
      BY <3>1, <3>2, <3>3 DEF Terminal
    <3>4. CASE proc[p].pc \in {"renamed", "working"} /\ proc[p].f = q.f
      BY <3>1, <3>4, <2>3, <1>9 DEF ClaimsExclusive
    <3> QED BY <3>1, <3>3, <3>4, <1>9
  <2> QED BY <2>1, <2>2, <2>3
<1>10. ClaimsExclusive'
  BY <1>9 DEF ClaimsExclusive
<1> QED BY <1>3, <1>6, <1>8, <1>10
\* A call that returns or raises leaves the process with no claim.
LEMMA ReturnStep ==
  ASSUME IndInv, NEW p \in Procs, Return(p) \/ Raise(p)
  PROVE  \E q \in ProcStates :
           /\ proc' = [proc EXCEPT ![p] = q]
           /\ q.pc \in {"gone", "new", "recovering", "idle"}
<1>1. proc \in [Procs -> ProcStates]
  BY DEF IndInv, TypeOK, ProcStates
<1>2. proc[p].todo \subseteq Files
  BY <1>1 DEF ProcStates
<1> DEFINE rec == [At("recovering") EXCEPT !.recovery = TRUE, !.todo = proc[p].todo]
<1>3. At("gone") \in ProcStates /\ At("new") \in ProcStates /\ At("idle") \in ProcStates
      /\ At("recovering") \in ProcStates
  BY AtType
<1>4. rec \in ProcStates /\ rec.pc = "recovering"
  BY <1>2, <1>3 DEF ProcStates, At
<1>5. At("gone").pc = "gone" /\ At("new").pc = "new" /\ At("idle").pc = "idle"
  BY DEF At
<1>6. \/ proc' = [proc EXCEPT ![p] = At("gone")]
      \/ proc' = [proc EXCEPT ![p] = rec]
      \/ proc' = [proc EXCEPT ![p] = At("idle")]
      \/ proc' = [proc EXCEPT ![p] = At("new")]
  BY DEF Return, Raise
<1> HIDE DEF rec
<1> QED BY <1>3, <1>4, <1>5, <1>6

\* A step in which process p returns or raises, and no file goes back to the inbox.
LEMMA EndsStep ==
  ASSUME IndInv, NEW p \in Procs, Return(p) \/ Raise(p),
         file' \in [Files -> FileStates],
         expired' \subseteq Files, crashes' \in 0..MaxCrashes, torn' \in BOOLEAN,
         \A f \in Files : file[f].dir \in {"claimed"} \cup Terminal
                            => file'[f].dir \in {"claimed"} \cup Terminal
  PROVE  IndInv'
<1>1. PICK q \in ProcStates : /\ proc' = [proc EXCEPT ![p] = q]
                              /\ q.pc \in {"gone", "new", "recovering", "idle"}
  BY ReturnStep
<1> QED BY <1>1, ProcStep

\* The initial state.
LEMMA InitIndInv == Init => IndInv
<1> SUFFICES ASSUME Init PROVE IndInv
  OBVIOUS
<1>1. file \in [Files -> FileStates]
  BY AnyMessageType, Constants DEF Init, NoFile, FileStates, Dirs, Contents
<1>2. \A w \in Workers : proc[w] = At("new")
  BY DEF Init, Procs
<1>3. \A m \in Messages : proc[m] = [At("requeue") EXCEPT !.msg = m]
  BY MailboxAssumption DEF Init, Procs
<1>4. \A m \in Messages : proc[m] \in ProcStates
  <2> SUFFICES ASSUME NEW m \in Messages PROVE proc[m] \in ProcStates
    OBVIOUS
  <2>1. At("requeue") \in ProcStates
    BY AtType
  <2>2. [At("requeue") EXCEPT !.msg = m] \in ProcStates
    BY <2>1 DEF ProcStates
  <2> QED BY <2>2, <1>3
<1>5. \A w \in Workers : proc[w] \in ProcStates
  BY <1>2, AtType
<1>6. proc \in [Procs -> ProcStates]
  <2>1. proc = [p \in Procs |-> proc[p]]
    BY DEF Init
  <2>2. \A p \in Procs : proc[p] \in ProcStates
    BY <1>4, <1>5 DEF Procs
  <2> QED BY <2>1, <2>2
<1>7. \A p \in Procs : proc[p].pc \in {"new", "requeue"}
  <2>1. At("new").pc = "new" /\ \A m \in Messages : [At("requeue") EXCEPT !.msg = m].pc = "requeue"
    BY DEF At
  <2> QED BY <1>2, <1>3, <2>1 DEF Procs
<1>8. TypeOK
  <2>1. expired \subseteq Files /\ torn \in BOOLEAN
    BY DEF Init
  <2>2. crashes = 0
    BY DEF Init
  <2>3. crashes \in 0..MaxCrashes
    BY <2>2, Constants
  <2> QED BY <1>1, <1>6, <2>1, <2>3 DEF TypeOK, ProcStates, FileStates
<1> QED BY <1>7, <1>8 DEF IndInv, RetryHasAttempts, ClaimLeftInbox, ClaimsExclusive, Procs

\* Every step keeps the invariant.
LEMMA NextIndInv == IndInv /\ [Next]_vars => IndInv'
<1> SUFFICES ASSUME IndInv, [Next]_vars PROVE IndInv'
  OBVIOUS
<1>t. /\ proc \in [Procs -> ProcStates] /\ file \in [Files -> FileStates]
      /\ expired \subseteq Files /\ crashes \in 0..MaxCrashes /\ torn \in BOOLEAN
  BY DEF IndInv, TypeOK, ProcStates, FileStates
<1>w. Workers \subseteq Procs
  BY DEF Procs
<1>r. ASSUME NEW a \in 1..RetryMax
      PROVE  FailVerdict(a) \in Terminal /\ (FailVerdict(a) = "retry" => a < RetryMax)
  BY Constants, <1>r DEF FailVerdict, Terminal
<1>1. ASSUME NEW p \in Procs, OpenTemp(p) PROVE IndInv'
  <2>1. PICK f \in Files :
          /\ proc[p].pc = "requeue"
          /\ \A g \in Files : file[g].dir = "none" <=> g >= f
          /\ file' = [file EXCEPT ![f] = [dir |-> "temp", msg |-> proc[p].msg,
                                    attempt |-> proc[p].attempt, content |-> "partial"]]
          /\ proc' = [proc EXCEPT ![p].pc = "writing", ![p].f = f]
          /\ UNCHANGED <<expired, crashes, torn>>
    BY <1>1 DEF OpenTemp
  <2>5. file[f].dir = "none"
    BY <2>1 DEF Files
  <2> DEFINE q == [proc[p] EXCEPT !.pc = "writing", !.f = f]
  <2>2. q \in ProcStates /\ q.pc = "writing" /\ proc' = [proc EXCEPT ![p] = q]
    BY <1>t, <2>1 DEF ProcStates
  <2>3. file' \in [Files -> FileStates]
    BY <1>t, <2>1 DEF ProcStates, FileStates, Dirs, Contents
  <2>4. \A g \in Files : file[g].dir \in {"claimed"} \cup Terminal => file'[g] = file[g]
    BY <1>t, <2>1, <2>5 DEF Terminal
  <2> HIDE DEF q
  <2> QED BY <1>t, <2>1, <2>2, <2>3, <2>4, ProcStep
<1>2. ASSUME NEW p \in Procs, FinishTemp(p) PROVE IndInv'
  <2> DEFINE q == [proc[p] EXCEPT !.pc = "written"]
  <2>2. q \in ProcStates /\ q.pc = "written" /\ proc' = [proc EXCEPT ![p] = q]
    BY <1>t, <1>2, ZenonT(60) DEF ProcStates, FinishTemp
  <2>3. file' \in [Files -> FileStates] /\ \A g \in Files : file'[g].dir = file[g].dir
    BY <1>t, <1>2 DEF FinishTemp, FileStates, Contents
  <2> HIDE DEF q
  <2> QED BY <1>t, <1>2, <2>2, <2>3, ProcStep DEF FinishTemp
<1>3. ASSUME NEW p \in Procs, RenameTemp(p) PROVE IndInv'
  <2>1. file' = file \/ (file[proc[p].f].dir = "temp" /\ file' = [file EXCEPT ![proc[p].f].dir = "inbox"])
    BY <1>3 DEF RenameTemp
  <2>2. file' \in [Files -> FileStates]
    BY <1>t, <2>1 DEF FileStates, Dirs
  <2>3. \A g \in Files : file[g].dir \in {"claimed"} \cup Terminal => file'[g] = file[g]
    BY <1>t, <2>1 DEF Terminal
  <2>4. Return(p) \/ Raise(p)
    BY <1>3 DEF RenameTemp
  <2> QED BY <1>t, <1>3, <2>2, <2>3, <2>4, EndsStep DEF RenameTemp
<1>4. ASSUME NEW w \in Workers, ClaimRead(w) PROVE IndInv'
  <2>1. /\ torn' \in BOOLEAN
        /\ UNCHANGED <<file, expired, crashes>>
    BY <1>4, <1>t DEF ClaimRead
  <2>2. CASE Return(w) \/ Raise(w)
    BY <1>t, <1>w, <2>1, <2>2, EndsStep
  <2>4. ASSUME NEW f \in proc[w].todo, file[f].dir = "temp",
               proc' = [proc EXCEPT ![w] = [[proc[w] EXCEPT !.pc = "read"] EXCEPT !.from = "temp",
                  !.f = f, !.msg = file[f].msg, !.attempt = file[f].attempt,
                  !.todo = proc[w].todo \ {f}]]
        PROVE  IndInv'
    <3> DEFINE q == [[proc[w] EXCEPT !.pc = "read"] EXCEPT !.from = "temp",
                  !.f = f, !.msg = file[f].msg, !.attempt = file[f].attempt,
                  !.todo = proc[w].todo \ {f}]
    <3>1. proc[w] \in ProcStates
      BY <1>t, <1>w
    <3>2. f \in Files /\ proc[w].todo \ {f} \in SUBSET Files
      BY <3>1 DEF ProcStates
    <3>3. file[f].msg \in Messages /\ file[f].attempt \in 1..RetryMax
      BY <1>t, <3>2 DEF FileStates
    <3>4. q \in ProcStates /\ q.pc = "read"
      BY <3>1, <3>2, <3>3 DEF ProcStates
    <3> HIDE DEF q
    <3>5. proc' = [proc EXCEPT ![w] = q]
      BY <2>4 DEF q
    <3> QED BY <1>t, <1>w, <2>1, <3>4, <3>5, ProcStep
  <2>5. ASSUME NEW f \in proc[w].todo, proc[w].pc = "listed",
               proc' = [proc EXCEPT ![w] = [proc[w] EXCEPT !.todo = proc[w].todo \ {f}]]
        PROVE  IndInv'
    <3> DEFINE q == [proc[w] EXCEPT !.todo = proc[w].todo \ {f}]
    <3>1. q \in ProcStates /\ q.pc = "listed"
      BY <1>t, <1>w, <2>5 DEF ProcStates
    <3> HIDE DEF q
    <3>2. proc' = [proc EXCEPT ![w] = q]
      BY <2>5 DEF q
    <3> QED BY <1>t, <1>w, <2>1, <3>1, <3>2, ProcStep
  <2>6. ASSUME NEW m \in proc[w].names, NEW g \in InInbox(m),
               proc' = [proc EXCEPT ![w] = [[proc[w] EXCEPT !.pc = "read"] EXCEPT !.from = "inbox",
                  !.f = g, !.msg = m, !.attempt = file[g].attempt,
                  !.names = proc[w].names \ {m}]]
        PROVE  IndInv'
    <3> DEFINE q == [[proc[w] EXCEPT !.pc = "read"] EXCEPT !.from = "inbox",
                  !.f = g, !.msg = m, !.attempt = file[g].attempt,
                  !.names = proc[w].names \ {m}]
    <3>1. proc[w] \in ProcStates
      BY <1>t, <1>w
    <3>2. m \in Messages /\ proc[w].names \ {m} \in SUBSET Messages
      BY <3>1 DEF ProcStates
    <3>3. g \in Files /\ file[g].attempt \in 1..RetryMax
      BY <1>t DEF FileStates, InInbox
    <3>4. q \in ProcStates /\ q.pc = "read"
      BY <3>1, <3>2, <3>3 DEF ProcStates
    <3> HIDE DEF q
    <3>5. proc' = [proc EXCEPT ![w] = q]
      BY <2>6 DEF q
    <3> QED BY <1>t, <1>w, <2>1, <3>4, <3>5, ProcStep
  <2>7. ASSUME NEW m \in proc[w].names, proc[w].pc = "listed",
               proc' = [proc EXCEPT ![w].names = @ \ {m}]
        PROVE  IndInv'
    <3> DEFINE q == [proc[w] EXCEPT !.names = @ \ {m}]
    <3>1. q \in ProcStates /\ q.pc = "listed" /\ proc' = [proc EXCEPT ![w] = q]
      BY <1>t, <1>w, <2>7 DEF ProcStates
    <3> HIDE DEF q
    <3> QED BY <1>t, <1>w, <2>1, <3>1, ProcStep
  <2> QED BY <1>4, <2>2, <2>4, <2>5, <2>6, <2>7 DEF ClaimRead
<1>5. ASSUME NEW w \in Workers, ClaimRename(w) PROVE IndInv'
  <2>1. ASSUME NEW g \in ClaimSource(w),
               file' = [file EXCEPT ![g].dir = "claimed"],
               proc' = [proc EXCEPT ![w].pc = "renamed", ![w].f = g]
        PROVE  IndInv'
    <3> DEFINE q == [proc[w] EXCEPT !.pc = "renamed", !.f = g]
    <3>1. g \in Files /\ file[g].dir \in {"temp", "inbox"}
      BY DEF ClaimSource, InInbox
    <3>2. q \in ProcStates /\ q.pc = "renamed" /\ q.f = g /\ proc' = [proc EXCEPT ![w] = q]
      BY <1>t, <1>w, <2>1, <3>1, ZenonT(60) DEF ProcStates
    <3>3. file' \in [Files -> FileStates] /\ file'[g].dir = "claimed"
          /\ \A h \in Files : file'[h].dir \in {file[h].dir, "claimed"}
      BY <1>t, <2>1, <3>1 DEF FileStates, Dirs
    <3>4. expired' = expired /\ crashes' = crashes /\ torn' = torn
      BY <1>5 DEF ClaimRename
    <3> HIDE DEF q
    <3> QED BY <1>t, <1>w, <3>1, <3>2, <3>3, <3>4, ProcStep
  <2>2. CASE file' = file /\ proc' = [proc EXCEPT ![w].pc = "listed"]
    <3> DEFINE q == [proc[w] EXCEPT !.pc = "listed"]
    <3>1. q \in ProcStates /\ q.pc = "listed" /\ proc' = [proc EXCEPT ![w] = q]
      BY <1>t, <1>w, <2>2 DEF ProcStates
    <3>2. expired' = expired /\ crashes' = crashes /\ torn' = torn
      BY <1>5 DEF ClaimRename
    <3> HIDE DEF q
    <3> QED BY <1>t, <1>w, <2>2, <3>1, <3>2, ProcStep
  <2> QED BY <1>5, <2>1, <2>2 DEF ClaimRename
<1>6. ASSUME NEW w \in Workers, ClaimWrite(w) PROVE IndInv'
  <2> DEFINE q == [proc[w] EXCEPT !.pc = "working", !.todo = {}, !.names = {}]
             e == [file[proc[w].f] EXCEPT !.content = "claimed", !.attempt = proc[w].attempt]
  <2>1. q \in ProcStates /\ q.pc = "working" /\ q.f = proc[w].f /\ q.f \in Files
        /\ proc' = [proc EXCEPT ![w] = q] /\ proc[w].pc = "renamed"
    BY <1>t, <1>w, <1>6, ZenonT(60) DEF ProcStates, ClaimWrite
  <2>2. e \in FileStates /\ e.dir = file[proc[w].f].dir
    <3>1. file[proc[w].f] \in FileStates /\ proc[w].attempt \in 1..RetryMax
      BY <1>t, <1>w DEF ProcStates
    <3> QED BY <3>1 DEF FileStates, Contents
  <2>5. file' = [file EXCEPT ![proc[w].f] = e]
    BY <1>t, <1>w, <1>6, <2>1 DEF ClaimWrite, FileStates
  <2>6. file' \in [Files -> FileStates] /\ \A g \in Files : file'[g].dir = file[g].dir
    <3> HIDE DEF e, q
    <3> QED BY <1>t, <2>1, <2>2, <2>5
  <2>3. file[q.f].dir \in {"claimed"} \cup Terminal
    BY <2>1 DEF IndInv, ClaimLeftInbox
  <2>4. expired' = expired /\ crashes' = crashes /\ torn' = torn
    BY <1>6 DEF ClaimWrite
  <2> HIDE DEF q, e
  <2> QED BY <1>t, <1>w, <2>1, <2>6, <2>3, <2>4, ProcStep
<1>7. ASSUME NEW w \in Workers, Finish(w) PROVE IndInv'
  <2>1. PICK v \in {"done", FailVerdict(proc[w].attempt)} :
          proc' = [proc EXCEPT ![w].pc = "archiving", ![w].verdict = v]
    BY <1>7 DEF Finish
  <2> DEFINE q == [proc[w] EXCEPT !.pc = "archiving", !.verdict = v]
  <2>2. proc[w].attempt \in 1..RetryMax
    BY <1>t, <1>w DEF ProcStates
  <2>3. v \in Terminal /\ (v = "retry" => proc[w].attempt < RetryMax)
    BY <2>2, <1>r DEF Terminal
  <2>4. q \in ProcStates /\ q.pc = "archiving" /\ q.attempt = proc[w].attempt /\ q.verdict = v
        /\ proc' = [proc EXCEPT ![w] = q]
    BY <1>t, <1>w, <2>1, <2>3, ZenonT(60) DEF ProcStates
  <2>5. UNCHANGED <<file, expired, crashes, torn>>
    BY <1>7 DEF Finish
  <2> HIDE DEF q
  <2> QED BY <1>t, <1>w, <2>3, <2>4, <2>5, ProcStep
<1>8. ASSUME NEW w \in Workers, ArchiveWrite(w) PROVE IndInv'
  <2>1. PICK g \in ClaimPath(w) :
          /\ file' = [file EXCEPT ![g].content = proc[w].verdict,
                                  ![g].attempt = proc[w].attempt]
          /\ proc' = [proc EXCEPT ![w].pc = "moving", ![w].f = g]
    BY <1>8 DEF ArchiveWrite
  <2>2. g \in Files
    BY <1>t, <1>w DEF ClaimPath, ProcStates
  <2> DEFINE q == [proc[w] EXCEPT !.pc = "moving", !.f = g]
  <2>3. q \in ProcStates /\ q.pc = "moving" /\ q.attempt = proc[w].attempt
        /\ q.verdict = proc[w].verdict /\ proc' = [proc EXCEPT ![w] = q]
    BY <1>t, <1>w, <2>1, <2>2, ZenonT(60) DEF ProcStates
  <2>4. proc[w].verdict = "retry" => proc[w].attempt < RetryMax
    BY <1>w, <1>8 DEF ArchiveWrite, IndInv, RetryHasAttempts
  <2>5. file' \in [Files -> FileStates] /\ \A h \in Files : file'[h].dir = file[h].dir
    <3> DEFINE e == [file[g] EXCEPT !.content = proc[w].verdict, !.attempt = proc[w].attempt]
    <3>1. proc[w].verdict \in Contents /\ proc[w].attempt \in 1..RetryMax
      BY <1>t, <1>w DEF ProcStates, Contents, Terminal
    <3>2. e \in FileStates /\ e.dir = file[g].dir
      BY <1>t, <2>2, <3>1 DEF FileStates
    <3>3. file' = [file EXCEPT ![g] = e]
      BY <1>t, <2>1, <2>2 DEF FileStates
    <3> HIDE DEF e
    <3> QED BY <1>t, <2>2, <3>2, <3>3
  <2>6. UNCHANGED <<expired, crashes, torn>>
    BY <1>8 DEF ArchiveWrite
  <2> HIDE DEF q
  <2> QED BY <1>t, <1>w, <2>3, <2>4, <2>5, <2>6, ProcStep
<1>9. ASSUME NEW w \in Workers, ArchiveRaises(w) PROVE IndInv'
  BY <1>t, <1>w, <1>9, EndsStep DEF ArchiveRaises
<1>10. ASSUME NEW w \in Workers, ArchiveMove(w) PROVE IndInv'
  <2> DEFINE f == proc[w].f
  <2>1. expired' \subseteq Files /\ crashes' = crashes /\ torn' = torn
    BY <1>t, <1>10 DEF ArchiveMove
  <2>2. proc[w].verdict \in Terminal /\ f \in Files
    BY <1>t, <1>w DEF ProcStates
  <2>3. file' \in {file, [file EXCEPT ![f].dir = proc[w].verdict]}
    BY <1>10 DEF ArchiveMove
  <2>4. file' \in [Files -> FileStates]
    BY <1>t, <2>2, <2>3 DEF FileStates, Dirs, Terminal
  <2>5. \A g \in Files : file[g].dir \in {"claimed"} \cup Terminal
                           => file'[g].dir \in {"claimed"} \cup Terminal
    BY <1>t, <2>2, <2>3 DEF FileStates
  <2>6. CASE Return(w) \/ Raise(w)
    BY <1>t, <1>w, <2>1, <2>4, <2>5, <2>6, EndsStep
  <2>7. CASE ~(Return(w) \/ Raise(w))
    <3> DEFINE q == [proc[w] EXCEPT !.pc = "requeue", !.attempt = @ + 1]
    <3>1. proc[w].pc = "moving" /\ proc[w].verdict = "retry" /\ proc' = [proc EXCEPT ![w] = q]
      BY <1>t, <1>w, <1>10, <2>7 DEF ArchiveMove, ProcStates
    <3>2. proc[w].attempt < RetryMax /\ proc[w].attempt \in 1..RetryMax
      BY <1>t, <1>w, <3>1 DEF IndInv, RetryHasAttempts, ProcStates
    <3>3. proc[w].attempt + 1 \in 1..RetryMax
      BY <3>2, Constants
    <3>4. q \in ProcStates /\ q.pc = "requeue"
      BY <1>t, <1>w, <3>3, ZenonT(60) DEF ProcStates
    <3> HIDE DEF q
    <3> QED BY <1>t, <1>w, <2>1, <2>4, <2>5, <3>1, <3>4, ProcStep
  <2> QED BY <2>6, <2>7
<1>11. ASSUME NEW w \in Workers, RecoverList(w) PROVE IndInv'
  <2> DEFINE q == [At("recovering") EXCEPT !.recovery = TRUE, !.todo = {f \in Files : Stale(f)}]
  <2>1. At("recovering") \in ProcStates
    BY AtType
  <2>2. q \in ProcStates /\ q.pc = "recovering"
    BY <2>1 DEF ProcStates, At
  <2>3. proc' = [proc EXCEPT ![w] = q] /\ UNCHANGED <<file, expired, crashes, torn>>
    BY <1>11 DEF RecoverList
  <2> HIDE DEF q
  <2> QED BY <1>t, <1>w, <2>2, <2>3, ProcStep
<1>12. ASSUME NEW w \in Workers, RecoverNext(w) PROVE IndInv'
  <2>1. PICK f \in proc[w].todo :
          /\ proc' = [proc EXCEPT ![w] = [proc[w] EXCEPT !.pc = "archiving", !.f = f,
                  !.msg = file[f].msg, !.attempt = file[f].attempt,
                  !.verdict = FailVerdict(file[f].attempt), !.todo = proc[w].todo \ {f}]]
          /\ UNCHANGED <<file, expired, crashes, torn>>
    BY <1>12 DEF RecoverNext
  <2>2. PICK r, m, a, v, d, q :
          /\ r = proc[w] /\ m = file[f].msg /\ a = file[f].attempt
          /\ v = FailVerdict(a) /\ d = r.todo \ {f}
          /\ q = [r EXCEPT !.pc = "archiving", !.f = f, !.msg = m, !.attempt = a,
                            !.verdict = v, !.todo = d]
    OBVIOUS
  <2>3. proc' = [proc EXCEPT ![w] = q]
    BY <2>1, <2>2
  <2>4. r \in ProcStates
    BY <1>t, <1>w, <2>2
  <2>5. f \in Files /\ d \in SUBSET Files
    BY <2>2, <2>4 DEF ProcStates
  <2>6. m \in Messages /\ a \in 1..RetryMax
    BY <1>t, <2>2, <2>5 DEF FileStates
  <2>7. v \in Terminal /\ (v = "retry" => a < RetryMax)
    BY <2>2, <2>6, <1>r
  <2>8. q = [r EXCEPT !.pc = "archiving", !.f = f, !.msg = m, !.attempt = a,
                      !.verdict = v, !.todo = d]
    BY <2>2
  <2>9. r = [pc |-> r.pc, f |-> r.f, msg |-> r.msg, attempt |-> r.attempt,
             verdict |-> r.verdict, from |-> r.from, recovery |-> r.recovery, todo |-> r.todo,
             names |-> r.names]
        /\ r.from \in {"temp", "inbox"} /\ r.recovery \in BOOLEAN /\ r.names \in SUBSET Messages
    BY <2>4 DEF ProcStates
  <2>10. q = [pc |-> "archiving", f |-> f, msg |-> m, attempt |-> a, verdict |-> v,
              from |-> r.from, recovery |-> r.recovery, todo |-> d, names |-> r.names]
    BY <2>8, <2>9
  <2>11. q \in ProcStates
    BY <2>5, <2>6, <2>7, <2>9, <2>10 DEF ProcStates
  <2>12. q.pc = "archiving" /\ q.attempt = a /\ q.verdict = v
    BY <2>10
  <2> QED BY <1>t, <1>w, <2>1, <2>3, <2>7, <2>11, <2>12, ProcStep
<1>13. ASSUME NEW w \in Workers, RecoverDone(w) PROVE IndInv'
  <2>1. At("idle") \in ProcStates /\ At("idle").pc = "idle"
    BY AtType DEF At
  <2> QED BY <1>t, <1>w, <1>13, <2>1, ProcStep DEF RecoverDone
<1>14. ASSUME NEW p \in Procs, Crash(p) PROVE IndInv'
  <2>1. /\ At("new") \in ProcStates /\ At("new").pc = "new"
        /\ At("gone") \in ProcStates /\ At("gone").pc = "gone"
    BY AtType DEF At
  <2>2. crashes' \in 0..MaxCrashes
    BY <1>t, <1>14, Constants DEF Crash
  <2>3. \E q \in {At("new"), At("gone")} : proc' = [proc EXCEPT ![p] = q]
    BY <1>14 DEF Crash
  <2> QED BY <1>t, <1>14, <2>1, <2>2, <2>3, ProcStep DEF Crash
<1>15. ASSUME NEW w \in Workers, Heartbeat(w) PROVE IndInv'
  <2>1. TypeOK'
    BY <1>15 DEF Heartbeat, IndInv, TypeOK
  <2> QED BY <1>15, <2>1 DEF Heartbeat, IndInv, RetryHasAttempts, ClaimLeftInbox, ClaimsExclusive
<1>16. ASSUME LeaseExpires PROVE IndInv'
  <2>1. TypeOK'
    BY <1>16 DEF LeaseExpires, IndInv, TypeOK
  <2> QED BY <1>16, <2>1 DEF LeaseExpires, IndInv, RetryHasAttempts, ClaimLeftInbox, ClaimsExclusive
<1>18. ASSUME NEW w \in Workers, ClaimList(w) PROVE IndInv'
  <2> DEFINE q == [At("listed") EXCEPT !.todo = {f \in Files : file[f].dir = "temp"},
                                       !.names = {m \in Messages : InInbox(m) # {}}]
  <2>1. At("listed") \in ProcStates
    BY AtType
  <2>2. q \in ProcStates /\ q.pc = "listed"
    BY <2>1 DEF ProcStates, At
  <2>3. proc' = [proc EXCEPT ![w] = q] /\ UNCHANGED <<file, expired, crashes, torn>>
    BY <1>18 DEF ClaimList
  <2> HIDE DEF q
  <2> QED BY <1>t, <1>w, <2>2, <2>3, ProcStep
<1>19. ASSUME NEW w \in Workers, ClaimNone(w) PROVE IndInv'
  BY <1>t, <1>w, <1>19, EndsStep DEF ClaimNone
<1>17. CASE UNCHANGED vars
  BY <1>17 DEF vars, IndInv, TypeOK, RetryHasAttempts, ClaimLeftInbox, ClaimsExclusive
<1> QED
  BY <1>1, <1>2, <1>3, <1>4, <1>5, <1>6, <1>7, <1>8, <1>9, <1>10, <1>11, <1>12, <1>13, <1>14,
     <1>15, <1>16, <1>17, <1>18, <1>19 DEF Next, Publish, WorkerStep

\* The inductive invariant of the mailbox holds in every reachable state.
THEOREM InductiveInvariant == Spec => []IndInv
  BY InitIndInv, NextIndInv, PTL DEF Spec

\* Files and processes keep their types for every ceiling and every number of clients,
\* workers and crashes: fail_or_retry never publishes an attempt beyond the ceiling.
THEOREM TypeCorrect == Spec => []TypeOK
<1>1. IndInv => TypeOK
  BY DEF IndInv
<1> QED BY <1>1, InductiveInvariant, PTL

\* Claims are exclusive for every number of claimers, over crashes, recoveries and leases
\* that end early: the rename of claim_next has one winner.
THEOREM ExclusiveTheorem == Spec => []ClaimsExclusive
<1>1. IndInv => ClaimsExclusive
  BY DEF IndInv
<1> QED BY <1>1, InductiveInvariant, PTL
----
(* Nothing that was published is lost, and each attempt is published once  *)

Holding == {"read", "renamed", "working", "archiving", "moving", "writing", "written"}

\* What a process listed or holds is a file, and the file is of the message it thinks.
Backed ==
  \A p \in Procs :
    /\ \A f \in proc[p].todo : file[f].dir # "none"
    /\ proc[p].pc \in Holding => file[proc[p].f].dir # "none" /\ file[proc[p].f].msg = proc[p].msg

\* A client publishes its own message and does nothing else.
Clients ==
  \A m \in Messages :
    /\ proc[m].pc \in {"requeue", "writing", "written", "gone"}
    /\ proc[m].pc # "gone" => proc[m].msg = m

\* Until a process dies each message is in some file that is not an archived retry, or
\* is about to be written into one.
KeptByNow ==
  crashes = 0 =>
    \A f \in Files : file[f].dir # "none" =>
      \/ \E g \in Files : file[g].dir \notin {"none", "retry"} /\ file[g].msg = file[f].msg
      \/ \E p \in Procs : proc[p].pc = "requeue" /\ proc[p].msg = file[f].msg

KeptInv == IndInv /\ Backed /\ Clients /\ KeptByNow

\* One process serves the mailbox.
OneWorker == \A v, w \in Workers : v = w

\* Of the files of a message only the one with the last attempt is not an archived retry.
OnceEach ==
  \A f, g \in Files :
    f # g /\ file[f].dir # "none" /\ file[g].dir # "none" /\ file[f].msg = file[g].msg =>
      /\ file[f].attempt # file[g].attempt
      /\ file[f].dir # "retry" => file[g].dir = "retry" /\ file[g].attempt < file[f].attempt

\* The worker's claim is where it thinks and what it thinks, and the claims it found
\* stale are still claims.
ClaimOK(q) ==
  /\ q.pc \in {"read", "renamed", "working", "archiving", "moving"} =>
       file[q.f].attempt = q.attempt
  /\ q.pc = "read" =>
       /\ file[q.f].dir \in {"temp", "inbox"}
       /\ q.from = "inbox" => file[q.f].dir = "inbox"
  /\ q.pc \in {"renamed", "working", "archiving", "moving"} => file[q.f].dir = "claimed"
  /\ q.pc = "recovering" => q.recovery
  /\ q.recovery =>
       /\ q.pc \in {"recovering", "archiving", "moving", "requeue", "writing", "written"}
       /\ \A f \in q.todo : /\ file[f].dir = "claimed"
                            /\ q.pc \in {"archiving", "moving"} => f # q.f

Claiming == \A w \in Workers : ClaimOK(proc[w])

\* Who is about to publish an attempt comes after every file of the message.
Publishing ==
  \A p \in Procs : proc[p].pc = "requeue" => \A f \in Files :
    file[f].dir # "none" /\ file[f].msg = proc[p].msg =>
      file[f].dir = "retry" /\ file[f].attempt < proc[p].attempt

\* A message whose client has not begun is nowhere.
Unborn ==
  \A m \in Messages : proc[m].pc = "requeue" =>
    /\ \A f \in Files : file[f].dir # "none" => file[f].msg # m
    /\ \A w \in Workers : proc[w].pc = "requeue" => proc[w].msg # m

OnceInv == KeptInv /\ OnceEach /\ Claiming /\ Publishing /\ Unborn

\* Process p goes over to q, and the others stay as they are.
Moves(p, q) ==
  /\ q \in ProcStates
  /\ proc'[p] = q
  /\ \A r \in Procs : r # p => proc'[r] = proc[r]

\* q is r but for where it is.
Keeps(q, r) ==
  q.f = r.f /\ q.msg = r.msg /\ q.attempt = r.attempt /\ q.todo = r.todo /\ q.recovery = r.recovery

\* Every file but f stays as it is.
OnlyFile(f) == \A g \in Files : g # f => file'[g] = file[g]

LEMMA Types ==
  ASSUME IndInv
  PROVE  /\ proc \in [Procs -> ProcStates] /\ file \in [Files -> FileStates]
         /\ Workers \subseteq Procs /\ Messages \subseteq Procs
         /\ crashes \in 0..MaxCrashes
         /\ \A p \in Procs : proc[p] \in ProcStates /\ proc[p].f \in Files
                             /\ proc[p].todo \subseteq Files /\ proc[p].names \subseteq Messages
                             /\ proc[p].attempt \in 1..RetryMax /\ proc[p].verdict \in Terminal
                             /\ proc[p].msg \in Messages
         /\ \A f \in Files : file[f] \in FileStates /\ file[f].attempt \in 1..RetryMax
                             /\ file[f].msg \in Messages /\ file[f].dir \in Dirs
  BY DEF IndInv, TypeOK, ProcStates, FileStates, Procs

LEMMA MovesTo ==
  ASSUME IndInv, NEW p \in Procs, NEW q \in ProcStates, proc' = [proc EXCEPT ![p] = q]
  PROVE  Moves(p, q)
  BY Types DEF Moves

LEMMA EndsAs ==
  ASSUME IndInv, NEW p \in Procs, Return(p) \/ Raise(p)
  PROVE  \E q \in ProcStates :
           /\ Moves(p, q) /\ q.pc \in {"gone", "new", "recovering", "idle"}
           /\ q.todo \subseteq proc[p].todo
           /\ p \in Messages => q.pc = "gone"
           /\ q.recovery => q.pc = "recovering" /\ proc[p].recovery
           /\ q.pc = "recovering" => q.recovery
<1> DEFINE rec == [At("recovering") EXCEPT !.recovery = TRUE, !.todo = proc[p].todo]
<1>1. /\ At("gone") \in ProcStates /\ At("gone").pc = "gone" /\ At("gone").todo = {}
      /\ At("gone").recovery = FALSE
      /\ At("new") \in ProcStates /\ At("new").pc = "new" /\ At("new").todo = {}
      /\ At("new").recovery = FALSE
      /\ At("idle") \in ProcStates /\ At("idle").pc = "idle" /\ At("idle").todo = {}
      /\ At("idle").recovery = FALSE
      /\ At("recovering") \in ProcStates
  BY AtType DEF At
<1>2. rec \in ProcStates /\ rec.pc = "recovering" /\ rec.todo = proc[p].todo /\ rec.recovery = TRUE
  BY <1>1, Types DEF ProcStates, At
<1> HIDE DEF rec
<1>3. CASE Return(p)
  <2>1. CASE p \in Messages
    BY <1>1, <1>3, <2>1, MovesTo DEF Return
  <2>2. CASE p \notin Messages /\ proc[p].recovery
    <3>1. proc' = [proc EXCEPT ![p] = rec]
      BY <1>3, <2>2, Types DEF Return, rec
    <3> QED BY <1>2, <2>2, <3>1, MovesTo
  <2>3. CASE p \notin Messages /\ ~proc[p].recovery
    <3>1. proc' = [proc EXCEPT ![p] = At("idle")]
      BY <1>3, <2>3, Types DEF Return
    <3> QED BY <1>1, <2>3, <3>1, MovesTo
  <2> QED BY <2>1, <2>2, <2>3
<1>4. CASE Raise(p)
  <2>1. \E q \in {At("gone"), At("new"), At("idle")} :
          proc' = [proc EXCEPT ![p] = q] /\ (p \in Messages => q = At("gone"))
    BY <1>4, Types DEF Raise
  <2> QED BY <1>1, <2>1, MovesTo
<1> QED BY <1>3, <1>4

LEMMA OpenTempDoes ==
  ASSUME IndInv, NEW p \in Procs, OpenTemp(p)
  PROVE  \E f \in Files, q \in ProcStates :
           /\ Moves(p, q) /\ q.pc = "writing" /\ q.f = f /\ q.msg = proc[p].msg
           /\ q.attempt = proc[p].attempt /\ q.todo = proc[p].todo
           /\ q.recovery = proc[p].recovery
           /\ proc[p].pc = "requeue" /\ file[f].dir = "none"
           /\ file'[f].dir = "temp" /\ file'[f].msg = proc[p].msg
           /\ file'[f].attempt = proc[p].attempt
           /\ OnlyFile(f)
<1>1. PICK f \in Files :
        /\ proc[p].pc = "requeue"
        /\ \A g \in Files : file[g].dir = "none" <=> g >= f
        /\ file' = [file EXCEPT ![f] = [dir |-> "temp", msg |-> proc[p].msg,
                                  attempt |-> proc[p].attempt, content |-> "partial"]]
        /\ proc' = [proc EXCEPT ![p].pc = "writing", ![p].f = f]
  BY DEF OpenTemp
<1>2. file[f].dir = "none"
  BY <1>1 DEF Files
<1> DEFINE q == [proc[p] EXCEPT !.pc = "writing", !.f = f]
<1>3. /\ q \in ProcStates /\ proc' = [proc EXCEPT ![p] = q] /\ q.pc = "writing" /\ q.f = f
      /\ q.msg = proc[p].msg /\ q.attempt = proc[p].attempt /\ q.todo = proc[p].todo
      /\ q.recovery = proc[p].recovery
  BY <1>1, Types DEF ProcStates
<1>4. /\ file'[f].dir = "temp" /\ file'[f].msg = proc[p].msg
      /\ file'[f].attempt = proc[p].attempt /\ OnlyFile(f)
  BY <1>1, Types DEF OnlyFile
<1> HIDE DEF q
<1> QED BY <1>1, <1>2, <1>3, <1>4, MovesTo

LEMMA FinishTempDoes ==
  ASSUME IndInv, NEW p \in Procs, FinishTemp(p)
  PROVE  /\ \E q \in ProcStates : Moves(p, q) /\ q.pc = "written" /\ Keeps(q, proc[p])
         /\ proc[p].pc = "writing"
         /\ \A g \in Files : file'[g].dir = file[g].dir /\ file'[g].msg = file[g].msg
                             /\ file'[g].attempt = file[g].attempt
<1> DEFINE q == [proc[p] EXCEPT !.pc = "written"]
<1>1. q \in ProcStates /\ proc' = [proc EXCEPT ![p] = q] /\ q.pc = "written" /\ Keeps(q, proc[p])
  BY Types DEF ProcStates, FinishTemp, Keeps
<1>2. \A g \in Files : file'[g].dir = file[g].dir /\ file'[g].msg = file[g].msg
                       /\ file'[g].attempt = file[g].attempt
  BY Types DEF FinishTemp, FileStates
<1> HIDE DEF q
<1> QED BY <1>1, <1>2, MovesTo DEF FinishTemp

LEMMA RenameTempDoes ==
  ASSUME IndInv, NEW p \in Procs, RenameTemp(p)
  PROVE  /\ Return(p) \/ Raise(p)
         /\ proc[p].pc = "written"
         /\ \A g \in Files : /\ file'[g].msg = file[g].msg /\ file'[g].attempt = file[g].attempt
                             /\ \/ file'[g].dir = file[g].dir
                                \/ file[g].dir = "temp" /\ file'[g].dir = "inbox"
  BY Types DEF RenameTemp, FileStates

LEMMA ClaimListDoes ==
  ASSUME IndInv, NEW w \in Workers, ClaimList(w)
  PROVE  \E q \in ProcStates :
           /\ Moves(w, q) /\ q.pc = "listed" /\ ~q.recovery
           /\ \A f \in q.todo : f \in Files /\ file[f].dir = "temp"
           /\ proc[w].pc = "idle" /\ UNCHANGED <<file, crashes>>
<1> DEFINE q == [At("listed") EXCEPT !.todo = {f \in Files : file[f].dir = "temp"},
                                     !.names = {m \in Messages : InInbox(m) # {}}]
<1>1. At("listed") \in ProcStates
  BY AtType
<1>2. q \in ProcStates /\ q.pc = "listed" /\ ~q.recovery
      /\ \A f \in q.todo : f \in Files /\ file[f].dir = "temp"
  BY <1>1 DEF ProcStates, At
<1>3. proc' = [proc EXCEPT ![w] = q] /\ proc[w].pc = "idle" /\ UNCHANGED <<file, crashes>>
  BY DEF ClaimList
<1> HIDE DEF q
<1> QED BY <1>2, <1>3, MovesTo, Types

\* claim_next reads a file, goes on in its list, or raises.
LEMMA ClaimReadDoes ==
  ASSUME IndInv, NEW w \in Workers, ClaimRead(w)
  PROVE  /\ proc[w].pc = "listed" /\ UNCHANGED <<file, crashes>>
         /\ \/ Raise(w)
            \/ \E q \in ProcStates :
                 /\ Moves(w, q) /\ q.pc = "listed" /\ q.todo \subseteq proc[w].todo
                 /\ q.recovery = proc[w].recovery
            \/ \E q \in ProcStates :
                 /\ Moves(w, q) /\ q.pc = "read" /\ q.todo \subseteq proc[w].todo
                 /\ q.recovery = proc[w].recovery
                 /\ q.msg = file[q.f].msg /\ q.attempt = file[q.f].attempt
                 /\ \/ q.from = "temp" /\ file[q.f].dir = "temp"
                    \/ q.from = "inbox" /\ file[q.f].dir = "inbox"
<1>1. proc[w] \in ProcStates /\ w \in Procs
  BY Types
<1>2. proc[w].pc = "listed" /\ UNCHANGED <<file, crashes>>
  BY DEF ClaimRead
<1>3. ASSUME NEW f \in proc[w].todo, file[f].dir = "temp",
             proc' = [proc EXCEPT ![w] = [[proc[w] EXCEPT !.pc = "read"] EXCEPT !.from = "temp",
                !.f = f, !.msg = file[f].msg, !.attempt = file[f].attempt,
                !.todo = proc[w].todo \ {f}]]
      PROVE  \E q \in ProcStates :
                 /\ Moves(w, q) /\ q.pc = "read" /\ q.todo \subseteq proc[w].todo
                 /\ q.recovery = proc[w].recovery
                 /\ q.msg = file[q.f].msg /\ q.attempt = file[q.f].attempt
                 /\ q.from = "temp" /\ file[q.f].dir = "temp"
  <2> DEFINE q == [[proc[w] EXCEPT !.pc = "read"] EXCEPT !.from = "temp",
                !.f = f, !.msg = file[f].msg, !.attempt = file[f].attempt,
                !.todo = proc[w].todo \ {f}]
  <2>1. f \in Files /\ proc[w].todo \ {f} \in SUBSET Files
    BY <1>1, Types DEF ProcStates
  <2>2. file[f].msg \in Messages /\ file[f].attempt \in 1..RetryMax
    BY <2>1, Types
  <2>3. /\ q \in ProcStates /\ q.pc = "read" /\ q.from = "temp" /\ q.f = f
        /\ q.msg = file[f].msg /\ q.attempt = file[f].attempt
        /\ q.todo = proc[w].todo \ {f} /\ q.recovery = proc[w].recovery
    BY <1>1, <2>1, <2>2 DEF ProcStates
  <2>4. proc' = [proc EXCEPT ![w] = q]
    BY <1>3
  <2> HIDE DEF q
  <2>5. Moves(w, q)
    BY <1>1, <2>3, <2>4, MovesTo
  <2> QED BY <1>3, <2>3, <2>5
<1>4. ASSUME NEW f \in proc[w].todo,
             proc' = [proc EXCEPT ![w] = [proc[w] EXCEPT !.todo = proc[w].todo \ {f}]]
      PROVE  \E q \in ProcStates :
                 /\ Moves(w, q) /\ q.pc = "listed" /\ q.todo \subseteq proc[w].todo
                 /\ q.recovery = proc[w].recovery
  <2> DEFINE q == [proc[w] EXCEPT !.todo = proc[w].todo \ {f}]
  <2>1. /\ q \in ProcStates /\ q.pc = "listed" /\ q.todo \subseteq proc[w].todo
        /\ q.recovery = proc[w].recovery
    BY <1>1, <1>2 DEF ProcStates
  <2> HIDE DEF q
  <2> QED BY <1>1, <1>4, <2>1, MovesTo DEF q
<1>5. ASSUME NEW m \in proc[w].names, NEW g \in InInbox(m),
             proc' = [proc EXCEPT ![w] = [[proc[w] EXCEPT !.pc = "read"] EXCEPT !.from = "inbox",
                !.f = g, !.msg = m, !.attempt = file[g].attempt,
                !.names = proc[w].names \ {m}]]
      PROVE  \E q \in ProcStates :
                 /\ Moves(w, q) /\ q.pc = "read" /\ q.todo \subseteq proc[w].todo
                 /\ q.recovery = proc[w].recovery
                 /\ q.msg = file[q.f].msg /\ q.attempt = file[q.f].attempt
                 /\ q.from = "inbox" /\ file[q.f].dir = "inbox"
  <2> DEFINE q == [[proc[w] EXCEPT !.pc = "read"] EXCEPT !.from = "inbox",
                !.f = g, !.msg = m, !.attempt = file[g].attempt,
                !.names = proc[w].names \ {m}]
  <2>1. m \in Messages /\ proc[w].names \ {m} \in SUBSET Messages
    BY <1>1 DEF ProcStates
  <2>2. g \in Files /\ file[g].attempt \in 1..RetryMax /\ file[g].dir = "inbox" /\ file[g].msg = m
    BY Types DEF InInbox
  <2>3. /\ q \in ProcStates /\ q.pc = "read" /\ q.from = "inbox" /\ q.f = g /\ q.msg = m
        /\ q.attempt = file[g].attempt /\ q.todo = proc[w].todo /\ q.recovery = proc[w].recovery
    BY <1>1, <2>1, <2>2 DEF ProcStates
  <2>4. proc' = [proc EXCEPT ![w] = q]
    BY <1>5
  <2> HIDE DEF q
  <2>5. Moves(w, q)
    BY <1>1, <2>3, <2>4, MovesTo
  <2> QED BY <2>2, <2>3, <2>5
<1>6. ASSUME NEW m \in proc[w].names, proc' = [proc EXCEPT ![w].names = @ \ {m}]
      PROVE  \E q \in ProcStates :
                 /\ Moves(w, q) /\ q.pc = "listed" /\ q.todo \subseteq proc[w].todo
                 /\ q.recovery = proc[w].recovery
  <2> DEFINE q == [proc[w] EXCEPT !.names = @ \ {m}]
  <2>1. /\ q \in ProcStates /\ q.pc = "listed" /\ q.todo \subseteq proc[w].todo
        /\ q.recovery = proc[w].recovery /\ proc' = [proc EXCEPT ![w] = q]
    BY <1>1, <1>2, <1>6, Types DEF ProcStates
  <2> HIDE DEF q
  <2> QED BY <1>1, <2>1, MovesTo
<1> QED BY <1>2, <1>3, <1>4, <1>5, <1>6 DEF ClaimRead

LEMMA ClaimRenameDoes ==
  ASSUME IndInv, NEW w \in Workers, ClaimRename(w)
  PROVE  /\ proc[w].pc = "read" /\ UNCHANGED crashes
         /\ \/ \E q \in ProcStates :
                 /\ Moves(w, q) /\ q.pc = "renamed" /\ q.f \in ClaimSource(w)
                 /\ q.msg = proc[w].msg /\ q.attempt = proc[w].attempt
                 /\ q.todo = proc[w].todo /\ q.recovery = proc[w].recovery
                 /\ file'[q.f].dir = "claimed" /\ file'[q.f].msg = file[q.f].msg
                 /\ file'[q.f].attempt = file[q.f].attempt
                 /\ OnlyFile(q.f)
            \/ \E q \in ProcStates :
                 Moves(w, q) /\ q.pc = "listed" /\ Keeps(q, proc[w]) /\ UNCHANGED file
<1>0. w \in Procs /\ proc[w] \in ProcStates
  BY Types
<1>1. ASSUME NEW g \in ClaimSource(w),
             file' = [file EXCEPT ![g].dir = "claimed"],
             proc' = [proc EXCEPT ![w].pc = "renamed", ![w].f = g]
      PROVE  \E q \in ProcStates :
                 /\ Moves(w, q) /\ q.pc = "renamed" /\ q.f \in ClaimSource(w)
                 /\ q.msg = proc[w].msg /\ q.attempt = proc[w].attempt
                 /\ q.todo = proc[w].todo /\ q.recovery = proc[w].recovery
                 /\ file'[q.f].dir = "claimed" /\ file'[q.f].msg = file[q.f].msg
                 /\ file'[q.f].attempt = file[q.f].attempt
                 /\ OnlyFile(q.f)
  <2> DEFINE q == [proc[w] EXCEPT !.pc = "renamed", !.f = g]
  <2>1. g \in Files
    BY DEF ClaimSource, InInbox
  <2>2. /\ q \in ProcStates /\ q.pc = "renamed" /\ q.f = g /\ proc' = [proc EXCEPT ![w] = q]
        /\ q.msg = proc[w].msg /\ q.attempt = proc[w].attempt
        /\ q.todo = proc[w].todo /\ q.recovery = proc[w].recovery
    BY <1>0, <1>1, <2>1, Types DEF ProcStates
  <2>3. /\ file'[g].dir = "claimed" /\ file'[g].msg = file[g].msg
        /\ file'[g].attempt = file[g].attempt /\ OnlyFile(g)
    BY <1>1, <2>1, Types DEF FileStates, OnlyFile
  <2> HIDE DEF q
  <2> QED BY <2>2, <2>3, MovesTo, Types
<1>2. ASSUME proc' = [proc EXCEPT ![w].pc = "listed"]
      PROVE  \E q \in ProcStates : Moves(w, q) /\ q.pc = "listed" /\ Keeps(q, proc[w])
  <2> DEFINE q == [proc[w] EXCEPT !.pc = "listed"]
  <2>1. q \in ProcStates /\ q.pc = "listed" /\ Keeps(q, proc[w]) /\ proc' = [proc EXCEPT ![w] = q]
    BY <1>0, <1>2, Types DEF ProcStates, Keeps
  <2> HIDE DEF q
  <2> QED BY <2>1, MovesTo, Types
<1> QED BY <1>1, <1>2 DEF ClaimRename

LEMMA ClaimWriteDoes ==
  ASSUME IndInv, NEW w \in Workers, ClaimWrite(w)
  PROVE  /\ proc[w].pc = "renamed" /\ UNCHANGED crashes
         /\ \E q \in ProcStates :
              /\ Moves(w, q) /\ q.pc = "working" /\ q.f = proc[w].f /\ q.todo = {}
              /\ q.msg = proc[w].msg /\ q.attempt = proc[w].attempt
              /\ q.recovery = proc[w].recovery
         /\ file'[proc[w].f].attempt = proc[w].attempt
         /\ OnlyFile(proc[w].f)
         /\ \A g \in Files : file'[g].dir = file[g].dir /\ file'[g].msg = file[g].msg
<1>0. w \in Procs /\ proc[w] \in ProcStates
  BY Types
<1> DEFINE q == [proc[w] EXCEPT !.pc = "working", !.todo = {}, !.names = {}]
<1>1. /\ q \in ProcStates /\ q.pc = "working" /\ q.f = proc[w].f /\ q.todo = {}
      /\ q.msg = proc[w].msg /\ q.attempt = proc[w].attempt
      /\ q.recovery = proc[w].recovery /\ proc' = [proc EXCEPT ![w] = q]
  BY <1>0, Types DEF ProcStates, ClaimWrite
<1>2. /\ file'[proc[w].f].attempt = proc[w].attempt
      /\ OnlyFile(proc[w].f)
      /\ \A g \in Files : file'[g].dir = file[g].dir /\ file'[g].msg = file[g].msg
  BY Types DEF FileStates, OnlyFile, ClaimWrite
<1> HIDE DEF q
<1> QED BY <1>1, <1>2, MovesTo, Types, ZenonT(60) DEF ClaimWrite

LEMMA FinishDoes ==
  ASSUME IndInv, NEW w \in Workers, Finish(w)
  PROVE  /\ proc[w].pc = "working" /\ UNCHANGED <<file, crashes>>
         /\ \E q \in ProcStates : Moves(w, q) /\ q.pc = "archiving" /\ Keeps(q, proc[w])
<1>0. w \in Procs /\ proc[w] \in ProcStates
  BY Types
<1>1. PICK v \in {"done", FailVerdict(proc[w].attempt)} :
        proc' = [proc EXCEPT ![w].pc = "archiving", ![w].verdict = v]
  BY DEF Finish
<1>2. v \in Terminal
  BY DEF Terminal, FailVerdict
<1> DEFINE q == [proc[w] EXCEPT !.pc = "archiving", !.verdict = v]
<1>3. q \in ProcStates /\ q.pc = "archiving" /\ Keeps(q, proc[w]) /\ proc' = [proc EXCEPT ![w] = q]
  BY <1>0, <1>1, <1>2, Types DEF ProcStates, Keeps
<1> HIDE DEF q
<1> QED BY <1>3, MovesTo, Types DEF Finish

LEMMA ArchiveWriteDoes ==
  ASSUME IndInv, NEW w \in Workers, ArchiveWrite(w)
  PROVE  /\ proc[w].pc = "archiving" /\ UNCHANGED crashes
         /\ \E q \in ProcStates :
              /\ Moves(w, q) /\ q.pc = "moving" /\ q.f \in ClaimPath(w) /\ q.f \in Files
              /\ q.msg = proc[w].msg /\ q.attempt = proc[w].attempt
              /\ q.todo = proc[w].todo /\ q.recovery = proc[w].recovery
              /\ file'[q.f].attempt = proc[w].attempt /\ OnlyFile(q.f)
         /\ \A h \in Files : file'[h].dir = file[h].dir /\ file'[h].msg = file[h].msg
<1>0. w \in Procs /\ proc[w] \in ProcStates
  BY Types
<1>1. PICK g \in ClaimPath(w) :
        /\ file' = [file EXCEPT ![g].content = proc[w].verdict,
                                ![g].attempt = proc[w].attempt]
        /\ proc' = [proc EXCEPT ![w].pc = "moving", ![w].f = g]
  BY DEF ArchiveWrite
<1>2. g \in Files
  BY Types DEF ClaimPath
<1> DEFINE q == [proc[w] EXCEPT !.pc = "moving", !.f = g]
<1>3. /\ q \in ProcStates /\ q.pc = "moving" /\ q.f = g /\ proc' = [proc EXCEPT ![w] = q]
      /\ q.msg = proc[w].msg /\ q.attempt = proc[w].attempt
      /\ q.todo = proc[w].todo /\ q.recovery = proc[w].recovery
  BY <1>0, <1>1, <1>2, Types DEF ProcStates
<1>4. /\ file'[g].attempt = proc[w].attempt /\ OnlyFile(g)
      /\ \A h \in Files : file'[h].dir = file[h].dir /\ file'[h].msg = file[h].msg
  BY <1>1, <1>2, Types DEF FileStates, OnlyFile
<1> HIDE DEF q
<1> QED BY <1>1, <1>2, <1>3, <1>4, MovesTo, Types DEF ArchiveWrite

LEMMA ArchiveMoveDoes ==
  ASSUME IndInv, NEW w \in Workers, ArchiveMove(w)
  PROVE  /\ proc[w].pc = "moving" /\ UNCHANGED crashes
         /\ \/ UNCHANGED file /\ Raise(w)
            \/ /\ file[proc[w].f].dir = "claimed" /\ OnlyFile(proc[w].f)
               /\ file'[proc[w].f].dir = proc[w].verdict
               /\ file'[proc[w].f].msg = file[proc[w].f].msg
               /\ file'[proc[w].f].attempt = file[proc[w].f].attempt
               /\ \/ proc[w].verdict # "retry" /\ Return(w)
                  \/ /\ proc[w].verdict = "retry"
                     /\ \E q \in ProcStates :
                          /\ Moves(w, q) /\ q.pc = "requeue" /\ q.msg = proc[w].msg
                          /\ q.attempt = proc[w].attempt + 1
                          /\ q.todo = proc[w].todo /\ q.recovery = proc[w].recovery
<1>0. w \in Procs /\ proc[w] \in ProcStates
  BY Types
<1>1. proc[w].pc = "moving" /\ UNCHANGED crashes
  BY DEF ArchiveMove
<1>2. CASE file[proc[w].f].dir # "claimed"
  BY <1>1, <1>2 DEF ArchiveMove
<1>3. CASE file[proc[w].f].dir = "claimed"
  <2>1. file' = [file EXCEPT ![proc[w].f].dir = proc[w].verdict]
    BY <1>3 DEF ArchiveMove
  <2>2. /\ OnlyFile(proc[w].f) /\ file'[proc[w].f].dir = proc[w].verdict
        /\ file'[proc[w].f].msg = file[proc[w].f].msg
        /\ file'[proc[w].f].attempt = file[proc[w].f].attempt
    BY <2>1, Types DEF FileStates, OnlyFile
  <2>3. CASE proc[w].verdict # "retry"
    BY <1>1, <1>3, <2>2, <2>3 DEF ArchiveMove
  <2>4. CASE proc[w].verdict = "retry"
    <3> DEFINE q == [proc[w] EXCEPT !.pc = "requeue", !.attempt = @ + 1]
    <3>1. proc' = [proc EXCEPT ![w] = q]
      BY <1>0, <1>3, <2>4, Types DEF ArchiveMove, ProcStates
    <3>2. proc[w].attempt < RetryMax /\ proc[w].attempt \in 1..RetryMax
      BY <1>1, <2>4, Types DEF IndInv, RetryHasAttempts
    <3>3. proc[w].attempt + 1 \in 1..RetryMax
      BY <3>2, Constants
    <3>4. /\ q \in ProcStates /\ q.pc = "requeue" /\ q.msg = proc[w].msg
          /\ q.attempt = proc[w].attempt + 1
          /\ q.todo = proc[w].todo /\ q.recovery = proc[w].recovery
      BY <1>0, <3>3, Types DEF ProcStates
    <3> HIDE DEF q
    <3>5. Moves(w, q)
      BY <3>1, <3>4, MovesTo, Types
    <3> QED BY <1>1, <1>3, <2>2, <2>4, <3>4, <3>5
  <2> QED BY <2>3, <2>4
<1> QED BY <1>2, <1>3

LEMMA RecoverListDoes ==
  ASSUME IndInv, NEW w \in Workers, RecoverList(w)
  PROVE  /\ proc[w].pc = "new" /\ UNCHANGED <<file, crashes>>
         /\ \E q \in ProcStates :
              /\ Moves(w, q) /\ q.pc = "recovering" /\ q.recovery
              /\ \A f \in q.todo : f \in Files /\ file[f].dir = "claimed"
<1> DEFINE q == [At("recovering") EXCEPT !.recovery = TRUE, !.todo = {f \in Files : Stale(f)}]
<1>1. At("recovering") \in ProcStates
  BY AtType
<1>2. /\ q \in ProcStates /\ q.pc = "recovering" /\ q.recovery
      /\ \A f \in q.todo : f \in Files /\ file[f].dir = "claimed"
  BY <1>1 DEF ProcStates, At, Stale
<1>3. proc' = [proc EXCEPT ![w] = q] /\ proc[w].pc = "new" /\ UNCHANGED <<file, crashes>>
  BY DEF RecoverList
<1> HIDE DEF q
<1> QED BY <1>2, <1>3, MovesTo, Types

LEMMA RecoverNextDoes ==
  ASSUME IndInv, NEW w \in Workers, RecoverNext(w)
  PROVE  /\ proc[w].pc = "recovering" /\ UNCHANGED <<file, crashes>>
         /\ \E q \in ProcStates :
              /\ Moves(w, q) /\ q.pc = "archiving" /\ q.f \in proc[w].todo
              /\ q.msg = file[q.f].msg /\ q.attempt = file[q.f].attempt
              /\ q.todo = proc[w].todo \ {q.f} /\ q.recovery = proc[w].recovery
<1>1. PICK f \in proc[w].todo :
        /\ proc[w].pc = "recovering"
        /\ proc' = [proc EXCEPT ![w] = [proc[w] EXCEPT !.pc = "archiving", !.f = f,
                !.msg = file[f].msg, !.attempt = file[f].attempt,
                !.verdict = FailVerdict(file[f].attempt), !.todo = proc[w].todo \ {f}]]
        /\ UNCHANGED <<file, crashes>>
  BY DEF RecoverNext
<1>2. PICK r, m, a, v, d, q :
        /\ r = proc[w] /\ m = file[f].msg /\ a = file[f].attempt
        /\ v = FailVerdict(a) /\ d = r.todo \ {f}
        /\ q = [r EXCEPT !.pc = "archiving", !.f = f, !.msg = m, !.attempt = a,
                          !.verdict = v, !.todo = d]
  OBVIOUS
<1>3. proc' = [proc EXCEPT ![w] = q]
  BY <1>1, <1>2
<1>4. r \in ProcStates
  BY <1>2, Types
<1>5. f \in Files /\ d \in SUBSET Files
  BY <1>2, <1>4 DEF ProcStates
<1>6. m \in Messages /\ a \in 1..RetryMax
  BY <1>2, <1>5, Types
<1>7. v \in Terminal
  BY <1>2 DEF Terminal, FailVerdict
<1>8. q = [r EXCEPT !.pc = "archiving", !.f = f, !.msg = m, !.attempt = a,
                    !.verdict = v, !.todo = d]
  BY <1>2
<1>9. r = [pc |-> r.pc, f |-> r.f, msg |-> r.msg, attempt |-> r.attempt,
           verdict |-> r.verdict, from |-> r.from, recovery |-> r.recovery, todo |-> r.todo,
           names |-> r.names]
      /\ r.from \in {"temp", "inbox"} /\ r.recovery \in BOOLEAN /\ r.names \in SUBSET Messages
  BY <1>4 DEF ProcStates
<1>10. q = [pc |-> "archiving", f |-> f, msg |-> m, attempt |-> a, verdict |-> v,
            from |-> r.from, recovery |-> r.recovery, todo |-> d, names |-> r.names]
  BY <1>8, <1>9
<1>11. q \in ProcStates
  BY <1>5, <1>6, <1>7, <1>9, <1>10 DEF ProcStates
<1>12. q.pc = "archiving" /\ q.f = f /\ q.attempt = a /\ q.msg = m /\ q.todo = d
       /\ q.recovery = r.recovery
  BY <1>10
<1>13. Moves(w, q)
  BY <1>3, <1>11, MovesTo, Types
<1> QED BY <1>1, <1>2, <1>11, <1>12, <1>13, ZenonT(60)

LEMMA RecoverDoneDoes ==
  ASSUME IndInv, NEW w \in Workers, RecoverDone(w)
  PROVE  /\ UNCHANGED <<file, crashes>>
         /\ proc[w].pc = "recovering"
         /\ \E q \in ProcStates : Moves(w, q) /\ q.pc = "idle" /\ q.todo = {} /\ ~q.recovery
<1>1. At("idle") \in ProcStates /\ At("idle").pc = "idle" /\ At("idle").todo = {}
      /\ ~At("idle").recovery
  BY AtType DEF At
<1> QED BY <1>1, MovesTo, Types DEF RecoverDone

LEMMA CrashDoes ==
  ASSUME IndInv, NEW p \in Procs, Crash(p)
  PROVE  /\ UNCHANGED file /\ crashes' > 0
         /\ \E q \in ProcStates : /\ Moves(p, q) /\ q.pc \in {"new", "gone"} /\ q.todo = {}
                                  /\ ~q.recovery /\ (p \in Messages => q.pc = "gone")
<1>1. /\ At("new") \in ProcStates /\ At("new").pc = "new" /\ At("new").todo = {}
      /\ ~At("new").recovery
      /\ At("gone") \in ProcStates /\ At("gone").pc = "gone" /\ At("gone").todo = {}
      /\ ~At("gone").recovery
  BY AtType DEF At
<1>2. proc' = [proc EXCEPT ![p] = At(IF p \in Workers THEN "new" ELSE "gone")]
  BY DEF Crash
<1>3. p \in Messages => p \notin Workers
  BY MailboxAssumption
<1>4. crashes' > 0
  BY Types DEF Crash
<1> QED BY <1>1, <1>2, <1>3, <1>4, MovesTo DEF Crash

\* The parts of KeptInv that speak of processes and files, when one process changes.
LEMMA KeptStep ==
  ASSUME KeptInv, IndInv', NEW p \in Procs, NEW q \in ProcStates, Moves(p, q),
         \A f \in Files : file[f].dir # "none" =>
           file'[f].dir # "none" /\ file'[f].msg = file[f].msg,
         \A f \in q.todo : file'[f].dir # "none",
         q.pc \in Holding => file'[q.f].dir # "none" /\ file'[q.f].msg = q.msg,
         p \in Messages => /\ q.pc \in {"requeue", "writing", "written", "gone"}
                           /\ q.pc # "gone" => q.msg = p,
         crashes' = 0 =>
           /\ crashes = 0
           /\ \A f \in Files : file[f].dir \notin {"none", "retry"} =>
                \/ file'[f].dir \notin {"none", "retry"}
                \/ q.pc = "requeue" /\ q.msg = file[f].msg
           /\ \A f \in Files : file[f].dir = "none" => file'[f].dir # "retry"
           /\ proc[p].pc = "requeue" =>
                \E f \in Files : file'[f].dir \notin {"none", "retry"} /\ file'[f].msg = proc[p].msg
  PROVE  KeptInv'
<1>1. proc'[p] = q /\ \A r \in Procs : r # p => proc'[r] = proc[r]
  BY DEF Moves
<1>2. \A r \in Procs : proc[r].f \in Files /\ proc[r].todo \subseteq Files
  BY Types DEF KeptInv
<1>3. ASSUME NEW r \in Procs
      PROVE  /\ \A f \in proc'[r].todo : file'[f].dir # "none"
             /\ proc'[r].pc \in Holding =>
                  file'[proc'[r].f].dir # "none" /\ file'[proc'[r].f].msg = proc'[r].msg
  <2>1. CASE r = p
    BY <1>1, <2>1
  <2>2. CASE r # p
    <3>1. proc'[r] = proc[r]
      BY <1>1, <2>2
    <3>2. /\ \A f \in proc[r].todo : file[f].dir # "none"
          /\ proc[r].pc \in Holding => file[proc[r].f].dir # "none" /\ file[proc[r].f].msg = proc[r].msg
      BY DEF KeptInv, Backed
    <3> QED BY <1>2, <3>1, <3>2
  <2> QED BY <2>1, <2>2
<1>4. Backed'
  BY <1>3 DEF Backed
<1>5. Clients'
  BY <1>1 DEF KeptInv, Clients, Procs
<1>6. ASSUME crashes' = 0, NEW f \in Files, file'[f].dir # "none"
      PROVE  \/ \E g \in Files : file'[g].dir \notin {"none", "retry"} /\ file'[g].msg = file'[f].msg
             \/ \E r \in Procs : proc'[r].pc = "requeue" /\ proc'[r].msg = file'[f].msg
  <2>1. CASE file[f].dir = "none"
    BY <1>6, <2>1
  <2>2. CASE file[f].dir # "none"
    <3>1. file'[f].msg = file[f].msg
      BY <2>2
    <3>2. CASE \E g \in Files : file[g].dir \notin {"none", "retry"} /\ file[g].msg = file[f].msg
      <4>1. PICK g \in Files : file[g].dir \notin {"none", "retry"} /\ file[g].msg = file[f].msg
        BY <3>2
      <4>2. CASE file'[g].dir \notin {"none", "retry"}
        BY <3>1, <4>1, <4>2
      <4>3. CASE q.pc = "requeue" /\ q.msg = file[g].msg
        BY <1>1, <3>1, <4>1, <4>3
      <4> QED BY <1>6, <4>1, <4>2, <4>3
    <3>3. CASE \E r \in Procs : proc[r].pc = "requeue" /\ proc[r].msg = file[f].msg
      <4>1. PICK r \in Procs : proc[r].pc = "requeue" /\ proc[r].msg = file[f].msg
        BY <3>3
      <4>2. CASE r = p
        BY <1>6, <3>1, <4>1, <4>2
      <4>3. CASE r # p
        BY <1>1, <3>1, <4>1, <4>3
      <4> QED BY <4>2, <4>3
    <3> QED BY <1>6, <2>2, <3>2, <3>3 DEF KeptInv, KeptByNow
  <2> QED BY <2>1, <2>2
<1>7. KeptByNow'
  BY <1>6 DEF KeptByNow
<1> QED BY <1>4, <1>5, <1>7 DEF KeptInv

\* No file changes, and a process that was not about to publish holds something else.
LEMMA KeptQuietly ==
  ASSUME KeptInv, IndInv', NEW p \in Procs, NEW q \in ProcStates, Moves(p, q),
         UNCHANGED file, crashes' = 0 => crashes = 0 /\ proc[p].pc # "requeue",
         \A f \in q.todo : file[f].dir # "none",
         q.pc \in Holding => file[q.f].dir # "none" /\ file[q.f].msg = q.msg,
         p \in Messages => q.pc = "gone"
  PROVE  KeptInv'
BY KeptStep

LEMMA KeptInit == Init => KeptInv
<1> SUFFICES ASSUME Init PROVE KeptInv
  OBVIOUS
<1>1. \A f \in Files : file[f].dir = "none"
  BY DEF Init, NoFile
<1>2. /\ \A w \in Workers : proc[w] = At("new")
      /\ \A m \in Messages : proc[m] = [At("requeue") EXCEPT !.msg = m]
  BY MailboxAssumption DEF Init, Procs
<1>3. \A w \in Workers : proc[w].pc = "new" /\ proc[w].todo = {}
  BY <1>2 DEF At
<1>4. \A m \in Messages : proc[m].pc = "requeue" /\ proc[m].todo = {} /\ proc[m].msg = m
  BY <1>2 DEF At
<1>5. Backed
  BY <1>3, <1>4 DEF Backed, Holding, Procs
<1>6. Clients
  BY <1>4 DEF Clients
<1>7. KeptByNow
  BY <1>1 DEF KeptByNow
<1> QED BY <1>5, <1>6, <1>7, InitIndInv DEF KeptInv

\* Clients publish and crash, and workers do the rest.
LEMMA KeptNext == KeptInv /\ [Next]_vars => KeptInv'
<1> SUFFICES ASSUME KeptInv, [Next]_vars PROVE KeptInv'
  OBVIOUS
<1>i. IndInv /\ IndInv'
  BY NextIndInv DEF KeptInv
<1>b. \A p \in Procs :
        /\ \A f \in proc[p].todo : file[f].dir # "none"
        /\ proc[p].pc \in Holding => file[proc[p].f].dir # "none" /\ file[proc[p].f].msg = proc[p].msg
  BY DEF KeptInv, Backed
<1>c. \A m \in Messages : /\ proc[m].pc \in {"requeue", "writing", "written", "gone"}
                          /\ proc[m].pc # "gone" => proc[m].msg = m
  BY DEF KeptInv, Clients
<1>w. ASSUME NEW w \in Workers PROVE w \in Procs /\ w \notin Messages
  BY MailboxAssumption DEF Procs
<1>1. ASSUME NEW p \in Procs, OpenTemp(p) PROVE KeptInv'
  <2>1. PICK f \in Files, q \in ProcStates :
           /\ Moves(p, q) /\ q.pc = "writing" /\ q.f = f /\ q.msg = proc[p].msg
           /\ q.todo = proc[p].todo
           /\ proc[p].pc = "requeue" /\ file[f].dir = "none"
           /\ file'[f].dir = "temp" /\ file'[f].msg = proc[p].msg
           /\ OnlyFile(f)
    BY <1>i, <1>1, OpenTempDoes
  <2>2. UNCHANGED crashes
    BY <1>1 DEF OpenTemp
  <2>3. \A g \in Files : g # f => file'[g] = file[g]
    BY <2>1 DEF OnlyFile
  <2>4. \A g \in q.todo : g \in Files /\ file'[g].dir # "none"
    BY <1>b, <1>i, <2>1, <2>3, Types
  <2>5. p \in Messages => q.msg = p
    BY <1>c, <2>1
  <2> QED BY <1>i, <2>1, <2>2, <2>3, <2>4, <2>5, KeptStep
<1>2. ASSUME NEW p \in Procs, FinishTemp(p) PROVE KeptInv'
  <2>1. PICK q \in ProcStates : Moves(p, q) /\ q.pc = "written" /\ Keeps(q, proc[p])
    BY <1>i, <1>2, FinishTempDoes
  <2>2. /\ proc[p].pc = "writing" /\ UNCHANGED crashes
        /\ \A g \in Files : file'[g].dir = file[g].dir /\ file'[g].msg = file[g].msg
    BY <1>i, <1>2, FinishTempDoes DEF FinishTemp
  <2>3. /\ proc[p].f \in Files /\ proc[p].todo \subseteq Files
        /\ q.f = proc[p].f /\ q.msg = proc[p].msg /\ q.todo = proc[p].todo
    BY <1>i, <2>1, Types DEF Keeps
  <2>4. file[q.f].dir # "none" /\ file[q.f].msg = q.msg /\ (p \in Messages => q.msg = p)
    BY <1>b, <1>c, <2>2, <2>3 DEF Holding
  <2> QED BY <1>b, <1>i, <2>1, <2>2, <2>3, <2>4, KeptStep
<1>3. ASSUME NEW p \in Procs, Return(p) \/ Raise(p), UNCHANGED crashes, proc[p].pc # "requeue",
             \A g \in Files : /\ file'[g].msg = file[g].msg
                              /\ file[g].dir = "none" <=> file'[g].dir = "none"
                              /\ file'[g].dir = "retry" => file[g].dir = "retry"
      PROVE  KeptInv'
  <2>1. PICK q \in ProcStates :
           /\ Moves(p, q) /\ q.pc \in {"gone", "new", "recovering", "idle"}
           /\ q.todo \subseteq proc[p].todo
           /\ p \in Messages => q.pc = "gone"
    BY <1>i, <1>3, EndsAs
  <2>2. \A f \in q.todo : f \in Files /\ file[f].dir # "none"
    BY <1>b, <1>i, <2>1, Types
  <2>3. q.pc \notin Holding
    BY <2>1 DEF Holding
  <2> QED BY <1>i, <1>3, <2>1, <2>2, <2>3, KeptStep
<1>4. ASSUME NEW p \in Procs, RenameTemp(p) PROVE KeptInv'
  <2>1. UNCHANGED crashes
    BY <1>4 DEF RenameTemp
  <2> QED BY <1>i, <1>3, <1>4, <2>1, RenameTempDoes
<1>5. ASSUME NEW p \in Procs, Crash(p) PROVE KeptInv'
  <2>1. PICK q \in ProcStates : /\ Moves(p, q) /\ q.pc \in {"new", "gone"} /\ q.todo = {}
                                /\ (p \in Messages => q.pc = "gone")
    BY <1>i, <1>5, CrashDoes
  <2>2. UNCHANGED file /\ crashes' # 0
    BY <1>i, <1>5, CrashDoes
  <2> QED BY <1>i, <2>1, <2>2, KeptQuietly DEF Holding
<1>6. ASSUME NEW w \in Workers, NEW q \in ProcStates, Moves(w, q), UNCHANGED <<file, crashes>>,
             proc[w].pc # "requeue", \A f \in q.todo : file[f].dir # "none",
             q.pc \in Holding => file[q.f].dir # "none" /\ file[q.f].msg = q.msg
      PROVE  KeptInv'
  BY <1>i, <1>w, <1>6, KeptQuietly
<1>7. ASSUME NEW w \in Workers, ClaimList(w) PROVE KeptInv'
  <2>1. PICK q \in ProcStates :
           /\ Moves(w, q) /\ q.pc = "listed" /\ \A f \in q.todo : f \in Files /\ file[f].dir = "temp"
           /\ proc[w].pc = "idle" /\ UNCHANGED <<file, crashes>>
    BY <1>i, <1>7, ClaimListDoes
  <2> QED BY <1>6, <2>1 DEF Holding
<1>8. ASSUME NEW w \in Workers, ClaimRead(w) PROVE KeptInv'
  <2>1. proc[w].pc = "listed" /\ UNCHANGED <<file, crashes>>
    BY <1>i, <1>8, ClaimReadDoes
  <2>2. CASE Raise(w)
    BY <1>3, <1>w, <2>1, <2>2
  <2>3. ASSUME NEW q \in ProcStates, Moves(w, q), q.pc = "listed", q.todo \subseteq proc[w].todo
        PROVE  KeptInv'
    BY <1>6, <1>b, <1>w, <2>1, <2>3 DEF Holding
  <2>4. ASSUME NEW q \in ProcStates, Moves(w, q), q.pc = "read", q.todo \subseteq proc[w].todo,
               q.msg = file[q.f].msg, file[q.f].dir \in {"temp", "inbox"}
        PROVE  KeptInv'
    BY <1>6, <1>b, <1>w, <2>1, <2>4
  <2> QED BY <1>i, <1>8, <2>2, <2>3, <2>4, ClaimReadDoes
<1>9. ASSUME NEW w \in Workers, ClaimNone(w) PROVE KeptInv'
  BY <1>3, <1>w, <1>9 DEF ClaimNone
<1>10. ASSUME NEW w \in Workers, ClaimRename(w) PROVE KeptInv'
  <2>1. proc[w].pc = "read" /\ UNCHANGED crashes
    BY <1>i, <1>10, ClaimRenameDoes
  <2>2. ASSUME NEW q \in ProcStates, Moves(w, q), q.pc = "renamed", q.f \in ClaimSource(w),
               q.msg = proc[w].msg, q.todo = proc[w].todo,
               file'[q.f].dir = "claimed", file'[q.f].msg = file[q.f].msg, OnlyFile(q.f)
        PROVE  KeptInv'
    <3>1. q.f \in Files /\ file[q.f].dir \in {"temp", "inbox"} /\ file[q.f].msg = q.msg
      BY <1>b, <1>i, <1>w, <2>1, <2>2, Types DEF ClaimSource, InInbox, Holding
    <3>2. \A g \in Files : g # q.f => file'[g] = file[g]
      BY <2>2 DEF OnlyFile
    <3>3. \A f \in q.todo : f \in Files /\ file[f].dir # "none"
      BY <1>b, <1>i, <1>w, <2>2, Types
    <3> QED BY <1>i, <1>w, <2>1, <2>2, <3>1, <3>2, <3>3, KeptStep
  <2>3. ASSUME NEW q \in ProcStates, Moves(w, q), q.pc = "listed", Keeps(q, proc[w]), UNCHANGED file
        PROVE  KeptInv'
    BY <1>6, <1>b, <1>w, <2>1, <2>3 DEF Keeps, Holding
  <2> QED BY <1>i, <1>10, <2>2, <2>3, ClaimRenameDoes
<1>11. ASSUME NEW w \in Workers, NEW q \in ProcStates, Moves(w, q), UNCHANGED crashes,
              proc[w].pc \in Holding, q.todo \subseteq proc[w].todo, q.f \in Files,
              file[q.f].dir # "none", file[q.f].msg = q.msg, q.pc # "requeue",
              \A g \in Files : file'[g].dir = file[g].dir /\ file'[g].msg = file[g].msg
       PROVE  KeptInv'
  <2>1. \A f \in q.todo : f \in Files /\ file[f].dir # "none"
    BY <1>b, <1>i, <1>w, <1>11, Types
  <2> QED BY <1>i, <1>w, <1>11, <2>1, KeptStep DEF Holding
<1>12. ASSUME NEW w \in Workers, ClaimWrite(w) PROVE KeptInv'
  <2>1. PICK q \in ProcStates :
          Moves(w, q) /\ q.pc = "working" /\ q.f = proc[w].f /\ q.todo = {} /\ q.msg = proc[w].msg
    BY <1>i, <1>12, ClaimWriteDoes
  <2>2. /\ proc[w].pc = "renamed" /\ UNCHANGED crashes
        /\ \A g \in Files : file'[g].dir = file[g].dir /\ file'[g].msg = file[g].msg
    BY <1>i, <1>12, ClaimWriteDoes
  <2> QED BY <1>11, <1>b, <1>i, <1>w, <2>1, <2>2, Types DEF Holding
<1>13. ASSUME NEW w \in Workers, Finish(w) PROVE KeptInv'
  <2>1. PICK q \in ProcStates : Moves(w, q) /\ q.pc = "archiving" /\ Keeps(q, proc[w])
    BY <1>i, <1>13, FinishDoes
  <2>2. proc[w].pc = "working" /\ UNCHANGED <<file, crashes>>
    BY <1>i, <1>13, FinishDoes
  <2> QED BY <1>6, <1>b, <1>w, <2>1, <2>2 DEF Keeps, Holding
<1>14. ASSUME NEW w \in Workers, ArchiveWrite(w) PROVE KeptInv'
  <2>1. PICK q \in ProcStates :
              /\ Moves(w, q) /\ q.pc = "moving" /\ q.f \in ClaimPath(w) /\ q.f \in Files
              /\ q.msg = proc[w].msg /\ q.todo = proc[w].todo
    BY <1>i, <1>14, ArchiveWriteDoes
  <2>2. /\ proc[w].pc = "archiving" /\ UNCHANGED crashes
        /\ \A g \in Files : file'[g].dir = file[g].dir /\ file'[g].msg = file[g].msg
    BY <1>i, <1>14, ArchiveWriteDoes
  <2>3. file[q.f].dir # "none" /\ file[q.f].msg = q.msg
    BY <1>b, <1>w, <2>1, <2>2 DEF ClaimPath, Holding
  <2> QED BY <1>11, <2>1, <2>2, <2>3 DEF Holding
<1>15. ASSUME NEW w \in Workers, ArchiveMove(w) PROVE KeptInv'
  <2>1. proc[w].pc = "moving" /\ UNCHANGED crashes
    BY <1>i, <1>15, ArchiveMoveDoes
  <2>2. /\ proc[w].f \in Files /\ proc[w].verdict \in Terminal
        /\ file[proc[w].f].msg = proc[w].msg
    BY <1>b, <1>i, <1>w, <2>1, Types DEF Holding
  <2>3. CASE UNCHANGED file /\ Raise(w)
    BY <1>3, <1>w, <2>1, <2>3
  <2>4. CASE /\ file[proc[w].f].dir = "claimed" /\ OnlyFile(proc[w].f)
             /\ file'[proc[w].f].dir = proc[w].verdict
             /\ file'[proc[w].f].msg = file[proc[w].f].msg
             /\ proc[w].verdict # "retry" /\ Return(w)
    <3>1. \A g \in Files : /\ file'[g].msg = file[g].msg
                           /\ file[g].dir = "none" <=> file'[g].dir = "none"
                           /\ file'[g].dir = "retry" => file[g].dir = "retry"
      BY <2>2, <2>4 DEF OnlyFile, Terminal
    <3> QED BY <1>3, <1>w, <2>1, <2>4, <3>1
  <2>5. ASSUME file[proc[w].f].dir = "claimed", OnlyFile(proc[w].f),
               file'[proc[w].f].dir = proc[w].verdict,
               file'[proc[w].f].msg = file[proc[w].f].msg,
               proc[w].verdict = "retry",
               NEW q \in ProcStates, Moves(w, q), q.pc = "requeue", q.msg = proc[w].msg,
               q.todo = proc[w].todo
        PROVE  KeptInv'
    <3>1. \A g \in Files : g # proc[w].f => file'[g] = file[g]
      BY <2>5 DEF OnlyFile
    <3>2. \A f \in q.todo : f \in Files /\ file[f].dir # "none"
      BY <1>b, <1>i, <1>w, <2>5, Types
    <3> QED BY <1>i, <1>w, <2>1, <2>2, <2>5, <3>1, <3>2, KeptStep DEF Holding
  <2> QED BY <1>i, <1>15, <2>3, <2>4, <2>5, ArchiveMoveDoes
<1>16. ASSUME NEW w \in Workers, ArchiveRaises(w) PROVE KeptInv'
  BY <1>3, <1>w, <1>16 DEF ArchiveRaises
<1>17. ASSUME NEW w \in Workers, RecoverList(w) PROVE KeptInv'
  <2>1. PICK q \in ProcStates :
          Moves(w, q) /\ q.pc = "recovering" /\ \A f \in q.todo : f \in Files /\ file[f].dir = "claimed"
    BY <1>i, <1>17, RecoverListDoes
  <2> QED BY <1>6, <1>i, <1>17, <2>1, RecoverListDoes DEF Holding
<1>18. ASSUME NEW w \in Workers, RecoverNext(w) PROVE KeptInv'
  <2>1. PICK q \in ProcStates :
          /\ Moves(w, q) /\ q.pc = "archiving" /\ q.f \in proc[w].todo
          /\ q.msg = file[q.f].msg /\ q.todo = proc[w].todo \ {q.f}
    BY <1>i, <1>18, RecoverNextDoes
  <2> QED BY <1>6, <1>b, <1>i, <1>w, <1>18, <2>1, RecoverNextDoes
<1>19. ASSUME NEW w \in Workers, RecoverDone(w) PROVE KeptInv'
  <2>1. PICK q \in ProcStates : Moves(w, q) /\ q.pc = "idle" /\ q.todo = {}
    BY <1>i, <1>19, RecoverDoneDoes
  <2> QED BY <1>6, <1>i, <1>19, <2>1, RecoverDoneDoes DEF Holding
<1>20. CASE UNCHANGED <<file, proc, crashes>>
  BY <1>i, <1>20 DEF KeptInv, Backed, Clients, KeptByNow
<1> QED
  BY <1>1, <1>2, <1>4, <1>5, <1>7, <1>8, <1>9, <1>10, <1>12, <1>13, <1>14, <1>15, <1>16, <1>17,
     <1>18, <1>19, <1>20 DEF Next, Publish, WorkerStep, Heartbeat, LeaseExpires, vars

\* As long as no process dies, a message whose publication was completed is in the
\* mailbox until it is done or failed, or a worker is about to write its next attempt:
\* for any clients, workers and ceiling, and whether or not leases end early.
THEOREM KeptTheorem == Spec => [](crashes = 0 => PublishedIsKept)
<1>1. KeptInv => (crashes = 0 => PublishedIsKept)
  <2> SUFFICES ASSUME KeptInv, crashes = 0, NEW m \in Messages, Created(m) # {}, proc[m].pc = "gone"
               PROVE  \/ \E f \in Created(m) : file[f].dir # "retry"
                      \/ \E w \in Workers : proc[w].pc = "requeue" /\ proc[w].msg = m
    BY DEF PublishedIsKept
  <2>1. PICK f \in Files : file[f].dir # "none" /\ file[f].msg = m
    BY DEF Created
  <2>2. CASE \E g \in Files : file[g].dir \notin {"none", "retry"} /\ file[g].msg = m
    BY <2>2 DEF Created
  <2>3. ASSUME NEW p \in Procs, proc[p].pc = "requeue", proc[p].msg = m
        PROVE  p \in Workers
    BY <2>3 DEF KeptInv, Clients, Procs
  <2> QED BY <2>1, <2>2, <2>3 DEF KeptInv, KeptByNow
<1> QED BY KeptInit, KeptNext, <1>1, PTL DEF Spec

\* A step that brings no file into the mailbox or into retry/, and no process to publish.
LEMMA OnceQuietly ==
  ASSUME OneWorker, OnceInv, KeptInv', NEW p \in Procs, NEW q \in ProcStates, Moves(p, q),
         q.pc # "requeue",
         \A g \in Files : /\ file'[g].msg = file[g].msg /\ file'[g].attempt = file[g].attempt
                          /\ file'[g].dir = "none" <=> file[g].dir = "none"
                          /\ file'[g].dir = "retry" <=> file[g].dir = "retry",
         p \in Workers => ClaimOK(q)',
         p \in Messages => \A g \in Files : \/ file'[g].dir = file[g].dir
                                            \/ file[g].dir = "temp" /\ file'[g].dir = "inbox"
  PROVE  OnceInv'
<1>1. proc'[p] = q /\ \A r \in Procs : r # p => proc'[r] = proc[r]
  BY DEF Moves
<1>2. \A r \in Procs : proc[r].f \in Files /\ proc[r].todo \subseteq Files
  BY Types DEF OnceInv, KeptInv
<1>3. OnceEach'
  BY DEF OnceInv, OnceEach
<1>4. ASSUME NEW w \in Workers PROVE ClaimOK(proc[w])'
  <2>1. CASE w = p
    BY <1>1, <2>1 DEF ClaimOK
  <2>2. CASE w # p
    <3>1. p \in Messages
      BY <2>2 DEF OneWorker, Procs
    <3>2. w \in Procs /\ proc'[w] = proc[w] /\ ClaimOK(proc[w])
      BY <1>1, <2>2 DEF Procs, OnceInv, Claiming
    <3>3. \A g \in Files : \/ file'[g].dir = file[g].dir
                           \/ file[g].dir = "temp" /\ file'[g].dir = "inbox"
      BY <3>1
    <3> QED BY <1>2, <3>2, <3>3 DEF ClaimOK
  <2> QED BY <2>1, <2>2
<1>5. Claiming'
  BY <1>4 DEF Claiming
<1>6. Publishing'
  BY <1>1 DEF OnceInv, Publishing
<1>7. Unborn'
  BY <1>1 DEF OnceInv, Unborn, Procs
<1> QED BY <1>3, <1>5, <1>6, <1>7 DEF OnceInv

LEMMA OnceInit == Init => OnceInv
<1> SUFFICES ASSUME Init PROVE OnceInv
  OBVIOUS
<1>1. \A f \in Files : file[f].dir = "none"
  BY DEF Init, NoFile
<1>2. \A w \in Workers : proc[w] = At("new")
  BY DEF Init, Procs
<1>3. \A w \in Workers : proc[w].pc = "new" /\ proc[w].recovery = FALSE
  BY <1>2 DEF At
<1>4. OnceEach /\ Claiming /\ Publishing /\ Unborn
  BY <1>1, <1>3 DEF OnceEach, Claiming, ClaimOK, Publishing, Unborn
<1> QED BY <1>4, KeptInit DEF OnceInv

\* A process opens its temporary file.
LEMMA OnceOpens ==
  ASSUME OneWorker, OnceInv, KeptInv', NEW p \in Procs, OpenTemp(p)
  PROVE  OnceInv'
<1>i. IndInv
  BY DEF OnceInv, KeptInv
<1>1. PICK f \in Files, q \in ProcStates :
         /\ Moves(p, q) /\ q.pc = "writing" /\ q.f = f /\ q.msg = proc[p].msg
         /\ q.attempt = proc[p].attempt /\ q.todo = proc[p].todo
         /\ q.recovery = proc[p].recovery
         /\ proc[p].pc = "requeue" /\ file[f].dir = "none"
         /\ file'[f].dir = "temp" /\ file'[f].msg = proc[p].msg
         /\ file'[f].attempt = proc[p].attempt
         /\ OnlyFile(f)
  BY <1>i, OpenTempDoes
<1>2. proc'[p] = q /\ \A r \in Procs : r # p => proc'[r] = proc[r]
  BY <1>1 DEF Moves
<1>3. \A g \in Files : g # f => file'[g] = file[g]
  BY <1>1 DEF OnlyFile
<1>4. \A g \in Files : file[g].dir # "none" /\ file[g].msg = proc[p].msg =>
        file[g].dir = "retry" /\ file[g].attempt < proc[p].attempt
  BY <1>1 DEF OnceInv, Publishing
<1>5. proc[p].attempt \in 1..RetryMax /\ \A g \in Files : file[g].attempt \in 1..RetryMax
  BY <1>i, Types
<1>6. OnceEach'
  <2> SUFFICES ASSUME NEW g \in Files, NEW h \in Files, g # h, file'[g].dir # "none",
                      file'[h].dir # "none", file'[g].msg = file'[h].msg
               PROVE  /\ file'[g].attempt # file'[h].attempt
                      /\ file'[g].dir # "retry" =>
                           file'[h].dir = "retry" /\ file'[h].attempt < file'[g].attempt
    BY DEF OnceEach
  <2>1. CASE g = f
    BY <1>1, <1>3, <1>4, <1>5, <2>1
  <2>2. CASE h = f
    BY <1>1, <1>3, <1>4, <1>5, <2>2
  <2>3. CASE g # f /\ h # f
    BY <1>3, <2>3 DEF OnceInv, OnceEach
  <2> QED BY <2>1, <2>2, <2>3
<1>7. \A r \in Procs : /\ \A g \in proc[r].todo : g \in Files /\ g # f
                       /\ proc[r].pc \in Holding => proc[r].f \in Files /\ proc[r].f # f
  BY <1>1, <1>i, Types DEF OnceInv, KeptInv, Backed
<1>8. ASSUME NEW w \in Workers PROVE ClaimOK(proc[w])'
  <2>1. w \in Procs /\ ClaimOK(proc[w])
    BY DEF Procs, OnceInv, Claiming
  <2>2. CASE w = p
    BY <1>1, <1>2, <1>3, <1>7, <2>1, <2>2 DEF ClaimOK
  <2>3. CASE w # p
    <3>1. proc'[w] = proc[w]
      BY <1>2, <2>1, <2>3
    <3> QED BY <1>3, <1>7, <2>1, <3>1 DEF ClaimOK, Holding
  <2> QED BY <2>2, <2>3
<1>9. Claiming'
  BY <1>8 DEF Claiming
<1>10. ASSUME NEW r \in Procs, r # p, proc[r].pc = "requeue" PROVE proc[r].msg # proc[p].msg
  <2>1. CASE r \in Workers
    BY <1>1, <1>10, <2>1 DEF OneWorker, Procs, OnceInv, Unborn, KeptInv, Clients
  <2>2. CASE r \in Messages /\ p \in Workers
    BY <1>1, <1>10, <2>2 DEF OnceInv, Unborn, KeptInv, Clients
  <2>3. CASE r \in Messages /\ p \in Messages
    BY <1>1, <1>10, <2>3 DEF OnceInv, KeptInv, Clients
  <2> QED BY <2>1, <2>2, <2>3 DEF Procs
<1>11. Publishing'
  <2> SUFFICES ASSUME NEW r \in Procs, proc'[r].pc = "requeue", NEW g \in Files,
                      file'[g].dir # "none", file'[g].msg = proc'[r].msg
               PROVE  file'[g].dir = "retry" /\ file'[g].attempt < proc'[r].attempt
    BY DEF Publishing
  <2>1. r # p /\ proc'[r] = proc[r]
    BY <1>1, <1>2
  <2>2. g # f
    BY <1>1, <1>10, <2>1
  <2> QED BY <1>3, <2>1, <2>2 DEF OnceInv, Publishing
<1>12. Unborn'
  <2> SUFFICES ASSUME NEW m \in Messages, proc'[m].pc = "requeue"
               PROVE  /\ \A g \in Files : file'[g].dir # "none" => file'[g].msg # m
                      /\ \A w \in Workers : proc'[w].pc = "requeue" => proc'[w].msg # m
    BY DEF Unborn
  <2>1. m \in Procs /\ m # p /\ proc'[m] = proc[m] /\ proc[m].msg = m
    BY <1>1, <1>2 DEF Procs, OnceInv, KeptInv, Clients
  <2>2. proc[p].msg # m
    BY <1>10, <2>1
  <2>3. \A g \in Files : file'[g].dir # "none" => file'[g].msg # m
    BY <1>1, <1>3, <2>1, <2>2 DEF OnceInv, Unborn
  <2>4. \A w \in Workers : proc'[w].pc = "requeue" => proc'[w].msg # m
    BY <1>1, <1>2, <2>1 DEF OnceInv, Unborn, Procs
  <2> QED BY <2>3, <2>4
<1> QED BY <1>6, <1>9, <1>11, <1>12 DEF OnceInv

\* The worker archives a retry and is about to publish the next attempt.
LEMMA OnceRetries ==
  ASSUME OneWorker, OnceInv, KeptInv', NEW w \in Workers, NEW q \in ProcStates,
         proc[w].pc = "moving", OnlyFile(proc[w].f),
         file'[proc[w].f].dir = "retry", file'[proc[w].f].msg = file[proc[w].f].msg,
         file'[proc[w].f].attempt = file[proc[w].f].attempt,
         Moves(w, q), q.pc = "requeue", q.msg = proc[w].msg, q.attempt = proc[w].attempt + 1,
         q.todo = proc[w].todo, q.recovery = proc[w].recovery
  PROVE  OnceInv'
<1> DEFINE f == proc[w].f
<1>1. IndInv /\ w \in Procs
  BY DEF OnceInv, KeptInv, Procs
<1>2. /\ f \in Files /\ file[f].dir = "claimed" /\ file[f].msg = proc[w].msg
      /\ file[f].attempt = proc[w].attempt /\ proc[w].attempt \in 1..RetryMax
      /\ proc[w].recovery => \A g \in proc[w].todo : g \in Files /\ g # f /\ file[g].dir = "claimed"
      /\ \A g \in Files : file[g].attempt \in 1..RetryMax
  BY <1>1, Types DEF OnceInv, KeptInv, Backed, Claiming, ClaimOK, Holding
<1>3. /\ proc'[w] = q /\ \A r \in Procs : r # w => proc'[r] = proc[r]
      /\ \A g \in Files : g # f => file'[g] = file[g]
      /\ file'[f].dir = "retry" /\ file'[f].msg = file[f].msg /\ file'[f].attempt = file[f].attempt
  BY DEF Moves, OnlyFile
<1> HIDE DEF f
<1>4. \A g \in Files : g # f /\ file[g].dir # "none" /\ file[g].msg = file[f].msg =>
        file[g].dir = "retry" /\ file[g].attempt < file[f].attempt
  BY <1>2 DEF OnceInv, OnceEach
<1>5. OnceEach'
  <2> SUFFICES ASSUME NEW g \in Files, NEW h \in Files, g # h, file'[g].dir # "none",
                      file'[h].dir # "none", file'[g].msg = file'[h].msg
               PROVE  /\ file'[g].attempt # file'[h].attempt
                      /\ file'[g].dir # "retry" =>
                           file'[h].dir = "retry" /\ file'[h].attempt < file'[g].attempt
    BY DEF OnceEach
  <2>1. CASE g = f
    BY <1>2, <1>3, <1>4, <2>1
  <2>2. CASE h = f
    BY <1>2, <1>3, <1>4, <2>2
  <2>3. CASE g # f /\ h # f
    BY <1>3, <2>3 DEF OnceInv, OnceEach
  <2> QED BY <2>1, <2>2, <2>3
<1>6. ASSUME NEW v \in Workers PROVE ClaimOK(proc[v])'
  <2>1. v = w
    BY DEF OneWorker
  <2> QED BY <1>2, <1>3, <2>1 DEF ClaimOK, OnceInv, Claiming
<1>7. ASSUME NEW m \in Messages, proc[m].pc = "requeue"
      PROVE  m # file[f].msg /\ \A g \in Files : file[g].dir # "none" => file[g].msg # m
  BY <1>2, <1>7 DEF OnceInv, Unborn
<1>8. Publishing'
  <2> SUFFICES ASSUME NEW r \in Procs, proc'[r].pc = "requeue", NEW g \in Files,
                      file'[g].dir # "none", file'[g].msg = proc'[r].msg
               PROVE  file'[g].dir = "retry" /\ file'[g].attempt < proc'[r].attempt
    BY DEF Publishing
  <2>1. CASE r = w
    BY <1>2, <1>3, <1>4, <2>1
  <2>2. CASE r # w
    <3>1. r \in Messages /\ proc'[r] = proc[r] /\ proc[r].msg = r
      BY <1>3, <2>2 DEF OneWorker, Procs, OnceInv, KeptInv, Clients
    <3> QED BY <1>2, <1>3, <1>7, <3>1
  <2> QED BY <2>1, <2>2
<1>9. Unborn'
  <2> SUFFICES ASSUME NEW m \in Messages, proc'[m].pc = "requeue"
               PROVE  /\ \A g \in Files : file'[g].dir # "none" => file'[g].msg # m
                      /\ \A v \in Workers : proc'[v].pc = "requeue" => proc'[v].msg # m
    BY DEF Unborn
  <2>1. m \in Procs /\ m # w /\ proc'[m] = proc[m]
    BY <1>3, MailboxAssumption DEF Procs
  <2>2. \A g \in Files : file'[g].dir # "none" => file'[g].msg # m
    BY <1>2, <1>3, <1>7, <2>1
  <2>3. \A v \in Workers : proc'[v].pc = "requeue" => proc'[v].msg # m
    BY <1>2, <1>3, <1>7, <2>1 DEF OneWorker
  <2> QED BY <2>2, <2>3
<1>10. Claiming'
  BY <1>6 DEF Claiming
<1> QED BY <1>5, <1>8, <1>9, <1>10 DEF OnceInv

LEMMA OnceNext == OneWorker /\ OnceInv /\ [Next]_vars => OnceInv'
<1> SUFFICES ASSUME OneWorker, OnceInv, [Next]_vars PROVE OnceInv'
  OBVIOUS
<1>k. KeptInv /\ IndInv /\ KeptInv'
  BY KeptNext DEF OnceInv, KeptInv
<1>b. \A p \in Procs : /\ proc[p].f \in Files /\ proc[p].todo \subseteq Files
                       /\ proc[p].pc \in Holding =>
                            file[proc[p].f].dir # "none" /\ file[proc[p].f].msg = proc[p].msg
  BY <1>k, Types DEF KeptInv, Backed
<1>c. ASSUME NEW w \in Workers PROVE w \in Procs /\ w \notin Messages /\ ClaimOK(proc[w])
  BY MailboxAssumption DEF Procs, OnceInv, Claiming
<1>1. ASSUME NEW p \in Procs, OpenTemp(p) PROVE OnceInv'
  BY <1>1, <1>k, OnceOpens
<1>2. ASSUME NEW p \in Procs, FinishTemp(p) PROVE OnceInv'
  <2>1. PICK q \in ProcStates : Moves(p, q) /\ q.pc = "written" /\ Keeps(q, proc[p])
    BY <1>k, <1>2, FinishTempDoes
  <2>2. /\ proc[p].pc = "writing"
        /\ \A g \in Files : file'[g].dir = file[g].dir /\ file'[g].msg = file[g].msg
                            /\ file'[g].attempt = file[g].attempt
    BY <1>k, <1>2, FinishTempDoes
  <2>3. p \in Workers => ClaimOK(q)'
    BY <1>b, <1>c, <2>1, <2>2 DEF ClaimOK, Keeps
  <2> QED BY <1>k, <2>1, <2>2, <2>3, OnceQuietly
<1>3. ASSUME NEW p \in Procs, Return(p) \/ Raise(p),
             \A g \in Files : /\ file'[g].msg = file[g].msg /\ file'[g].attempt = file[g].attempt
                              /\ file'[g].dir = "none" <=> file[g].dir = "none"
                              /\ file'[g].dir = "retry" <=> file[g].dir = "retry",
             p \in Workers /\ proc[p].recovery => \A f \in proc[p].todo : file'[f].dir = "claimed",
             p \in Messages => \A g \in Files : \/ file'[g].dir = file[g].dir
                                                \/ file[g].dir = "temp" /\ file'[g].dir = "inbox"
      PROVE  OnceInv'
  <2>1. PICK q \in ProcStates :
           /\ Moves(p, q) /\ q.pc \in {"gone", "new", "recovering", "idle"}
           /\ q.todo \subseteq proc[p].todo
           /\ q.recovery => q.pc = "recovering" /\ proc[p].recovery
           /\ q.pc = "recovering" => q.recovery
    BY <1>k, <1>3, EndsAs
  <2>2. p \in Workers => ClaimOK(q)'
    BY <1>3, <2>1 DEF ClaimOK
  <2> QED BY <1>k, <1>3, <2>1, <2>2, OnceQuietly
<1>4. ASSUME NEW p \in Procs, RenameTemp(p) PROVE OnceInv'
  <2>1. /\ Return(p) \/ Raise(p)
        /\ \A g \in Files : /\ file'[g].msg = file[g].msg /\ file'[g].attempt = file[g].attempt
                            /\ \/ file'[g].dir = file[g].dir
                               \/ file[g].dir = "temp" /\ file'[g].dir = "inbox"
    BY <1>k, <1>4, RenameTempDoes
  <2>2. p \in Workers /\ proc[p].recovery => \A f \in proc[p].todo : file'[f].dir = "claimed"
    BY <1>b, <1>c, <2>1 DEF ClaimOK
  <2> QED BY <1>3, <2>1, <2>2
<1>5. ASSUME NEW p \in Procs, Crash(p) PROVE OnceInv'
  <2>1. PICK q \in ProcStates : Moves(p, q) /\ q.pc \in {"new", "gone"} /\ ~q.recovery
    BY <1>k, <1>5, CrashDoes
  <2>2. UNCHANGED file
    BY <1>k, <1>5, CrashDoes
  <2> QED BY <1>k, <2>1, <2>2, OnceQuietly DEF ClaimOK
<1>6. ASSUME NEW w \in Workers, NEW q \in ProcStates, Moves(w, q), UNCHANGED file,
             q.pc # "requeue", ClaimOK(q)
      PROVE  OnceInv'
  <2>1. ClaimOK(q)'
    BY <1>6 DEF ClaimOK
  <2> QED BY <1>c, <1>k, <1>6, <2>1, OnceQuietly
<1>7. ASSUME NEW w \in Workers, ClaimList(w) PROVE OnceInv'
  <2>1. PICK q \in ProcStates : /\ Moves(w, q) /\ q.pc = "listed" /\ ~q.recovery
                                /\ UNCHANGED <<file, crashes>>
    BY <1>k, <1>7, ClaimListDoes
  <2> QED BY <1>6, <2>1 DEF ClaimOK
<1>8. ASSUME NEW w \in Workers, ClaimRead(w) PROVE OnceInv'
  <2>1. proc[w].pc = "listed" /\ UNCHANGED file
    BY <1>k, <1>8, ClaimReadDoes
  <2>2. ~proc[w].recovery
    BY <1>c, <2>1 DEF ClaimOK
  <2>3. CASE Raise(w)
    BY <1>3, <1>c, <2>1, <2>2, <2>3
  <2>4. ASSUME NEW q \in ProcStates, Moves(w, q), q.pc = "listed", q.recovery = proc[w].recovery
        PROVE  OnceInv'
    BY <1>6, <2>1, <2>2, <2>4 DEF ClaimOK
  <2>5. ASSUME NEW q \in ProcStates, Moves(w, q), q.pc = "read", q.recovery = proc[w].recovery,
               q.attempt = file[q.f].attempt,
               \/ q.from = "temp" /\ file[q.f].dir = "temp"
               \/ q.from = "inbox" /\ file[q.f].dir = "inbox"
        PROVE  OnceInv'
    BY <1>6, <2>1, <2>2, <2>5 DEF ClaimOK
  <2> QED BY <1>k, <1>8, <2>3, <2>4, <2>5, ClaimReadDoes
<1>9. ASSUME NEW w \in Workers, Return(w) \/ Raise(w), UNCHANGED file PROVE OnceInv'
  BY <1>3, <1>c, <1>9 DEF ClaimOK
<1>10. ASSUME NEW w \in Workers, ClaimRename(w) PROVE OnceInv'
  <2>1. proc[w].pc = "read" /\ ~proc[w].recovery
    BY <1>c, <1>k, <1>10, ClaimRenameDoes DEF ClaimOK
  <2>2. ASSUME NEW q \in ProcStates, Moves(w, q), q.pc = "renamed", q.f \in ClaimSource(w),
               q.attempt = proc[w].attempt, q.recovery = proc[w].recovery,
               file'[q.f].dir = "claimed", file'[q.f].msg = file[q.f].msg,
               file'[q.f].attempt = file[q.f].attempt, OnlyFile(q.f)
        PROVE  OnceInv'
    <3>1. /\ proc[w].f \in Files /\ file[proc[w].f].msg = proc[w].msg
          /\ file[proc[w].f].attempt = proc[w].attempt
          /\ proc[w].from = "inbox" => file[proc[w].f].dir = "inbox"
      BY <1>b, <1>c, <2>1 DEF ClaimOK, Holding
    <3>2. q.f \in Files /\ q.f = proc[w].f /\ file[q.f].dir \in {"temp", "inbox"}
      BY <2>2, <3>1 DEF ClaimSource, InInbox, OnceInv, OnceEach
    <3>3. \A g \in Files : g # q.f => file'[g] = file[g]
      BY <2>2 DEF OnlyFile
    <3>4. ClaimOK(q)'
      BY <2>1, <2>2, <3>1, <3>2 DEF ClaimOK
    <3> QED BY <1>c, <1>k, <2>2, <3>2, <3>3, <3>4, OnceQuietly
  <2>3. ASSUME NEW q \in ProcStates, Moves(w, q), q.pc = "listed", Keeps(q, proc[w]), UNCHANGED file
        PROVE  OnceInv'
    BY <1>6, <2>1, <2>3 DEF ClaimOK, Keeps
  <2> QED BY <1>k, <1>10, <2>2, <2>3, ClaimRenameDoes
<1>11. ASSUME NEW w \in Workers, ClaimWrite(w) PROVE OnceInv'
  <2>1. PICK q \in ProcStates :
          /\ Moves(w, q) /\ q.pc = "working" /\ q.f = proc[w].f /\ q.todo = {}
          /\ q.attempt = proc[w].attempt /\ q.recovery = proc[w].recovery
    BY <1>k, <1>11, ClaimWriteDoes
  <2>2. /\ proc[w].pc = "renamed"
        /\ file'[proc[w].f].attempt = proc[w].attempt
        /\ OnlyFile(proc[w].f)
        /\ \A g \in Files : file'[g].dir = file[g].dir /\ file'[g].msg = file[g].msg
    BY <1>k, <1>11, ClaimWriteDoes
  <2>3. /\ proc[w].f \in Files /\ file[proc[w].f].attempt = proc[w].attempt
        /\ file[proc[w].f].dir = "claimed" /\ ~proc[w].recovery
    BY <1>b, <1>c, <2>2 DEF ClaimOK
  <2>4. \A g \in Files : file'[g].attempt = file[g].attempt
    BY <2>2, <2>3 DEF OnlyFile
  <2>5. ClaimOK(q)'
    BY <2>1, <2>2, <2>3 DEF ClaimOK
  <2> QED BY <1>c, <1>k, <2>1, <2>2, <2>4, <2>5, OnceQuietly
<1>12. ASSUME NEW w \in Workers, Finish(w) PROVE OnceInv'
  <2>1. PICK q \in ProcStates : Moves(w, q) /\ q.pc = "archiving" /\ Keeps(q, proc[w])
    BY <1>k, <1>12, FinishDoes
  <2>2. proc[w].pc = "working" /\ UNCHANGED file /\ ~proc[w].recovery
    BY <1>c, <1>k, <1>12, FinishDoes DEF ClaimOK
  <2> QED BY <1>6, <1>c, <2>1, <2>2 DEF Keeps, ClaimOK
<1>13. ASSUME NEW w \in Workers, ArchiveWrite(w) PROVE OnceInv'
  <2>1. PICK q \in ProcStates :
              /\ Moves(w, q) /\ q.pc = "moving" /\ q.f \in ClaimPath(w) /\ q.f \in Files
              /\ q.attempt = proc[w].attempt
              /\ q.todo = proc[w].todo /\ q.recovery = proc[w].recovery
              /\ file'[q.f].attempt = proc[w].attempt /\ OnlyFile(q.f)
    BY <1>k, <1>13, ArchiveWriteDoes
  <2>2. /\ proc[w].pc = "archiving"
        /\ \A g \in Files : file'[g].dir = file[g].dir /\ file'[g].msg = file[g].msg
    BY <1>k, <1>13, ArchiveWriteDoes
  <2>3. /\ file[proc[w].f].attempt = proc[w].attempt /\ file[proc[w].f].dir = "claimed"
        /\ q.f = proc[w].f
    BY <1>b, <1>c, <2>1, <2>2 DEF ClaimOK, ClaimPath
  <2>4. \A g \in Files : file'[g].attempt = file[g].attempt
    BY <2>1, <2>3 DEF OnlyFile
  <2>5. ClaimOK(q)'
    BY <1>b, <1>c, <2>1, <2>2, <2>3, <2>4 DEF ClaimOK
  <2> QED BY <1>c, <1>k, <2>1, <2>2, <2>4, <2>5, OnceQuietly
<1>14. ASSUME NEW w \in Workers, ArchiveMove(w) PROVE OnceInv'
  <2>1. proc[w].pc = "moving"
    BY <1>k, <1>14, ArchiveMoveDoes
  <2>2. CASE UNCHANGED file /\ Raise(w)
    BY <1>9, <2>2
  <2>3. CASE /\ file[proc[w].f].dir = "claimed" /\ OnlyFile(proc[w].f)
             /\ file'[proc[w].f].dir = proc[w].verdict
             /\ file'[proc[w].f].msg = file[proc[w].f].msg
             /\ file'[proc[w].f].attempt = file[proc[w].f].attempt
             /\ proc[w].verdict # "retry" /\ Return(w)
    <3>1. proc[w].verdict \in Terminal /\ proc[w].f \in Files
      BY <1>c, <1>k, Types
    <3>2. \A g \in Files : /\ file'[g].msg = file[g].msg /\ file'[g].attempt = file[g].attempt
                           /\ file'[g].dir = "none" <=> file[g].dir = "none"
                           /\ file'[g].dir = "retry" <=> file[g].dir = "retry"
      BY <2>3, <3>1 DEF OnlyFile, Terminal
    <3>3. proc[w].recovery => \A f \in proc[w].todo : file'[f].dir = "claimed"
      BY <1>b, <1>c, <2>1, <2>3 DEF ClaimOK, OnlyFile
    <3> QED BY <1>3, <1>c, <2>3, <3>2, <3>3
  <2>4. ASSUME OnlyFile(proc[w].f), file'[proc[w].f].dir = proc[w].verdict,
               file'[proc[w].f].msg = file[proc[w].f].msg,
               file'[proc[w].f].attempt = file[proc[w].f].attempt,
               proc[w].verdict = "retry",
               NEW q \in ProcStates, Moves(w, q), q.pc = "requeue", q.msg = proc[w].msg,
               q.attempt = proc[w].attempt + 1,
               q.todo = proc[w].todo, q.recovery = proc[w].recovery
        PROVE  OnceInv'
    BY <1>k, <2>1, <2>4, OnceRetries
  <2> QED BY <1>k, <1>14, <2>2, <2>3, <2>4, ArchiveMoveDoes
<1>15. ASSUME NEW w \in Workers, ClaimNone(w) \/ ArchiveRaises(w) PROVE OnceInv'
  BY <1>9, <1>15 DEF ClaimNone, ArchiveRaises
<1>16. ASSUME NEW w \in Workers, RecoverList(w) PROVE OnceInv'
  <2>1. PICK q \in ProcStates :
          /\ Moves(w, q) /\ q.pc = "recovering" /\ q.recovery
          /\ \A f \in q.todo : f \in Files /\ file[f].dir = "claimed"
    BY <1>k, <1>16, RecoverListDoes
  <2> QED BY <1>6, <1>k, <1>16, <2>1, RecoverListDoes DEF ClaimOK
<1>17. ASSUME NEW w \in Workers, RecoverNext(w) PROVE OnceInv'
  <2>1. PICK q \in ProcStates :
          /\ Moves(w, q) /\ q.pc = "archiving" /\ q.f \in proc[w].todo
          /\ q.msg = file[q.f].msg /\ q.attempt = file[q.f].attempt
          /\ q.todo = proc[w].todo \ {q.f} /\ q.recovery = proc[w].recovery
    BY <1>k, <1>17, RecoverNextDoes
  <2>2. proc[w].pc = "recovering" /\ UNCHANGED file
    BY <1>k, <1>17, RecoverNextDoes
  <2> QED BY <1>6, <1>c, <2>1, <2>2 DEF ClaimOK
<1>18. ASSUME NEW w \in Workers, RecoverDone(w) PROVE OnceInv'
  <2>1. PICK q \in ProcStates : Moves(w, q) /\ q.pc = "idle" /\ ~q.recovery
    BY <1>k, <1>18, RecoverDoneDoes
  <2> QED BY <1>6, <1>k, <1>18, <2>1, RecoverDoneDoes DEF ClaimOK
<1>19. CASE UNCHANGED <<file, proc, crashes>>
  BY <1>k, <1>19 DEF OnceInv, OnceEach, Claiming, ClaimOK, Publishing, Unborn
<1> QED
  BY <1>1, <1>2, <1>4, <1>5, <1>7, <1>8, <1>10, <1>11, <1>12, <1>13, <1>14, <1>15, <1>16, <1>17,
     <1>18, <1>19 DEF Next, Publish, WorkerStep, Heartbeat, LeaseExpires, vars

\* With one process serving the mailbox every attempt of a message is published once, and
\* what is done or failed is not brought back: over any crashes, recoveries and requeues.
THEOREM OnceTheorem == ASSUME OneWorker PROVE Spec => []EachAttemptOnce
<1>1. OnceInv => EachAttemptOnce
  BY DEF OnceInv, OnceEach, EachAttemptOnce, Created
<1>2. OnceInv /\ [Next]_vars => OnceInv'
  BY OnceNext
<1> QED BY OnceInit, <1>1, <1>2, PTL DEF Spec

----
(* The consolidation of a memory root *)

McMetas == [status : {"none", "active", "completed"}, updated : 0 .. MaxMcClock,
            consolidated : 0 .. Never, turns : Nat]

McThreads == [pc : McSteps \cup McSessions, pending : BOOLEAN, missed : BOOLEAN,
              job : {"none", "pending", "running", "failed", "completed"},
              run : Nat, seen : Nat, read : [McSessions -> Nat], todo : SUBSET McSessions,
              meta : McMetas, end : 0 .. MaxMcClock]

\* The steps of a run that has a lock, and those with sessions to mark.
RunSteps == {"fill", "stage", "merge", "mark", "release"} \cup McSessions
MarkSteps == {"mark"} \cup McSessions

\* What the thread of a process keeps, when n runs were begun.
Thread(q, n) ==
  /\ q \in McThreads
  /\ q.run <= n /\ q.seen <= n
  /\ q.run # 0 <=> q.pc \in RunSteps
  /\ q.pc \notin MarkSteps => q.todo = {}
  /\ \A s \in q.todo : q.read[s] > 0
  /\ q.pc \in McSessions => q.read[q.pc] > 0
  /\ q.pc \notin {"merge", "release"} \cup MarkSteps => \A s \in McSessions : q.read[s] = 0
  /\ q.pending => q.missed \/ q.pc \notin {"idle", "settle", "leave"}

McTypes ==
  /\ mcClock \in 0 .. MaxMcClock
  /\ mcMeta \in [McSessions -> McMetas]
  /\ mcLock \in [run : 0 .. MaxMcRuns, at : 0 .. MaxMcClock, valid : BOOLEAN]
  /\ mcSuccess \in 0 .. Never
  /\ mcRunCount \in 0 .. MaxMcRuns
  /\ mcTold \in [McSessions -> Nat]
  /\ mcOverrun \subseteq McSessions
  /\ mcStuck \subseteq 1 .. MaxMcRuns
  /\ mcStolen \in BOOLEAN

McThreading == /\ mcProc \in [McProcs -> McThreads]
               /\ \A p \in McProcs : Thread(mcProc[p], mcRunCount)

\* Every run has its number; the file a process is about to remove is old, if it is still
\* the one it looked at; and unless a lock was removed under its run, a run has the lock.
McLocking ==
  /\ mcLock.run <= mcRunCount
  /\ Locked => mcLock.run # 0
  /\ \A p, q \in McProcs : mcProc[p].run = mcProc[q].run /\ InRun(p) => p = q
  /\ \A p \in McProcs :
        mcProc[p].pc = "unlink" /\ Locked /\ mcLock.run = mcProc[p].seen => mcLock.at < mcClock
  /\ mcStolen \/ \A p \in McProcs : InRun(p) => mcLock.run = mcProc[p].run
  /\ LockHasOwner

\* The file that a process read is the one there is, but for the mark.
SameFile(meta, there) ==
  meta.status = there.status /\ meta.updated = there.updated /\ meta.turns = there.turns

\* What a run has read of a session is all there is of it, unless it was written to since.
McReading ==
  \A s \in McSessions \ mcOverrun :
    /\ mcMeta[s].consolidated # Never /\ mcMeta[s].consolidated >= mcMeta[s].updated =>
          mcTold[s] = mcMeta[s].turns
    /\ \A p \in McProcs :
          /\ mcProc[p].read[s] > 0 => mcProc[p].read[s] = mcMeta[s].turns
          /\ mcProc[p].pc = s => SameFile(mcProc[p].meta, mcMeta[s])

McInd == McTypes /\ McThreading /\ McLocking /\ McReading

----
LEMMA McIndGivesSafe ==
  ASSUME McInd
  PROVE  ConsolidationSafe
<1>1. McTypeOK
  <2>1. \A p \in McProcs :
          /\ mcProc[p].job \in {"none", "pending", "running", "failed", "completed"}
          /\ mcProc[p].todo \subseteq {s \in McSessions : mcProc[p].read[s] > 0}
    BY DEF McInd, McThreading, Thread, McThreads
  <2> QED BY <2>1 DEF McInd, McTypes, McMetas, McTypeOK
<1>2. OneRunAtATime
  BY DEF McInd, McLocking, OneRunAtATime
<1>3. LockHasOwner
  BY DEF McInd, McLocking
<1>4. NoTurnSkipped
  <2>1. SUFFICES ASSUME NEW s \in McSessions \ mcOverrun, mcMeta[s].status = "completed", ~ Ripe(s)
                 PROVE  mcTold[s] = mcMeta[s].turns
    BY DEF NoTurnSkipped
  <2>2. mcMeta[s].consolidated # Never /\ ~ (mcMeta[s].consolidated < mcMeta[s].updated)
    BY <2>1 DEF Ripe, Ready
  <2>3. mcMeta[s].consolidated >= mcMeta[s].updated
    BY <2>2, McAssumption DEF McInd, McTypes, McMetas, Never
  <2> QED BY <2>2, <2>3 DEF McInd, McReading
<1>5. ScheduledIsServed
  BY DEF McInd, McThreading, Thread, ScheduledIsServed
<1> QED BY <1>1, <1>2, <1>3, <1>4, <1>5 DEF ConsolidationSafe

LEMMA QuietThread ==
  ASSUME NEW n \in Nat
  PROVE  /\ Quiet \in McThreads /\ Thread(Quiet, n) /\ Quiet.run = 0 /\ Quiet.pc = "idle"
         /\ \A s \in McSessions : Quiet.read[s] = 0
<1>1. NoMeta \in McMetas
  BY McAssumption DEF NoMeta, McMetas, Never
<1>2. NothingRead \in [McSessions -> Nat] /\ \A s \in McSessions : NothingRead[s] = 0
  BY DEF NothingRead
<1>3. /\ "idle" \in McSteps /\ "idle" \notin RunSteps /\ "idle" \notin MarkSteps
      /\ "idle" \notin McSessions
  BY McAssumption DEF McSteps, RunSteps, MarkSteps
<1> QED BY <1>1, <1>2, <1>3, McAssumption DEF Quiet, Thread, McThreads

LEMMA McInitInd ==
  ASSUME McInit
  PROVE  McInd
<1>1. NoMeta \in McMetas
  BY McAssumption DEF NoMeta, McMetas, Never
<1>2. /\ Thread(Quiet, 0) /\ Quiet.pc = "idle" /\ Quiet.run = 0 /\ "idle" \notin McSessions
      /\ \A s \in McSessions : Quiet.read[s] = 0
  BY QuietThread, McAssumption DEF McSteps
<1>3. McThreading
  BY <1>2 DEF McThreading, McInit, Thread
<1>4. McTypes
  <2>1. mcLock \in [run : 0 .. MaxMcRuns, at : 0 .. MaxMcClock, valid : BOOLEAN]
    BY McAssumption DEF McInit, NoLock
  <2>2. mcMeta \in [McSessions -> McMetas] /\ mcTold \in [McSessions -> Nat]
    BY <1>1 DEF McInit
  <2>3. /\ mcClock \in 0 .. MaxMcClock /\ mcSuccess \in 0 .. Never
        /\ mcRunCount \in 0 .. MaxMcRuns
    BY McAssumption DEF McInit, Never
  <2>4. mcOverrun = {} /\ mcStuck = {} /\ mcStolen = FALSE
    BY DEF McInit
  <2> QED BY <2>1, <2>2, <2>3, <2>4 DEF McTypes
<1>5. \A p \in McProcs : mcProc[p] = Quiet
  BY DEF McInit
<1>6. McLocking
  BY <1>2, <1>5 DEF McLocking, McInit, NoLock, Locked, InRun, LockHasOwner
<1>7. McReading
  <2>1. \A s \in McSessions : mcMeta[s].consolidated = Never
    BY DEF McInit, NoMeta
  <2>2. \A p \in McProcs, s \in McSessions : mcProc[p].read[s] = 0
    BY <1>2, <1>5
  <2>3. \A p \in McProcs, s \in McSessions : mcProc[p].pc # s
    BY <1>2, <1>5
  <2> QED BY <2>1, <2>2, <2>3 DEF McReading
<1> QED BY <1>3, <1>4, <1>6, <1>7 DEF McInd

\* A step of the thread of one process.
McMoves(p, r) == mcProc' = [mcProc EXCEPT ![p] = r]

LEMMA McMovesIs ==
  ASSUME McInd, NEW p \in McProcs, NEW r \in McThreads, McMoves(p, r), mcRunCount' \in Nat,
         mcRunCount' >= mcRunCount, Thread(r, mcRunCount')
  PROVE  /\ mcProc'[p] = r
         /\ \A q \in McProcs \ {p} : mcProc'[q] = mcProc[q]
         /\ McThreading'
<1>1. /\ mcProc' \in [McProcs -> McThreads] /\ mcProc'[p] = r
      /\ \A q \in McProcs \ {p} : mcProc'[q] = mcProc[q]
  BY DEF McMoves, McInd, McThreading
<1>2. ASSUME NEW q \in McProcs PROVE Thread(mcProc'[q], mcRunCount')
  <2>1. CASE q = p
    BY <1>1, <2>1
  <2>2. CASE q # p
    <3>1. PICK t, n : t = mcProc[q] /\ n = mcRunCount
      OBVIOUS
    <3>2. Thread(t, n) /\ n \in Nat /\ t \in McThreads
      BY <3>1, McAssumption DEF McInd, McThreading, McTypes
    <3>3. t.run \in Nat /\ t.seen \in Nat
      BY <3>2 DEF McThreads
    <3>4. Thread(t, mcRunCount')
      BY <3>1, <3>2, <3>3 DEF Thread
    <3> QED BY <1>1, <2>2, <3>1, <3>4
  <2> QED BY <2>1, <2>2
<1>3. McThreading'
  BY <1>1, <1>2 DEF McThreading, Thread
<1> QED BY <1>1, <1>3

\* What a run read, as far as nothing was written since.
Reads(r) ==
  /\ \A s \in McSessions \ mcOverrun : r.read[s] > 0 => r.read[s] = mcMeta[s].turns
  /\ \A s \in McSessions \ mcOverrun : r.pc = s => SameFile(r.meta, mcMeta[s])

LEMMA ReadsKept ==
  ASSUME McInd, NEW p \in McProcs
  PROVE  Reads(mcProc[p])
BY DEF McInd, McReading, Reads

LEMMA ReadingSame ==
  ASSUME McInd, NEW p \in McProcs, NEW r, mcProc'[p] = r, Reads(r),
         \A q \in McProcs \ {p} : mcProc'[q] = mcProc[q],
         UNCHANGED <<mcMeta, mcTold, mcOverrun>>
  PROVE  McReading'
<1>1. ASSUME NEW s \in McSessions \ mcOverrun, NEW q \in McProcs
      PROVE  /\ mcProc'[q].read[s] > 0 => mcProc'[q].read[s] = mcMeta[s].turns
             /\ mcProc'[q].pc = s => SameFile(mcProc'[q].meta, mcMeta[s])
  <2>1. CASE q = p
    BY <2>1 DEF Reads
  <2>2. CASE q # p
    BY <2>2 DEF McInd, McReading
  <2> QED BY <2>1, <2>2
<1> QED BY <1>1 DEF McInd, McReading, SameFile

LEMMA LockingSame ==
  ASSUME McInd, NEW p \in McProcs, NEW r, mcProc'[p] = r, r.run = mcProc[p].run,
         r.pc = "unlink" => mcProc[p].pc = "unlink" /\ r.seen = mcProc[p].seen,
         \A q \in McProcs \ {p} : mcProc'[q] = mcProc[q],
         UNCHANGED <<mcClock, mcLock, mcRunCount, mcStuck, mcStolen>>
  PROVE  McLocking'
<1>1. \A q \in McProcs : mcProc'[q].run = mcProc[q].run
  OBVIOUS
<1>2. \A q \in McProcs : mcProc'[q].pc = "unlink" =>
                            mcProc[q].pc = "unlink" /\ mcProc'[q].seen = mcProc[q].seen
  OBVIOUS
<1>3. Locked' <=> Locked
  BY DEF Locked
<1>4. \A q \in McProcs : InRun(q)' <=> InRun(q)
  BY <1>1 DEF InRun
<1>5. LockHasOwner'
  BY <1>1, <1>3, <1>4 DEF LockHasOwner, McInd, McLocking
<1>6. \A q \in McProcs :
        mcProc'[q].pc = "unlink" /\ Locked' /\ mcLock'.run = mcProc'[q].seen => mcLock'.at < mcClock'
  BY <1>2, <1>3 DEF McInd, McLocking
<1>7. mcStolen' \/ \A q \in McProcs : InRun(q)' => mcLock'.run = mcProc'[q].run
  BY <1>1, <1>4 DEF McInd, McLocking
<1>8. \A a, b \in McProcs : mcProc'[a].run = mcProc'[b].run /\ InRun(a)' => a = b
  BY <1>1, <1>4 DEF McInd, McLocking
<1> QED BY <1>3, <1>5, <1>6, <1>7, <1>8 DEF McInd, McLocking

\* A step of a thread that neither takes nor gives up a lock and writes no file.
LEMMA QuietKeeps ==
  ASSUME McInd, NEW p \in McProcs, NEW r \in McThreads, McMoves(p, r), Thread(r, mcRunCount),
         r.run = mcProc[p].run, r.pc # "unlink", Reads(r), mcSuccess' \in 0 .. Never,
         UNCHANGED <<mcClock, mcMeta, mcLock, mcRunCount, mcTold, mcOverrun, mcStuck, mcStolen>>
  PROVE  McInd'
<1>1. mcRunCount' \in Nat /\ mcRunCount' >= mcRunCount
  BY McAssumption DEF McInd, McTypes
<1>2. mcProc'[p] = r /\ (\A q \in McProcs \ {p} : mcProc'[q] = mcProc[q]) /\ McThreading'
  BY <1>1, McMovesIs
<1>3. McLocking'
  BY <1>2, LockingSame
<1>4. McReading'
  BY <1>2, ReadingSame
<1>5. McTypes'
  BY DEF McInd, McTypes, McMetas, Never
<1> QED BY <1>2, <1>3, <1>4, <1>5 DEF McInd

\* The record of a thread, field by field.
LEMMA ThreadFields ==
  ASSUME McInd, NEW p \in McProcs
  PROVE  /\ mcProc[p] \in McThreads /\ Thread(mcProc[p], mcRunCount)
         /\ mcRunCount \in Nat
         /\ mcProc[p].run \in Nat /\ mcProc[p].seen \in Nat
         /\ mcProc[p].read \in [McSessions -> Nat]
BY McAssumption DEF McInd, McTypes, McThreading, McThreads

LEMMA StepNames ==
  /\ \A s \in McSessions : s \notin McSteps /\ s \in RunSteps /\ s \in MarkSteps
  /\ McSteps \cap RunSteps = {"fill", "stage", "merge", "mark", "release"}
  /\ McSteps \cap MarkSteps = {"mark"}
BY McAssumption DEF McSteps, RunSteps, MarkSteps

LEMMA TakeKeeps ==
  ASSUME McInd, NEW p \in McProcs, Take(p)
  PROVE  McInd'
<1>1. PICK old : old = mcProc[p]
  OBVIOUS
<1>2. old \in McThreads /\ Thread(old, mcRunCount) /\ mcRunCount \in Nat
  BY <1>1, ThreadFields
<1>3. PICK r : r = IF old.pending THEN [old EXCEPT !.pending = FALSE, !.pc = "check",
                                               !.job = "running", !.missed = FALSE]
                   ELSE [old EXCEPT !.pc = "settle"]
  OBVIOUS
<1>4. old.pc = "take" /\ McMoves(p, r)
  BY <1>1, <1>3 DEF Take, McAt, McMoves
<1>5. /\ r \in McThreads /\ r.run = old.run /\ r.seen = old.seen /\ r.read = old.read
      /\ r.todo = old.todo /\ r.pc \in {"check", "settle"} /\ r.pending = FALSE
  BY <1>2, <1>3 DEF McThreads, McSteps
<1>6. Thread(r, mcRunCount)
  BY <1>2, <1>4, <1>5, StepNames DEF Thread, McSteps
<1>7. Reads(r)
  BY <1>1, <1>5, ReadsKept, StepNames DEF Reads, McSteps
<1>8. UNCHANGED <<mcClock, mcMeta, mcLock, mcSuccess, mcRunCount, mcTold, mcOverrun, mcStuck,
                  mcStolen>>
  BY DEF Take, Quietly
<1> QED BY <1>1, <1>4, <1>5, <1>6, <1>7, <1>8, QuietKeeps DEF McInd, McTypes

LEMMA CheckKeeps ==
  ASSUME McInd, NEW p \in McProcs, Check(p)
  PROVE  McInd'
<1>1. PICK old : old = mcProc[p]
  OBVIOUS
<1>2. old \in McThreads /\ Thread(old, mcRunCount) /\ mcRunCount \in Nat
  BY <1>1, ThreadFields
<1>3. PICK step \in {"acquire", "take"} : mcProc' = [mcProc EXCEPT ![p].pc = step]
  BY DEF Check
<1>4. PICK r : r = [old EXCEPT !.pc = step]
  OBVIOUS
<1>5. old.pc = "check" /\ McMoves(p, r)
  BY <1>1, <1>3, <1>4 DEF Check, McAt, McMoves
<1>6. /\ r \in McThreads /\ r.run = old.run /\ r.seen = old.seen /\ r.read = old.read
      /\ r.todo = old.todo /\ r.pc \in {"acquire", "take"} /\ r.pending = old.pending
      /\ r.missed = old.missed
  BY <1>2, <1>4 DEF McThreads, McSteps
<1>7. Thread(r, mcRunCount)
  BY <1>2, <1>5, <1>6, StepNames DEF Thread, McSteps
<1>8. Reads(r)
  BY <1>1, <1>6, ReadsKept, StepNames DEF Reads, McSteps
<1>9. UNCHANGED <<mcClock, mcMeta, mcLock, mcSuccess, mcRunCount, mcTold, mcOverrun, mcStuck,
                  mcStolen>>
  BY DEF Check, Quietly
<1> QED BY <1>1, <1>5, <1>6, <1>7, <1>8, <1>9, QuietKeeps DEF McInd, McTypes

LEMMA FailMergeKeeps ==
  ASSUME McInd, NEW p \in McProcs, FailMerge(p)
  PROVE  McInd'
<1>1. PICK old : old = mcProc[p]
  OBVIOUS
<1>2. old \in McThreads /\ Thread(old, mcRunCount) /\ mcRunCount \in Nat
  BY <1>1, ThreadFields
<1>3. PICK r : r = [old EXCEPT !.pc = "release", !.job = "failed"]
  OBVIOUS
<1>4. old.pc = "merge" /\ McMoves(p, r)
  BY <1>1, <1>3 DEF FailMerge, McAt, McMoves
<1>5. /\ r \in McThreads /\ r.run = old.run /\ r.seen = old.seen /\ r.read = old.read
      /\ r.todo = old.todo /\ r.pc = "release" /\ r.pending = old.pending
      /\ r.missed = old.missed
  BY <1>2, <1>3 DEF McThreads, McSteps
<1>6. Thread(r, mcRunCount)
  BY <1>2, <1>4, <1>5, StepNames DEF Thread, McSteps
<1>7. Reads(r)
  BY <1>1, <1>5, ReadsKept, StepNames DEF Reads, McSteps
<1>8. UNCHANGED <<mcClock, mcMeta, mcLock, mcSuccess, mcRunCount, mcTold, mcOverrun, mcStuck,
                  mcStolen>>
  BY DEF FailMerge, Quietly
<1> QED BY <1>1, <1>4, <1>5, <1>6, <1>7, <1>8, QuietKeeps DEF McInd, McTypes

LEMMA SettleKeeps ==
  ASSUME McInd, NEW p \in McProcs, SettleJob(p)
  PROVE  McInd'
<1>1. PICK old : old = mcProc[p]
  OBVIOUS
<1>2. old \in McThreads /\ Thread(old, mcRunCount) /\ mcRunCount \in Nat
  BY <1>1, ThreadFields
<1>3. PICK r : r = [old EXCEPT !.pc = "leave",
                               !.job = IF @ = "failed" THEN @ ELSE "completed"]
  OBVIOUS
<1>4. old.pc = "settle" /\ McMoves(p, r)
  BY <1>1, <1>3 DEF SettleJob, McAt, McMoves
<1>5. /\ r \in McThreads /\ r.run = old.run /\ r.seen = old.seen /\ r.read = old.read
      /\ r.todo = old.todo /\ r.pc = "leave" /\ r.pending = old.pending
      /\ r.missed = old.missed
  BY <1>2, <1>3 DEF McThreads, McSteps
<1>6. Thread(r, mcRunCount)
  BY <1>2, <1>4, <1>5, StepNames DEF Thread, McSteps
<1>7. Reads(r)
  BY <1>1, <1>5, ReadsKept, StepNames DEF Reads, McSteps
<1>8. UNCHANGED <<mcClock, mcMeta, mcLock, mcSuccess, mcRunCount, mcTold, mcOverrun, mcStuck,
                  mcStolen>>
  BY DEF SettleJob, Quietly
<1> QED BY <1>1, <1>4, <1>5, <1>6, <1>7, <1>8, QuietKeeps DEF McInd, McTypes

LEMMA LeaveKeeps ==
  ASSUME McInd, NEW p \in McProcs, Leave(p)
  PROVE  McInd'
<1>1. PICK old : old = mcProc[p]
  OBVIOUS
<1>2. old \in McThreads /\ Thread(old, mcRunCount) /\ mcRunCount \in Nat
  BY <1>1, ThreadFields
<1>3. PICK r : r = [old EXCEPT !.pc = "idle"]
  OBVIOUS
<1>4. old.pc = "leave" /\ McMoves(p, r)
  BY <1>1, <1>3 DEF Leave, McAt, McMoves
<1>5. /\ r \in McThreads /\ r.run = old.run /\ r.seen = old.seen /\ r.read = old.read
      /\ r.todo = old.todo /\ r.pc = "idle" /\ r.pending = old.pending
      /\ r.missed = old.missed
  BY <1>2, <1>3 DEF McThreads, McSteps
<1>6. Thread(r, mcRunCount)
  BY <1>2, <1>4, <1>5, StepNames DEF Thread, McSteps
<1>7. Reads(r)
  BY <1>1, <1>5, ReadsKept, StepNames DEF Reads, McSteps
<1>8. UNCHANGED <<mcClock, mcMeta, mcLock, mcSuccess, mcRunCount, mcTold, mcOverrun, mcStuck,
                  mcStolen>>
  BY DEF Leave, Quietly
<1> QED BY <1>1, <1>4, <1>5, <1>6, <1>7, <1>8, QuietKeeps DEF McInd, McTypes

LEMMA StageKeeps ==
  ASSUME McInd, NEW p \in McProcs, StageRun(p)
  PROVE  McInd'
<1>1. PICK old : old = mcProc[p]
  OBVIOUS
<1>2. old \in McThreads /\ Thread(old, mcRunCount) /\ mcRunCount \in Nat
  BY <1>1, ThreadFields
<1>3. PICK read : read = [s \in McSessions |-> IF Ripe(s) THEN mcMeta[s].turns ELSE 0]
  OBVIOUS
<1>4. read \in [McSessions -> Nat] /\ \A s \in McSessions : read[s] > 0 => read[s] = mcMeta[s].turns
  BY <1>3 DEF McInd, McTypes, McMetas
<1>5. PICK r : r = [old EXCEPT !.pc = "merge", !.read = read]
  OBVIOUS
<1>6. old.pc = "stage" /\ McMoves(p, r)
  BY <1>1, <1>3, <1>5 DEF StageRun, McAt, McMoves
<1>7. /\ r \in McThreads /\ r.run = old.run /\ r.seen = old.seen /\ r.read = read
      /\ r.todo = old.todo /\ r.pc = "merge"
  BY <1>2, <1>4, <1>5 DEF McThreads, McSteps
<1>8. Thread(r, mcRunCount)
  BY <1>2, <1>6, <1>7, StepNames DEF Thread, McSteps
<1>9. Reads(r)
  BY <1>4, <1>7, StepNames DEF Reads, McSteps
<1>10. UNCHANGED <<mcClock, mcMeta, mcLock, mcSuccess, mcRunCount, mcTold, mcOverrun, mcStuck,
                   mcStolen>>
  BY DEF StageRun, Quietly
<1> QED BY <1>1, <1>6, <1>7, <1>8, <1>9, <1>10, QuietKeeps DEF McInd, McTypes

LEMMA MergeKeeps ==
  ASSUME McInd, NEW p \in McProcs, MergeRun(p)
  PROVE  McInd'
<1>1. PICK old : old = mcProc[p]
  OBVIOUS
<1>2. old \in McThreads /\ Thread(old, mcRunCount) /\ mcRunCount \in Nat
  BY <1>1, ThreadFields
<1>3. PICK todo : todo = {s \in McSessions : old.read[s] > 0}
  OBVIOUS
<1>4. PICK r : r = [old EXCEPT !.pc = "mark", !.end = mcClock, !.todo = todo]
  OBVIOUS
<1>5. old.pc = "merge" /\ McMoves(p, r)
  BY <1>1, <1>3, <1>4 DEF MergeRun, McAt, McMoves
<1>6. mcClock \in 0 .. MaxMcClock /\ todo \in SUBSET McSessions
  BY <1>3 DEF McInd, McTypes
<1>7. /\ r \in McThreads /\ r.run = old.run /\ r.seen = old.seen /\ r.read = old.read
      /\ r.todo = todo /\ r.pc = "mark"
  BY <1>2, <1>4, <1>6 DEF McThreads, McSteps
<1>8. Thread(r, mcRunCount)
  BY <1>2, <1>3, <1>5, <1>7, StepNames DEF Thread, McSteps
<1>9. Reads(r)
  BY <1>1, <1>7, ReadsKept, StepNames DEF Reads, McSteps
<1>10. UNCHANGED <<mcClock, mcMeta, mcLock, mcSuccess, mcRunCount, mcTold, mcOverrun, mcStuck,
                   mcStolen>>
  BY DEF MergeRun, Quietly
<1> QED BY <1>1, <1>5, <1>7, <1>8, <1>9, <1>10, QuietKeeps DEF McInd, McTypes

LEMMA ReadMetaKeeps ==
  ASSUME McInd, NEW p \in McProcs, NEW s \in McSessions, ReadMeta(p, s)
  PROVE  McInd'
<1>1. PICK old : old = mcProc[p]
  OBVIOUS
<1>2. old \in McThreads /\ Thread(old, mcRunCount) /\ mcRunCount \in Nat
  BY <1>1, ThreadFields
<1>3. PICK meta \in McMetas : meta = mcMeta[s]
  BY DEF McInd, McTypes
<1>4. PICK r : r = [old EXCEPT !.pc = s, !.meta = meta, !.todo = @ \ {s}]
  OBVIOUS
<1>5. old.pc = "mark" /\ s \in old.todo /\ McMoves(p, r)
  BY <1>1, <1>3, <1>4 DEF ReadMeta, McAt, McMoves
<1>6. /\ r \in McThreads /\ r.run = old.run /\ r.seen = old.seen /\ r.read = old.read
      /\ r.todo \subseteq old.todo /\ r.pc = s /\ r.meta = meta
  BY <1>2, <1>4 DEF McThreads
<1>7. Thread(r, mcRunCount)
  BY <1>2, <1>5, <1>6, StepNames DEF Thread, McSteps
<1>8. Reads(r)
  BY <1>1, <1>3, <1>6, ReadsKept DEF Reads, SameFile
<1>9. UNCHANGED <<mcClock, mcMeta, mcLock, mcSuccess, mcRunCount, mcTold, mcOverrun, mcStuck,
                  mcStolen>>
  BY DEF ReadMeta, Quietly
<1>10. r.pc # "unlink"
  BY <1>6, StepNames DEF McSteps
<1> QED BY <1>1, <1>5, <1>6, <1>7, <1>8, <1>9, <1>10, QuietKeeps DEF McInd, McTypes

LEMMA BrokenThread ==
  ASSUME NEW old \in McThreads, NEW n \in Nat, Thread(old, n)
  PROVE  /\ Broken(old) \in McThreads /\ Thread(Broken(old), n)
         /\ Broken(old).run = 0 /\ Broken(old).pc = "settle"
         /\ \A s \in McSessions : Broken(old).read[s] = 0
<1>1. NothingRead \in [McSessions -> Nat] /\ \A s \in McSessions : NothingRead[s] = 0
  BY DEF NothingRead
<1>2. PICK r : r = Broken(old)
  OBVIOUS
<1>3. /\ r \in McThreads /\ r.run = 0 /\ r.pc = "settle" /\ r.read = NothingRead
      /\ r.todo = {} /\ r.missed = old.pending /\ r.pending = old.pending /\ r.seen = old.seen
  BY <1>1, <1>2 DEF Broken, McThreads, McSteps
<1>4. Thread(r, n)
  BY <1>1, <1>3, StepNames DEF Thread, McSteps
<1> QED BY <1>1, <1>2, <1>3, <1>4

LEMMA ReportKeeps ==
  ASSUME McInd, NEW p \in McProcs, Report(p)
  PROVE  McInd'
<1>1. PICK old : old = mcProc[p]
  OBVIOUS
<1>2. old \in McThreads /\ Thread(old, mcRunCount) /\ mcRunCount \in Nat
  BY <1>1, ThreadFields
<1>3. old.pc = "report"
  BY <1>1 DEF Report, McAt
<1>4. old.run = 0
  BY <1>2, <1>3, StepNames DEF Thread, McSteps
<1>5. UNCHANGED <<mcClock, mcMeta, mcLock, mcRunCount, mcTold, mcOverrun, mcStuck, mcStolen>>
  BY DEF Report, Quietly
<1>6. CASE old.job = "failed"
  <2>1. PICK r : r = Broken(old)
    OBVIOUS
  <2>2. McMoves(p, r) /\ mcSuccess' = mcSuccess
    BY <1>1, <1>6, <2>1 DEF Report, McMoves
  <2>3. /\ r \in McThreads /\ Thread(r, mcRunCount) /\ r.run = 0 /\ r.pc = "settle"
        /\ \A s \in McSessions : r.read[s] = 0
    BY <1>2, <2>1, BrokenThread
  <2>4. Reads(r)
    BY <2>3, StepNames DEF Reads, McSteps
  <2> QED BY <1>1, <1>4, <1>5, <2>2, <2>3, <2>4, QuietKeeps DEF McInd, McTypes
<1>7. CASE old.job # "failed"
  <2>1. PICK r : r = [old EXCEPT !.pc = "take"]
    OBVIOUS
  <2>2. McMoves(p, r) /\ mcSuccess' = old.end
    BY <1>1, <1>7, <2>1 DEF Report, McMoves
  <2>3. /\ r \in McThreads /\ r.run = old.run /\ r.seen = old.seen /\ r.read = old.read
        /\ r.todo = old.todo /\ r.pc = "take"
    BY <1>2, <2>1 DEF McThreads, McSteps
  <2>4. Thread(r, mcRunCount)
    BY <1>2, <1>3, <2>3, StepNames DEF Thread, McSteps
  <2>5. Reads(r)
    BY <1>1, <2>3, ReadsKept, StepNames DEF Reads, McSteps
  <2>6. mcSuccess' \in 0 .. Never
    BY <1>2, <2>2, McAssumption DEF McThreads, Never
  <2> QED BY <1>1, <1>5, <2>2, <2>3, <2>4, <2>5, <2>6, QuietKeeps
<1> QED BY <1>6, <1>7

\* A session is written to: what a run has of it is no longer all, or no run has any of it.
LEMMA WrittenReading ==
  ASSUME McInd, NEW s \in McSessions, NEW m \in McMetas, mcMeta' = [mcMeta EXCEPT ![s] = m],
         m.consolidated = mcMeta[s].consolidated, m.updated = mcClock,
         mcOverrun' = IF Overruns(s) THEN mcOverrun \cup {s} ELSE mcOverrun, mcTold' = mcTold,
         \A q \in McProcs : /\ mcProc'[q].read = mcProc[q].read /\ mcProc'[q].meta = mcProc[q].meta
                            /\ \A t \in McSessions : mcProc'[q].pc = t => mcProc[q].pc = t
  PROVE  McReading'
<1>1. mcMeta'[s] = m /\ \A t \in McSessions \ {s} : mcMeta'[t] = mcMeta[t]
  BY DEF McInd, McTypes
<1>2. ASSUME NEW t \in McSessions \ mcOverrun'
      PROVE  /\ mcMeta'[t].consolidated # Never /\ mcMeta'[t].consolidated >= mcMeta'[t].updated =>
                   mcTold'[t] = mcMeta'[t].turns
             /\ \A q \in McProcs :
                   /\ mcProc'[q].read[t] > 0 => mcProc'[q].read[t] = mcMeta'[t].turns
                   /\ mcProc'[q].pc = t => SameFile(mcProc'[q].meta, mcMeta'[t])
  <2>1. CASE t = s
    <3>1. ~ Overruns(s)
      BY <1>2, <2>1
    <3>2. ~ (m.consolidated # Never /\ m.consolidated >= mcClock)
      BY <3>1 DEF Overruns
    <3>3. \A q \in McProcs : ~ (mcProc[q].read[s] > 0)
      BY <3>1 DEF Overruns
    <3>4. \A q \in McProcs : mcProc[q].pc # s
      BY <3>3 DEF McInd, McThreading, Thread
    <3> QED BY <1>1, <2>1, <3>2, <3>3, <3>4
  <2>2. CASE t # s
    <3>1. t \in McSessions \ mcOverrun /\ mcMeta'[t] = mcMeta[t]
      BY <1>1, <1>2, <2>2
    <3> QED BY <3>1 DEF McInd, McReading
  <2> QED BY <2>1, <2>2
<1>3. Never' = Never
  BY DEF Never
<1> QED BY <1>2, <1>3 DEF McReading, SameFile

LEMMA RecordKeeps ==
  ASSUME McInd, NEW s \in McSessions, RecordTurn(s)
  PROVE  McInd'
<1>1. PICK old \in McMetas : old = mcMeta[s]
  BY DEF McInd, McTypes
<1>2. PICK m : m = [old EXCEPT !.status = "active", !.updated = mcClock, !.turns = @ + 1]
  OBVIOUS
<1>3. /\ m \in McMetas /\ m.consolidated = old.consolidated /\ m.updated = mcClock
  <2>1. mcClock \in 0 .. MaxMcClock /\ old.turns + 1 \in Nat
    BY DEF McMetas, McInd, McTypes
  <2> QED BY <1>2, <2>1 DEF McMetas
<1>4. mcMeta' = [mcMeta EXCEPT ![s] = m]
  <2>1. PICK written : written = [old EXCEPT !.status = "active", !.updated = mcClock]
    OBVIOUS
  <2>2. m = [written EXCEPT !.turns = @ + 1]
    BY <1>1, <1>2, <2>1 DEF McMetas
  <2> QED BY <1>1, <2>1, <2>2 DEF RecordTurn, Written
<1>5. mcOverrun' = IF Overruns(s) THEN mcOverrun \cup {s} ELSE mcOverrun
  BY DEF RecordTurn
<1>6. UNCHANGED <<mcClock, mcLock, mcSuccess, mcProc, mcRunCount, mcTold, mcStuck, mcStolen>>
  BY DEF RecordTurn
<1>7. McReading'
  BY <1>1, <1>3, <1>4, <1>5, <1>6, WrittenReading
<1>8. McTypes'
  <2>1. mcMeta' \in [McSessions -> McMetas] /\ mcOverrun' \subseteq McSessions
    BY <1>3, <1>4, <1>5 DEF McInd, McTypes
  <2> QED BY <1>6, <2>1 DEF McInd, McTypes, McMetas, Never
<1>9. McThreading'
  BY <1>6 DEF McInd, McThreading, Thread, McThreads, McMetas, Never, McSteps, RunSteps, MarkSteps
<1>10. McLocking'
  BY <1>6 DEF McInd, McLocking, Locked, NoLock, InRun, LockHasOwner
<1> QED BY <1>7, <1>8, <1>9, <1>10 DEF McInd

LEMMA ScheduledThread ==
  ASSUME NEW old \in McThreads, NEW n \in Nat, Thread(old, n)
  PROVE  /\ Scheduled(old) \in McThreads /\ Thread(Scheduled(old), n)
         /\ Scheduled(old).run = old.run /\ Scheduled(old).seen = old.seen
         /\ Scheduled(old).read = old.read /\ Scheduled(old).meta = old.meta
         /\ Scheduled(old).pc = IF old.pc = "idle" THEN "take" ELSE old.pc
<1>1. PICK r : r = Scheduled(old)
  OBVIOUS
<1>2. CASE old.pc = "idle"
  <2>1. r = [old EXCEPT !.pending = TRUE, !.pc = "take", !.job = "pending", !.missed = FALSE]
    BY <1>1, <1>2 DEF Scheduled
  <2>2. /\ r \in McThreads /\ r.run = old.run /\ r.seen = old.seen /\ r.read = old.read
        /\ r.todo = old.todo /\ r.pc = "take" /\ r.meta = old.meta
    BY <2>1 DEF McThreads, McSteps
  <2>3. Thread(r, n)
    BY <1>2, <2>2, StepNames DEF Thread, McSteps
  <2> QED BY <1>1, <1>2, <2>2, <2>3
<1>3. CASE old.pc # "idle"
  <2>1. r = [old EXCEPT !.pending = TRUE, !.missed = (@ \/ old.pc \in {"settle", "leave"})]
    BY <1>1, <1>3 DEF Scheduled
  <2>2. PICK late \in BOOLEAN : late <=> (old.missed \/ old.pc \in {"settle", "leave"})
    OBVIOUS
  <2>3. old.missed \in BOOLEAN
    BY DEF McThreads
  <2>4. (old.missed \/ old.pc \in {"settle", "leave"}) = late
    BY <2>2, <2>3
  <2>5. r = [old EXCEPT !.pending = TRUE, !.missed = late]
    BY <2>1, <2>4
  <2>6. /\ r \in McThreads /\ r.run = old.run /\ r.seen = old.seen /\ r.read = old.read
        /\ r.todo = old.todo /\ r.pc = old.pc /\ r.meta = old.meta /\ r.missed = late
    BY <2>5 DEF McThreads
  <2>7. Thread(r, n)
    BY <1>3, <2>2, <2>6 DEF Thread
  <2> QED BY <1>1, <1>3, <2>6, <2>7
<1> QED BY <1>2, <1>3

LEMMA CloseKeeps ==
  ASSUME McInd, NEW s \in McSessions, CloseSession(s)
  PROVE  McInd'
<1>1. PICK old \in McMetas : old = mcMeta[s]
  BY DEF McInd, McTypes
<1>2. PICK m : m = [old EXCEPT !.status = "completed", !.updated = mcClock]
  OBVIOUS
<1>3. /\ m \in McMetas /\ m.consolidated = old.consolidated /\ m.updated = mcClock
  BY <1>1, <1>2 DEF McMetas, McInd, McTypes
<1>4. mcMeta' = [mcMeta EXCEPT ![s] = m]
  BY <1>1, <1>2 DEF CloseSession, Written
<1>5. mcOverrun' = IF Overruns(s) THEN mcOverrun \cup {s} ELSE mcOverrun
  BY DEF CloseSession
<1>6. UNCHANGED <<mcClock, mcLock, mcSuccess, mcRunCount, mcTold, mcStuck, mcStolen>>
  BY DEF CloseSession
<1>7. PICK p \in McProcs : p = Home[s]
  BY McAssumption
<1>8. PICK q : q = mcProc[p]
  OBVIOUS
<1>9. q \in McThreads /\ Thread(q, mcRunCount) /\ mcRunCount \in Nat
  BY <1>8, ThreadFields
<1>10. PICK r : r = Scheduled(q)
  OBVIOUS
<1>11. /\ r \in McThreads /\ Thread(r, mcRunCount) /\ r.run = q.run /\ r.seen = q.seen
       /\ r.read = q.read /\ r.meta = q.meta /\ r.pc = IF q.pc = "idle" THEN "take" ELSE q.pc
  BY <1>9, <1>10, ScheduledThread
<1>12. McMoves(p, r)
  BY <1>7, <1>8, <1>10 DEF CloseSession, McMoves
<1>13. mcProc'[p] = r /\ (\A t \in McProcs \ {p} : mcProc'[t] = mcProc[t]) /\ McThreading'
  BY <1>6, <1>9, <1>11, <1>12, McMovesIs
<1>14. McLocking'
  BY <1>6, <1>8, <1>11, <1>13, LockingSame
<1>15. ASSUME NEW t \in McProcs
       PROVE  /\ mcProc'[t].read = mcProc[t].read /\ mcProc'[t].meta = mcProc[t].meta
              /\ \A u \in McSessions : mcProc'[t].pc = u => mcProc[t].pc = u
  <2>1. CASE t = p
    BY <1>8, <1>11, <1>13, <2>1, StepNames DEF McSteps
  <2>2. CASE t # p
    BY <1>13, <2>2
  <2> QED BY <2>1, <2>2
<1>16. McReading'
  BY <1>1, <1>3, <1>4, <1>5, <1>6, <1>15, WrittenReading
<1>17. McTypes'
  <2>1. mcMeta' \in [McSessions -> McMetas] /\ mcOverrun' \subseteq McSessions
    BY <1>3, <1>4, <1>5 DEF McInd, McTypes
  <2> QED BY <1>6, <2>1 DEF McInd, McTypes, McMetas, Never
<1> QED BY <1>13, <1>14, <1>16, <1>17 DEF McInd

\* A step that leaves the files of the sessions, and what is known of them, as they are.
LEMMA TypesKept ==
  ASSUME McInd, mcClock' \in 0 .. MaxMcClock, mcRunCount' \in 0 .. MaxMcRuns,
         mcLock' \in [run : 0 .. MaxMcRuns, at : 0 .. MaxMcClock, valid : BOOLEAN],
         mcStuck' \subseteq 1 .. MaxMcRuns, mcStolen' \in BOOLEAN,
         UNCHANGED <<mcMeta, mcSuccess, mcTold, mcOverrun>>
  PROVE  McTypes'
BY DEF McInd, McTypes, McMetas, Never

LEMMA NoLockIs ==
  /\ NoLock \in [run : 0 .. MaxMcRuns, at : 0 .. MaxMcClock, valid : BOOLEAN]
  /\ NoLock.run = 0
BY McAssumption DEF NoLock

LEMMA AcquireKeeps ==
  ASSUME McInd, NEW p \in McProcs, Acquire(p)
  PROVE  McInd'
<1>1. PICK old : old = mcProc[p]
  OBVIOUS
<1>2. old \in McThreads /\ Thread(old, mcRunCount) /\ mcRunCount \in Nat /\ old.seen \in Nat
  BY <1>1, ThreadFields
<1>3. old.pc = "acquire"
  BY <1>1 DEF Acquire, McAt
<1>4. old.run = 0
  BY <1>2, <1>3, StepNames DEF Thread, McSteps
<1>5. UNCHANGED <<mcClock, mcMeta, mcSuccess, mcTold, mcOverrun, mcStuck, mcStolen>>
  BY DEF Acquire
<1>6. \A q \in McProcs : /\ mcProc[q].run \in Nat /\ mcProc[q].seen \in Nat
                         /\ mcProc[q].run <= mcRunCount /\ mcProc[q].seen <= mcRunCount
  BY DEF McInd, McThreading, Thread, McThreads
<1>7. CASE ~ Locked
  <2>1. PICK n : n = mcRunCount + 1
    OBVIOUS
  <2>2. n \in Nat \ {0} /\ n > mcRunCount /\ n \in 0 .. MaxMcRuns /\ mcRunCount' = n
    BY <1>2, <1>7, <2>1, McAssumption DEF Acquire, McInd, McTypes
  <2>3. PICK r : r = [old EXCEPT !.pc = "fill", !.run = n]
    OBVIOUS
  <2>4. McMoves(p, r)
    BY <1>1, <1>7, <2>1, <2>3 DEF Acquire, McMoves
  <2>5. /\ r \in McThreads /\ r.run = n /\ r.seen = old.seen /\ r.read = old.read
        /\ r.todo = old.todo /\ r.pc = "fill"
    BY <1>2, <2>2, <2>3 DEF McThreads, McSteps
  <2>6. Thread(r, n)
    BY <1>2, <1>3, <2>2, <2>5, StepNames DEF Thread, McSteps
  <2>7. mcProc'[p] = r /\ (\A q \in McProcs \ {p} : mcProc'[q] = mcProc[q]) /\ McThreading'
    BY <1>2, <2>2, <2>4, <2>5, <2>6, McMovesIs
  <2>8. mcLock' = [run |-> n, at |-> mcClock, valid |-> FALSE]
    BY <1>7, <2>1 DEF Acquire
  <2>9. mcLock'.run = n
    BY <2>8
  <2>10. McLocking'
    <3>1. mcStolen \/ \A q \in McProcs : mcProc[q].run = 0
      BY <1>7, NoLockIs DEF McInd, McLocking, Locked, InRun
    <3>2. mcStolen' \/ \A q \in McProcs : InRun(q)' => mcLock'.run = mcProc'[q].run
      BY <1>5, <2>5, <2>7, <2>9, <3>1 DEF InRun
    <3>3. \A a, b \in McProcs : mcProc'[a].run = mcProc'[b].run /\ InRun(a)' => a = b
      <4>1. SUFFICES ASSUME NEW a \in McProcs, NEW b \in McProcs,
                            mcProc'[a].run = mcProc'[b].run, mcProc'[a].run # 0
                     PROVE  a = b
        BY DEF InRun
      <4>2. CASE a # p /\ b # p
        BY <2>7, <4>1, <4>2 DEF McInd, McLocking, InRun
      <4>3. CASE a = p /\ b # p
        BY <1>2, <1>6, <2>2, <2>5, <2>7, <4>1, <4>3
      <4>4. CASE a # p /\ b = p
        BY <1>2, <1>6, <2>2, <2>5, <2>7, <4>1, <4>4
      <4> QED BY <4>2, <4>3, <4>4
    <3>4. \A q \in McProcs : ~ (mcProc'[q].pc = "unlink" /\ mcLock'.run = mcProc'[q].seen)
      BY <1>2, <1>6, <2>2, <2>5, <2>7, <2>9
    <3>5. LockHasOwner'
      BY <2>2, <2>5, <2>7, <2>9 DEF LockHasOwner, InRun
    <3> QED BY <2>2, <2>9, <3>2, <3>3, <3>4, <3>5 DEF McLocking
  <2>11. Reads(r)
    BY <1>1, <2>5, ReadsKept, StepNames DEF Reads, McSteps
  <2>12. McReading'
    BY <1>5, <2>7, <2>11, ReadingSame
  <2>13. mcLock' \in [run : 0 .. MaxMcRuns, at : 0 .. MaxMcClock, valid : BOOLEAN]
    BY <2>2, <2>8 DEF McInd, McTypes
  <2>14. McTypes'
    BY <1>5, <2>2, <2>13, TypesKept DEF McInd, McTypes
  <2> QED BY <2>7, <2>10, <2>12, <2>14 DEF McInd
<1>8. CASE Locked
  <2>1. UNCHANGED <<mcLock, mcRunCount>>
    BY <1>8 DEF Acquire
  <2>2. mcLock.run \in Nat /\ mcLock.run <= mcRunCount
    BY McAssumption DEF McInd, McTypes, McLocking
  <2>3. PICK step : step = IF ~mcLock.valid /\ McStale(mcLock) /\ old.seen = 0
                           THEN "unlink" ELSE "take"
    OBVIOUS
  <2>4. PICK seen : seen = IF old.seen = 0 THEN mcLock.run ELSE 0
    OBVIOUS
  <2>5. PICK r : r = [old EXCEPT !.pc = step, !.seen = seen]
    OBVIOUS
  <2>6. McMoves(p, r)
    BY <1>1, <1>8, <2>3, <2>4, <2>5 DEF Acquire, McMoves
  <2>7. step \in {"unlink", "take"} /\ seen \in Nat /\ seen <= mcRunCount
    BY <1>2, <2>2, <2>3, <2>4
  <2>8. /\ r \in McThreads /\ r.run = 0 /\ r.seen = seen /\ r.read = old.read
        /\ r.todo = old.todo /\ r.pc = step
    BY <1>2, <1>4, <2>5, <2>7 DEF McThreads, McSteps
  <2>9. Thread(r, mcRunCount)
    BY <1>2, <1>3, <2>7, <2>8, StepNames DEF Thread, McSteps
  <2>10. mcProc'[p] = r /\ (\A q \in McProcs \ {p} : mcProc'[q] = mcProc[q]) /\ McThreading'
    BY <1>2, <2>1, <2>6, <2>8, <2>9, McMovesIs
  <2>11. McLocking'
    <3>1. \A q \in McProcs : mcProc'[q].run = mcProc[q].run
      BY <1>1, <1>4, <2>8, <2>10
    <3>2. r.pc = "unlink" /\ mcLock.run = r.seen => mcLock.at < mcClock
      BY <2>3, <2>8 DEF McStale
    <3>3. (Locked' <=> Locked) /\ \A q \in McProcs : InRun(q)' <=> InRun(q)
      BY <2>1, <3>1 DEF Locked, NoLock, InRun
    <3>4. LockHasOwner'
      BY <1>5, <2>1, <3>1, <3>3 DEF LockHasOwner, McInd, McLocking
    <3>5. \A q \in McProcs :
            mcProc'[q].pc = "unlink" /\ Locked' /\ mcLock'.run = mcProc'[q].seen =>
               mcLock'.at < mcClock'
      BY <1>5, <2>1, <2>10, <3>2, <3>3 DEF McInd, McLocking
    <3>6. /\ mcStolen' \/ \A q \in McProcs : InRun(q)' => mcLock'.run = mcProc'[q].run
          /\ \A a, b \in McProcs : mcProc'[a].run = mcProc'[b].run /\ InRun(a)' => a = b
      BY <1>5, <2>1, <3>1, <3>3 DEF McInd, McLocking
    <3> QED BY <2>1, <3>3, <3>4, <3>5, <3>6 DEF McInd, McLocking
  <2>12. Reads(r)
    BY <1>1, <2>7, <2>8, ReadsKept, StepNames DEF Reads, McSteps
  <2>13. McReading'
    BY <1>5, <2>10, <2>12, ReadingSame
  <2>14. McTypes'
    BY <1>5, <2>1 DEF McInd, McTypes, McMetas, Never
  <2> QED BY <2>10, <2>11, <2>13, <2>14 DEF McInd
<1> QED BY <1>7, <1>8

LEMMA RemoveKeeps ==
  ASSUME McInd, NEW p \in McProcs, RemoveStale(p)
  PROVE  McInd'
<1>1. PICK old : old = mcProc[p]
  OBVIOUS
<1>2. old \in McThreads /\ Thread(old, mcRunCount) /\ mcRunCount \in Nat
  BY <1>1, ThreadFields
<1>3. PICK r : r = [old EXCEPT !.pc = "acquire"]
  OBVIOUS
<1>4. old.pc = "unlink" /\ McMoves(p, r)
  BY <1>1, <1>3 DEF RemoveStale, McAt, McMoves
<1>5. /\ r \in McThreads /\ r.run = old.run /\ r.seen = old.seen /\ r.read = old.read
      /\ r.todo = old.todo /\ r.pc = "acquire"
  BY <1>2, <1>3 DEF McThreads, McSteps
<1>6. Thread(r, mcRunCount)
  BY <1>2, <1>4, <1>5, StepNames DEF Thread, McSteps
<1>7. UNCHANGED <<mcClock, mcMeta, mcSuccess, mcRunCount, mcTold, mcOverrun, mcStuck>>
      /\ mcLock' = NoLock
  BY DEF RemoveStale
<1>8. mcProc'[p] = r /\ (\A q \in McProcs \ {p} : mcProc'[q] = mcProc[q]) /\ McThreading'
  BY <1>2, <1>4, <1>5, <1>6, <1>7, McMovesIs
<1>9. \A q \in McProcs : mcProc'[q].run = mcProc[q].run
  BY <1>1, <1>5, <1>8
<1>10. ~ Locked' /\ mcLock'.run = 0
  BY <1>7, NoLockIs DEF Locked, NoLock
<1>11. McLocking'
  <2>1. ASSUME ~ mcStolen', NEW q \in McProcs, mcProc[q].run # 0
        PROVE  FALSE
    <3>1. ~ mcStolen
      BY <2>1 DEF RemoveStale, McInd, McTypes
    <3>2. mcLock.run = mcProc[q].run
      BY <2>1, <3>1 DEF McInd, McLocking, InRun
    <3>3. Locked
      BY <2>1, <3>2, NoLockIs DEF Locked
    <3>4. mcLock.run = old.seen => mcLock.at < mcClock
      BY <1>1, <1>4, <3>3 DEF McInd, McLocking
    <3>5. mcStolen'
      BY <1>1, <3>2, <3>3, <3>4 DEF RemoveStale
    <3> QED BY <2>1, <3>5
  <2>2. mcStolen' \/ \A q \in McProcs : InRun(q)' => mcLock'.run = mcProc'[q].run
    BY <1>9, <2>1 DEF InRun
  <2>3. \A a, b \in McProcs : mcProc'[a].run = mcProc'[b].run /\ InRun(a)' => a = b
    BY <1>9 DEF McInd, McLocking, InRun
  <2>4. mcLock'.run <= mcRunCount'
    BY <1>2, <1>7, <1>10
  <2> QED BY <1>10, <2>2, <2>3, <2>4 DEF McLocking, LockHasOwner
<1>12. Reads(r)
  BY <1>1, <1>5, ReadsKept, StepNames DEF Reads, McSteps
<1>13. McReading'
  BY <1>7, <1>8, <1>12, ReadingSame
<1>14. mcStolen' \in BOOLEAN
  BY DEF RemoveStale
<1>15. McTypes'
  BY <1>7, <1>14, NoLockIs, TypesKept DEF McInd, McTypes
<1> QED BY <1>8, <1>11, <1>13, <1>15 DEF McInd

LEMMA FillKeeps ==
  ASSUME McInd, NEW p \in McProcs, FillLock(p)
  PROVE  McInd'
<1>1. PICK old : old = mcProc[p]
  OBVIOUS
<1>2. old \in McThreads /\ Thread(old, mcRunCount) /\ mcRunCount \in Nat
  BY <1>1, ThreadFields
<1>3. PICK r : r = [old EXCEPT !.pc = "stage", !.seen = 0]
  OBVIOUS
<1>4. old.pc = "fill" /\ McMoves(p, r)
  BY <1>1, <1>3 DEF FillLock, McAt, McMoves
<1>5. /\ r \in McThreads /\ r.run = old.run /\ r.seen = 0 /\ r.read = old.read
      /\ r.todo = old.todo /\ r.pc = "stage"
  BY <1>2, <1>3 DEF McThreads, McSteps
<1>6. Thread(r, mcRunCount)
  BY <1>2, <1>4, <1>5, StepNames DEF Thread, McSteps
<1>7. UNCHANGED <<mcClock, mcMeta, mcSuccess, mcRunCount, mcTold, mcOverrun, mcStuck, mcStolen>>
  BY DEF FillLock, Quietly
<1>8. mcProc'[p] = r /\ (\A q \in McProcs \ {p} : mcProc'[q] = mcProc[q]) /\ McThreading'
  BY <1>2, <1>4, <1>5, <1>6, <1>7, McMovesIs
<1>9. /\ mcLock' \in [run : 0 .. MaxMcRuns, at : 0 .. MaxMcClock, valid : BOOLEAN]
      /\ mcLock'.run = mcLock.run /\ mcLock'.at = mcLock.at
  BY DEF FillLock, McInd, McTypes
<1>10. Locked' => Locked
  <2>1. CASE mcLock' = mcLock
    BY <2>1 DEF Locked, NoLock
  <2>2. CASE mcLock' # mcLock
    <3>1. mcLock.run = old.run
      BY <1>1, <2>2 DEF FillLock
    <3>2. old.run # 0
      BY <1>2, <1>4 DEF Thread, RunSteps
    <3> QED BY <3>1, <3>2, NoLockIs DEF Locked
  <2> QED BY <2>1, <2>2
<1>11. \A q \in McProcs : mcProc'[q].run = mcProc[q].run
  BY <1>1, <1>5, <1>8
<1>12. \A q \in McProcs : InRun(q)' <=> InRun(q)
  BY <1>11 DEF InRun
<1>13. McLocking'
  <2>1. LockHasOwner'
    BY <1>7, <1>9, <1>10, <1>11, <1>12 DEF LockHasOwner, McInd, McLocking
  <2>2. \A q \in McProcs :
          mcProc'[q].pc = "unlink" /\ Locked' /\ mcLock'.run = mcProc'[q].seen =>
             mcLock'.at < mcClock'
    BY <1>5, <1>7, <1>8, <1>9, <1>10 DEF McInd, McLocking
  <2>3. /\ mcStolen' \/ \A q \in McProcs : InRun(q)' => mcLock'.run = mcProc'[q].run
        /\ \A a, b \in McProcs : mcProc'[a].run = mcProc'[b].run /\ InRun(a)' => a = b
    BY <1>7, <1>9, <1>11, <1>12 DEF McInd, McLocking
  <2> QED BY <1>7, <1>9, <1>10, <2>1, <2>2, <2>3 DEF McInd, McLocking
<1>14. Reads(r)
  BY <1>1, <1>5, ReadsKept, StepNames DEF Reads, McSteps
<1>15. McReading'
  BY <1>7, <1>8, <1>14, ReadingSame
<1>16. McTypes'
  BY <1>7, <1>9, TypesKept DEF McInd, McTypes
<1> QED BY <1>8, <1>13, <1>15, <1>16 DEF McInd

LEMMA WriteKeeps ==
  ASSUME McInd, NEW p \in McProcs, NEW s \in McSessions, WriteMeta(p, s)
  PROVE  McInd'
<1>1. PICK old : old = mcProc[p]
  OBVIOUS
<1>2. /\ old \in McThreads /\ Thread(old, mcRunCount) /\ mcRunCount \in Nat
      /\ old.read \in [McSessions -> Nat]
  BY <1>1, ThreadFields
<1>3. PICK r : r = [old EXCEPT !.pc = "mark", !.meta = NoMeta]
  OBVIOUS
<1>4. old.pc = s /\ McMoves(p, r)
  BY <1>1, <1>3 DEF WriteMeta, McAt, McMoves
<1>5. NoMeta \in McMetas
  BY McAssumption DEF NoMeta, McMetas, Never
<1>6. /\ r \in McThreads /\ r.run = old.run /\ r.seen = old.seen /\ r.read = old.read
      /\ r.todo = old.todo /\ r.pc = "mark"
  BY <1>2, <1>3, <1>5 DEF McThreads, McSteps
<1>7. Thread(r, mcRunCount)
  BY <1>2, <1>4, <1>6, StepNames DEF Thread, McSteps
<1>8. UNCHANGED <<mcClock, mcLock, mcSuccess, mcRunCount, mcOverrun, mcStuck, mcStolen>>
  BY DEF WriteMeta
<1>9. mcProc'[p] = r /\ (\A q \in McProcs \ {p} : mcProc'[q] = mcProc[q]) /\ McThreading'
  BY <1>2, <1>4, <1>6, <1>7, <1>8, McMovesIs
<1>10. McLocking'
  BY <1>1, <1>6, <1>8, <1>9, LockingSame
<1>11. PICK meta \in McMetas : meta = old.meta
  BY <1>2 DEF McThreads
<1>12. PICK m : m = [meta EXCEPT !.consolidated = old.end]
  OBVIOUS
<1>13. /\ m \in McMetas /\ SameFile(m, meta)
  <2>1. old.end \in 0 .. Never
    BY <1>2, McAssumption DEF McThreads, Never
  <2> QED BY <1>12, <2>1 DEF McMetas, SameFile
<1>14. /\ mcMeta' = [mcMeta EXCEPT ![s] = m] /\ mcTold' = [mcTold EXCEPT ![s] = old.read[s]]
  BY <1>1, <1>11, <1>12 DEF WriteMeta
<1>15. /\ mcMeta'[s] = m /\ \A t \in McSessions \ {s} : mcMeta'[t] = mcMeta[t]
  BY <1>14 DEF McInd, McTypes
<1>16. /\ mcTold'[s] = old.read[s] /\ \A t \in McSessions \ {s} : mcTold'[t] = mcTold[t]
  BY <1>14 DEF McInd, McTypes
<1>17. s \notin mcOverrun => SameFile(meta, mcMeta[s]) /\ old.read[s] = mcMeta[s].turns
  <2>1. SUFFICES ASSUME s \notin mcOverrun
                 PROVE  SameFile(meta, mcMeta[s]) /\ old.read[s] = mcMeta[s].turns
    OBVIOUS
  <2>2. old.read[s] > 0
    BY <1>2, <1>4 DEF Thread
  <2> QED BY <1>1, <1>4, <1>11, <2>1, <2>2 DEF McInd, McReading
<1>18. McReading'
  <2>1. ASSUME NEW t \in McSessions \ mcOverrun
        PROVE  /\ mcMeta'[t].consolidated # Never /\ mcMeta'[t].consolidated >= mcMeta'[t].updated =>
                     mcTold'[t] = mcMeta'[t].turns
               /\ \A q \in McProcs :
                     /\ mcProc'[q].read[t] > 0 => mcProc'[q].read[t] = mcMeta'[t].turns
                     /\ mcProc'[q].pc = t => SameFile(mcProc'[q].meta, mcMeta'[t])
    <3>1. mcMeta'[t].turns = mcMeta[t].turns /\ SameFile(mcMeta'[t], mcMeta[t])
      BY <1>13, <1>15, <1>17, <2>1 DEF SameFile
    <3>2. mcMeta'[t].consolidated # Never /\ mcMeta'[t].consolidated >= mcMeta'[t].updated =>
             mcTold'[t] = mcMeta'[t].turns
      <4>1. CASE t = s
        BY <1>16, <1>17, <2>1, <3>1, <4>1
      <4>2. CASE t # s
        BY <1>15, <1>16, <2>1, <4>2 DEF McInd, McReading
      <4> QED BY <4>1, <4>2
    <3>3. ASSUME NEW q \in McProcs
          PROVE  /\ mcProc'[q].read[t] > 0 => mcProc'[q].read[t] = mcMeta'[t].turns
                 /\ mcProc'[q].pc = t => SameFile(mcProc'[q].meta, mcMeta'[t])
      <4>1. /\ mcProc[q].read[t] > 0 => mcProc[q].read[t] = mcMeta[t].turns
            /\ mcProc[q].pc = t => SameFile(mcProc[q].meta, mcMeta[t])
        BY <2>1 DEF McInd, McReading
      <4>2. CASE q = p
        BY <1>1, <1>6, <1>9, <3>1, <4>1, <4>2, StepNames DEF McSteps
      <4>3. CASE q # p
        BY <1>9, <3>1, <4>1, <4>3 DEF SameFile
      <4> QED BY <4>2, <4>3
    <3> QED BY <3>2, <3>3
  <2>2. Never' = Never /\ mcOverrun' = mcOverrun
    BY <1>8 DEF Never
  <2> QED BY <2>1, <2>2 DEF McReading, SameFile
<1>19. McTypes'
  <2>1. mcMeta' \in [McSessions -> McMetas] /\ mcTold' \in [McSessions -> Nat]
    BY <1>2, <1>13, <1>14 DEF McInd, McTypes
  <2> QED BY <1>8, <2>1 DEF McInd, McTypes, McMetas, Never
<1> QED BY <1>9, <1>10, <1>18, <1>19 DEF McInd

LEMMA ReleaseKeeps ==
  ASSUME McInd, NEW p \in McProcs, ReleaseLock(p)
  PROVE  McInd'
<1>1. PICK old : old = mcProc[p]
  OBVIOUS
<1>2. old \in McThreads /\ Thread(old, mcRunCount) /\ mcRunCount \in Nat
  BY <1>1, ThreadFields
<1>3. PICK r : r = [old EXCEPT !.pc = "report", !.run = 0, !.read = NothingRead]
  OBVIOUS
<1>4. old.pc \in {"release", "mark"} /\ (old.pc = "mark" => old.todo = {}) /\ McMoves(p, r)
  BY <1>1, <1>3 DEF ReleaseLock, McAt, McMoves
<1>5. NothingRead \in [McSessions -> Nat] /\ \A s \in McSessions : NothingRead[s] = 0
  BY DEF NothingRead
<1>6. /\ r \in McThreads /\ r.run = 0 /\ r.seen = old.seen /\ r.read = NothingRead
      /\ r.todo = old.todo /\ r.pc = "report"
  BY <1>2, <1>3, <1>5 DEF McThreads, McSteps
<1>7. Thread(r, mcRunCount)
  BY <1>2, <1>4, <1>5, <1>6, StepNames DEF Thread, McSteps
<1>8. UNCHANGED <<mcClock, mcMeta, mcSuccess, mcRunCount, mcTold, mcOverrun, mcStuck>>
  BY DEF ReleaseLock
<1>9. mcProc'[p] = r /\ (\A q \in McProcs \ {p} : mcProc'[q] = mcProc[q]) /\ McThreading'
  BY <1>2, <1>4, <1>6, <1>7, <1>8, McMovesIs
<1>10. PICK releases \in BOOLEAN : releases <=> (Locked /\ Releases(mcLock, old.run))
  OBVIOUS
<1>11. mcLock' = IF releases THEN NoLock ELSE mcLock
  BY <1>1, <1>10 DEF ReleaseLock
<1>12. mcStolen' <=> (mcStolen \/ (releases /\ mcLock.run # old.run))
  BY <1>1, <1>10 DEF ReleaseLock
<1>13. mcStolen' \in BOOLEAN
  BY DEF ReleaseLock
<1>14. old.run # 0
  BY <1>2, <1>4 DEF Thread, RunSteps
<1>15. McLocking'
  <2>1. ASSUME ~ mcStolen', NEW q \in McProcs, mcProc'[q].run # 0
        PROVE  FALSE
    <3>1. q # p /\ mcProc'[q] = mcProc[q]
      BY <1>6, <1>9, <2>1
    <3>2. ~ mcStolen
      BY <1>12, <2>1
    <3>3. mcLock.run = mcProc[q].run /\ mcLock.run = old.run
      BY <1>1, <1>14, <2>1, <3>1, <3>2 DEF McInd, McLocking, InRun
    <3> QED BY <1>1, <2>1, <3>1, <3>3 DEF McInd, McLocking, InRun
  <2>2. mcStolen' \/ \A q \in McProcs : InRun(q)' => mcLock'.run = mcProc'[q].run
    BY <2>1 DEF InRun
  <2>3. \A a, b \in McProcs : mcProc'[a].run = mcProc'[b].run /\ InRun(a)' => a = b
    <3>1. SUFFICES ASSUME NEW a \in McProcs, NEW b \in McProcs,
                          mcProc'[a].run = mcProc'[b].run, mcProc'[a].run # 0
                   PROVE  a = b
      BY DEF InRun
    <3> QED BY <1>6, <1>9, <3>1 DEF McInd, McLocking, InRun
  <2>4. Locked' => Locked /\ ~ releases /\ mcLock' = mcLock
    BY <1>11 DEF Locked, NoLock
  <2>5. LockHasOwner'
    <3>1. SUFFICES ASSUME Locked'
                   PROVE  \/ mcLock'.run \in mcStuck'
                          \/ \E q \in McProcs : InRun(q)' /\ mcProc'[q].run = mcLock'.run
      BY DEF LockHasOwner
    <3>2. mcLock.run # old.run
      BY <1>10, <2>4, <3>1 DEF Releases
    <3>3. \/ mcLock.run \in mcStuck
          \/ \E q \in McProcs : mcProc[q].run # 0 /\ mcProc[q].run = mcLock.run
      BY <2>4, <3>1 DEF McInd, McLocking, LockHasOwner, InRun
    <3> QED BY <1>1, <1>8, <1>9, <2>4, <3>1, <3>2, <3>3 DEF InRun
  <2>6. mcLock'.run <= mcRunCount' /\ (Locked' => mcLock'.run # 0)
    <3>1. CASE releases
      BY <1>2, <1>8, <1>11, <2>4, <3>1, NoLockIs
    <3>2. CASE ~ releases
      BY <1>8, <1>11, <2>4, <3>2 DEF McInd, McLocking
    <3> QED BY <3>1, <3>2
  <2>7. \A q \in McProcs :
          mcProc'[q].pc = "unlink" /\ Locked' /\ mcLock'.run = mcProc'[q].seen =>
             mcLock'.at < mcClock'
    BY <1>6, <1>8, <1>9, <2>4 DEF McInd, McLocking
  <2> QED BY <2>2, <2>3, <2>5, <2>6, <2>7 DEF McLocking
<1>16. Reads(r)
  BY <1>5, <1>6, StepNames DEF Reads, McSteps
<1>17. McReading'
  BY <1>8, <1>9, <1>16, ReadingSame
<1>18. mcLock' \in [run : 0 .. MaxMcRuns, at : 0 .. MaxMcClock, valid : BOOLEAN]
  BY <1>11, NoLockIs DEF McInd, McTypes
<1>19. McTypes'
  BY <1>8, <1>13, <1>18, TypesKept DEF McInd, McTypes
<1> QED BY <1>9, <1>15, <1>17, <1>19 DEF McInd

\* A run goes, and its lock stays.
LEMMA EndedLocking ==
  ASSUME McInd, NEW p \in McProcs, NEW r, mcProc'[p] = r, r.run = 0, r.pc # "unlink",
         \A q \in McProcs \ {p} : mcProc'[q] = mcProc[q],
         mcStuck' = mcStuck \cup ({mcProc[p].run} \ {0}),
         UNCHANGED <<mcClock, mcLock, mcRunCount, mcStolen>>
  PROVE  McLocking'
<1>1. Locked' <=> Locked
  BY DEF Locked
<1>2. LockHasOwner'
  <2>1. SUFFICES ASSUME Locked
                 PROVE  \/ mcLock.run \in mcStuck'
                        \/ \E q \in McProcs : mcProc'[q].run # 0 /\ mcProc'[q].run = mcLock.run
    BY <1>1 DEF LockHasOwner, InRun
  <2>2. \/ mcLock.run \in mcStuck
        \/ \E q \in McProcs : mcProc[q].run # 0 /\ mcProc[q].run = mcLock.run
    BY <2>1 DEF McInd, McLocking, LockHasOwner, InRun
  <2> QED BY <2>2
<1>3. \A q \in McProcs :
        mcProc'[q].pc = "unlink" /\ Locked' /\ mcLock'.run = mcProc'[q].seen => mcLock'.at < mcClock'
  BY <1>1 DEF McInd, McLocking
<1>4. mcStolen' \/ \A q \in McProcs : InRun(q)' => mcLock'.run = mcProc'[q].run
  BY DEF McInd, McLocking, InRun
<1>5. \A a, b \in McProcs : mcProc'[a].run = mcProc'[b].run /\ InRun(a)' => a = b
  <2>1. SUFFICES ASSUME NEW a \in McProcs, NEW b \in McProcs,
                        mcProc'[a].run = mcProc'[b].run, mcProc'[a].run # 0
                 PROVE  a = b
    BY DEF InRun
  <2> QED BY <2>1 DEF McInd, McLocking, InRun
<1> QED BY <1>1, <1>2, <1>3, <1>4, <1>5 DEF McInd, McLocking

\* ... and its process has nothing of it any more.
LEMMA EndedKeeps ==
  ASSUME McInd, NEW p \in McProcs, NEW r \in McThreads, McMoves(p, r), Thread(r, mcRunCount),
         r.run = 0, r.pc \in {"idle", "settle"}, \A s \in McSessions : r.read[s] = 0,
         mcStuck' = mcStuck \cup ({mcProc[p].run} \ {0}),
         UNCHANGED <<mcClock, mcMeta, mcLock, mcSuccess, mcRunCount, mcTold, mcOverrun, mcStolen>>
  PROVE  McInd'
<1>1. mcProc[p].run \in Nat /\ mcProc[p].run <= mcRunCount /\ mcRunCount \in 0 .. MaxMcRuns
  BY DEF McInd, McTypes, McThreading, Thread, McThreads
<1>2. mcRunCount \in Nat /\ mcRunCount' = mcRunCount
  BY <1>1, McAssumption
<1>3. mcProc'[p] = r /\ (\A q \in McProcs \ {p} : mcProc'[q] = mcProc[q]) /\ McThreading'
  BY <1>2, McMovesIs
<1>4. McLocking'
  BY <1>3, EndedLocking
<1>5. Reads(r)
  BY StepNames DEF Reads, McSteps
<1>6. McReading'
  BY <1>3, <1>5, ReadingSame
<1>7. mcStuck' \subseteq 1 .. MaxMcRuns
  <2>1. PICK run : run = mcProc[p].run
    OBVIOUS
  <2>2. run # 0 => run \in 1 .. MaxMcRuns
    BY <1>1, <2>1, McAssumption
  <2>3. mcStuck' = mcStuck \cup ({run} \ {0}) /\ mcStuck \subseteq 1 .. MaxMcRuns
    BY <2>1 DEF McInd, McTypes
  <2> QED BY <2>2, <2>3
<1>8. McTypes'
  BY <1>7, TypesKept DEF McInd, McTypes
<1> QED BY <1>3, <1>4, <1>6, <1>8 DEF McInd

LEMMA FailOutsideKeeps ==
  ASSUME McInd, NEW p \in McProcs, FailOutsideMerge(p)
  PROVE  McInd'
<1>1. PICK old : old = mcProc[p]
  OBVIOUS
<1>2. old \in McThreads /\ Thread(old, mcRunCount) /\ mcRunCount \in Nat
  BY <1>1, ThreadFields
<1>3. PICK r : r = Broken(old)
  OBVIOUS
<1>4. old.pc \in {"stage", "mark", "release"} /\ McMoves(p, r)
  BY <1>1, <1>3 DEF FailOutsideMerge, McMoves
<1>5. old.run # 0
  BY <1>2, <1>4 DEF Thread, RunSteps
<1>6. /\ r \in McThreads /\ Thread(r, mcRunCount) /\ r.run = 0 /\ r.pc = "settle"
      /\ \A s \in McSessions : r.read[s] = 0
  BY <1>2, <1>3, BrokenThread
<1>7. mcStuck' = mcStuck \cup ({mcProc[p].run} \ {0})
  BY <1>1, <1>5 DEF FailOutsideMerge
<1>8. UNCHANGED <<mcClock, mcMeta, mcLock, mcSuccess, mcRunCount, mcTold, mcOverrun, mcStolen>>
  BY DEF FailOutsideMerge
<1> QED BY <1>4, <1>6, <1>7, <1>8, EndedKeeps

LEMMA CrashKeeps ==
  ASSUME McInd, NEW p \in McProcs, McCrash(p)
  PROVE  McInd'
<1>1. mcRunCount \in Nat
  BY ThreadFields
<1>2. PICK r : r = Quiet
  OBVIOUS
<1>3. /\ r \in McThreads /\ Thread(r, mcRunCount) /\ r.run = 0 /\ r.pc = "idle"
      /\ \A s \in McSessions : r.read[s] = 0
  BY <1>1, <1>2, QuietThread
<1>4. McMoves(p, r) /\ mcStuck' = mcStuck \cup ({mcProc[p].run} \ {0})
  BY <1>2 DEF McCrash, McMoves
<1>5. UNCHANGED <<mcClock, mcMeta, mcLock, mcSuccess, mcRunCount, mcTold, mcOverrun, mcStolen>>
  BY DEF McCrash
<1> QED BY <1>3, <1>4, <1>5, EndedKeeps

\* Time, if it passes, makes files older.
LEMMA TimeKeeps ==
  ASSUME McInd, mcClock' \in 0 .. MaxMcClock, mcClock' >= mcClock,
         UNCHANGED <<mcMeta, mcLock, mcSuccess, mcProc, mcRunCount, mcTold, mcOverrun, mcStuck,
                     mcStolen>>
  PROVE  McInd'
<1>1. McTypes'
  BY TypesKept DEF McInd, McTypes
<1>2. McThreading'
  BY DEF McInd, McThreading, Thread, McThreads, McMetas, Never, McSteps, RunSteps, MarkSteps
<1>3. McLocking'
  <2>1. (Locked' <=> Locked) /\ \A q \in McProcs : InRun(q)' <=> InRun(q)
    BY DEF Locked, NoLock, InRun
  <2>2. LockHasOwner'
    BY <2>1 DEF LockHasOwner, McInd, McLocking
  <2>3. mcLock.at \in Nat /\ mcClock \in Nat /\ mcClock' \in Nat
    BY McAssumption DEF McInd, McTypes
  <2>4. \A q \in McProcs :
          mcProc'[q].pc = "unlink" /\ Locked' /\ mcLock'.run = mcProc'[q].seen =>
             mcLock'.at < mcClock'
    BY <2>1, <2>3 DEF McInd, McLocking
  <2> QED BY <2>1, <2>2, <2>4 DEF McInd, McLocking
<1>4. McReading'
  BY DEF McInd, McReading, SameFile, Never
<1> QED BY <1>1, <1>2, <1>3, <1>4 DEF McInd

LEMMA McNextInd ==
  ASSUME McInd, [McNext]_mcVars
  PROVE  McInd'
<1>1. CASE McNext
  <2>1. ASSUME NEW s \in McSessions, RecordTurn(s) PROVE McInd'
    BY <2>1, RecordKeeps
  <2>2. ASSUME NEW s \in McSessions, CloseSession(s) PROVE McInd'
    BY <2>2, CloseKeeps
  <2>3. ASSUME NEW p \in McProcs, Take(p) \/ Check(p) \/ Acquire(p) \/ RemoveStale(p) \/ FillLock(p)
        PROVE  McInd'
    BY <2>3, TakeKeeps, CheckKeeps, AcquireKeeps, RemoveKeeps, FillKeeps
  <2>4. ASSUME NEW p \in McProcs, StageRun(p) \/ MergeRun(p) \/ FailMerge(p)
        PROVE  McInd'
    BY <2>4, StageKeeps, MergeKeeps, FailMergeKeeps
  <2>5. ASSUME NEW p \in McProcs, NEW s \in McSessions, ReadMeta(p, s) \/ WriteMeta(p, s)
        PROVE  McInd'
    BY <2>5, ReadMetaKeeps, WriteKeeps
  <2>6. ASSUME NEW p \in McProcs,
               \/ ReleaseLock(p) \/ Report(p) \/ FailOutsideMerge(p)
               \/ SettleJob(p) \/ Leave(p) \/ McCrash(p)
        PROVE  McInd'
    BY <2>6, ReleaseKeeps, ReportKeeps, FailOutsideKeeps, SettleKeeps, LeaveKeeps, CrashKeeps
  <2>7. CASE Tick
    <3>1. mcClock' \in 0 .. MaxMcClock /\ mcClock' >= mcClock
      BY <2>7, McAssumption DEF Tick, McInd, McTypes
    <3> QED BY <2>7, <3>1, TimeKeeps DEF Tick
  <2> QED BY <1>1, <2>1, <2>2, <2>3, <2>4, <2>5, <2>6, <2>7 DEF McNext
<1>2. CASE UNCHANGED mcVars
  <2>1. mcClock' \in 0 .. MaxMcClock /\ mcClock' >= mcClock
    BY <1>2, McAssumption DEF mcVars, McInd, McTypes
  <2> QED BY <1>2, <2>1, TimeKeeps DEF mcVars
<1> QED BY <1>1, <1>2

----
\* Of two runs that are going on at most one may have the lock, and what a run has read of a
\* session is all there is of it until it is written to again: what the lock file and the
\* metadata files tell each process, whatever the processes do and wherever one dies.
THEOREM ConsolidationInductive == McSpec => []McInd
<1>1. McInit => McInd
  BY McInitInd
<1>2. McInd /\ [McNext]_mcVars => McInd'
  BY McNextInd
<1> QED BY <1>1, <1>2, PTL DEF McSpec

\* One run at a time unless a lock was taken from under one, a lock that has an owner or a
\* dead one, no turn of a closed session skipped by a run that marks it, and no payload left
\* waiting but for the two windows in which it comes too late (_run_background_consolidation,
\* _acquire_consolidation_lock, _mark_sessions_consolidated).
THEOREM ConsolidationSafety == McSpec => []ConsolidationSafe
<1>1. McInd => ConsolidationSafe
  BY McIndGivesSafe
<1> QED BY <1>1, ConsolidationInductive, PTL
====
