--------------------------- MODULE ServicesProofs ---------------------------
(***************************************************************************)
(* What the shell jobs of the code assistant, the tool pipeline, the       *)
(* records and messages of the teams and the research runs promise holds   *)
(* of every behaviour of MCServices, for any commands, batches, messages,  *)
(* members, callers and requests: for each component an inductive          *)
(* invariant, one lemma per action, and at the end the composition, in     *)
(* which a component takes a step only when the behaviour is about it.     *)
(***************************************************************************)
EXTENDS MCServices, FiniteSetTheorems, TLAPS

----
(* The shell jobs of the code assistant: ShellJobs. *)

SjStages == {"none", "spawning", "talking", "draining", "ensuring", "starting", "told", "done", "cut"}
SjAnswers ==
    {"none", "blocked", "unsupported", "not_confinable", "broker_failed", "spawn_failed", "exited", "timed_out", "running"}
SjStatuses == {"none", "running", "exited", "stopped", "interrupted", "recovery_unavailable"}

SjOnDisk == {"none", "running", "exited", "stopped", "interrupted", "recovery_unavailable", "torn"}

\* The fields, each with its type.
SjRecords ==
    [command : SjCommands, stage : SjStages, answer : SjAnswers, proc : {"none", "running", "ended"}, held : BOOLEAN,
     up : BOOLEAN, broker : BOOLEAN, entry : SjStatuses, owned : BOOLEAN, told : {"none", "stop", "interrupt"},
     disk : SjOnDisk, job : {"none", "running"} \cup SjTerminal, handler : BOOLEAN,
     watch : {"none", "idle", "asking", "lost", "heard"}, heard : SjStatuses, stop : {"none", "asking", "lost"},
     restarts : Nat, losses : Nat, parted : SUBSET Partings]

\* Before a shell is started there is nothing of it.
Unstarted(r) ==
    r.stage \in {"none", "spawning", "ensuring", "starting"} =>
        r.entry = "none" /\ r.disk = "none" /\ r.heard = "none" /\ r.job = "none" /\ r.proc = "none"
        /\ r.watch = "none" /\ r.stop = "none"

\* While nothing has parted them, nobody says of a shell that runs that it is over.
Truthful(r) ==
    r.proc = "running" /\ r.parted = {} =>
        /\ r.entry \in {"none", "running"} /\ r.disk \in {"none", "running", "torn"}
        /\ r.heard \in {"none", "running"} /\ r.job \in {"none", "running"}

\* What has an owner, and what a call that timed out has done.
SjOwned(r) ==
    /\ r.proc = "running" => r.stage \in {"talking", "told"} \/ r.job # "none" \/ "cut" \in r.parted
    /\ r.stage = "draining" \/ r.answer = "timed_out" => r.proc = "ended"
    /\ r.answer # "none" => r.stage = "done"

SjFollowed(r) ==
    /\ r.up /\ r.job = "running" => r.watch # "none" \/ r.parted \cap {"unseen", "unlooped"} # {}
    /\ r.watch = "heard" => r.heard # "none"

SjInd == sj \in SjRecords /\ Unstarted(sj) /\ Truthful(sj) /\ SjOwned(sj) /\ SjFollowed(sj)

LEMMA SjAnswer ==
    ASSUME SjInd, NEW a \in SjAnswers, a # "none", sj' = Answered(a),
           a = "timed_out" => sj.proc = "ended",
           sj.proc = "running" => sj.job # "none" \/ "cut" \in sj.parted
    PROVE  SjInd'
<1>1. PICK r : r = sj
  OBVIOUS
<1>2. PICK n : n = [r EXCEPT !.stage = "done", !.answer = a]
  OBVIOUS
<1>3. r \in SjRecords
  BY <1>1 DEF SjInd
<1>4. n \in SjRecords
  BY <1>2, <1>3 DEF SjRecords, SjStages
<1>5. /\ n.stage = "done" /\ n.answer = a /\ n.proc = r.proc /\ n.entry = r.entry /\ n.disk = r.disk
      /\ n.heard = r.heard /\ n.job = r.job /\ n.parted = r.parted /\ n.up = r.up /\ n.watch = r.watch
      /\ n.stop = r.stop
  BY <1>2, <1>3 DEF SjRecords
<1>6. sj' = n
  BY <1>1, <1>2 DEF Answered
<1>7. Unstarted(n) /\ Truthful(n) /\ SjOwned(n) /\ SjFollowed(n)
  BY <1>1, <1>5 DEF SjInd, Unstarted, Truthful, SjOwned, SjFollowed
<1> QED BY <1>4, <1>6, <1>7 DEF SjInd

LEMMA SjBegins ==
    ASSUME SjInd, CallBash \/ SpawnHere \/ OutputEnds \/ Drained \/ Ensured PROVE SjInd'
<1>0. sj \in SjRecords
  BY DEF SjInd
<1>1. CASE CallBash
  <2>1. sj.stage = "none" /\ sj.proc = "none"
    BY <1>1 DEF CallBash, SjInd, Unstarted
  <2>2. CASE Refusal(sj.command) # "none"
    <3>1. sj' = Answered(Refusal(sj.command))
      BY <1>1, <2>2 DEF CallBash
    <3>2. PICK a : a = Refusal(sj.command)
      OBVIOUS
    <3>3. a # "timed_out" /\ a \in SjAnswers
      BY <3>2 DEF Refusal, Policy, SjAnswers
    <3> QED BY <2>1, <2>2, <3>1, <3>2, <3>3, SjAnswer
  <2>3. CASE Refusal(sj.command) = "none"
    <3>1. PICK at \in {"spawning", "ensuring"} : sj' = [sj EXCEPT !.stage = at]
      BY <1>1, <2>3 DEF CallBash
    <3>2. sj' \in SjRecords
      BY <1>0, <3>1 DEF SjRecords, SjStages
    <3>3. Unstarted(sj') /\ Truthful(sj') /\ SjOwned(sj') /\ SjFollowed(sj')
      BY <1>0, <2>1, <3>1 DEF SjInd, SjRecords, Unstarted, Truthful, SjOwned, SjFollowed
    <3> QED BY <3>2, <3>3 DEF SjInd
  <2> QED BY <2>2, <2>3
<1>2. CASE SpawnHere
  <2>1. sj.stage = "spawning" /\ sj.proc = "none"
    BY <1>2 DEF SpawnHere, SjInd, Unstarted
  <2>2. CASE sj' = Answered("spawn_failed")
    BY <2>1, <2>2, SjAnswer DEF SjAnswers
  <2>3. ASSUME NEW held \in BOOLEAN, sj' = [sj EXCEPT !.stage = "talking", !.proc = "running", !.held = held]
        PROVE  SjInd'
    <3>2. sj' \in SjRecords
      BY <1>0, <2>3 DEF SjRecords, SjStages
    <3>3. Unstarted(sj') /\ Truthful(sj') /\ SjOwned(sj') /\ SjFollowed(sj')
      BY <1>0, <2>1, <2>3 DEF SjInd, SjRecords, Unstarted, Truthful, SjOwned, SjFollowed
    <3> QED BY <3>2, <3>3 DEF SjInd
  <2> QED BY <1>2, <2>2, <2>3 DEF SpawnHere
<1>3. CASE OutputEnds
  BY <1>3, SjAnswer DEF OutputEnds, SjAnswers
<1>4. CASE Drained
  BY <1>4, SjAnswer DEF Drained, SjAnswers, SjInd, SjOwned
<1>5. CASE Ensured
  <2>1. sj.stage = "ensuring" /\ sj.proc = "none"
    BY <1>5 DEF Ensured, SjInd, Unstarted
  <2>2. CASE sj' = Answered("broker_failed")
    BY <2>1, <2>2, SjAnswer DEF SjAnswers
  <2>3. CASE sj' = [sj EXCEPT !.stage = "starting"]
    <3>2. sj' \in SjRecords
      BY <1>0, <2>3 DEF SjRecords, SjStages
    <3>3. Unstarted(sj') /\ Truthful(sj') /\ SjOwned(sj') /\ SjFollowed(sj')
      BY <1>0, <2>1, <2>3 DEF SjInd, SjRecords, Unstarted, Truthful, SjOwned, SjFollowed
    <3> QED BY <3>2, <3>3 DEF SjInd
  <2> QED BY <1>5, <2>2, <2>3 DEF Ensured
<1> QED BY <1>1, <1>2, <1>3, <1>4, <1>5

LEMMA SjCalls ==
    ASSUME SjInd, CallTimesOut \/ ChildEnds \/ CallCutOff \/ StartShell \/ AnswerLost \/ RecordJob PROVE SjInd'
<1>0. sj \in SjRecords
  BY DEF SjInd
<1>1. CASE CallTimesOut
  <2>1. sj' \in SjRecords
    BY <1>0, <1>1 DEF CallTimesOut, KilledAtTimeout, SjRecords, SjStages
  <2>2. Unstarted(sj') /\ Truthful(sj') /\ SjOwned(sj') /\ SjFollowed(sj')
    BY <1>0, <1>1 DEF CallTimesOut, KilledAtTimeout, SjInd, SjRecords, Unstarted, Truthful, SjOwned, SjFollowed
  <2> QED BY <2>1, <2>2 DEF SjInd
<1>2. CASE ChildEnds
  <2>1. sj' \in SjRecords
    BY <1>0, <1>2 DEF ChildEnds, SjRecords
  <2>2. Unstarted(sj') /\ Truthful(sj') /\ SjOwned(sj') /\ SjFollowed(sj')
    BY <1>0, <1>2 DEF ChildEnds, SjInd, SjRecords, Unstarted, Truthful, SjOwned, SjFollowed
  <2> QED BY <2>1, <2>2 DEF SjInd
<1>3. CASE CallCutOff
  <2>1. PICK parted \in SUBSET Partings :
          /\ sj' = [sj EXCEPT !.stage = "cut", !.parted = parted] /\ sj.parted \subseteq parted
          /\ sj.proc = "running" => "cut" \in parted
    <3>1. PICK parted : parted = IF sj.proc = "running" THEN sj.parted \cup {"cut"} ELSE sj.parted
      OBVIOUS
    <3>2. parted \in SUBSET Partings /\ sj.parted \subseteq parted /\ (sj.proc = "running" => "cut" \in parted)
      BY <1>0, <3>1 DEF SjRecords, Partings
    <3>3. sj' = [sj EXCEPT !.stage = "cut", !.parted = parted]
      BY <1>0, <1>3, <3>1 DEF CallCutOff, SjRecords
    <3> QED BY <3>2, <3>3
  <2>2. sj' \in SjRecords
    BY <1>0, <2>1 DEF SjRecords, SjStages
  <2>3. sj.answer = "none"
    BY <1>3 DEF CallCutOff, SjInd, SjOwned
  <2>4. Unstarted(sj') /\ Truthful(sj') /\ SjOwned(sj') /\ SjFollowed(sj')
    BY <1>0, <2>1, <2>3 DEF SjInd, SjRecords, Unstarted, Truthful, SjOwned, SjFollowed
  <2> QED BY <2>2, <2>4 DEF SjInd
<1>4. CASE StartShell
  <2>0. /\ sj.stage = "starting" /\ sj.proc = "none" /\ sj.entry = "none" /\ sj.disk = "none"
        /\ sj.heard = "none" /\ sj.job = "none" /\ sj.answer = "none"
    BY <1>4 DEF StartShell, SjInd, Unstarted, SjOwned
  <2>1. CASE sj' = [sj EXCEPT !.stage = "told", !.proc = "running", !.entry = "running", !.owned = TRUE, !.disk = "running"]
    <3>0. "running" \in SjStatuses /\ "running" \in SjOnDisk /\ "told" \in SjStages
      BY DEF SjStatuses, SjOnDisk, SjStages
    <3>1. sj' \in SjRecords
      BY <1>0, <2>1, <3>0 DEF SjRecords
    <3>2. Unstarted(sj') /\ Truthful(sj') /\ SjOwned(sj') /\ SjFollowed(sj')
      BY <1>0, <2>0, <2>1 DEF SjInd, SjRecords, Unstarted, Truthful, SjOwned, SjFollowed
    <3> QED BY <3>1, <3>2 DEF SjInd
  <2>2. CASE sj' = [Answered("broker_failed") EXCEPT !.entry = "running", !.owned = TRUE]
    <3>1. sj' = [sj EXCEPT !.stage = "done", !.answer = "broker_failed", !.entry = "running", !.owned = TRUE]
      BY <1>0, <2>2 DEF Answered, SjRecords
    <3>0. "running" \in SjStatuses /\ "broker_failed" \in SjAnswers /\ "done" \in SjStages
      BY DEF SjStatuses, SjAnswers, SjStages
    <3>2. sj' \in SjRecords
      BY <1>0, <3>0, <3>1 DEF SjRecords
    <3>3. Unstarted(sj') /\ Truthful(sj') /\ SjOwned(sj') /\ SjFollowed(sj')
      BY <1>0, <2>0, <3>1 DEF SjInd, SjRecords, Unstarted, Truthful, SjOwned, SjFollowed
    <3> QED BY <3>2, <3>3 DEF SjInd
  <2>3. CASE sj' = Answered("broker_failed")
    BY <2>0, <2>3, SjAnswer DEF SjAnswers
  <2> QED BY <1>4, <2>1, <2>2, <2>3 DEF StartShell
<1>5. CASE AnswerLost
  <2>1. PICK parted \in SUBSET Partings :
          /\ sj' = [sj EXCEPT !.stage = "done", !.answer = "broker_failed", !.parted = parted]
          /\ sj.parted \subseteq parted /\ "cut" \in parted
    <3>1. sj' = [sj EXCEPT !.stage = "done", !.answer = "broker_failed", !.parted = sj.parted \cup {"cut"}]
      BY <1>0, <1>5 DEF AnswerLost, Answered, SjRecords
    <3>2. sj.parted \cup {"cut"} \in SUBSET Partings
      BY <1>0 DEF SjRecords, Partings
    <3> QED BY <3>1, <3>2
  <2>2. sj' \in SjRecords
    BY <1>0, <2>1 DEF SjRecords, SjStages, SjAnswers
  <2>3. Unstarted(sj') /\ Truthful(sj') /\ SjOwned(sj') /\ SjFollowed(sj')
    BY <1>0, <2>1 DEF SjInd, SjRecords, Unstarted, Truthful, SjOwned, SjFollowed
  <2> QED BY <2>2, <2>3 DEF SjInd
<1>6. CASE RecordJob
  <2>1. sj' = [sj EXCEPT !.stage = "done", !.answer = "running", !.job = "running", !.handler = TRUE, !.watch = "idle"]
    BY <1>0, <1>6 DEF RecordJob, Answered, SjRecords
  <2>2. sj' \in SjRecords
    BY <1>0, <2>1 DEF SjRecords, SjStages, SjAnswers
  <2>3. Unstarted(sj') /\ Truthful(sj') /\ SjOwned(sj') /\ SjFollowed(sj')
    BY <1>0, <2>1 DEF SjInd, SjRecords, Unstarted, Truthful, SjOwned, SjFollowed
  <2> QED BY <2>2, <2>3 DEF SjInd
<1> QED BY <1>1, <1>2, <1>3, <1>4, <1>5, <1>6

\* What a broker that is told to stop or interrupt a shell it knows of makes of the records.
Obeyed(r, n) ==
    /\ n \in SjRecords
    /\ n.stage = r.stage /\ n.answer = r.answer /\ n.heard = r.heard /\ n.job = r.job /\ n.up = r.up
    /\ n.watch = r.watch /\ n.stop = r.stop /\ r.parted \subseteq n.parted /\ n.proc \in {r.proc, "ended"}
    /\ n.proc = "running" => n.parted # {} \/ (n.entry = r.entry /\ n.disk = r.disk)

LEMMA SjToldObeyed ==
    ASSUME NEW r, r \in SjRecords, NEW op \in {"interrupt", "stop"}, NEW n, n \in SjTold(r, op), Knows(r)
    PROVE  Obeyed(r, n)
<1>1. CASE n = [r EXCEPT !.told = IF r.told = "stop" THEN @ ELSE op]
  <2>1. PICK told \in {"none", "stop", "interrupt"} : n = [r EXCEPT !.told = told]
    BY <1>1 DEF SjRecords
  <2>2. n \in SjRecords
    BY <2>1 DEF SjRecords
  <2> QED BY <2>1, <2>2 DEF Obeyed, SjRecords
<1>2. ASSUME NEW obeys \in BOOLEAN,
             n = [r EXCEPT !.told = op, !.entry = "stopped", !.disk = "stopped",
                           !.proc = IF obeys /\ @ = "running" THEN "ended" ELSE @,
                           !.parted = IF ~obeys /\ r.proc = "running" THEN @ \cup {"deaf"} ELSE @]
      PROVE  Obeyed(r, n)
  <2>1. PICK process, parted :
          /\ process = IF obeys /\ r.proc = "running" THEN "ended" ELSE r.proc
          /\ parted = IF ~obeys /\ r.proc = "running" THEN r.parted \cup {"deaf"} ELSE r.parted
    OBVIOUS
  <2>2. /\ process \in {"none", "running", "ended"} /\ process \in {r.proc, "ended"}
        /\ parted \in SUBSET Partings /\ r.parted \subseteq parted /\ (process = "running" => parted # {})
    BY <2>1 DEF SjRecords, Partings
  <2>3. n = [r EXCEPT !.told = op, !.entry = "stopped", !.disk = "stopped", !.proc = process, !.parted = parted]
    BY <1>2, <2>1 DEF SjRecords
  <2>4. "stopped" \in SjStatuses /\ "stopped" \in SjOnDisk
    BY DEF SjStatuses, SjOnDisk
  <2>5. n \in SjRecords
    BY <2>2, <2>3, <2>4 DEF SjRecords
  <2>6. /\ n.stage = r.stage /\ n.answer = r.answer /\ n.heard = r.heard /\ n.job = r.job /\ n.up = r.up
        /\ n.watch = r.watch /\ n.stop = r.stop /\ n.proc = process /\ n.parted = parted
    BY <2>3 DEF SjRecords
  <2> QED BY <2>2, <2>5, <2>6 DEF Obeyed
<1> QED BY <1>1, <1>2 DEF SjTold

LEMMA SjObeys ==
    ASSUME SjInd, sj.job # "none", NEW n, Obeyed(sj, n)
    PROVE  Unstarted(n) /\ Truthful(n) /\ SjOwned(n) /\ SjFollowed(n)
BY DEF Obeyed, SjInd, Unstarted, Truthful, SjOwned, SjFollowed

LEMMA SjBroker ==
    ASSUME SjInd, BrokerStarts \/ BrokerLost \/ ProcessEnds \/ EntryEnds \/ SessionAction PROVE SjInd'
<1>0. sj \in SjRecords
  BY DEF SjInd
<1>1. CASE BrokerStarts
  <2>1. PICK known : known = IF sj.disk = "torn" THEN "none" ELSE Loaded(sj)
    OBVIOUS
  <2>2. PICK disk : disk = IF known = "none" THEN sj.disk ELSE known
    OBVIOUS
  <2>3. /\ known \in SjStatuses /\ disk \in SjOnDisk
        /\ sj.disk = "none" => known = "none" /\ disk = "none"
        /\ sj.proc = "running" /\ sj.disk \in {"none", "running", "torn"} =>
             known \in {"none", "running"} /\ disk \in {"none", "running", "torn"}
    BY <1>0, <2>1, <2>2 DEF SjRecords, SjStatuses, SjOnDisk, Loaded
  <2>4. sj' = [sj EXCEPT !.broker = TRUE, !.entry = known, !.owned = FALSE, !.disk = disk]
    BY <1>0, <1>1, <2>1, <2>2 DEF BrokerStarts, SjRecords
  <2>5. sj' \in SjRecords
    BY <1>0, <2>3, <2>4 DEF SjRecords
  <2>6. Unstarted(sj') /\ Truthful(sj') /\ SjOwned(sj') /\ SjFollowed(sj')
    BY <1>0, <2>3, <2>4 DEF SjInd, SjRecords, Unstarted, Truthful, SjOwned, SjFollowed
  <2> QED BY <2>5, <2>6 DEF SjInd
<1>2. CASE BrokerLost
  <2>1. PICK disk, watch, stop :
          /\ disk \in {sj.disk, "torn"} /\ (disk = "torn" => sj.disk \in {"running", "torn"})
          /\ watch \in {sj.watch, "lost"} /\ (watch = "lost" => sj.watch \in {"asking", "lost"})
          /\ stop \in {sj.stop, "lost"} /\ (sj.stop = "none" => stop = "none")
          /\ sj' = [sj EXCEPT !.broker = FALSE, !.entry = "none", !.owned = FALSE, !.losses = sj.losses + 1,
                              !.disk = disk, !.watch = watch, !.stop = stop]
    <3>1. PICK half \in BOOLEAN :
            sj' = [sj EXCEPT !.broker = FALSE, !.entry = "none", !.owned = FALSE, !.losses = @ + 1,
                        !.disk = IF half /\ @ = "running" THEN "torn" ELSE @,
                        !.watch = IF @ = "asking" THEN "lost" ELSE @, !.stop = IF @ = "asking" THEN "lost" ELSE @]
      BY <1>2 DEF BrokerLost
    <3>2. PICK disk, watch, stop :
            /\ disk = IF half /\ sj.disk = "running" THEN "torn" ELSE sj.disk
            /\ watch = IF sj.watch = "asking" THEN "lost" ELSE sj.watch
            /\ stop = IF sj.stop = "asking" THEN "lost" ELSE sj.stop
      OBVIOUS
    <3>3. sj' = [sj EXCEPT !.broker = FALSE, !.entry = "none", !.owned = FALSE, !.losses = sj.losses + 1,
                              !.disk = disk, !.watch = watch, !.stop = stop]
      BY <1>0, <3>1, <3>2 DEF SjRecords
    <3>4. disk \in {sj.disk, "torn"} /\ (disk = "torn" => sj.disk \in {"running", "torn"})
      BY <3>2
    <3>5. watch \in {sj.watch, "lost"} /\ (watch = "lost" => sj.watch \in {"asking", "lost"})
      BY <3>2
    <3>6. stop \in {sj.stop, "lost"} /\ (sj.stop = "none" => stop = "none")
      BY <3>2
    <3> QED BY <3>3, <3>4, <3>5, <3>6
  <2>2. "torn" \in SjOnDisk /\ "none" \in SjStatuses
    BY DEF SjOnDisk, SjStatuses
  <2>6. /\ disk \in SjOnDisk /\ watch \in {"none", "idle", "asking", "lost", "heard"}
        /\ stop \in {"none", "asking", "lost"} /\ sj.losses + 1 \in Nat
    BY <1>0, <2>1, <2>2 DEF SjRecords
  <2>3. sj' \in SjRecords
    BY <1>0, <2>1, <2>2, <2>6 DEF SjRecords
  <2>4. /\ sj'.stage = sj.stage /\ sj'.answer = sj.answer /\ sj'.proc = sj.proc /\ sj'.entry = "none" /\ sj'.disk = disk
        /\ sj'.heard = sj.heard /\ sj'.job = sj.job /\ sj'.parted = sj.parted /\ sj'.up = sj.up /\ sj'.watch = watch
        /\ sj'.stop = stop
    BY <1>0, <2>1 DEF SjRecords
  <2>5. Unstarted(sj') /\ Truthful(sj') /\ SjOwned(sj') /\ SjFollowed(sj')
    BY <2>1, <2>4 DEF SjInd, Unstarted, Truthful, SjOwned, SjFollowed
  <2> QED BY <2>3, <2>5 DEF SjInd
<1>3. CASE ProcessEnds
  <2>1. sj' \in SjRecords
    BY <1>0, <1>3 DEF ProcessEnds, SjRecords
  <2>2. Unstarted(sj') /\ Truthful(sj') /\ SjOwned(sj') /\ SjFollowed(sj')
    BY <1>0, <1>3 DEF ProcessEnds, SjInd, SjRecords, Unstarted, Truthful, SjOwned, SjFollowed
  <2> QED BY <2>1, <2>2 DEF SjInd
<1>4. CASE EntryEnds
  <2>1. PICK verdict \in {"stopped", "interrupted", "exited"} : sj' = [sj EXCEPT !.entry = verdict, !.disk = verdict]
    BY <1>4 DEF EntryEnds, Verdict
  <2>2. verdict \in SjStatuses /\ verdict \in SjOnDisk
    BY DEF SjStatuses, SjOnDisk
  <2>3. sj' \in SjRecords
    BY <1>0, <2>1, <2>2 DEF SjRecords
  <2>4. sj.entry = "running" /\ sj.proc = "ended"
    BY <1>4 DEF EntryEnds
  <2>5. Unstarted(sj') /\ Truthful(sj') /\ SjOwned(sj') /\ SjFollowed(sj')
    BY <1>0, <2>1, <2>4 DEF SjInd, SjRecords, Unstarted, Truthful, SjOwned, SjFollowed
  <2> QED BY <2>3, <2>5 DEF SjInd
<1>5. CASE SessionAction
  <2>1. Obeyed(sj, sj')
    BY <1>0, <1>5, SjToldObeyed DEF SessionAction
  <2>2. sj.job # "none"
    BY <1>5 DEF SessionAction
  <2> QED BY <2>1, <2>2, SjObeys DEF SjInd, Obeyed
<1> QED BY <1>1, <1>2, <1>3, <1>4, <1>5

LEMMA JobStatusesEnd == ASSUME NEW status PROVE JobStatuses(status) \subseteq SjTerminal
<1>1. CASE status = "exited"
  BY <1>1 DEF JobStatuses, SjTerminal
<1>2. CASE status \in {"stopped", "interrupted"}
  BY <1>2 DEF JobStatuses, SjTerminal
<1>3. CASE status \notin {"exited", "stopped", "interrupted"}
  BY <1>3 DEF JobStatuses, SjTerminal
<1> QED BY <1>1, <1>2, <1>3

\* A watch that heard a status, which may mean that the shell is orphaned, takes it over.
LEMMA WatchedKeeps ==
    ASSUME SjInd, sj.watch # "none", NEW status, NEW job \in {"running"} \cup SjTerminal,
           job \in SjTerminal /\ sj.proc = "running" => sj.parted # {} \/ status = "orphaned",
           NEW n, n = Watched(sj, status, job)
    PROVE  n \in SjRecords /\ Unstarted(n) /\ Truthful(n) /\ SjOwned(n) /\ SjFollowed(n)
<1>0. sj \in SjRecords
  BY DEF SjInd
<1>1. CASE ~MoveJob(sj, job)
  <2>1. n = [sj EXCEPT !.watch = "none"] /\ sj.job \in SjTerminal
    BY <1>1 DEF Watched, MoveJob
  <2>2. n \in SjRecords
    BY <1>0, <2>1 DEF SjRecords
  <2>3. Unstarted(n) /\ Truthful(n) /\ SjOwned(n) /\ SjFollowed(n)
    BY <1>0, <2>1 DEF SjInd, SjRecords, Unstarted, Truthful, SjOwned, SjFollowed, SjTerminal
  <2> QED BY <2>2, <2>3
<1>2. CASE MoveJob(sj, job)
  <2>1. PICK watch, handler, parted :
          /\ watch = IF job = "running" THEN "idle" ELSE "none"
          /\ handler = IF job = "running" THEN sj.handler ELSE FALSE
          /\ parted = sj.parted \cup OrphanOf(status)
    OBVIOUS
  <2>2. n = [sj EXCEPT !.job = job, !.watch = watch, !.handler = handler, !.parted = parted]
    BY <1>0, <1>2, <2>1 DEF Watched, SjRecords
  <2>3. /\ watch \in {"none", "idle"} /\ handler \in BOOLEAN /\ parted \in SUBSET Partings
        /\ sj.parted \subseteq parted /\ (status = "orphaned" => parted # {}) /\ (job = "running" => watch = "idle")
    BY <1>0, <2>1 DEF SjRecords, Partings, OrphanOf
  <2>4. n \in SjRecords
    BY <1>0, <2>2, <2>3 DEF SjRecords
  <2>5. /\ n.stage = sj.stage /\ n.answer = sj.answer /\ n.proc = sj.proc /\ n.entry = sj.entry /\ n.disk = sj.disk
        /\ n.heard = sj.heard /\ n.job = job /\ n.parted = parted /\ n.up = sj.up /\ n.watch = watch /\ n.stop = sj.stop
    BY <1>0, <2>2 DEF SjRecords
  <2>6. job # "none" /\ sj.stage \notin {"none", "spawning", "ensuring", "starting"}
    BY DEF SjTerminal, SjInd, Unstarted
  <2>7. Unstarted(n) /\ SjOwned(n)
    BY <2>3, <2>5, <2>6 DEF SjInd, Unstarted, SjOwned
  <2>8. Truthful(n) /\ SjFollowed(n)
    BY <2>3, <2>5, <2>6 DEF SjInd, Truthful, SjFollowed
  <2> QED BY <2>4, <2>7, <2>8
<1> QED BY <1>1, <1>2

LEMMA SjWatches ==
    ASSUME SjInd, WatchAsks \/ WatchHears \/ WatchWrites \/ WatchFallsBack PROVE SjInd'
<1>0. sj \in SjRecords
  BY DEF SjInd
<1>1. CASE WatchAsks
  <2>1. sj' \in SjRecords
    BY <1>0, <1>1 DEF WatchAsks, SjRecords
  <2>2. Unstarted(sj') /\ Truthful(sj') /\ SjOwned(sj') /\ SjFollowed(sj')
    BY <1>0, <1>1 DEF WatchAsks, SjInd, SjRecords, Unstarted, Truthful, SjOwned, SjFollowed, SjTerminal
  <2> QED BY <2>1, <2>2 DEF SjInd
<1>2. CASE WatchHears
  <2>1. sj' \in SjRecords
    BY <1>0, <1>2 DEF WatchHears, SjRecords
  <2>2. Unstarted(sj') /\ Truthful(sj') /\ SjOwned(sj') /\ SjFollowed(sj')
    BY <1>0, <1>2 DEF WatchHears, Knows, SjInd, SjRecords, Unstarted, Truthful, SjOwned, SjFollowed
  <2> QED BY <2>1, <2>2 DEF SjInd
<1>3. CASE WatchWrites
  <2>1. PICK job \in IF sj.heard = "running" THEN {"running"} ELSE JobStatuses(sj.heard) :
          sj' = [Watched(sj, sj.heard, job) EXCEPT !.heard = "none"]
    BY <1>3 DEF WatchWrites
  <2>2. job \in {"running"} \cup SjTerminal /\ (job \in SjTerminal => sj.heard # "running")
    BY JobStatusesEnd DEF SjTerminal
  <2>3. sj.watch = "heard" /\ sj.heard # "none"
    BY <1>3 DEF WatchWrites, SjInd, SjFollowed
  <2>4. job \in SjTerminal /\ sj.proc = "running" => sj.parted # {}
    BY <2>2, <2>3 DEF SjInd, Truthful
  <2>5. PICK n : n = Watched(sj, sj.heard, job)
    OBVIOUS
  <2>6. n \in SjRecords /\ Unstarted(n) /\ Truthful(n) /\ SjOwned(n) /\ SjFollowed(n) /\ n.watch # "heard"
    <3>1. n \in SjRecords /\ Unstarted(n) /\ Truthful(n) /\ SjOwned(n) /\ SjFollowed(n)
      BY <2>2, <2>3, <2>4, <2>5, WatchedKeeps
    <3>2. n.watch # "heard"
      BY <1>0, <2>5 DEF Watched, SjRecords
    <3> QED BY <3>1, <3>2
  <2>7. sj' = [n EXCEPT !.heard = "none"]
    BY <2>1, <2>5
  <2>8. "none" \in SjStatuses
    BY DEF SjStatuses
  <2>9. sj' \in SjRecords
    BY <2>6, <2>7, <2>8 DEF SjRecords
  <2>10. Unstarted(sj') /\ Truthful(sj') /\ SjOwned(sj') /\ SjFollowed(sj')
    BY <2>6, <2>7 DEF SjRecords, Unstarted, Truthful, SjOwned, SjFollowed
  <2> QED BY <2>9, <2>10 DEF SjInd
<1>4. CASE WatchFallsBack
  <2>1. sj.watch \in {"lost", "asking"}
    BY <1>4 DEF WatchFallsBack
  <2>2. CASE sj.disk \in {"none", "torn"}
    <3>1. PICK parted : parted = sj.parted \cup {"unseen"}
      OBVIOUS
    <3>2. sj' = [sj EXCEPT !.watch = "none", !.parted = parted]
      BY <1>0, <1>4, <2>2, <3>1 DEF WatchFallsBack, SjRecords
    <3>3. parted \in SUBSET Partings /\ sj.parted \subseteq parted /\ "unseen" \in parted
      BY <1>0, <3>1 DEF SjRecords, Partings
    <3>4. sj' \in SjRecords
      BY <1>0, <3>2, <3>3 DEF SjRecords
    <3>5. Unstarted(sj') /\ Truthful(sj') /\ SjOwned(sj') /\ SjFollowed(sj')
      BY <1>0, <2>1, <3>2, <3>3 DEF SjInd, SjRecords, Unstarted, Truthful, SjOwned, SjFollowed
    <3> QED BY <3>4, <3>5 DEF SjInd
  <2>3. CASE sj.disk \notin {"none", "torn"}
    <3>1. PICK status : status = AfterLoss(sj, sj.disk)
      OBVIOUS
    <3>2. PICK job \in IF status = "running" THEN {"running"} ELSE JobStatuses(status) :
            sj' = Watched(sj, status, job)
      BY <1>4, <2>3, <3>1 DEF WatchFallsBack
    <3>3. job \in {"running"} \cup SjTerminal
      BY JobStatusesEnd DEF SjTerminal
    <3>4. sj.proc = "running" => sj.parted # {} \/ status = "orphaned"
      BY <2>3, <3>1 DEF AfterLoss, SjInd, Truthful
    <3> QED BY <2>1, <3>2, <3>3, <3>4, WatchedKeeps DEF SjInd
  <2> QED BY <2>2, <2>3
<1> QED BY <1>1, <1>2, <1>3, <1>4

LEMMA SjStops ==
    ASSUME SjInd, StopJob \/ StopHears \/ StopFallsBack PROVE SjInd'
<1>0. sj \in SjRecords
  BY DEF SjInd
<1>1. CASE StopJob
  <2>1. sj.job = "running"
    BY <1>1 DEF StopJob
  <2>2. PICK r : sj' = [r EXCEPT !.stop = "asking"] /\ (Obeyed(sj, r) \/ r = sj)
    BY <1>0, <1>1, SjToldObeyed DEF StopJob
  <2>3. r \in SjRecords /\ Unstarted(r) /\ Truthful(r) /\ SjOwned(r) /\ SjFollowed(r) /\ r.job = "running"
    BY <2>1, <2>2, SjObeys DEF SjInd, Obeyed
  <2>4. sj' \in SjRecords
    BY <2>2, <2>3 DEF SjRecords
  <2>5. Unstarted(sj') /\ Truthful(sj') /\ SjOwned(sj') /\ SjFollowed(sj')
    BY <2>2, <2>3 DEF SjRecords, Unstarted, Truthful, SjOwned, SjFollowed
  <2> QED BY <2>4, <2>5 DEF SjInd
<1>2. ASSUME NEW to \in SjTerminal, NEW parted \in SUBSET Partings, sj.parted \subseteq parted,
             NEW job, job = (IF MoveJob(sj, to) THEN to ELSE sj.job) \/ job = (IF sj.job = "running" THEN to ELSE sj.job),
             sj.stop # "none", sj.proc = "running" => parted # {},
             sj' = [sj EXCEPT !.stop = "none", !.job = job, !.parted = parted]
      PROVE  SjInd'
  <2>1. job \in {sj.job, to} /\ (sj.job # "none" => job # "none") /\ job \in {"none", "running"} \cup SjTerminal
    BY <1>0, <1>2 DEF SjTerminal, SjRecords
  <2>2. sj' \in SjRecords
    BY <1>0, <1>2, <2>1 DEF SjRecords
  <2>3. /\ sj'.stage = sj.stage /\ sj'.answer = sj.answer /\ sj'.proc = sj.proc /\ sj'.entry = sj.entry
        /\ sj'.disk = sj.disk /\ sj'.heard = sj.heard /\ sj'.job = job /\ sj'.parted = parted /\ sj'.up = sj.up
        /\ sj'.watch = sj.watch /\ sj'.stop = "none"
    BY <1>0, <1>2 DEF SjRecords
  <2>4. Unstarted(sj') /\ Truthful(sj') /\ SjOwned(sj')
    BY <1>2, <2>1, <2>3 DEF SjInd, Unstarted, Truthful, SjOwned
  <2>5. SjFollowed(sj')
    BY <1>2, <2>1, <2>3 DEF SjInd, SjFollowed, SjTerminal
  <2> QED BY <2>2, <2>4, <2>5 DEF SjInd
<1>3. CASE StopHears
  <2>1. PICK to \in JobStatuses(sj.entry) :
          sj' = [sj EXCEPT !.stop = "none", !.job = IF MoveJob(sj, to) THEN to ELSE @]
    BY <1>3 DEF StopHears
  <2>2. PICK job : job = IF MoveJob(sj, to) THEN to ELSE sj.job
    OBVIOUS
  <2>3. sj' = [sj EXCEPT !.stop = "none", !.job = job, !.parted = sj.parted]
    BY <1>0, <2>1, <2>2 DEF SjRecords
  <2>4. sj.stop = "asking" /\ sj.entry \notin {"none", "running"}
    BY <1>3 DEF StopHears, Knows, DoneWithProcess
  <2>5. sj.proc = "running" => sj.parted # {}
    BY <2>4 DEF SjInd, Truthful
  <2>6. sj.parted \in SUBSET Partings /\ to \in SjTerminal
    BY <1>0, JobStatusesEnd DEF SjRecords
  <2> QED BY <1>2, <2>2, <2>3, <2>4, <2>5, <2>6
<1>4. CASE StopFallsBack
  <2>0. sj.stop # "none"
    BY <1>4 DEF StopFallsBack
  <2>1. ASSUME NEW why \in {"silent", "stale"}, NEW to \in SjTerminal,
               NEW job, job = (IF MoveJob(sj, to) THEN to ELSE sj.job) \/ job = (IF sj.job = "running" THEN to ELSE sj.job),
               sj' = [sj EXCEPT !.stop = "none", !.job = job,
                                !.parted = IF sj.proc = "running" THEN sj.parted \cup {why} ELSE sj.parted]
        PROVE  SjInd'
    <3>1. PICK parted : parted = IF sj.proc = "running" THEN sj.parted \cup {why} ELSE sj.parted
      OBVIOUS
    <3>2. parted \in SUBSET Partings /\ sj.parted \subseteq parted /\ (sj.proc = "running" => parted # {})
      BY <1>0, <3>1 DEF SjRecords, Partings
    <3>3. sj' = [sj EXCEPT !.stop = "none", !.job = job, !.parted = parted]
      BY <2>1, <3>1
    <3> QED BY <1>2, <2>0, <2>1, <3>2, <3>3
  <2>2. CASE sj.disk \in {"none", "torn"}
    <3>1. PICK job : job = IF sj.job = "running" THEN "stopped" ELSE sj.job
      OBVIOUS
    <3>2. sj' = [sj EXCEPT !.stop = "none", !.job = job,
                           !.parted = IF sj.proc = "running" THEN sj.parted \cup {"silent"} ELSE sj.parted]
      BY <1>0, <1>4, <2>2, <3>1 DEF StopFallsBack, SjRecords
    <3> QED BY <2>1, <3>1, <3>2 DEF SjTerminal
  <2>3. CASE sj.disk \notin {"none", "torn"}
    <3>0. PICK to \in JobStatuses(sj.disk) :
            sj' = [sj EXCEPT !.stop = "none", !.job = IF MoveJob(sj, to) THEN to ELSE @,
                             !.parted = IF sj.proc = "running" THEN @ \cup {"stale"} ELSE @]
      BY <1>4, <2>3 DEF StopFallsBack
    <3>1. PICK job : job = IF MoveJob(sj, to) THEN to ELSE sj.job
      OBVIOUS
    <3>2. sj' = [sj EXCEPT !.stop = "none", !.job = job,
                           !.parted = IF sj.proc = "running" THEN sj.parted \cup {"stale"} ELSE sj.parted]
      BY <1>0, <3>0, <3>1 DEF SjRecords
    <3> QED BY <2>1, <3>0, <3>1, <3>2, JobStatusesEnd
  <2> QED BY <2>2, <2>3
<1> QED BY <1>1, <1>3, <1>4

LEMMA SjRestarts ==
    ASSUME SjInd, RuntimeDies \/ Reconcile PROVE SjInd'
<1>0. sj \in SjRecords
  BY DEF SjInd
<1>1. CASE RuntimeDies
  <2>1. PICK stage, parted :
          /\ stage = IF sj.stage \in {"none", "done"} THEN sj.stage ELSE "cut"
          /\ parted = IF sj.stage # "done" /\ sj.proc = "running" THEN sj.parted \cup {"cut"} ELSE sj.parted
    OBVIOUS
  <2>2. sj' = [sj EXCEPT !.up = FALSE, !.restarts = sj.restarts + 1, !.stage = stage, !.parted = parted,
                         !.handler = FALSE, !.watch = "none", !.heard = "none", !.stop = "none"]
    BY <1>0, <1>1, <2>1 DEF RuntimeDies, SjRecords
  <2>3. /\ stage \in SjStages /\ parted \in SUBSET Partings /\ sj.parted \subseteq parted
        /\ sj.restarts + 1 \in Nat /\ "none" \in SjStatuses
    BY <1>0, <2>1 DEF SjRecords, SjStages, SjStatuses, Partings
  <2>4. sj' \in SjRecords
    BY <1>0, <2>2, <2>3 DEF SjRecords
  <2>5. /\ sj'.stage = stage /\ sj'.answer = sj.answer /\ sj'.proc = sj.proc /\ sj'.entry = sj.entry
        /\ sj'.disk = sj.disk /\ sj'.heard = "none" /\ sj'.job = sj.job /\ sj'.parted = parted /\ sj'.up = FALSE
        /\ sj'.watch = "none" /\ sj'.stop = "none"
    BY <1>0, <2>2 DEF SjRecords
  <2>6. Unstarted(sj') /\ Truthful(sj') /\ SjFollowed(sj')
    BY <2>1, <2>3, <2>5 DEF SjInd, Unstarted, Truthful, SjFollowed
  <2>7. SjOwned(sj')
    BY <2>1, <2>5 DEF SjInd, SjOwned, Unstarted
  <2> QED BY <2>4, <2>6, <2>7 DEF SjInd
<1>2. CASE Reconcile
  <2>1. PICK r : r = [sj EXCEPT !.up = TRUE]
    OBVIOUS
  <2>2. /\ r \in SjRecords /\ r.stage = sj.stage /\ r.answer = sj.answer /\ r.proc = sj.proc /\ r.entry = sj.entry
        /\ r.disk = sj.disk /\ r.heard = sj.heard /\ r.job = sj.job /\ r.parted = sj.parted /\ r.up = TRUE
        /\ r.watch = sj.watch /\ r.stop = sj.stop
    BY <1>0, <2>1 DEF SjRecords
  <2>3. Unstarted(r) /\ Truthful(r) /\ SjOwned(r) /\ (r.watch = "heard" => r.heard # "none")
    BY <2>2 DEF SjInd, Unstarted, Truthful, SjOwned, SjFollowed
  <2>4. ASSUME NEW job \in {"running"} \cup SjTerminal, NEW parted \in SUBSET Partings, r.parted \subseteq parted,
               NEW handler \in BOOLEAN, NEW watch \in {r.watch, "idle"}, r.job # "none",
               job \in SjTerminal /\ r.proc = "running" => parted # {},
               job = "running" => watch = "idle" \/ "unlooped" \in parted,
               sj' = [r EXCEPT !.job = job, !.handler = handler, !.watch = watch, !.parted = parted]
        PROVE  SjInd'
    <3>1. sj' \in SjRecords
      BY <2>2, <2>4 DEF SjRecords
    <3>2. /\ sj'.stage = r.stage /\ sj'.answer = r.answer /\ sj'.proc = r.proc /\ sj'.entry = r.entry
          /\ sj'.disk = r.disk /\ sj'.heard = r.heard /\ sj'.job = job /\ sj'.parted = parted /\ sj'.up = TRUE
          /\ sj'.watch = watch
      BY <2>2, <2>4 DEF SjRecords
    <3>3. Unstarted(sj') /\ SjOwned(sj')
      BY <2>3, <2>4, <3>2 DEF Unstarted, SjOwned, SjTerminal
    <3>4. Truthful(sj') /\ SjFollowed(sj')
      BY <2>3, <2>4, <3>2 DEF Truthful, SjFollowed, SjTerminal
    <3> QED BY <3>1, <3>3, <3>4 DEF SjInd
  <2>5. CASE r.job = "none" \/ r.job \in SjTerminal
    <3>1. sj' = r
      BY <1>2, <2>1, <2>5 DEF Reconcile
    <3>2. SjFollowed(r)
      BY <2>3, <2>5 DEF SjFollowed, SjTerminal
    <3> QED BY <2>2, <2>3, <3>1, <3>2 DEF SjInd
  <2>6. CASE r.job \notin {"none"} \cup SjTerminal /\ r.disk \in {"none", "torn"}
    <3>1. PICK parted : parted = IF r.proc = "running" THEN r.parted \cup {"unseen"} ELSE r.parted
      OBVIOUS
    <3>2. parted \in SUBSET Partings /\ r.parted \subseteq parted /\ (r.proc = "running" => parted # {})
      BY <2>2, <3>1 DEF SjRecords, Partings
    <3>3. sj' = [r EXCEPT !.job = "failed", !.parted = parted]
      BY <1>2, <2>1, <2>2, <2>6, <3>1 DEF Reconcile, SjRecords
    <3>4. sj' = [r EXCEPT !.job = "failed", !.handler = r.handler, !.watch = r.watch, !.parted = parted]
      BY <2>2, <3>3 DEF SjRecords
    <3>5. "failed" \in SjTerminal /\ "failed" # "running" /\ r.handler \in BOOLEAN /\ r.job # "none"
      BY <2>2, <2>6 DEF SjTerminal, SjRecords
    <3> QED BY <2>4, <3>2, <3>4, <3>5
  <2>7. CASE r.job \notin {"none"} \cup SjTerminal /\ r.disk \notin {"none", "torn"}
    <3>0. PICK slow, loop \in BOOLEAN :
            LET status == IF Knows(r) /\ ~slow THEN r.entry ELSE AfterLoss(r, r.disk) IN
            IF status = "running"
            THEN LET found == [r EXCEPT !.job = "running", !.handler = TRUE] IN
                 sj' = IF loop THEN WatchedAgain(found) ELSE [found EXCEPT !.parted = @ \cup {"unlooped"}]
            ELSE \E job \in JobStatuses(status) : sj' = [r EXCEPT !.job = job, !.parted = @ \cup OrphanOf(status)]
      BY <1>2, <2>1, <2>7, Zenon DEF Reconcile
    <3>1. PICK status :
            /\ status = IF Knows(r) /\ ~slow THEN r.entry ELSE AfterLoss(r, r.disk)
            /\ IF status = "running"
               THEN LET found == [r EXCEPT !.job = "running", !.handler = TRUE] IN
                    sj' = IF loop THEN WatchedAgain(found) ELSE [found EXCEPT !.parted = @ \cup {"unlooped"}]
               ELSE \E job \in JobStatuses(status) : sj' = [r EXCEPT !.job = job, !.parted = @ \cup OrphanOf(status)]
      BY <3>0
    <3>2. r.job # "none" /\ r.handler \in BOOLEAN /\ r.parted \in SUBSET Partings
      BY <2>2, <2>7 DEF SjRecords
    <3>3. CASE status = "running" /\ loop
      <4>0. sj' = [[r EXCEPT !.job = "running", !.handler = TRUE] EXCEPT !.watch = "idle"]
        BY <3>1, <3>3 DEF WatchedAgain
      <4>1. sj' = [r EXCEPT !.job = "running", !.handler = TRUE, !.watch = "idle", !.parted = r.parted]
        BY <2>2, <4>0 DEF SjRecords
      <4>2. "running" \notin SjTerminal
        BY DEF SjTerminal
      <4> QED BY <2>4, <3>2, <4>1, <4>2
    <3>4. CASE status = "running" /\ ~loop
      <4>1. PICK parted : parted = r.parted \cup {"unlooped"}
        OBVIOUS
      <4>0. sj' = [[r EXCEPT !.job = "running", !.handler = TRUE] EXCEPT !.parted = @ \cup {"unlooped"}]
        BY <3>1, <3>4
      <4>2. sj' = [r EXCEPT !.job = "running", !.handler = TRUE, !.watch = r.watch, !.parted = parted]
        BY <2>2, <4>0, <4>1 DEF SjRecords
      <4>3. parted \in SUBSET Partings /\ r.parted \subseteq parted /\ "unlooped" \in parted
        BY <3>2, <4>1 DEF Partings
      <4>4. "running" \notin SjTerminal
        BY DEF SjTerminal
      <4> QED BY <2>4, <3>2, <4>2, <4>3, <4>4
    <3>5. CASE status # "running"
      <4>1. PICK job \in JobStatuses(status) : sj' = [r EXCEPT !.job = job, !.parted = @ \cup OrphanOf(status)]
        BY <3>1, <3>5
      <4>2. PICK parted : parted = r.parted \cup OrphanOf(status)
        OBVIOUS
      <4>3. sj' = [r EXCEPT !.job = job, !.handler = r.handler, !.watch = r.watch, !.parted = parted]
        BY <2>2, <4>1, <4>2 DEF SjRecords
      <4>4. r.proc = "running" => r.parted # {} \/ status = "orphaned"
        BY <2>3, <2>7, <3>1, <3>5 DEF Truthful, AfterLoss, Knows
      <4>5. parted \in SUBSET Partings /\ r.parted \subseteq parted /\ (r.proc = "running" => parted # {})
        BY <3>2, <4>2, <4>4 DEF Partings, OrphanOf
      <4>6. job \in SjTerminal /\ job # "running"
        BY JobStatusesEnd DEF SjTerminal
      <4> QED BY <2>4, <3>2, <4>3, <4>5, <4>6
    <3> QED BY <3>3, <3>4, <3>5
  <2> QED BY <2>5, <2>6, <2>7
<1> QED BY <1>1, <1>2

LEMMA SjStarts == SjInit => SjInd
<1> SUFFICES ASSUME SjInit PROVE SjInd
  OBVIOUS
<1>1. sj \in SjRecords
  BY DEF SjInit, SjRecords, SjStages, SjAnswers, SjStatuses, SjOnDisk, SjTerminal, Partings
<1>2. Unstarted(sj) /\ Truthful(sj) /\ SjOwned(sj) /\ SjFollowed(sj)
  BY DEF SjInit, Unstarted, Truthful, SjOwned, SjFollowed
<1> QED BY <1>1, <1>2 DEF SjInd

LEMMA SjStep == SjInd /\ [SjNext]_sj => SjInd'
<1>1. CASE UNCHANGED sj
  BY <1>1 DEF SjInd
<1> QED BY <1>1, SjBegins, SjCalls, SjBroker, SjWatches, SjStops, SjRestarts DEF SjNext

LEMMA SjIndSafe == SjInd => ShellJobsSafe
BY DEF SjInd, SjRecords, SjStages, Truthful, SjOwned, SjFollowed, ShellJobsSafe, SjTypeOK, OverIsOver, ShellHasOwner,
       RunningIsWatched, TimedOutIsDead, SjTerminal

----
(* A batch of tool calls: ToolPipeline. *)

TpCallStates ==
    [at : TpStages, input : TpWriters, allowed : TpWriters \cup {"none"}, ran : TpWriters \cup {"none"},
     status : TpStatuses, wants : SUBSET {"tool", "refresh", "hook"}, cancel : BOOLEAN, late : BOOLEAN]

TpTyped ==
    /\ tpBatch \in TpBatches /\ tpCall \in [TpCalls -> TpCallStates]
    /\ tpSeen \in [TpPaths -> {"none", "read", "write"}] /\ tpTouched \in [TpPaths -> {"none", "read", "write"}]
    /\ tpHeard \in [TpCalls -> Nat] /\ tpPhase \in {"open", "broken", "closed"} /\ tpStopped \in BOOLEAN
    /\ tpApplied \in 0 .. Len(tpBatch.calls)

TpOver(c) == c.at \in {"ended", "lost"}
TpRan(c) == c.ran # "none"
TpRaising(i) == Asked(i).ends = "raises" \/ Asked(i).post = "raises"

\* The stages before a tool has done its work.
TpEarly == {"unseen", "validate", "hook", "check", "authorize", "queued", "execute", "lost"}

\* What the state of a call says of its past.
TpCallOk(i, c) ==
    /\ c.at = "ended" <=> c.status # "none"
    /\ c.cancel => c.at \notin {"unseen", "ended", "lost"}
    /\ c.at \notin {"unseen", "ended", "lost"} \/ TpRan(c) =>
         Asked(i).tool \in tpBatch.registry /\ (tpBatch.pool = {} \/ Asked(i).tool \in tpBatch.pool)
    /\ c.at \in TpEarly => ~TpRan(c)
    /\ ~TpRan(c) => c.wants = {}
    /\ c.at \in {"queued", "execute"} => c.allowed = c.input
    /\ c.at = "post" \/ c.status = "success" => TpRan(c)
    /\ TpRan(c) => c.ran = c.allowed
    /\ c.late => ~Asked(i).cancels
    /\ "hook" \in c.wants => c.at = "ended"
    /\ ~Compat => /\ c.at = "failing" => TpRaising(i)
                  /\ TpRan(c) => \/ "tool" \in c.wants <=> Asked(i).notes
                                 \/ c.status = "cancelled" /\ TpRaising(i)

\* A call that has begun its work has waited for the calls before it that share a lane with it.
TpBegun(c) == c.at \in {"execute", "post", "failing"} \/ TpRan(c)
TpWaited == ~Compat => \A j \in TpCalls : TpBegun(tpCall[j]) => \A i \in EarlierThan(j) : TpOver(tpCall[i])

\* A path was last touched by the last call that worked on it, and last observed by the last success
\* whose updates are applied.
TpTouched(p) ==
    \/ tpTouched[p] = "none" /\ \A i \in TpCalls : p \in Asked(i).paths => ~TpRan(tpCall[i])
    \/ \E i \in TpCalls : /\ p \in Asked(i).paths /\ TpRan(tpCall[i]) /\ tpTouched[p] = ObservedBy(i)
                          /\ \A j \in TpCalls : j > i /\ p \in Asked(j).paths => ~TpRan(tpCall[j])
TpObserved(i) == i <= tpApplied /\ tpCall[i].status = "success"
TpSighted(p) ==
    \/ tpSeen[p] = "none" /\ \A i \in TpCalls : p \in Asked(i).paths => ~TpObserved(i)
    \/ \E i \in TpCalls : /\ p \in Asked(i).paths /\ TpObserved(i) /\ tpSeen[p] = ObservedBy(i)
                          /\ \A j \in TpCalls : j > i /\ p \in Asked(j).paths => ~TpObserved(j)
TpLastTouches == ~Compat => \A p \in TpPaths : TpTouched(p)
TpLastSights == \A p \in TpPaths : TpSighted(p)

TpNotified ==
    ~Compat /\ tpPhase # "broken" =>
        \A i \in TpCalls : tpHeard[i] = (IF "hook" \in tpCall[i].wants THEN 1 ELSE 0)
                                        + (IF i <= tpApplied THEN ToldAgain(i) ELSE 0)

\* Nothing is applied before every call has ended.
TpAppliedLast ==
    /\ tpApplied > 0 \/ tpPhase = "closed" \/ tpPool # tpBatch.pool => AllEnded
    /\ tpPhase = "closed" /\ ~Compat => tpApplied = Len(tpBatch.calls)

TpCallsOk == \A i \in TpCalls : TpCallOk(i, tpCall[i])

TpInd == TpTyped /\ TpCallsOk /\ TpWaited /\ TpLastTouches /\ TpLastSights /\ TpNotified /\ TpAppliedLast

----
\* A step of calls none of which has ended before it.
TpMoves(new) ==
    /\ tpCall' = new /\ new \in [TpCalls -> TpCallStates]
    /\ UNCHANGED <<tpBatch, tpPool, tpSeen, tpApplied>>
    /\ tpPhase # "closed" /\ tpPhase' \in {tpPhase, "broken"}
    /\ ~AllEnded
    /\ \A i \in TpCalls :
          /\ TpCallOk(i, new[i])
          /\ ~Compat /\ TpOver(tpCall[i]) => new[i] = tpCall[i]
          /\ ~Compat /\ TpBegun(new[i]) => TpBegun(tpCall[i]) \/ \A j \in EarlierThan(i) : TpOver(tpCall[j])

LEMMA TpRange == TpTyped => /\ Len(tpBatch.calls) \in Nat /\ TpCalls \subseteq Nat \ {0}
                            /\ \A i \in TpCalls : EarlierThan(i) \subseteq TpCalls /\ \A j \in EarlierThan(i) : j < i
<1> SUFFICES ASSUME TpTyped
             PROVE  /\ Len(tpBatch.calls) \in Nat /\ TpCalls \subseteq Nat \ {0}
                    /\ \A i \in TpCalls : EarlierThan(i) \subseteq TpCalls /\ \A j \in EarlierThan(i) : j < i
  OBVIOUS
<1>1. Len(tpBatch.calls) \in Nat BY TpAssumption DEF TpTyped
<1>2. TpCalls \subseteq Nat \ {0} BY <1>1 DEF TpCalls
<1>3. \A i \in TpCalls : \A j \in EarlierThan(i) : j \in TpCalls /\ j < i
  BY <1>1, <1>2 DEF TpCalls, EarlierThan
<1> QED BY <1>1, <1>2, <1>3

LEMMA TpMoved ==
    ASSUME NEW new, TpInd, TpMoves(new)
    PROVE  TpCallsOk' /\ TpWaited' /\ TpLastSights' /\ TpAppliedLast' /\ tpApplied = 0
<1>a. TpTyped /\ TpCallsOk /\ TpWaited /\ TpLastSights /\ TpAppliedLast BY DEF TpInd
<1>b. /\ tpCall' = new /\ new \in [TpCalls -> TpCallStates]
      /\ tpBatch' = tpBatch /\ tpPool' = tpPool /\ tpSeen' = tpSeen /\ tpApplied' = tpApplied
      /\ tpPhase # "closed" /\ tpPhase' \in {tpPhase, "broken"} /\ ~AllEnded
  BY DEF TpMoves
<1>c. \A i \in TpCalls :
          /\ TpCallOk(i, new[i])
          /\ ~Compat /\ TpOver(tpCall[i]) => new[i] = tpCall[i]
          /\ ~Compat /\ TpBegun(new[i]) => TpBegun(tpCall[i]) \/ \A j \in EarlierThan(i) : TpOver(tpCall[j])
  BY DEF TpMoves
<1>d. /\ TpCalls' = TpCalls /\ TpPaths' = TpPaths /\ (Compat' <=> Compat)
      /\ \A i : Asked(i)' = Asked(i) /\ EarlierThan(i)' = EarlierThan(i) /\ ObservedBy(i)' = ObservedBy(i)
  BY <1>b DEF TpCalls, TpPaths, Compat, Asked, EarlierThan, Conflicts, Exclusive, ObservedBy
<1>e. Len(tpBatch.calls) \in Nat /\ TpCalls \subseteq Nat \ {0} /\ \A i \in TpCalls : EarlierThan(i) \subseteq TpCalls
  BY <1>a, TpRange
<1>f. tpApplied = 0 /\ tpPool = tpBatch.pool
  <2>1. tpApplied \in Nat BY <1>a, <1>e DEF TpTyped
  <2> QED BY <1>a, <1>b, <2>1 DEF TpAppliedLast
<1>1. TpCallsOk'
  BY <1>b, <1>c, <1>d DEF TpCallsOk, TpCallOk, TpRan, TpRaising, TpEarly
<1>2. TpWaited'
  <2> SUFFICES ASSUME ~Compat, NEW j \in TpCalls, TpBegun(new[j]), NEW i \in EarlierThan(j) PROVE TpOver(new[i])
    BY <1>b, <1>d DEF TpWaited, TpBegun, TpOver, TpRan
  <2>1. i \in TpCalls BY <1>e
  <2>2. TpOver(tpCall[i]) BY <1>a, <1>c DEF TpWaited
  <2> QED BY <1>c, <2>1, <2>2
<1>3. TpLastSights'
  <2>1. \A i \in TpCalls : ~TpObserved(i) /\ ~TpObserved(i)' BY <1>b, <1>e, <1>f DEF TpObserved
  <2>2. \A p \in TpPaths : tpSeen[p] = "none" BY <2>1, <1>a DEF TpLastSights, TpSighted
  <2> QED BY <2>1, <2>2, <1>b, <1>d DEF TpLastSights, TpSighted
<1>4. TpAppliedLast' BY <1>b, <1>f, <1>d, <1>e DEF TpAppliedLast
<1> QED BY <1>1, <1>2, <1>3, <1>4, <1>f

LEMMA TpTouchesKept ==
    ASSUME NEW new, TpInd, TpMoves(new), tpTouched' = tpTouched,
           ~Compat => \A i \in TpCalls : TpRan(new[i]) <=> TpRan(tpCall[i])
    PROVE  TpLastTouches'
<1>a. TpLastTouches BY DEF TpInd
<1>b. tpCall' = new /\ tpBatch' = tpBatch BY DEF TpMoves
<1>d. /\ TpCalls' = TpCalls /\ TpPaths' = TpPaths /\ (Compat' <=> Compat)
      /\ \A i : Asked(i)' = Asked(i) /\ ObservedBy(i)' = ObservedBy(i)
  BY <1>b DEF TpCalls, TpPaths, Compat, Asked, ObservedBy
<1>e. ~Compat => \A i \in TpCalls : TpRan(tpCall[i])' <=> TpRan(tpCall[i]) BY <1>b DEF TpRan
<1> SUFFICES ASSUME ~Compat, NEW p \in TpPaths PROVE TpTouched(p)' BY <1>d DEF TpLastTouches
<1>1. TpTouched(p) BY <1>a DEF TpLastTouches
<1> QED BY <1>1, <1>d, <1>e DEF TpTouched

LEMMA TpHeardKept ==
    ASSUME NEW new, TpInd, TpMoves(new), tpHeard' = tpHeard,
           ~Compat => \A i \in TpCalls : "hook" \in new[i].wants <=> "hook" \in tpCall[i].wants
    PROVE  TpNotified'
<1>a. TpNotified /\ TpTyped BY DEF TpInd
<1>b. /\ tpCall' = new /\ tpBatch' = tpBatch /\ tpApplied' = tpApplied /\ tpPhase' \in {tpPhase, "broken"}
  BY DEF TpMoves
<1>d. TpCalls' = TpCalls /\ (Compat' <=> Compat) BY <1>b DEF TpCalls, Compat
<1>e. tpApplied = 0 BY TpMoved
<1>f. \A i \in TpCalls : ~(i <= 0) BY <1>a, TpRange
<1> SUFFICES ASSUME ~Compat, tpPhase' # "broken", NEW i \in TpCalls
             PROVE  tpHeard'[i] = (IF "hook" \in tpCall'[i].wants THEN 1 ELSE 0) + (IF i <= tpApplied' THEN ToldAgain(i)' ELSE 0)
  BY <1>d DEF TpNotified
<1>1. tpHeard[i] = (IF "hook" \in tpCall[i].wants THEN 1 ELSE 0) + (IF i <= tpApplied THEN ToldAgain(i) ELSE 0)
  BY <1>a, <1>b DEF TpNotified
<1> QED BY <1>1, <1>b, <1>e, <1>f

----
\* One call goes on, and it has not ended before.
TpGoesOn(i, n) ==
    /\ i \in TpCalls /\ n \in TpCallStates /\ TpCallOk(i, n) /\ ~TpOver(tpCall[i])
    /\ tpCall' = [tpCall EXCEPT ![i] = n]
    /\ UNCHANGED <<tpBatch, tpPool, tpSeen, tpStopped, tpApplied>>
    /\ tpPhase' \in {tpPhase, "broken"}
    /\ ~Compat /\ TpBegun(n) => TpBegun(tpCall[i]) \/ \A j \in EarlierThan(i) : TpOver(tpCall[j])

LEMMA TpGoes ==
    ASSUME NEW i, NEW n, TpInd, TpGoesOn(i, n)
    PROVE  /\ TpMoves([tpCall EXCEPT ![i] = n])
           /\ TpTyped' <=> /\ tpTouched' \in [TpPaths -> {"none", "read", "write"}]
                           /\ tpHeard' \in [TpCalls -> Nat]
<1>a. TpTyped /\ TpCallsOk /\ TpAppliedLast BY DEF TpInd
<1>b. /\ i \in TpCalls /\ n \in TpCallStates /\ TpCallOk(i, n) /\ ~TpOver(tpCall[i])
      /\ tpCall' = [tpCall EXCEPT ![i] = n]
      /\ tpBatch' = tpBatch /\ tpPool' = tpPool /\ tpSeen' = tpSeen /\ tpStopped' = tpStopped /\ tpApplied' = tpApplied
      /\ tpPhase' \in {tpPhase, "broken"}
      /\ ~Compat /\ TpBegun(n) => TpBegun(tpCall[i]) \/ \A j \in EarlierThan(i) : TpOver(tpCall[j])
  BY DEF TpGoesOn
<1> DEFINE new == [tpCall EXCEPT ![i] = n]
<1>c. tpCall \in [TpCalls -> TpCallStates] BY <1>a DEF TpTyped
<1>d. new \in [TpCalls -> TpCallStates] /\ new[i] = n /\ \A j \in TpCalls : j # i => new[j] = tpCall[j]
  BY <1>b, <1>c
<1>e. ~AllEnded BY <1>b DEF AllEnded, TpOver
<1>f. tpPhase # "closed" BY <1>a, <1>e DEF TpAppliedLast
<1>g. \A j \in TpCalls : TpCallOk(j, tpCall[j]) BY <1>a DEF TpCallsOk
<1>h. \A j \in TpCalls : TpCallOk(j, new[j]) BY <1>b, <1>d, <1>g
<1>i. \A j \in TpCalls : ~Compat /\ TpOver(tpCall[j]) => new[j] = tpCall[j] BY <1>b, <1>d
<1>j. \A j \in TpCalls : ~Compat /\ TpBegun(new[j]) => TpBegun(tpCall[j]) \/ \A k \in EarlierThan(j) : TpOver(tpCall[k])
  BY <1>b, <1>d
<1>1. TpMoves(new)
  <2> HIDE DEF new
  <2>1. tpCall' = new BY <1>b DEF new
  <2> QED BY <2>1, <1>b, <1>d, <1>e, <1>f, <1>h, <1>i, <1>j DEF TpMoves
<1>2. TpCalls' = TpCalls /\ TpPaths' = TpPaths BY <1>b DEF TpCalls, TpPaths
<1>3. tpCall' \in [TpCalls -> TpCallStates] BY <1>b, <1>d
<1> HIDE DEF new
<1>4. TpTyped' <=> /\ tpTouched' \in [TpPaths -> {"none", "read", "write"}]
                   /\ tpHeard' \in [TpCalls -> Nat]
  BY <1>a, <1>b, <1>2, <1>3 DEF TpTyped
<1> QED BY <1>1, <1>4 DEF new

\* The step neither works on a path nor tells the host anything.
LEMMA TpQuiet ==
    ASSUME NEW i, NEW n, TpInd, TpGoesOn(i, n), UNCHANGED <<tpTouched, tpHeard>>,
           TpRan(n) <=> TpRan(tpCall[i]), "hook" \in n.wants <=> "hook" \in tpCall[i].wants
    PROVE  TpInd'
<1>a. TpTyped BY DEF TpInd
<1>b. i \in TpCalls /\ tpCall \in [TpCalls -> TpCallStates] BY <1>a DEF TpGoesOn, TpTyped
<1>1. PICK new : new = [tpCall EXCEPT ![i] = n] OBVIOUS
<1>2. TpMoves(new) BY <1>1, TpGoes
<1>3. new[i] = n /\ \A j \in TpCalls : j # i => new[j] = tpCall[j] BY <1>1, <1>b
<1>4. TpCallsOk' /\ TpWaited' /\ TpLastSights' /\ TpAppliedLast' BY <1>2, TpMoved
<1>5. \A j \in TpCalls : TpRan(new[j]) <=> TpRan(tpCall[j]) BY <1>3
<1>6. TpLastTouches' BY <1>2, <1>5, TpTouchesKept
<1>7. \A j \in TpCalls : "hook" \in new[j].wants <=> "hook" \in tpCall[j].wants BY <1>3
<1>8. TpNotified' BY <1>2, <1>7, TpHeardKept
<1>9. TpTyped' BY <1>a, TpGoes DEF TpTyped
<1> QED BY <1>4, <1>6, <1>8, <1>9 DEF TpInd

\* What the actions need of the call they go on with.
LEMMA TpCallNow ==
    ASSUME NEW i \in TpCalls, TpInd
    PROVE  /\ tpCall[i] \in TpCallStates /\ TpCallOk(i, tpCall[i])
           /\ tpCall \in [TpCalls -> TpCallStates] /\ DOMAIN tpCall = TpCalls
           /\ ~TpOver(tpCall[i]) => tpPool = tpBatch.pool
BY DEF TpInd, TpTyped, TpCallsOk, TpAppliedLast, AllEnded, TpOver

LEMMA TpObserves == ASSUME NEW i \in TpCalls, TpInd, ObserveCall(i) PROVE TpInd'
<1>1. PICK c : c = tpCall[i] OBVIOUS
<1>2. c \in TpCallStates /\ TpCallOk(i, c) /\ tpCall \in [TpCalls -> TpCallStates]
  BY <1>1, TpCallNow
<1>3. c.at = "unseen" /\ ~TpOver(c) /\ UNCHANGED TpRest BY <1>1 DEF ObserveCall, TpOver
<1>4. tpPool = tpBatch.pool BY <1>1, <1>3, TpCallNow
<1>5. CASE NameVerdict(i) # "none"
  <2>1. PICK v : v = NameVerdict(i) OBVIOUS
  <2>2. v \in {"error", "denied"} BY <2>1, <1>5 DEF NameVerdict
  <2>3. PICK n : n = [c EXCEPT !.at = "ended", !.status = v] OBVIOUS
  <2>4. tpCall' = [tpCall EXCEPT ![i] = n] BY <1>1, <1>2, <1>5, <2>1, <2>3 DEF ObserveCall, Ended
  <2>5. n \in TpCallStates BY <1>2, <2>2, <2>3 DEF TpCallStates, TpStages, TpStatuses
  <2>6. /\ n.at = "ended" /\ n.status = v /\ n.ran = c.ran /\ n.wants = c.wants /\ n.cancel = c.cancel
        /\ n.late = c.late /\ n.allowed = c.allowed /\ n.input = c.input
    BY <1>2, <2>3 DEF TpCallStates
  <2>7. TpCallOk(i, n) /\ ~TpRan(n) /\ ~TpRan(c) BY <1>2, <1>3, <2>2, <2>6 DEF TpCallOk, TpEarly, TpRan
  <2>8. ~TpBegun(n) BY <2>6, <2>7 DEF TpBegun
  <2>9. TpGoesOn(i, n) BY <1>1, <1>3, <2>4, <2>5, <2>7, <2>8 DEF TpGoesOn, TpRest
  <2> QED BY <1>1, <1>3, <2>6, <2>7, <2>9, TpQuiet DEF TpRest
<1>6. CASE NameVerdict(i) = "none"
  <2>3. PICK n : n = [c EXCEPT !.at = "validate"] OBVIOUS
  <2>4. tpCall' = [tpCall EXCEPT ![i] = n] BY <1>1, <1>2, <1>6, <2>3 DEF ObserveCall, Put
  <2>5. n \in TpCallStates BY <1>2, <2>3 DEF TpCallStates, TpStages
  <2>6. /\ n.at = "validate" /\ n.status = c.status /\ n.ran = c.ran /\ n.wants = c.wants /\ n.cancel = c.cancel
        /\ n.late = c.late /\ n.allowed = c.allowed /\ n.input = c.input
    BY <1>2, <2>3 DEF TpCallStates
  <2>7. Asked(i).tool \in tpBatch.registry /\ (tpBatch.pool = {} \/ Asked(i).tool \in tpBatch.pool)
    BY <1>4, <1>6 DEF NameVerdict, InPool
  <2>8. TpCallOk(i, n) /\ ~TpRan(n) /\ ~TpRan(c) BY <1>2, <1>3, <2>6, <2>7 DEF TpCallOk, TpEarly, TpRan
  <2>9. ~TpBegun(n) BY <2>6, <2>8 DEF TpBegun
  <2>10. TpGoesOn(i, n) BY <1>1, <1>3, <2>4, <2>5, <2>8, <2>9 DEF TpGoesOn, TpRest
  <2> QED BY <1>1, <1>3, <2>6, <2>8, <2>10, TpQuiet DEF TpRest
<1> QED BY <1>5, <1>6

TpOthers == <<tpBatch, tpPool, tpSeen, tpTouched, tpHeard, tpStopped, tpApplied>>

\* A call that is being resolved goes on to a later stage, is refused, or is given up.
TpResolved(n, i) ==
    \/ n.at = "ended" /\ n.status \in {"error", "denied", "cancelled"}
    \/ /\ n.at \in {"hook", "check", "authorize", "queued", "execute"} /\ n.status = "none"
       /\ n.at \in {"queued", "execute"} => n.allowed = n.input
    \/ n.at = "failing" /\ Compat /\ n.status = "none"
    \/ n.at = "lost" /\ n.status = "none"

LEMMA TpResolves ==
    ASSUME NEW i \in TpCalls, NEW n \in TpCallStates, NEW c, TpInd, c = tpCall[i],
           c.at \in {"validate", "hook", "check", "authorize", "queued"},
           tpCall' = [tpCall EXCEPT ![i] = n], n.ran = c.ran, n.wants = c.wants, ~n.cancel,
           n.late => ~Asked(i).cancels, TpResolved(n, i),
           ~Compat /\ n.at = "execute" => \A j \in EarlierThan(i) : TpOver(tpCall[j]),
           UNCHANGED TpOthers, tpPhase' \in {tpPhase, "broken"}
    PROVE  TpInd'
<1>1. c \in TpCallStates /\ TpCallOk(i, c) BY TpCallNow
<1>2. ~TpOver(c) /\ ~TpRan(c) /\ ~TpRan(n) /\ c.wants = {} /\ n.wants = {} BY <1>1 DEF TpOver, TpRan, TpCallOk, TpEarly
<1>3. Asked(i).tool \in tpBatch.registry /\ (tpBatch.pool = {} \/ Asked(i).tool \in tpBatch.pool)
  BY <1>1 DEF TpCallOk
<1>4. TpCallOk(i, n) BY <1>2, <1>3 DEF TpCallOk, TpResolved, TpRan, TpEarly
<1>5. ~Compat /\ TpBegun(n) => \A j \in EarlierThan(i) : TpOver(tpCall[j]) BY <1>2 DEF TpBegun, TpResolved
<1>6. TpGoesOn(i, n) BY <1>2, <1>4, <1>5 DEF TpGoesOn, TpOthers
<1> QED BY <1>2, <1>6, TpQuiet DEF TpOthers

LEMMA TpGivesUp ==
    ASSUME NEW i \in TpCalls, TpInd, tpCall[i].at \in {"validate", "check"}, ~tpCall[i].cancel, GivenUp(i)
    PROVE  TpInd'
<1>1. PICK c : c = tpCall[i] OBVIOUS
<1>2. c \in TpCallStates /\ TpCallOk(i, c) /\ tpCall \in [TpCalls -> TpCallStates] BY <1>1, TpCallNow
<1>3. c.status = "none" /\ (c.late => ~Asked(i).cancels) /\ ~c.cancel BY <1>1, <1>2 DEF TpCallOk
<1>4. PICK at : at = (IF Compat THEN "failing" ELSE "lost") OBVIOUS
<1>5. PICK n : n = [c EXCEPT !.at = at] OBVIOUS
<1>6. tpCall' = [tpCall EXCEPT ![i] = n] BY <1>1, <1>2, <1>4, <1>5 DEF GivenUp, Put
<1>7. n \in TpCallStates BY <1>2, <1>4, <1>5 DEF TpCallStates, TpStages
<1>8. /\ n.at = at /\ n.status = c.status /\ n.ran = c.ran /\ n.wants = c.wants /\ n.cancel = c.cancel /\ n.late = c.late
  BY <1>2, <1>5 DEF TpCallStates
<1>9. UNCHANGED TpOthers /\ tpPhase' \in {tpPhase, "broken"} BY DEF GivenUp, TpOthers, TpRest
<1>10. TpResolved(n, i) BY <1>3, <1>4, <1>8 DEF TpResolved
<1> QED BY <1>1, <1>3, <1>4, <1>6, <1>7, <1>8, <1>9, <1>10, TpResolves

LEMMA TpValidates == ASSUME NEW i \in TpCalls, TpInd, Validate(i) PROVE TpInd'
<1>1. PICK c : c = tpCall[i] OBVIOUS
<1>2. c \in TpCallStates /\ TpCallOk(i, c) /\ tpCall \in [TpCalls -> TpCallStates] BY <1>1, TpCallNow
<1>3. c.at = "validate" /\ ~c.cancel BY <1>1 DEF Validate
<1>4. c.status = "none" /\ (c.late => ~Asked(i).cancels) BY <1>2, <1>3 DEF TpCallOk
<1>5. CASE Asked(i).validator = "raises"
  <2>1. GivenUp(i) BY <1>5 DEF Validate
  <2> QED BY <2>1, <1>1, <1>3, TpGivesUp
<1>6. CASE Asked(i).validator # "raises"
  <2>1. PICK at, status, input : /\ at = (IF Asked(i).validator = "rejects" THEN "ended" ELSE "hook")
                                 /\ status = (IF Asked(i).validator = "rejects" THEN "error" ELSE c.status)
                                 /\ input = (IF Asked(i).validator = "rewrites" THEN "validator" ELSE c.input)
    OBVIOUS
  <2>2. PICK n : n = [c EXCEPT !.at = at, !.status = status, !.input = input] OBVIOUS
  <2>3. tpCall' = [tpCall EXCEPT ![i] = n]
    <3>1. CASE Asked(i).validator = "rejects"
      <4>1. n = [c EXCEPT !.at = "ended", !.status = "error"] BY <1>2, <2>1, <2>2, <3>1 DEF TpCallStates
      <4>2. Ended(i, "error") BY <1>6, <3>1 DEF Validate
      <4> QED BY <4>1, <4>2, <1>1, <1>2 DEF Ended
    <3>2. CASE Asked(i).validator = "rewrites"
      <4>1. n = [c EXCEPT !.at = "hook", !.input = "validator"] BY <1>2, <2>1, <2>2, <3>2 DEF TpCallStates
      <4>2. tpCall' = [tpCall EXCEPT ![i].at = "hook", ![i].input = "validator"] BY <1>6, <3>2 DEF Validate
      <4> QED BY <4>1, <4>2, <1>1, <1>2
    <3>3. CASE Asked(i).validator \notin {"rejects", "rewrites"}
      <4>1. n = [c EXCEPT !.at = "hook"] BY <1>2, <2>1, <2>2, <3>3 DEF TpCallStates
      <4>2. Put(i, "hook") BY <1>6, <3>3 DEF Validate
      <4> QED BY <4>1, <4>2, <1>1, <1>2 DEF Put
    <3> QED BY <3>1, <3>2, <3>3
  <2>0. at \in TpStages /\ status \in TpStatuses /\ input \in TpWriters
    BY <1>2, <2>1 DEF TpCallStates, TpStages, TpStatuses, TpWriters
  <2>4. n \in TpCallStates BY <1>2, <2>0, <2>2 DEF TpCallStates
  <2>5. /\ n.at = at /\ n.status = status /\ n.ran = c.ran /\ n.wants = c.wants /\ n.cancel = c.cancel /\ n.late = c.late
    BY <1>2, <2>2 DEF TpCallStates
  <2>6. UNCHANGED TpOthers /\ tpPhase' = tpPhase BY <1>6 DEF Validate, TpOthers, TpRest
  <2>7. TpResolved(n, i) BY <1>4, <2>1, <2>5 DEF TpResolved
  <2>8. n.at # "execute" BY <2>1, <2>5
  <2> QED BY <1>1, <1>3, <1>4, <2>3, <2>4, <2>5, <2>6, <2>7, <2>8, TpResolves
<1> QED BY <1>5, <1>6

LEMMA TpHooks == ASSUME NEW i \in TpCalls, TpInd, PreToolUse(i) PROVE TpInd'
<1>1. PICK c : c = tpCall[i] OBVIOUS
<1>2. c \in TpCallStates /\ TpCallOk(i, c) /\ tpCall \in [TpCalls -> TpCallStates] BY <1>1, TpCallNow
<1>3. c.at = "hook" /\ ~c.cancel BY <1>1 DEF PreToolUse
<1>4. c.status = "none" /\ (c.late => ~Asked(i).cancels) BY <1>2, <1>3 DEF TpCallOk
<1>5. PICK n : /\ n \in {[c EXCEPT !.at = "ended", !.status = "denied"], [c EXCEPT !.at = "check", !.input = "hook"],
                         [c EXCEPT !.at = "check"]}
               /\ tpCall' = [tpCall EXCEPT ![i] = n]
  <2>1. CASE Asked(i).pre = "veto" BY <1>1, <1>2, <2>1 DEF PreToolUse, Ended
  <2>2. CASE Asked(i).pre = "rewrites" BY <1>1, <1>2, <2>2 DEF PreToolUse
  <2>3. CASE Asked(i).pre \notin {"veto", "rewrites"} BY <1>1, <1>2, <2>3 DEF PreToolUse
  <2> QED BY <2>1, <2>2, <2>3
<1>e. "ended" \in TpStages /\ "check" \in TpStages /\ "denied" \in TpStatuses /\ "hook" \in TpWriters
  BY DEF TpStages, TpStatuses, TpWriters
<1>f. \/ n = [c EXCEPT !.at = "ended", !.status = "denied"] \/ n = [c EXCEPT !.at = "check", !.input = "hook"]
      \/ n = [c EXCEPT !.at = "check"]
  BY <1>5
<1>6. n \in TpCallStates
  <2>1. CASE n = [c EXCEPT !.at = "ended", !.status = "denied"] BY <1>2, <1>e, <2>1 DEF TpCallStates
  <2>2. CASE n = [c EXCEPT !.at = "check", !.input = "hook"] BY <1>2, <1>e, <2>2 DEF TpCallStates
  <2>3. CASE n = [c EXCEPT !.at = "check"] BY <1>2, <1>e, <2>3 DEF TpCallStates
  <2> QED BY <1>f, <2>1, <2>2, <2>3
<1>7. /\ \/ n.at = "ended" /\ n.status = "denied"
         \/ n.at = "check" /\ n.status = c.status
      /\ n.ran = c.ran /\ n.wants = c.wants /\ n.cancel = c.cancel /\ n.late = c.late
  <2>1. CASE n = [c EXCEPT !.at = "ended", !.status = "denied"] BY <1>2, <2>1 DEF TpCallStates
  <2>2. CASE n = [c EXCEPT !.at = "check", !.input = "hook"] BY <1>2, <2>2 DEF TpCallStates
  <2>3. CASE n = [c EXCEPT !.at = "check"] BY <1>2, <2>3 DEF TpCallStates
  <2> QED BY <1>f, <2>1, <2>2, <2>3
<1>8. UNCHANGED TpOthers /\ tpPhase' = tpPhase BY DEF PreToolUse, TpOthers, TpRest
<1>9. TpResolved(n, i) /\ n.at # "execute" BY <1>4, <1>7 DEF TpResolved
<1> QED BY <1>1, <1>3, <1>4, <1>5, <1>6, <1>7, <1>8, <1>9, TpResolves

LEMMA TpChecks == ASSUME NEW i \in TpCalls, TpInd, CheckPermissions(i) PROVE TpInd'
<1>1. PICK c : c = tpCall[i] OBVIOUS
<1>2. c \in TpCallStates /\ TpCallOk(i, c) /\ tpCall \in [TpCalls -> TpCallStates] BY <1>1, TpCallNow
<1>3. c.at = "check" /\ ~c.cancel BY <1>1 DEF CheckPermissions
<1>4. c.status = "none" /\ (c.late => ~Asked(i).cancels) BY <1>2, <1>3 DEF TpCallOk
<1>5. CASE Asked(i).check = "raises"
  <2>1. GivenUp(i) BY <1>5 DEF CheckPermissions
  <2> QED BY <2>1, <1>1, <1>3, TpGivesUp
<1>6. CASE Asked(i).check # "raises"
  <2>1. PICK input : input = (IF Asked(i).check = "rewrites" THEN "check" ELSE c.input) OBVIOUS
  <2>2. PICK n : n = [c EXCEPT !.at = "authorize", !.input = input] OBVIOUS
  <2>3. tpCall' = [tpCall EXCEPT ![i] = n] BY <1>1, <1>2, <1>6, <2>1, <2>2 DEF CheckPermissions
  <2>4. n \in TpCallStates BY <1>2, <2>1, <2>2 DEF TpCallStates, TpStages, TpWriters
  <2>5. /\ n.at = "authorize" /\ n.status = c.status
        /\ n.ran = c.ran /\ n.wants = c.wants /\ n.cancel = c.cancel /\ n.late = c.late
    BY <1>2, <2>2 DEF TpCallStates
  <2>6. UNCHANGED TpOthers /\ tpPhase' = tpPhase BY <1>6 DEF CheckPermissions, TpOthers, TpRest
  <2>7. TpResolved(n, i) /\ n.at # "execute" BY <1>4, <2>5 DEF TpResolved
  <2> QED BY <1>1, <1>3, <1>4, <2>3, <2>4, <2>5, <2>6, <2>7, TpResolves
<1> QED BY <1>5, <1>6

LEMMA TpAuthorizes == ASSUME NEW i \in TpCalls, TpInd, Authorize(i) PROVE TpInd'
<1>1. PICK c : c = tpCall[i] OBVIOUS
<1>2. c \in TpCallStates /\ TpCallOk(i, c) /\ tpCall \in [TpCalls -> TpCallStates] BY <1>1, TpCallNow
<1>3. c.at = "authorize" /\ ~c.cancel BY <1>1 DEF Authorize
<1>4. c.status = "none" /\ (c.late => ~Asked(i).cancels) BY <1>2, <1>3 DEF TpCallOk
<1>5. UNCHANGED TpOthers /\ tpPhase' = tpPhase BY DEF Authorize, TpOthers, TpRest
<1>6. ASSUME NEW status \in {"denied", "cancelled"}, Ended(i, status) PROVE TpInd'
  <2>2. PICK n : n = [c EXCEPT !.at = "ended", !.status = status] OBVIOUS
  <2>3. tpCall' = [tpCall EXCEPT ![i] = n] BY <1>1, <1>2, <1>6, <2>2 DEF Ended
  <2>4. n \in TpCallStates BY <1>2, <1>6, <2>2 DEF TpCallStates, TpStages, TpStatuses
  <2>5. /\ n.at = "ended" /\ n.status = status
        /\ n.ran = c.ran /\ n.wants = c.wants /\ n.cancel = c.cancel /\ n.late = c.late
    BY <1>2, <2>2 DEF TpCallStates
  <2>7. TpResolved(n, i) /\ n.at # "execute" BY <1>6, <2>5 DEF TpResolved
  <2> QED BY <1>1, <1>3, <1>4, <1>5, <2>3, <2>4, <2>5, <2>7, TpResolves
<1>7. ASSUME NEW input \in {tpCall[i].input, "host"},
             tpCall' = [tpCall EXCEPT ![i].at = IF Compat THEN "execute" ELSE "queued",
                                      ![i].input = input, ![i].allowed = input]
      PROVE  TpInd'
  <2>1. PICK at : at = (IF Compat THEN "execute" ELSE "queued") OBVIOUS
  <2>2. PICK n : n = [c EXCEPT !.at = at, !.input = input, !.allowed = input] OBVIOUS
  <2>3. tpCall' = [tpCall EXCEPT ![i] = n] BY <1>1, <1>2, <1>7, <2>1, <2>2
  <2>9. input \in TpWriters BY <1>1, <1>2, <1>7 DEF TpCallStates, TpWriters
  <2>4. n \in TpCallStates BY <1>2, <2>9, <2>1, <2>2 DEF TpCallStates, TpStages
  <2>5. /\ n.at = at /\ n.status = c.status /\ n.input = input /\ n.allowed = input
        /\ n.ran = c.ran /\ n.wants = c.wants /\ n.cancel = c.cancel /\ n.late = c.late
    BY <1>2, <2>2 DEF TpCallStates
  <2>7. TpResolved(n, i) /\ (n.at = "execute" => Compat) BY <1>4, <2>1, <2>5 DEF TpResolved
  <2> QED BY <1>1, <1>3, <1>4, <1>5, <2>3, <2>4, <2>5, <2>7, TpResolves
<1>8. PICK status : status = (IF Compat THEN "denied" ELSE "cancelled") OBVIOUS
<1>9. \/ Ended(i, "denied") \/ Ended(i, status)
      \/ \E input \in {tpCall[i].input, "host"} :
            tpCall' = [tpCall EXCEPT ![i].at = IF Compat THEN "execute" ELSE "queued",
                                     ![i].input = input, ![i].allowed = input]
  BY <1>8 DEF Authorize
<1>10. CASE Ended(i, "denied") BY <1>6, <1>10
<1>11. CASE Ended(i, status)
  <2>1. status \in {"denied", "cancelled"} BY <1>8
  <2> QED BY <1>6, <1>11, <2>1
<1> QED BY <1>7, <1>9, <1>10, <1>11

LEMMA TpStarts == ASSUME NEW i \in TpCalls, TpInd, Start(i) PROVE TpInd'
<1>1. PICK c : c = tpCall[i] OBVIOUS
<1>2. c \in TpCallStates /\ TpCallOk(i, c) /\ tpCall \in [TpCalls -> TpCallStates] BY <1>1, TpCallNow
<1>3. c.at = "queued" /\ ~c.cancel /\ \A j \in EarlierThan(i) : TpOver(tpCall[j]) BY <1>1 DEF Start, TpOver
<1>4. c.status = "none" /\ (c.late => ~Asked(i).cancels) /\ c.allowed = c.input BY <1>2, <1>3 DEF TpCallOk
<1>5. UNCHANGED TpOthers /\ tpPhase' = tpPhase BY DEF Start, TpOthers, TpRest
<1>6. tpStopped \in BOOLEAN BY DEF TpInd, TpTyped
<1>7. CASE tpStopped /\ Asked(i).cancels
  <2>2. PICK n : n = [c EXCEPT !.at = "ended", !.status = "cancelled"] OBVIOUS
  <2>3. tpCall' = [tpCall EXCEPT ![i] = n] BY <1>1, <1>2, <1>7, <2>2 DEF Start, Ended
  <2>4. n \in TpCallStates BY <1>2, <2>2 DEF TpCallStates, TpStages, TpStatuses
  <2>5. /\ n.at = "ended" /\ n.status = "cancelled"
        /\ n.ran = c.ran /\ n.wants = c.wants /\ n.cancel = c.cancel /\ n.late = c.late
    BY <1>2, <2>2 DEF TpCallStates
  <2>7. TpResolved(n, i) BY <2>5 DEF TpResolved
  <2> QED BY <1>1, <1>3, <1>4, <1>5, <2>3, <2>4, <2>5, <2>7, TpResolves
<1>8. CASE ~(tpStopped /\ Asked(i).cancels)
  <2>2. PICK n : n = [c EXCEPT !.at = "execute", !.late = tpStopped] OBVIOUS
  <2>3. tpCall' = [tpCall EXCEPT ![i] = n] BY <1>1, <1>2, <1>8, <2>2 DEF Start
  <2>4. n \in TpCallStates BY <1>2, <1>6, <2>2 DEF TpCallStates, TpStages
  <2>5. /\ n.at = "execute" /\ n.status = c.status /\ n.allowed = c.allowed /\ n.input = c.input
        /\ n.ran = c.ran /\ n.wants = c.wants /\ n.cancel = c.cancel /\ n.late = tpStopped
    BY <1>2, <2>2 DEF TpCallStates
  <2>6. n.late => ~Asked(i).cancels BY <1>6, <1>8, <2>5
  <2>7. TpResolved(n, i) BY <1>4, <2>5 DEF TpResolved
  <2> QED BY <1>1, <1>3, <1>4, <1>5, <2>3, <2>4, <2>5, <2>6, <2>7, TpResolves
<1> QED BY <1>7, <1>8

LEMMA TpExecutes == ASSUME NEW i \in TpCalls, TpInd, Execute(i) PROVE TpInd'
<1>1. PICK c : c = tpCall[i] OBVIOUS
<1>2. c \in TpCallStates /\ TpCallOk(i, c) /\ tpCall \in [TpCalls -> TpCallStates] BY <1>1, TpCallNow
<1>3. c.at = "execute" /\ ~c.cancel BY <1>1 DEF Execute
<1>4. c.status = "none" /\ (c.late => ~Asked(i).cancels) /\ c.allowed = c.input /\ ~TpRan(c) /\ c.wants = {}
  BY <1>2, <1>3 DEF TpCallOk, TpEarly
<1>5. Asked(i).tool \in tpBatch.registry /\ (tpBatch.pool = {} \/ Asked(i).tool \in tpBatch.pool)
  BY <1>2, <1>3 DEF TpCallOk
<1>6. ~TpOver(c) /\ TpBegun(c) BY <1>3 DEF TpOver, TpBegun
<1>7. CASE Asked(i).missing
  <2>2. PICK n : n = [c EXCEPT !.at = "ended", !.status = "error"] OBVIOUS
  <2>3. tpCall' = [tpCall EXCEPT ![i] = n] BY <1>1, <1>2, <1>7, <2>2 DEF Execute, Ended
  <2>4. n \in TpCallStates BY <1>2, <2>2 DEF TpCallStates, TpStages, TpStatuses
  <2>5. /\ n.at = "ended" /\ n.status = "error" /\ n.ran = c.ran /\ n.wants = c.wants /\ n.cancel = c.cancel
        /\ n.late = c.late /\ n.allowed = c.allowed /\ n.input = c.input
    BY <1>2, <2>2 DEF TpCallStates
  <2>6. ~TpRan(n) BY <1>4, <2>5 DEF TpRan
  <2>7. TpCallOk(i, n) BY <1>3, <1>4, <2>5, <2>6 DEF TpCallOk, TpEarly
  <2>8. UNCHANGED TpRest BY <1>7 DEF Execute
  <2>9. TpGoesOn(i, n) BY <1>1, <1>6, <2>3, <2>4, <2>7, <2>8 DEF TpGoesOn, TpRest
  <2> QED BY <1>1, <1>4, <2>5, <2>6, <2>8, <2>9, TpQuiet DEF TpRest
<1>8. CASE ~Asked(i).missing
  <2>1. PICK at, wants : at = (IF Asked(i).ends = "raises" THEN "failing" ELSE "post") /\ wants = Said(i) OBVIOUS
  <2>2. PICK n : n = [c EXCEPT !.at = at, !.ran = c.input, !.wants = wants] OBVIOUS
  <2>3. tpCall' = [tpCall EXCEPT ![i] = n]
    <3>1. c.wants \cup Said(i) = wants BY <1>4, <2>1
    <3>2. tpCall' = [tpCall EXCEPT ![i].at = at, ![i].ran = c.input, ![i].wants = @ \cup Said(i)]
      BY <1>1, <1>8, <2>1 DEF Execute, ExecutedInput
    <3> QED BY <1>1, <1>2, <2>2, <3>1, <3>2
  <2>4. n \in TpCallStates
    <3>1. at \in TpStages /\ wants \in SUBSET {"tool", "refresh", "hook"} BY <2>1 DEF TpStages, Said
    <3>2. c.input \in TpWriters BY <1>2 DEF TpCallStates
    <3> QED BY <1>2, <2>2, <3>1, <3>2 DEF TpCallStates
  <2>5. /\ n.at = at /\ n.status = "none" /\ n.ran = c.input /\ n.wants = wants /\ ~n.cancel
        /\ n.late = c.late /\ n.allowed = c.input /\ n.input = c.input
    BY <1>2, <1>3, <1>4, <2>2 DEF TpCallStates
  <2>6. TpRan(n)
    <3>1. c.input \in TpWriters BY <1>2 DEF TpCallStates
    <3> QED BY <2>5, <3>1 DEF TpRan, TpWriters
  <2>7. "hook" \notin wants /\ ("tool" \in wants <=> Asked(i).notes) BY <2>1 DEF Said
  <2>8. at \in {"failing", "post"} /\ (at = "failing" => TpRaising(i)) BY <2>1 DEF TpRaising
  <2>9. TpCallOk(i, n)
    <3>1. n.at \in {"failing", "post"} /\ n.status = "none" /\ ~n.cancel /\ n.wants = wants /\ n.ran = n.allowed
      BY <2>5, <2>8
    <3>2. n.at \notin {"unseen", "ended", "lost", "queued", "execute"} /\ n.at \notin TpEarly /\ n.status # "success"
      BY <3>1 DEF TpEarly
    <3>3. n.at # "ended" /\ n.at \notin {"queued", "execute"} BY <3>2
    <3>4. n.late => ~Asked(i).cancels BY <1>4, <2>5
    <3>5. n.at = "failing" => TpRaising(i) BY <2>5, <2>8
    <3>6. "hook" \notin n.wants /\ ("tool" \in n.wants <=> Asked(i).notes) BY <2>7, <3>1
    <3> QED BY <1>5, <2>6, <3>1, <3>2, <3>3, <3>4, <3>5, <3>6 DEF TpCallOk
  <2>10. UNCHANGED <<tpBatch, tpPool, tpSeen, tpHeard, tpPhase, tpStopped, tpApplied>> BY <1>8 DEF Execute
  <2>11. TpGoesOn(i, n) BY <1>1, <1>6, <2>3, <2>4, <2>9, <2>10 DEF TpGoesOn
  <2>12. PICK new : new = [tpCall EXCEPT ![i] = n] OBVIOUS
  <2>13. TpMoves(new) BY <2>11, <2>12, TpGoes
  <2>14. new[i] = n /\ \A j \in TpCalls : j # i => new[j] = tpCall[j] BY <1>2, <2>12
  <2>15. TpCallsOk' /\ TpWaited' /\ TpLastSights' /\ TpAppliedLast' BY <2>13, TpMoved
  <2>16. TpNotified'
    <3>1. \A j \in TpCalls : "hook" \in new[j].wants <=> "hook" \in tpCall[j].wants
      BY <1>1, <1>4, <2>5, <2>7, <2>14
    <3> QED BY <2>10, <2>13, <3>1, TpHeardKept
  <2>17. PICK touched : touched = [p \in TpPaths |-> IF p \in Asked(i).paths THEN ObservedBy(i) ELSE tpTouched[p]]
    OBVIOUS
  <2>18. tpTouched' = touched BY <1>8, <2>17 DEF Execute
  <2>19. TpTyped /\ TpWaited /\ TpLastTouches BY DEF TpInd
  <2>20. TpTyped'
    <3>1. touched \in [TpPaths -> {"none", "read", "write"}] BY <2>17, <2>19 DEF TpTyped, ObservedBy
    <3> QED BY <2>10, <2>11, <2>18, <2>19, <3>1, TpGoes DEF TpTyped
  <2>21. TpLastTouches'
    <3>1. /\ TpCalls' = TpCalls /\ TpPaths' = TpPaths /\ (Compat' <=> Compat)
          /\ \A j : Asked(j)' = Asked(j) /\ ObservedBy(j)' = ObservedBy(j)
      BY <2>10 DEF TpCalls, TpPaths, Compat, Asked, ObservedBy
    <3> SUFFICES ASSUME ~Compat, NEW p \in TpPaths PROVE TpTouched(p)' BY <3>1 DEF TpLastTouches
    <3>2. tpCall' = new BY <2>3, <2>12
    <3>3. CASE p \in Asked(i).paths
      <4>1. touched[p] = ObservedBy(i) BY <2>17, <3>3
      <4>2. ASSUME NEW j \in TpCalls, j > i, p \in Asked(j).paths PROVE ~TpRan(new[j])
        <5>1. Len(tpBatch.calls) \in Nat /\ TpCalls \subseteq Nat \ {0} BY <2>19, TpRange
        <5>2. i \in EarlierThan(j)
          <6>1. Conflicts(j, i) BY <3>3, <4>2 DEF Conflicts
          <6>2. i \in 1 .. (j - 1) BY <4>2, <5>1
          <6> QED BY <6>1, <6>2 DEF EarlierThan
        <5>3. ~TpBegun(tpCall[j]) BY <1>1, <1>6, <2>19, <5>2 DEF TpWaited
        <5>4. j # i BY <4>2, <5>1
        <5> QED BY <2>14, <5>3, <5>4 DEF TpBegun
      <4>3. touched[p] = ObservedBy(i) /\ p \in Asked(i).paths /\ TpRan(new[i]) BY <2>6, <2>14, <3>3, <4>1
      <4> QED BY <2>18, <3>1, <3>2, <4>2, <4>3 DEF TpTouched, TpRan
    <3>4. CASE p \notin Asked(i).paths
      <4>1. touched[p] = tpTouched[p] BY <2>17, <3>4
      <4>2. \A j \in TpCalls : p \in Asked(j).paths => new[j] = tpCall[j] BY <2>14, <3>4
      <4>3. TpTouched(p) BY <2>19 DEF TpLastTouches
      <4> QED BY <2>18, <3>1, <3>2, <4>1, <4>2, <4>3 DEF TpTouched, TpRan
    <3> QED BY <3>3, <3>4
  <2> QED BY <2>15, <2>16, <2>20, <2>21 DEF TpInd
<1> QED BY <1>7, <1>8

LEMMA TpPosts == ASSUME NEW i \in TpCalls, TpInd, PostToolUse(i) PROVE TpInd'
<1>1. PICK c : c = tpCall[i] OBVIOUS
<1>2. c \in TpCallStates /\ TpCallOk(i, c) /\ tpCall \in [TpCalls -> TpCallStates] BY <1>1, TpCallNow
<1>3. c.at = "post" /\ ~c.cancel BY <1>1 DEF PostToolUse
<1>4. c.status = "none" /\ (c.late => ~Asked(i).cancels) /\ TpRan(c) /\ c.ran = c.allowed /\ "hook" \notin c.wants
  BY <1>2, <1>3 DEF TpCallOk
<1>5. Asked(i).tool \in tpBatch.registry /\ (tpBatch.pool = {} \/ Asked(i).tool \in tpBatch.pool)
  BY <1>2, <1>3 DEF TpCallOk
<1>6. ~TpOver(c) /\ TpBegun(c) BY <1>3 DEF TpOver, TpBegun
<1>9. ~Compat => ("tool" \in c.wants <=> Asked(i).notes) BY <1>2, <1>4 DEF TpCallOk
<1>10. UNCHANGED <<tpBatch, tpPool, tpSeen, tpTouched, tpPhase, tpStopped, tpApplied>> BY DEF PostToolUse
<1>7. CASE Asked(i).post = "raises"
  <2>2. PICK n : n = [c EXCEPT !.at = "failing"] OBVIOUS
  <2>3. tpCall' = [tpCall EXCEPT ![i] = n] BY <1>1, <1>2, <1>7, <2>2 DEF PostToolUse, Put
  <2>4. n \in TpCallStates BY <1>2, <2>2 DEF TpCallStates, TpStages
  <2>5. /\ n.at = "failing" /\ n.status = c.status /\ n.ran = c.ran /\ n.wants = c.wants /\ n.cancel = c.cancel
        /\ n.late = c.late /\ n.allowed = c.allowed /\ n.input = c.input
    BY <1>2, <2>2 DEF TpCallStates
  <2>6. TpRan(n) /\ TpRaising(i) BY <1>4, <1>7, <2>5 DEF TpRan, TpRaising
  <2>7. TpCallOk(i, n) BY <1>3, <1>4, <1>5, <1>9, <2>5, <2>6 DEF TpCallOk, TpEarly
  <2>8. UNCHANGED tpHeard BY <1>7 DEF PostToolUse, PostNotes
  <2>9. TpGoesOn(i, n) BY <1>1, <1>6, <1>10, <2>3, <2>4, <2>7 DEF TpGoesOn
  <2> QED BY <1>1, <1>4, <1>10, <2>5, <2>6, <2>8, <2>9, TpQuiet
<1>8. CASE Asked(i).post # "raises"
  <2>1. PICK status, wants :
          status = ResultOf(i) /\ wants = (IF Asked(i).post = "notes" THEN c.wants \cup {"hook"} ELSE c.wants)
    OBVIOUS
  <2>2. PICK n : n = [c EXCEPT !.at = "ended", !.status = status, !.wants = wants] OBVIOUS
  <2>3. tpCall' = [tpCall EXCEPT ![i] = n]
    <3>1. tpCall' = [tpCall EXCEPT ![i].at = "ended", ![i].status = status,
                                   ![i].wants = IF Asked(i).post = "notes" THEN @ \cup {"hook"} ELSE @]
      BY <1>8, <2>1 DEF PostToolUse
    <3> QED BY <1>1, <1>2, <2>1, <2>2, <3>1
  <2>4. n \in TpCallStates
    <3>1. status \in TpStatuses /\ wants \in SUBSET {"tool", "refresh", "hook"}
      BY <1>2, <2>1 DEF TpCallStates, TpStatuses, ResultOf
    <3> QED BY <1>2, <2>2, <3>1 DEF TpCallStates, TpStages
  <2>5. /\ n.at = "ended" /\ n.status = status /\ n.ran = c.ran /\ n.wants = wants /\ n.cancel = c.cancel
        /\ n.late = c.late /\ n.allowed = c.allowed /\ n.input = c.input
    BY <1>2, <2>2 DEF TpCallStates
  <2>6. TpRan(n) /\ TpBegun(n) BY <1>4, <2>5 DEF TpRan, TpBegun
  <2>7. status # "none" /\ ("tool" \in wants <=> "tool" \in c.wants) BY <2>1 DEF ResultOf
  <2>8. "hook" \in wants <=> Asked(i).post = "notes" BY <1>4, <2>1
  <2>9. TpCallOk(i, n)
    <3>1. n.at = "ended" /\ n.status # "none" /\ ~n.cancel /\ n.ran = n.allowed /\ (n.late => ~Asked(i).cancels)
      BY <1>3, <1>4, <2>5, <2>7
    <3>2. n.at \notin {"queued", "execute", "post", "failing"} /\ n.at # "failing" /\ n.at \notin TpEarly
      BY <3>1 DEF TpEarly
    <3>3. ~Compat => ("tool" \in n.wants <=> Asked(i).notes) BY <1>9, <2>5, <2>7
    <3>4. n.at \notin {"queued", "execute"} BY <3>2
    <3> QED BY <1>5, <2>6, <3>1, <3>2, <3>3, <3>4 DEF TpCallOk
  <2>11. TpGoesOn(i, n) BY <1>1, <1>6, <1>10, <2>3, <2>4, <2>9 DEF TpGoesOn
  <2>12. PICK new : new = [tpCall EXCEPT ![i] = n] OBVIOUS
  <2>13. TpMoves(new) BY <2>11, <2>12, TpGoes
  <2>14. new[i] = n /\ \A j \in TpCalls : j # i => new[j] = tpCall[j] BY <1>2, <2>12
  <2>15. TpCallsOk' /\ TpWaited' /\ TpLastSights' /\ TpAppliedLast' /\ tpApplied = 0 BY <2>13, TpMoved
  <2>16. TpLastTouches'
    <3>1. \A j \in TpCalls : TpRan(new[j]) <=> TpRan(tpCall[j]) BY <1>1, <1>4, <2>6, <2>14
    <3> QED BY <1>10, <2>13, <3>1, TpTouchesKept
  <2>17. TpTyped /\ TpNotified BY DEF TpInd
  <2>18. tpHeard \in [TpCalls -> Nat] BY <2>17 DEF TpTyped
  <2>19. tpHeard' = [tpHeard EXCEPT ![i] = tpHeard[i] + (IF Asked(i).post = "notes" THEN 1 ELSE 0)]
    BY <2>18 DEF PostToolUse, PostNotes
  <2>20. TpTyped'
    <3>1. tpHeard' \in [TpCalls -> Nat] BY <2>18, <2>19
    <3> QED BY <1>10, <2>11, <2>17, <3>1, TpGoes DEF TpTyped
  <2>21. TpNotified'
    <3>1. TpCalls' = TpCalls /\ (Compat' <=> Compat) BY <1>10 DEF TpCalls, Compat
    <3>2. tpCall' = new BY <2>3, <2>12
    <3>3. \A j \in TpCalls : ~(j <= 0) BY <2>17, TpRange
    <3> SUFFICES ASSUME ~Compat, tpPhase # "broken", NEW j \in TpCalls
                 PROVE  tpHeard'[j] = (IF "hook" \in new[j].wants THEN 1 ELSE 0)
      BY <1>10, <2>15, <3>1, <3>2, <3>3 DEF TpNotified
    <3>4. tpHeard[j] = (IF "hook" \in tpCall[j].wants THEN 1 ELSE 0)
      BY <2>15, <2>17, <3>3 DEF TpNotified
    <3>5. CASE j = i BY <1>1, <1>4, <2>5, <2>8, <2>14, <2>18, <2>19, <3>4, <3>5
    <3>6. CASE j # i BY <2>14, <2>18, <2>19, <3>4, <3>6
    <3> QED BY <3>5, <3>6
  <2> QED BY <2>15, <2>16, <2>20, <2>21 DEF TpInd
<1> QED BY <1>7, <1>8

LEMMA TpFails == ASSUME NEW i \in TpCalls, TpInd, CallFails(i) PROVE TpInd'
<1>1. PICK c : c = tpCall[i] OBVIOUS
<1>2. c \in TpCallStates /\ TpCallOk(i, c) /\ tpCall \in [TpCalls -> TpCallStates] BY <1>1, TpCallNow
<1>3. c.at = "failing" /\ ~c.cancel /\ UNCHANGED TpRest BY <1>1 DEF CallFails
<1>5. Asked(i).tool \in tpBatch.registry /\ (tpBatch.pool = {} \/ Asked(i).tool \in tpBatch.pool)
  BY <1>2, <1>3 DEF TpCallOk
<1>6. ~TpOver(c) /\ TpBegun(c) /\ c.status = "none" /\ "hook" \notin c.wants BY <1>2, <1>3 DEF TpOver, TpBegun, TpCallOk
<1>7. PICK n : n = [c EXCEPT !.at = "ended", !.status = "error"] OBVIOUS
<1>8. tpCall' = [tpCall EXCEPT ![i] = n] BY <1>1, <1>2, <1>7 DEF CallFails, Ended
<1>9. n \in TpCallStates BY <1>2, <1>7 DEF TpCallStates, TpStages, TpStatuses
<1>10. /\ n.at = "ended" /\ n.status = "error" /\ n.ran = c.ran /\ n.wants = c.wants /\ n.cancel = c.cancel
       /\ n.late = c.late /\ n.allowed = c.allowed /\ n.input = c.input
  BY <1>2, <1>7 DEF TpCallStates
<1>11. TpRan(n) <=> TpRan(c) BY <1>10 DEF TpRan
<1>12. TpCallOk(i, n) BY <1>2, <1>3, <1>5, <1>6, <1>10, <1>11 DEF TpCallOk, TpEarly
<1>13. TpGoesOn(i, n) BY <1>1, <1>3, <1>6, <1>8, <1>9, <1>12 DEF TpGoesOn, TpRest
<1> QED BY <1>1, <1>3, <1>10, <1>11, <1>13, TpQuiet DEF TpRest

LEMMA TpCancels == ASSUME NEW i \in TpCalls, TpInd, Cancelled(i) PROVE TpInd'
<1>1. PICK c : c = tpCall[i] OBVIOUS
<1>2. c \in TpCallStates /\ TpCallOk(i, c) /\ tpCall \in [TpCalls -> TpCallStates] BY <1>1, TpCallNow
<1>3. c.cancel /\ c.at \notin {"unseen", "ended", "lost"} /\ UNCHANGED TpRest BY <1>1, <1>2 DEF Cancelled, TpCallOk
<1>5. Asked(i).tool \in tpBatch.registry /\ (tpBatch.pool = {} \/ Asked(i).tool \in tpBatch.pool)
  BY <1>2, <1>3 DEF TpCallOk
<1>6. ~TpOver(c) /\ c.status = "none" /\ "hook" \notin c.wants BY <1>2, <1>3 DEF TpOver, TpCallOk
<1>7. PICK wants : wants = (IF c.at \in {"queued", "failing"} THEN {} ELSE c.wants) OBVIOUS
<1>8. PICK n : n = [c EXCEPT !.at = "ended", !.status = "cancelled", !.cancel = FALSE, !.wants = wants] OBVIOUS
<1>9. tpCall' = [tpCall EXCEPT ![i] = n]
  <2>1. tpCall' = [tpCall EXCEPT ![i].at = "ended", ![i].status = "cancelled", ![i].cancel = FALSE, ![i].wants = wants]
    BY <1>1, <1>7 DEF Cancelled, KeptBy
  <2> QED BY <1>1, <1>2, <1>8, <2>1
<1>10. n \in TpCallStates
  <2>1. wants \in SUBSET {"tool", "refresh", "hook"} BY <1>2, <1>7 DEF TpCallStates
  <2> QED BY <1>2, <1>8, <2>1 DEF TpCallStates, TpStages, TpStatuses
<1>11. /\ n.at = "ended" /\ n.status = "cancelled" /\ n.ran = c.ran /\ n.wants = wants /\ ~n.cancel
       /\ n.late = c.late /\ n.allowed = c.allowed /\ n.input = c.input
  BY <1>2, <1>8 DEF TpCallStates
<1>12. (TpRan(n) <=> TpRan(c)) /\ "hook" \notin wants /\ "hook" \notin n.wants BY <1>6, <1>7, <1>11 DEF TpRan
<1>13. ~TpRan(n) => wants = {} BY <1>2, <1>7, <1>12 DEF TpCallOk
<1>14. TpRan(n) => n.ran = n.allowed BY <1>2, <1>11, <1>12 DEF TpCallOk
<1>15. n.late => ~Asked(i).cancels BY <1>2, <1>11 DEF TpCallOk
<1>16. ~Compat /\ TpRan(n) => ("tool" \in n.wants <=> Asked(i).notes) \/ TpRaising(i)
  <2>1. CASE c.at = "failing" BY <1>2, <2>1 DEF TpCallOk
  <2>2. CASE c.at = "queued" BY <1>2, <1>12, <2>2 DEF TpCallOk, TpEarly
  <2>3. CASE c.at \notin {"queued", "failing"} BY <1>2, <1>6, <1>7, <1>11, <1>12, <2>3 DEF TpCallOk
  <2> QED BY <2>1, <2>2, <2>3
<1>17. TpCallOk(i, n)
  <2>1. n.at = "ended" /\ n.status # "none" /\ n.status # "success" /\ n.status = "cancelled" /\ ~n.cancel /\ n.wants = wants
    BY <1>11
  <2>2. n.at # "post" /\ n.at # "failing" /\ n.at \notin TpEarly BY <2>1 DEF TpEarly
  <2>3. n.at \notin {"queued", "execute"} BY <2>1
  <2> QED BY <1>5, <1>12, <1>13, <1>14, <1>15, <1>16, <2>1, <2>2, <2>3 DEF TpCallOk
<1>18. TpBegun(n) => TpBegun(c) BY <1>11, <1>12 DEF TpBegun
<1>19. TpGoesOn(i, n) BY <1>1, <1>3, <1>6, <1>9, <1>10, <1>17, <1>18 DEF TpGoesOn, TpRest
<1> QED BY <1>1, <1>3, <1>6, <1>12, <1>19, TpQuiet DEF TpRest

LEMMA TpInterrupts == TpInd /\ Interrupt => TpInd'
<1> SUFFICES ASSUME TpInd, Interrupt PROVE TpInd'
  OBVIOUS
<1>1. PICK new : new = [i \in TpCalls |->
                           IF Cancellable(i) THEN [tpCall[i] EXCEPT !.cancel = TRUE]
                           ELSE IF i \in NeverBegun THEN [tpCall[i] EXCEPT !.at = "lost"] ELSE tpCall[i]]
  OBVIOUS
<1>2. /\ tpCall' = new /\ new # tpCall /\ tpStopped' = ~Compat /\ tpPhase \in {"open", "broken"}
      /\ tpPhase' = (IF NeverBegun # {} THEN "broken" ELSE tpPhase)
      /\ UNCHANGED <<tpBatch, tpPool, tpSeen, tpTouched, tpHeard, tpApplied>>
      /\ \A i \in TpCalls : ~tpCall[i].cancel
  BY <1>1 DEF Interrupt
<1>3. TpTyped /\ TpCallsOk BY DEF TpInd
<1>4. tpCall \in [TpCalls -> TpCallStates] BY <1>3 DEF TpTyped
<1>5. ~Compat => NeverBegun = {} BY DEF NeverBegun
\* What happens to one call.
<1>6. ASSUME NEW i \in TpCalls
      PROVE  /\ new[i] \in TpCallStates /\ TpCallOk(i, new[i])
             /\ new[i] # tpCall[i] => tpCall[i].at # "ended"
             /\ ~Compat => /\ new[i].at = tpCall[i].at /\ new[i].ran = tpCall[i].ran
                           /\ new[i].wants = tpCall[i].wants
                           /\ TpOver(tpCall[i]) => new[i] = tpCall[i]
  <2>1. PICK c, n : c = tpCall[i] /\ n = new[i] OBVIOUS
  <2>2. c \in TpCallStates /\ TpCallOk(i, c) BY <2>1, TpCallNow
  <2>3. \/ Cancellable(i) /\ n = [c EXCEPT !.cancel = TRUE]
        \/ i \in NeverBegun /\ n = [c EXCEPT !.at = "lost"]
        \/ n = c
    BY <1>1, <2>1
  <2>4. CASE Cancellable(i) /\ n = [c EXCEPT !.cancel = TRUE]
    <3>1. c.at \notin {"unseen", "ended", "lost"} BY <2>1, <2>4 DEF Cancellable
    <3>2. n \in TpCallStates BY <2>2, <2>4 DEF TpCallStates
    <3>3. /\ n.at = c.at /\ n.status = c.status /\ n.ran = c.ran /\ n.wants = c.wants /\ n.cancel
          /\ n.late = c.late /\ n.allowed = c.allowed /\ n.input = c.input
      BY <2>2, <2>4 DEF TpCallStates
    <3>4. TpRan(n) <=> TpRan(c) BY <3>3 DEF TpRan
    <3>5. TpCallOk(i, n) BY <2>2, <3>1, <3>3, <3>4 DEF TpCallOk
    <3> QED BY <2>1, <3>1, <3>2, <3>3, <3>5 DEF TpOver
  <2>5. CASE i \in NeverBegun /\ n = [c EXCEPT !.at = "lost"]
    <3>1. Compat /\ c.at = "unseen" /\ ~c.cancel BY <1>2, <2>1, <2>5 DEF NeverBegun
    <3>2. n \in TpCallStates BY <2>2, <2>5 DEF TpCallStates, TpStages
    <3>3. /\ n.at = "lost" /\ n.status = c.status /\ n.ran = c.ran /\ n.wants = c.wants /\ n.cancel = c.cancel
          /\ n.late = c.late /\ n.allowed = c.allowed /\ n.input = c.input
      BY <2>2, <2>5 DEF TpCallStates
    <3>4. ~TpRan(n) /\ ~TpRan(c) BY <2>2, <3>1, <3>3 DEF TpRan, TpCallOk, TpEarly
    <3>5. TpCallOk(i, n) BY <2>2, <3>1, <3>3, <3>4 DEF TpCallOk, TpEarly
    <3> QED BY <2>1, <3>1, <3>2, <3>5
  <2>6. CASE n = c BY <2>1, <2>2, <2>6
  <2> QED BY <2>3, <2>4, <2>5, <2>6
<1>7. new \in [TpCalls -> TpCallStates] BY <1>1, <1>6
<1>8. ~AllEnded
  <2>1. PICK i \in TpCalls : new[i] # tpCall[i] BY <1>2, <1>4, <1>7
  <2> QED BY <1>6, <2>1 DEF AllEnded
<1>9. \A i \in TpCalls : ~Compat /\ TpBegun(new[i]) => TpBegun(tpCall[i]) BY <1>6 DEF TpBegun, TpRan
<1>10. tpPhase' \in {tpPhase, "broken"} /\ tpPhase # "closed" BY <1>2
<1>11. TpMoves(new) BY <1>2, <1>6, <1>7, <1>8, <1>9, <1>10 DEF TpMoves
<1>12. TpCallsOk' /\ TpWaited' /\ TpLastSights' /\ TpAppliedLast' BY <1>11, TpMoved
<1>13. TpLastTouches'
  <2>1. ~Compat => \A i \in TpCalls : TpRan(new[i]) <=> TpRan(tpCall[i]) BY <1>6 DEF TpRan
  <2> QED BY <1>2, <1>11, <2>1, TpTouchesKept
<1>14. TpNotified'
  <2>1. ~Compat => \A i \in TpCalls : "hook" \in new[i].wants <=> "hook" \in tpCall[i].wants BY <1>6
  <2> QED BY <1>2, <1>11, <2>1, TpHeardKept
<1>15. TpTyped'
  <2>1. TpCalls' = TpCalls /\ TpPaths' = TpPaths BY <1>2 DEF TpCalls, TpPaths
  <2>2. tpStopped' \in BOOLEAN BY <1>2 DEF Compat
  <2>3. tpPhase' \in {"open", "broken", "closed"} BY <1>2
  <2> QED BY <1>2, <1>3, <1>7, <2>1, <2>2, <2>3 DEF TpTyped
<1> QED BY <1>12, <1>13, <1>14, <1>15 DEF TpInd

----
\* How many of the recorded notifications are the tool's, and how many the hook's.
LEMMA TpNotes ==
    ASSUME NEW w
    PROVE  /\ Cardinality(w \cap {"tool"}) = IF "tool" \in w THEN 1 ELSE 0
           /\ Cardinality(w \cap {"tool", "hook"})
                = (IF "tool" \in w THEN 1 ELSE 0) + (IF "hook" \in w THEN 1 ELSE 0)
<1>1. Cardinality({}) = 0 /\ IsFiniteSet({}) BY FS_EmptySet
<1>2. \A x : Cardinality({x}) = 1 /\ IsFiniteSet({x}) BY FS_Singleton
<1>3. Cardinality({"tool"} \cup {"hook"}) = 2
  <2>1. "hook" \notin {"tool"} OBVIOUS
  <2>2. Cardinality({"tool"} \cup {"hook"}) = Cardinality({"tool"}) + 1 BY <1>2, <2>1, FS_AddElement
  <2>3. Cardinality({"tool"}) = 1 BY <1>2
  <2> QED BY <2>2, <2>3
<1>4. w \cap {"tool"} = IF "tool" \in w THEN {"tool"} ELSE {} OBVIOUS
<1>5. CASE "tool" \in w /\ "hook" \in w
  <2>1. w \cap {"tool", "hook"} = {"tool"} \cup {"hook"} BY <1>5
  <2> QED BY <1>1, <1>2, <1>3, <1>4, <1>5, <2>1
<1>6. CASE "tool" \in w /\ "hook" \notin w
  <2>1. w \cap {"tool", "hook"} = {"tool"} /\ w \cap {"tool"} = {"tool"} BY <1>6
  <2>2. Cardinality({"tool"}) = 1 BY <1>2
  <2>3. Cardinality(w \cap {"tool", "hook"}) = 1 /\ Cardinality(w \cap {"tool"}) = 1 BY <2>1, <2>2
  <2> QED BY <1>6, <2>3
<1>7. CASE "tool" \notin w /\ "hook" \in w
  <2>1. w \cap {"tool", "hook"} = {"hook"} /\ w \cap {"tool"} = {} BY <1>7
  <2>2. Cardinality({"hook"}) = 1 BY <1>2
  <2>3. Cardinality(w \cap {"tool", "hook"}) = 1 /\ Cardinality(w \cap {"tool"}) = 0 BY <1>1, <2>1, <2>2
  <2> QED BY <1>7, <2>3
<1>8. CASE "tool" \notin w /\ "hook" \notin w
  <2>1. w \cap {"tool", "hook"} = {} BY <1>8
  <2> QED BY <1>1, <1>2, <1>4, <1>8, <2>1
<1> QED BY <1>5, <1>6, <1>7, <1>8

LEMMA TpApplies == TpInd /\ ApplyUpdates => TpInd'
<1> SUFFICES ASSUME TpInd, ApplyUpdates PROVE TpInd'
  OBVIOUS
<1>1. TpTyped /\ TpCallsOk /\ TpWaited /\ TpLastTouches /\ TpLastSights /\ TpNotified /\ TpAppliedLast BY DEF TpInd
<1>2. PICK i : i = tpApplied + 1 OBVIOUS
<1>3. /\ tpPhase = "open" /\ ~Compat /\ AllEnded /\ tpApplied < Len(tpBatch.calls)
      /\ tpBatch' = tpBatch /\ tpCall' = tpCall /\ tpTouched' = tpTouched /\ tpStopped' = tpStopped
  BY DEF ApplyUpdates
<1>4. PICK served \in BOOLEAN :
        /\ tpHeard' = [tpHeard EXCEPT ![i] = @ + IF served THEN ToldAgain(i) ELSE Cardinality(tpCall[i].wants \cap {"tool"})]
        /\ tpSeen' = IF ~served \/ tpCall[i].status # "success" THEN tpSeen
                     ELSE [p \in TpPaths |-> IF p \in Asked(i).paths THEN ObservedBy(i) ELSE tpSeen[p]]
        /\ tpPhase' = IF served THEN "open" ELSE "broken"
        /\ tpApplied' = IF served THEN i ELSE tpApplied
  BY <1>2 DEF ApplyUpdates
<1>5. Len(tpBatch.calls) \in Nat /\ TpCalls \subseteq Nat \ {0} BY <1>1, TpRange
<1>6. i \in TpCalls /\ tpApplied \in Nat /\ i \in Nat BY <1>1, <1>2, <1>3, <1>5 DEF TpTyped, TpCalls
<1>7. /\ TpCalls' = TpCalls /\ TpPaths' = TpPaths /\ (Compat' <=> Compat)
      /\ \A j : Asked(j)' = Asked(j) /\ EarlierThan(j)' = EarlierThan(j) /\ ObservedBy(j)' = ObservedBy(j)
  BY <1>3 DEF TpCalls, TpPaths, Compat, Asked, EarlierThan, Conflicts, Exclusive, ObservedBy
<1>8. ToldAgain(i) \in Nat /\ Cardinality(tpCall[i].wants \cap {"tool"}) \in Nat
  <2>1. PICK w : w = tpCall[i].wants OBVIOUS
  <2>2. /\ Cardinality(w \cap {"tool"}) = IF "tool" \in w THEN 1 ELSE 0
        /\ Cardinality(w \cap {"tool", "hook"}) = (IF "tool" \in w THEN 1 ELSE 0) + (IF "hook" \in w THEN 1 ELSE 0)
    BY TpNotes
  <2>3. Cardinality(w \cap {"tool"}) \in Nat BY <2>2
  <2>4. Cardinality(w \cap {"tool", "hook"}) \in Nat BY <2>2
  <2> QED BY <2>1, <2>3, <2>4 DEF ToldAgain
<1>9. PICK more : more = IF served THEN ToldAgain(i) ELSE Cardinality(tpCall[i].wants \cap {"tool"}) OBVIOUS
<1>10. more \in Nat BY <1>8, <1>9
<1>11. tpHeard \in [TpCalls -> Nat] BY <1>1 DEF TpTyped
<1>12. tpHeard' = [tpHeard EXCEPT ![i] = tpHeard[i] + more] BY <1>4, <1>9, <1>11
<1>13. TpTyped'
  <2>1. tpHeard' \in [TpCalls -> Nat] BY <1>6, <1>10, <1>11, <1>12
  <2>2. tpSeen' \in [TpPaths -> {"none", "read", "write"}] BY <1>1, <1>4 DEF TpTyped, ObservedBy
  <2>3. tpApplied' \in 0 .. Len(tpBatch.calls) BY <1>1, <1>2, <1>3, <1>4, <1>5, <1>6 DEF TpTyped
  <2>4. tpPhase' \in {"open", "broken", "closed"} BY <1>4
  <2> QED BY <1>1, <1>3, <1>7, <2>1, <2>2, <2>3, <2>4 DEF TpTyped
<1>14. TpCallsOk' BY <1>1, <1>3, <1>7 DEF TpCallsOk, TpCallOk, TpRan, TpRaising
<1>15. TpWaited' BY <1>1, <1>3, <1>7 DEF TpWaited
<1>16. TpLastTouches' BY <1>1, <1>3, <1>7 DEF TpLastTouches, TpTouched
<1>17. TpAppliedLast'
  <2>1. AllEnded' BY <1>3, <1>7 DEF AllEnded
  <2>2. tpPhase' # "closed" BY <1>4
  <2> QED BY <2>1, <2>2 DEF TpAppliedLast
<1>18. TpNotified'
  <2> SUFFICES ASSUME served, NEW j \in TpCalls
               PROVE  tpHeard'[j] = (IF "hook" \in tpCall[j].wants THEN 1 ELSE 0) + (IF j <= i THEN ToldAgain(j) ELSE 0)
    BY <1>3, <1>4, <1>7 DEF TpNotified, ToldAgain
  <2>1. tpHeard[j] = (IF "hook" \in tpCall[j].wants THEN 1 ELSE 0) + (IF j <= tpApplied THEN ToldAgain(j) ELSE 0)
    BY <1>1, <1>3 DEF TpNotified
  <2>2. j \in Nat BY <1>5
  <2>3. CASE j = i
    <3>1. tpHeard'[j] = tpHeard[j] + ToldAgain(j) BY <1>6, <1>9, <1>11, <1>12, <2>3
    <3> QED BY <1>2, <1>6, <1>8, <2>1, <2>3, <3>1
  <2>4. CASE j # i
    <3>1. tpHeard'[j] = tpHeard[j] BY <1>11, <1>12, <2>4
    <3>2. j <= i <=> j <= tpApplied BY <1>2, <1>6, <2>2, <2>4
    <3> QED BY <2>1, <3>1, <3>2
  <2> QED BY <2>3, <2>4
<1>19. TpLastSights'
  <2>1. CASE ~served BY <1>1, <1>3, <1>4, <1>7, <2>1 DEF TpLastSights, TpSighted, TpObserved
  <2>2. CASE served /\ tpCall[i].status # "success"
    <3>1. \A j \in TpCalls : TpObserved(j)' <=> TpObserved(j)
      BY <1>2, <1>3, <1>4, <1>5, <1>6, <2>2 DEF TpObserved
    <3>2. tpSeen' = tpSeen BY <1>4, <2>2
    <3> QED BY <1>1, <1>7, <3>1, <3>2 DEF TpLastSights, TpSighted
  <2>3. CASE served /\ tpCall[i].status = "success"
    <3>1. \A j \in TpCalls : TpObserved(j)' <=> TpObserved(j) \/ j = i
      BY <1>2, <1>3, <1>4, <1>5, <1>6, <2>3 DEF TpObserved
    <3>2. \A j \in TpCalls : TpObserved(j)' => j <= i BY <1>4, <2>3 DEF TpObserved
    <3>3. tpSeen' = [p \in TpPaths |-> IF p \in Asked(i).paths THEN ObservedBy(i) ELSE tpSeen[p]] BY <1>4, <2>3
    <3> SUFFICES ASSUME NEW p \in TpPaths PROVE TpSighted(p)' BY <1>7 DEF TpLastSights
    <3>4. CASE p \in Asked(i).paths
      <4>1. tpSeen'[p] = ObservedBy(i) BY <3>3, <3>4
      <4>2. TpObserved(i)' BY <1>6, <3>1
      <4>3. \A j \in TpCalls : j > i => ~TpObserved(j)' BY <1>5, <1>6, <3>2
      <4> QED BY <1>6, <1>7, <3>4, <4>1, <4>2, <4>3 DEF TpSighted
    <3>5. CASE p \notin Asked(i).paths
      <4>1. tpSeen'[p] = tpSeen[p] BY <3>3, <3>5
      <4>2. \A j \in TpCalls : p \in Asked(j).paths => (TpObserved(j)' <=> TpObserved(j)) BY <3>1, <3>5
      <4>3. TpSighted(p) BY <1>1 DEF TpLastSights
      <4> QED BY <1>7, <4>1, <4>2, <4>3 DEF TpSighted
    <3> QED BY <3>4, <3>5
  <2> QED BY <2>1, <2>2, <2>3
<1> QED BY <1>13, <1>14, <1>15, <1>16, <1>17, <1>18, <1>19 DEF TpInd

LEMMA TpCloses == TpInd /\ (Replay \/ Collect) => TpInd'
<1> SUFFICES ASSUME TpInd, Replay \/ Collect PROVE TpInd'
  OBVIOUS
<1>1. TpTyped /\ TpCallsOk /\ TpWaited /\ TpLastTouches /\ TpLastSights /\ TpNotified /\ TpAppliedLast BY DEF TpInd
<1>2. /\ tpPhase = "open" /\ AllEnded /\ tpPhase' = "closed"
      /\ tpBatch' = tpBatch /\ tpCall' = tpCall /\ tpPool' = tpPool /\ tpSeen' = tpSeen
      /\ tpTouched' = tpTouched /\ tpHeard' = tpHeard /\ tpStopped' = tpStopped /\ tpApplied' = tpApplied
      /\ ~Compat => tpApplied = Len(tpBatch.calls)
  BY DEF Replay, Collect
<1>3. /\ TpCalls' = TpCalls /\ TpPaths' = TpPaths /\ (Compat' <=> Compat)
      /\ \A j : Asked(j)' = Asked(j) /\ EarlierThan(j)' = EarlierThan(j) /\ ObservedBy(j)' = ObservedBy(j)
  BY <1>2 DEF TpCalls, TpPaths, Compat, Asked, EarlierThan, Conflicts, Exclusive, ObservedBy
<1>4. TpTyped' BY <1>1, <1>2, <1>3 DEF TpTyped
<1>5. TpCallsOk' BY <1>1, <1>2, <1>3 DEF TpCallsOk, TpCallOk, TpRan, TpRaising
<1>6. TpWaited' /\ TpLastTouches' BY <1>1, <1>2, <1>3 DEF TpWaited, TpLastTouches, TpTouched
<1>7. TpLastSights' BY <1>1, <1>2, <1>3 DEF TpLastSights, TpSighted, TpObserved
<1>8. TpNotified' BY <1>1, <1>2, <1>3 DEF TpNotified, ToldAgain
<1>9. TpAppliedLast' BY <1>2, <1>3 DEF TpAppliedLast, AllEnded
<1> QED BY <1>4, <1>5, <1>6, <1>7, <1>8, <1>9 DEF TpInd

LEMMA TpStarted == TpInit => TpInd
<1> SUFFICES ASSUME TpInit PROVE TpInd
  OBVIOUS
<1>1. /\ tpBatch \in TpBatches /\ tpCall = [i \in TpCalls |-> TpNew] /\ tpPool = tpBatch.pool
      /\ tpSeen = [p \in TpPaths |-> "none"] /\ tpTouched = [p \in TpPaths |-> "none"]
      /\ tpHeard = [i \in TpCalls |-> 0] /\ tpPhase = "open" /\ tpStopped = FALSE /\ tpApplied = 0
  BY DEF TpInit
<1>2. TpNew \in TpCallStates BY DEF TpNew, TpCallStates, TpStages, TpWriters, TpStatuses
<1>3. Len(tpBatch.calls) \in Nat BY <1>1, TpAssumption
<1>4. TpTyped
  <2>1. tpCall \in [TpCalls -> TpCallStates] BY <1>1, <1>2
  <2>2. tpSeen \in [TpPaths -> {"none", "read", "write"}] /\ tpTouched \in [TpPaths -> {"none", "read", "write"}]
    BY <1>1
  <2>3. tpHeard \in [TpCalls -> Nat] BY <1>1
  <2>4. tpApplied \in 0 .. Len(tpBatch.calls) BY <1>1, <1>3
  <2> QED BY <1>1, <2>1, <2>2, <2>3, <2>4 DEF TpTyped
<1>5. /\ TpNew.at = "unseen" /\ TpNew.status = "none" /\ ~TpNew.cancel /\ ~TpNew.late
      /\ TpNew.wants = {} /\ TpNew.ran = "none"
  BY DEF TpNew
<1>6. PICK new : new = TpNew OBVIOUS
<1>7. \A i \in TpCalls : tpCall[i] = new BY <1>1, <1>6
<1>8. ~TpRan(new) /\ ~TpBegun(new) /\ new.wants = {} /\ new.status = "none" BY <1>5, <1>6 DEF TpRan, TpBegun
<1>9. TpCallsOk BY <1>5, <1>6, <1>7, <1>8 DEF TpCallsOk, TpCallOk, TpEarly
<1>10. TpWaited BY <1>7, <1>8 DEF TpWaited
<1>11. TpLastTouches BY <1>1, <1>7, <1>8 DEF TpLastTouches, TpTouched
<1>12. TpLastSights BY <1>1, <1>7, <1>8 DEF TpLastSights, TpSighted, TpObserved
<1>13. \A i \in TpCalls : ~(i <= 0) BY <1>4, TpRange
<1>14. TpNotified BY <1>1, <1>7, <1>8, <1>13 DEF TpNotified
<1>15. TpAppliedLast BY <1>1 DEF TpAppliedLast
<1> QED BY <1>4, <1>9, <1>10, <1>11, <1>12, <1>14, <1>15 DEF TpInd

LEMMA TpStep == TpInd /\ [TpNext]_tpVars => TpInd'
<1> SUFFICES ASSUME TpInd, [TpNext]_tpVars PROVE TpInd'
  OBVIOUS
<1>1. DOMAIN tpCall = TpCalls BY DEF TpInd, TpTyped
<1>2. CASE UNCHANGED tpVars
  <2>1. TpTyped /\ TpCallsOk /\ TpWaited /\ TpLastTouches /\ TpLastSights /\ TpNotified /\ TpAppliedLast BY DEF TpInd
  <2>2. /\ tpBatch' = tpBatch /\ tpCall' = tpCall /\ tpPool' = tpPool /\ tpSeen' = tpSeen /\ tpPhase' = tpPhase
        /\ tpTouched' = tpTouched /\ tpHeard' = tpHeard /\ tpStopped' = tpStopped /\ tpApplied' = tpApplied
    BY <1>2 DEF tpVars
  <2>3. /\ TpCalls' = TpCalls /\ TpPaths' = TpPaths /\ (Compat' <=> Compat)
        /\ \A j : Asked(j)' = Asked(j) /\ EarlierThan(j)' = EarlierThan(j) /\ ObservedBy(j)' = ObservedBy(j)
    BY <2>2 DEF TpCalls, TpPaths, Compat, Asked, EarlierThan, Conflicts, Exclusive, ObservedBy
  <2>4. TpTyped' BY <2>1, <2>2, <2>3 DEF TpTyped
  <2>5. TpCallsOk' BY <2>1, <2>2, <2>3 DEF TpCallsOk, TpCallOk, TpRan, TpRaising
  <2>6. TpWaited' /\ TpLastTouches' BY <2>1, <2>2, <2>3 DEF TpWaited, TpLastTouches, TpTouched
  <2>7. TpLastSights' BY <2>1, <2>2, <2>3 DEF TpLastSights, TpSighted, TpObserved
  <2>8. TpNotified' BY <2>1, <2>2, <2>3 DEF TpNotified, ToldAgain
  <2>9. TpAppliedLast' BY <2>1, <2>2, <2>3 DEF TpAppliedLast, AllEnded
  <2> QED BY <2>4, <2>5, <2>6, <2>7, <2>8, <2>9 DEF TpInd
<1>3. ASSUME NEW i \in TpCalls,
             \/ ObserveCall(i) \/ Validate(i) \/ PreToolUse(i) \/ CheckPermissions(i) \/ Authorize(i) \/ Start(i)
             \/ Execute(i) \/ PostToolUse(i) \/ CallFails(i) \/ Cancelled(i)
      PROVE  TpInd'
  BY <1>3, TpObserves, TpValidates, TpHooks, TpChecks, TpAuthorizes, TpStarts, TpExecutes, TpPosts, TpFails, TpCancels
<1> QED BY <1>1, <1>2, <1>3, TpInterrupts, TpApplies, TpCloses DEF TpNext

LEMMA TpIndSafe == TpInd => PipelineSafe
<1> SUFFICES ASSUME TpInd PROVE PipelineSafe
  OBVIOUS
<1>1. TpTyped /\ TpCallsOk /\ TpWaited /\ TpLastTouches /\ TpLastSights /\ TpNotified /\ TpAppliedLast BY DEF TpInd
<1>2. \A i \in TpCalls : tpCall[i] \in TpCallStates /\ TpCallOk(i, tpCall[i]) BY TpCallNow
<1>3. Len(tpBatch.calls) \in Nat /\ TpCalls \subseteq Nat \ {0} BY <1>1, TpRange
<1>4. TpTypeOK
  <2>1. \A i \in TpCalls : /\ tpCall[i].at \in TpStages /\ tpCall[i].input \in TpWriters /\ tpCall[i].status \in TpStatuses
                           /\ tpCall[i].at = "ended" <=> tpCall[i].status # "none"
    BY <1>2 DEF TpCallStates, TpCallOk
  <2> QED BY <1>1, <2>1 DEF TpTyped, TpTypeOK
<1>5. RunsAsAllowed BY <1>2 DEF RunsAsAllowed, TpCallOk, TpRan
<1>6. NothingAfterInterrupt BY <1>2 DEF NothingAfterInterrupt, TpCallOk
<1>7. ObservationsAgree
  <2> SUFFICES ASSUME tpPhase = "closed", ~Compat, NEW p \in TpPaths,
                      \A i \in TpCalls : p \in Asked(i).paths /\ tpCall[i].ran # "none" => tpCall[i].status = "success"
               PROVE  tpSeen[p] = tpTouched[p]
    BY DEF ObservationsAgree
  <2>1. tpApplied = Len(tpBatch.calls) BY <1>1 DEF TpAppliedLast
  <2>2. \A i \in TpCalls : i <= tpApplied BY <1>3, <2>1 DEF TpCalls
  <2>3. \A i \in TpCalls : p \in Asked(i).paths => (TpObserved(i) <=> TpRan(tpCall[i]))
    BY <1>2, <2>2 DEF TpObserved, TpRan, TpCallOk
  <2>4. TpTouched(p) /\ TpSighted(p) BY <1>1 DEF TpLastTouches, TpLastSights
  <2>5. \A i, j \in TpCalls : i > j \/ j > i \/ i = j BY <1>3
  <2> QED BY <2>3, <2>4, <2>5 DEF TpTouched, TpSighted
<1>8. SaidIsHeard
  <2> SUFFICES ASSUME tpPhase = "closed", ~Compat, NEW i \in TpCalls,
                      ~(tpCall[i].status = "cancelled" /\ (Asked(i).ends = "raises" \/ Asked(i).post = "raises"))
               PROVE  tpHeard[i] = (IF tpCall[i].ran # "none" /\ Asked(i).notes THEN 1 ELSE 0)
                                    + (IF "hook" \in tpCall[i].wants THEN 2 ELSE 0)
    BY DEF SaidIsHeard
  <2>1. i <= tpApplied BY <1>1, <1>3 DEF TpAppliedLast, TpCalls
  <2>2. tpHeard[i] = (IF "hook" \in tpCall[i].wants THEN 1 ELSE 0) + ToldAgain(i) BY <1>1, <2>1 DEF TpNotified
  <2>3. ToldAgain(i) = (IF "tool" \in tpCall[i].wants THEN 1 ELSE 0) + (IF "hook" \in tpCall[i].wants THEN 1 ELSE 0)
    BY TpNotes DEF ToldAgain
  <2>4. TpCallOk(i, tpCall[i]) BY <1>2
  <2>5. "tool" \in tpCall[i].wants <=> tpCall[i].ran # "none" /\ Asked(i).notes
    BY <2>4 DEF TpCallOk, TpRan, TpRaising
  <2> QED BY <2>2, <2>3, <2>5
<1> QED BY <1>4, <1>5, <1>6, <1>7, <1>8 DEF PipelineSafe

----
(* The records of the teams: TeamControl. *)

TcNamed == {0} \cup TcTeams
TcMemberRecords ==
    [team : TcNamed, name : TcNames \cup {"none"}, status : {"none", "active", "removed"},
     runner : {"none", "up", "stopping", "gone"}]
TcCallRecords ==
    [op : {"none", "create", "remove", "delete"}, at : {"idle", "bind", "said", "next", "stop"}, team : TcNamed,
     now : {0} \cup TcMembers, left : SUBSET TcMembers, listed : SUBSET TcMembers]

TcTyped ==
    /\ tcTeam \in [TcTeams -> {"none", "active", "deleted", "gone"}]
    /\ tcBound \in TcNamed /\ tcContext \in TcNamed
    /\ tcMember \in [TcMembers -> TcMemberRecords] /\ tcCall \in [TcCallers -> TcCallRecords]
    /\ tcOnline \in BOOLEAN /\ tcMisled \in BOOLEAN /\ tcCrashed \in 0 .. TcCrashes
    /\ tcQueue \in Seq(TcNamed) /\ Len(tcQueue) <= TcQueueMax
    /\ tcLost \subseteq TcTeams /\ tcOdd \subseteq TcMembers

\* What the stage of a call says of the rest of it.
TcCallFits(k) ==
    /\ k.at = "idle" => k = NoCall
    /\ k.at \in {"bind", "said"} => k.op = "create" /\ k.team \in TcTeams /\ k.listed = {}
    /\ k.at \in {"next", "stop"} => k.op \in {"remove", "delete"} /\ k.team \in TcTeams /\ k.left \subseteq k.listed
    /\ k.at = "stop" => k.now \in k.left

\* The members a call has stopped have no runner any more, and keep their records.
TcStopped(k) ==
    \A m \in k.listed : tcMember[m].status # "none" /\ (m \in k.left \/ tcMember[m].runner = "gone")

TcCallsFit == \A c \in TcCallers : TcCallFits(tcCall[c]) /\ TcStopped(tcCall[c])

\* Who may name a team besides the call that makes it.
TcMentioned(t) ==
    \/ t = tcBound \/ t = tcContext
    \/ \E k \in DOMAIN tcQueue : tcQueue[k] = t
    \/ \E m \in TcMembers : tcMember[m].team = t
TcUnmade == \A t \in TcTeams : tcTeam[t] = "none" => ~TcMentioned(t) /\ \A c \in TcCallers : tcCall[c].team # t
TcFresh ==
    \A c \in TcCallers, t \in TcTeams : tcCall[c].at = "bind" /\ tcCall[c].team = t =>
        /\ tcTeam[t] = "active" /\ ~TcMentioned(t)
        /\ \A d \in TcCallers : tcCall[d].team = t => d = c

\* A deletion has listed every member of its team that came in time.
TcListed ==
    \A c \in TcCallers : tcCall[c].op = "delete" =>
        \A m \in TcMembers \ tcOdd : tcMember[m].status = "active" /\ tcMember[m].team = tcCall[c].team => m \in tcCall[c].listed

TcInd ==
    /\ TcTyped /\ TcCallsFit /\ TcUnmade /\ TcFresh /\ TcListed
    /\ ActiveIsBound /\ MembersAreServed /\ NamesAreUnique /\ LeaderIsTold

----
LEMMA TcNumbers == 0 \notin TcTeams /\ 0 \notin TcMembers /\ TcQueueMax \in Nat /\ "none" \notin TcNames
BY TcAssumption

\* What an update leaves in the queue, and that it does not mislead the leader by itself.
LEMMA TcQueues ==
    ASSUME NEW t \in TcNamed, TcTyped, QueueUpdate(t), t = 0 => tcBound' = 0
    PROVE  /\ tcQueue' \in Seq(TcNamed) /\ Len(tcQueue') <= TcQueueMax /\ tcMisled' \in BOOLEAN /\ LeaderIsTold'
           /\ \A k \in DOMAIN tcQueue' : tcQueue'[k] = t \/ \E l \in DOMAIN tcQueue : tcQueue[l] = tcQueue'[k]
<1>1. tcQueue \in Seq(TcNamed) /\ Len(tcQueue) < TcQueueMax /\ Len(tcQueue) \in Nat /\ tcOnline \in BOOLEAN
  BY DEF TcTyped, QueueUpdate
<1>2. tcMisled' = (~tcOnline \/ (t # 0 /\ t # tcBound')) BY DEF QueueUpdate
<1>3. CASE tcOnline
  <2>1. tcQueue' = Append(tcQueue, t) BY <1>3 DEF QueueUpdate
  <2>2. /\ Append(tcQueue, t) \in Seq(TcNamed) /\ Len(Append(tcQueue, t)) = Len(tcQueue) + 1
        /\ Append(tcQueue, t)[Len(tcQueue) + 1] = t
        /\ \A k \in 1 .. Len(tcQueue) : Append(tcQueue, t)[k] = tcQueue[k]
    BY <1>1
  <2>3. Len(tcQueue') = Len(tcQueue) + 1 /\ DOMAIN tcQueue' = 1 .. (Len(tcQueue) + 1) /\ DOMAIN tcQueue = 1 .. Len(tcQueue)
    BY <1>1, <2>1, <2>2
  <2>4. Len(tcQueue') <= TcQueueMax BY <1>1, <2>3, TcNumbers
  <2>5. \A k \in DOMAIN tcQueue' : tcQueue'[k] = t \/ \E l \in DOMAIN tcQueue : tcQueue[l] = tcQueue'[k]
    <3> SUFFICES ASSUME NEW k \in 1 .. (Len(tcQueue) + 1), k # Len(tcQueue) + 1
                 PROVE  k \in 1 .. Len(tcQueue)
      BY <2>1, <2>2, <2>3
    <3> QED BY <1>1
  <2>6. tcQueue' # <<>> BY <1>1, <2>3
  <2>7. Last(tcQueue') = t BY <2>1, <2>2, <2>3 DEF Last
  <2>8. LeaderIsTold' BY <1>2, <1>3, <2>6, <2>7 DEF LeaderIsTold
  <2> QED BY <1>2, <2>1, <2>2, <2>4, <2>5, <2>8
<1>4. CASE ~tcOnline
  <2>1. tcQueue' = tcQueue /\ tcMisled' BY <1>2, <1>4 DEF QueueUpdate
  <2>2. LeaderIsTold' BY <2>1 DEF LeaderIsTold
  <2>3. Len(tcQueue') <= TcQueueMax BY <1>1, <2>1, TcNumbers
  <2> QED BY <1>1, <1>2, <2>1, <2>2, <2>3
<1> QED BY <1>3, <1>4

\* A resolved team is active, and it is the bound one or the one the context names.
LEMMA TcResolves ==
    ASSUME TcInd, NEW hint \in Hints, Resolved(hint) # 0
    PROVE  /\ Resolved(hint) \in TcTeams /\ tcTeam[Resolved(hint)] = "active"
           /\ Resolved(hint) = tcBound \/ Resolved(hint) = tcContext
BY TcNumbers DEF Resolved, Hints, TcActive

\* The teams, the members and the calls stay as they are.
LEMMA TcStill ==
    ASSUME TcInd, UNCHANGED <<tcTeam, tcBound, tcMember, tcCall, tcLost, tcOdd>>, TcTyped', LeaderIsTold',
           \A t \in TcTeams : TcMentioned(t)' => TcMentioned(t)
    PROVE  TcInd'
<1>1. /\ TcCallsFit /\ TcUnmade /\ TcFresh /\ TcListed /\ ActiveIsBound /\ MembersAreServed /\ NamesAreUnique
  BY DEF TcInd
<1>2. TcCallsFit' BY <1>1 DEF TcCallsFit, TcCallFits, TcStopped
<1>3. TcUnmade' BY <1>1 DEF TcUnmade
<1>4. TcFresh'
  <2>1. \A c \in TcCallers : tcCall[c].at = "bind" => tcCall[c].team \in TcTeams
    BY <1>1 DEF TcCallsFit, TcCallFits
  <2> QED BY <1>1, <2>1 DEF TcFresh
<1>5. TcListed' BY <1>1 DEF TcListed
<1>6. ActiveIsBound' BY <1>1 DEF ActiveIsBound, TcActive
<1>7. MembersAreServed' BY <1>1 DEF MembersAreServed, TcActive
<1>8. NamesAreUnique' BY <1>1 DEF NamesAreUnique
<1> QED BY <1>2, <1>3, <1>4, <1>5, <1>6, <1>7, <1>8 DEF TcInd

LEMMA TcReuses == ASSUME TcInd, NEW c \in TcCallers, ReuseTeam(c) PROVE TcInd'
<1>1. TcTyped BY DEF TcInd
<1>2. /\ tcBound \in TcNamed /\ tcBound # 0 /\ QueueUpdate(tcBound)
      /\ UNCHANGED <<tcTeam, tcBound, tcMember, tcCall, tcOnline, tcContext, tcCrashed, tcLost, tcOdd>>
  BY <1>1, TcNumbers DEF ReuseTeam, TcTyped, TcActive, tcGhosts
<1>3. /\ tcQueue' \in Seq(TcNamed) /\ Len(tcQueue') <= TcQueueMax /\ tcMisled' \in BOOLEAN /\ LeaderIsTold'
      /\ \A k \in DOMAIN tcQueue' : tcQueue'[k] = tcBound \/ \E l \in DOMAIN tcQueue : tcQueue[l] = tcQueue'[k]
  BY <1>1, <1>2, TcQueues
<1>4. TcTyped' BY <1>1, <1>2, <1>3 DEF TcTyped
<1>5. \A t \in TcTeams : TcMentioned(t)' => TcMentioned(t) BY <1>2, <1>3 DEF TcMentioned
<1> QED BY <1>2, <1>3, <1>4, <1>5, TcStill

LEMMA TcEmpty == \A q \in Seq(TcNamed) : Len(q) = 0 <=> q = <<>>
OBVIOUS

LEMMA TcApplies == ASSUME TcInd, ApplyUpdate PROVE TcInd'
<1>1. TcTyped /\ LeaderIsTold BY DEF TcInd
<1>2. /\ tcQueue # <<>> /\ tcContext' = Head(tcQueue) /\ tcQueue' = Tail(tcQueue)
      /\ UNCHANGED <<tcTeam, tcBound, tcMember, tcCall, tcOnline, tcCrashed, tcLost, tcOdd, tcMisled>>
  BY DEF ApplyUpdate, tcGhosts
<1>3. tcQueue \in Seq(TcNamed) BY <1>1 DEF TcTyped
<1>4. /\ Len(tcQueue) \in Nat /\ Len(tcQueue) > 0 /\ Head(tcQueue) = tcQueue[1] /\ tcQueue[1] \in TcNamed
      /\ Tail(tcQueue) \in Seq(TcNamed) /\ Len(Tail(tcQueue)) = Len(tcQueue) - 1
      /\ \A k \in 1 .. (Len(tcQueue) - 1) : Tail(tcQueue)[k] = tcQueue[k + 1]
  BY <1>2, <1>3
<1>5. DOMAIN tcQueue = 1 .. Len(tcQueue) /\ DOMAIN Tail(tcQueue) = 1 .. (Len(tcQueue) - 1) BY <1>3, <1>4
<1>6. TcTyped'
  <2>1. Len(tcQueue') <= TcQueueMax BY <1>1, <1>2, <1>4, TcNumbers DEF TcTyped
  <2> QED BY <1>1, <1>2, <1>4, <2>1 DEF TcTyped
<1>7. \A t \in TcTeams : TcMentioned(t)' => TcMentioned(t)
  <2>1. \A k \in DOMAIN tcQueue' : \E l \in DOMAIN tcQueue : tcQueue[l] = tcQueue'[k]
    <3> SUFFICES ASSUME NEW k \in 1 .. (Len(tcQueue) - 1) PROVE k + 1 \in 1 .. Len(tcQueue)
      BY <1>2, <1>4, <1>5
    <3> QED BY <1>4
  <2>2. \E l \in DOMAIN tcQueue : tcQueue[l] = tcContext'
    <3>1. 1 \in DOMAIN tcQueue BY <1>4, <1>5
    <3> QED BY <1>2, <1>4, <3>1
  <2> QED BY <1>2, <2>1, <2>2 DEF TcMentioned
<1>8. LeaderIsTold'
  <2>1. CASE Len(tcQueue) = 1
    <3>0. PICK q : q = Tail(tcQueue) OBVIOUS
    <3>1. q \in Seq(TcNamed) /\ Len(q) = 0 BY <1>4, <2>1, <3>0
    <3>4. q = <<>> BY <3>1, TcEmpty
    <3>2. Last(tcQueue) = tcQueue[1] BY <2>1 DEF Last
    <3> QED BY <1>1, <1>2, <1>4, <3>0, <3>4, <3>2 DEF LeaderIsTold
  <2>2. CASE Len(tcQueue) # 1
    <3>0. PICK q : q = Tail(tcQueue) OBVIOUS
    <3>1. q \in Seq(TcNamed) /\ Len(q) # 0 BY <1>4, <2>2, <3>0
    <3>4. q # <<>> BY <3>1, TcEmpty
    <3>2. Last(Tail(tcQueue)) = Last(tcQueue)
      <4>1. Len(tcQueue) - 1 \in 1 .. (Len(tcQueue) - 1) /\ (Len(tcQueue) - 1) + 1 = Len(tcQueue) BY <1>4, <2>2
      <4>2. Tail(tcQueue)[Len(tcQueue) - 1] = tcQueue[Len(tcQueue)] BY <1>4, <4>1
      <4> QED BY <1>4, <4>2 DEF Last
    <3> QED BY <1>1, <1>2, <3>0, <3>4, <3>2 DEF LeaderIsTold
  <2> QED BY <2>1, <2>2
<1> QED BY <1>2, <1>6, <1>7, <1>8, TcStill

LEMMA TcSession == ASSUME TcInd, SessionCloses \/ SessionOpens PROVE TcInd'
<1>1. TcTyped /\ LeaderIsTold BY DEF TcInd
<1>2. /\ UNCHANGED <<tcTeam, tcBound, tcMember, tcCall, tcContext, tcCrashed, tcLost, tcOdd>>
      /\ \/ tcQueue' = <<>> /\ tcMisled' = TRUE /\ tcOnline' = tcOnline
         \/ tcQueue' = tcQueue /\ tcMisled' = tcMisled /\ tcOnline' = TRUE
  BY DEF SessionCloses, SessionOpens, tcGhosts
<1>3. <<>> \in Seq(TcNamed) /\ Len(<<>>) = 0 OBVIOUS
<1>4. TcTyped'
  <2>1. CASE tcQueue' = <<>> /\ tcMisled' = TRUE /\ tcOnline' = tcOnline
    <3>1. Len(tcQueue') <= TcQueueMax BY <1>3, <2>1, TcNumbers
    <3> QED BY <1>1, <1>2, <1>3, <2>1, <3>1 DEF TcTyped
  <2>2. CASE tcQueue' = tcQueue /\ tcMisled' = tcMisled /\ tcOnline' = TRUE BY <1>1, <1>2, <2>2 DEF TcTyped
  <2> QED BY <1>2, <2>1, <2>2
<1>5. DOMAIN <<>> = {} OBVIOUS
<1>6. \A t \in TcTeams : TcMentioned(t)' => TcMentioned(t) BY <1>2, <1>5 DEF TcMentioned
<1>7. LeaderIsTold' BY <1>1, <1>2 DEF LeaderIsTold
<1> QED BY <1>2, <1>4, <1>6, <1>7, TcStill

----
LEMMA TcNoCallFits == /\ NoCall \in TcCallRecords /\ TcCallFits(NoCall) /\ TcStopped(NoCall)
                      /\ NoCall.op = "none" /\ NoCall.at = "idle" /\ NoCall.team = 0 /\ NoCall.listed = {}
BY DEF NoCall, TcCallRecords, TcNamed, TcCallFits, TcStopped

\* One call moves on, among teams and members that stay as they are.
LEMMA TcCallMoves ==
    ASSUME TcInd, NEW c \in TcCallers, NEW k \in TcCallRecords, tcCall' = [tcCall EXCEPT ![c] = k],
           UNCHANGED <<tcTeam, tcBound, tcMember, tcLost>>, tcOdd \subseteq tcOdd', TcTyped', LeaderIsTold',
           TcCallFits(k), TcStopped(k), k.at # "bind", tcCall[c].at # "bind",
           k.team = 0 \/ TcMentioned(k.team),
           tcCall[c].listed \subseteq k.listed \cup tcOdd',
           k.op = "delete" => \A m \in TcMembers \ tcOdd' : tcMember[m].status = "active" /\ tcMember[m].team = k.team => m \in k.listed,
           \A t \in TcTeams : TcMentioned(t)' => TcMentioned(t) \/ t = tcCall[c].team
    PROVE  TcInd'
<1>1. /\ TcTyped /\ TcCallsFit /\ TcUnmade /\ TcFresh /\ TcListed /\ ActiveIsBound /\ MembersAreServed /\ NamesAreUnique
  BY DEF TcInd
<1>2. tcCall \in [TcCallers -> TcCallRecords] BY <1>1 DEF TcTyped
<1>3. tcCall'[c] = k /\ \A d \in TcCallers : d # c => tcCall'[d] = tcCall[d] BY <1>2
<1>4. PICK old : old = tcCall[c] OBVIOUS
<1>5. TcCallsFit'
  <2>1. \A d \in TcCallers : TcCallFits(tcCall'[d]) /\ TcStopped(tcCall'[d]) BY <1>1, <1>3 DEF TcCallsFit
  <2> QED BY <2>1 DEF TcCallsFit, TcCallFits, TcStopped
<1>6. TcUnmade'
  <2> SUFFICES ASSUME NEW t \in TcTeams, tcTeam[t] = "none"
               PROVE  ~TcMentioned(t)' /\ \A d \in TcCallers : tcCall'[d].team # t
    BY DEF TcUnmade
  <2>1. ~TcMentioned(t) /\ \A d \in TcCallers : tcCall[d].team # t BY <1>1 DEF TcUnmade
  <2>2. ~TcMentioned(t)' BY <2>1
  <2>3. k.team # t BY <2>1, TcNumbers
  <2> QED BY <1>3, <2>1, <2>2, <2>3
<1>7. TcFresh'
  <2> SUFFICES ASSUME NEW d \in TcCallers, NEW u \in TcTeams, tcCall'[d].at = "bind", tcCall'[d].team = u
               PROVE  /\ tcTeam[u] = "active" /\ ~TcMentioned(u)'
                      /\ \A e \in TcCallers : tcCall'[e].team = u => e = d
    BY DEF TcFresh
  <2>1. d # c /\ tcCall'[d] = tcCall[d] BY <1>3
  <2>2. u = tcCall[d].team BY <2>1
  <2>3. u \in TcTeams BY <1>1, <2>1, <2>2 DEF TcCallsFit, TcCallFits
  <2>4. tcTeam[u] = "active" /\ ~TcMentioned(u) /\ \A e \in TcCallers : tcCall[e].team = u => e = d
    BY <1>1, <2>1, <2>2 DEF TcFresh
  <2>5. ~TcMentioned(u)' BY <2>1, <2>3, <2>4
  <2>6. k.team # u BY <2>3, <2>4, TcNumbers
  <2>7. \A e \in TcCallers : tcCall'[e].team = u => e = d BY <1>3, <2>4, <2>6
  <2> QED BY <2>1, <2>2, <2>4, <2>5, <2>7 DEF TcMentioned
<1>8. TcListed'
  <2> SUFFICES ASSUME NEW d \in TcCallers, tcCall'[d].op = "delete", NEW m \in TcMembers \ tcOdd',
                      tcMember[m].status = "active", tcMember[m].team = tcCall'[d].team
               PROVE  m \in tcCall'[d].listed
    BY DEF TcListed
  <2>1. m \in TcMembers \ tcOdd OBVIOUS
  <2>2. CASE d = c BY <1>3, <2>2
  <2>3. CASE d # c BY <1>1, <1>3, <2>1, <2>3 DEF TcListed
  <2> QED BY <2>2, <2>3
<1>9. ActiveIsBound'
  <2>1. \A d \in TcCallers : tcCall[d].at = "bind" => tcCall'[d] = tcCall[d] BY <1>3
  <2> QED BY <1>1, <2>1 DEF ActiveIsBound, TcActive
<1>10. MembersAreServed'
  <2>1. \A d \in TcCallers, m \in TcMembers \ tcOdd' : m \in tcCall[d].listed => m \in tcCall'[d].listed BY <1>3
  <2>2. TcMembers \ tcOdd' \subseteq TcMembers \ tcOdd OBVIOUS
  <2> QED BY <1>1, <2>1, <2>2 DEF MembersAreServed, TcActive
<1>11. NamesAreUnique' BY <1>1 DEF NamesAreUnique
<1> QED BY <1>5, <1>6, <1>7, <1>8, <1>9, <1>10, <1>11 DEF TcInd

LEMMA TcTells == ASSUME TcInd, NEW c \in TcCallers, TellLeader(c) PROVE TcInd'
<1>1. TcTyped /\ TcCallsFit BY DEF TcInd
<1>2. PICK t : t = tcCall[c].team OBVIOUS
<1>3. /\ tcCall[c].at = "said" /\ tcCall' = [tcCall EXCEPT ![c] = NoCall] /\ QueueUpdate(t)
      /\ UNCHANGED <<tcTeam, tcBound, tcMember, tcOnline, tcContext, tcCrashed, tcLost, tcOdd>>
  BY <1>2 DEF TellLeader, EndsCall, tcGhosts
<1>4. t \in TcTeams /\ tcCall[c].listed = {} BY <1>1, <1>2, <1>3 DEF TcCallsFit, TcCallFits
<1>5. t \in TcNamed /\ t # 0 BY <1>4, TcNumbers DEF TcNamed
<1>6. /\ tcQueue' \in Seq(TcNamed) /\ Len(tcQueue') <= TcQueueMax /\ tcMisled' \in BOOLEAN /\ LeaderIsTold'
      /\ \A k \in DOMAIN tcQueue' : tcQueue'[k] = t \/ \E l \in DOMAIN tcQueue : tcQueue[l] = tcQueue'[k]
  BY <1>1, <1>3, <1>5, TcQueues
<1>7. tcCall' \in [TcCallers -> TcCallRecords] BY <1>1, <1>3, TcNoCallFits DEF TcTyped
<1>8. TcTyped' BY <1>1, <1>3, <1>6, <1>7 DEF TcTyped
<1>9. \A u \in TcTeams : TcMentioned(u)' => TcMentioned(u) \/ u = tcCall[c].team BY <1>2, <1>3, <1>6 DEF TcMentioned
<1>10. tcOdd \subseteq tcOdd' /\ tcCall[c].listed \subseteq NoCall.listed \cup tcOdd' BY <1>3, <1>4
<1> QED BY <1>3, <1>6, <1>8, <1>9, <1>10, TcNoCallFits, TcCallMoves

LEMMA TcCuts == ASSUME TcInd, NEW c \in TcCallers, CallCut(c) PROVE TcInd'
<1>1. TcTyped /\ LeaderIsTold BY DEF TcInd
<1>2. PICK k : k = tcCall[c] OBVIOUS
<1>3. /\ k.at \in {"said", "next", "stop"} /\ tcCall' = [tcCall EXCEPT ![c] = NoCall] /\ tcOdd' = tcOdd \cup k.listed
      /\ UNCHANGED <<tcTeam, tcBound, tcMember, tcOnline, tcQueue, tcContext, tcCrashed, tcLost, tcMisled>>
  BY <1>2 DEF CallCut, EndsCall
<1>4. k \in TcCallRecords BY <1>1, <1>2 DEF TcTyped
<1>5. k.listed \subseteq TcMembers BY <1>4 DEF TcCallRecords
<1>6. tcCall' \in [TcCallers -> TcCallRecords] BY <1>1, <1>3, TcNoCallFits DEF TcTyped
<1>7. TcTyped' BY <1>1, <1>3, <1>5, <1>6 DEF TcTyped
<1>8. LeaderIsTold' BY <1>1, <1>3 DEF LeaderIsTold
<1>9. \A u \in TcTeams : TcMentioned(u)' => TcMentioned(u) \/ u = tcCall[c].team BY <1>3 DEF TcMentioned
<1>10. /\ tcOdd \subseteq tcOdd' /\ tcCall[c].listed \subseteq NoCall.listed \cup tcOdd' /\ tcCall[c].at # "bind"
       /\ UNCHANGED <<tcTeam, tcBound, tcMember, tcLost>>
  BY <1>2, <1>3
<1> QED BY <1>3, <1>7, <1>8, <1>9, <1>10, TcNoCallFits, TcCallMoves

LEMMA TcRemoves ==
    ASSUME TcInd, NEW c \in TcCallers, NEW hint \in Hints,
           DeleteTeam(c, hint) \/ \E m \in TcMembers : RemoveMember(c, hint, m)
    PROVE  TcInd'
<1>1. TcTyped /\ LeaderIsTold /\ TcCallsFit BY DEF TcInd
<1>2. PICK t : t = Resolved(hint) OBVIOUS
<1>3. PICK op, listed :
        /\ op \in {"remove", "delete"} /\ listed \subseteq MembersOf(t) /\ (op = "delete" => listed = MembersOf(t))
        /\ tcCall' = [tcCall EXCEPT ![c] = [op |-> op, at |-> "next", team |-> t, now |-> 0, left |-> listed, listed |-> listed]]
  <2>1. CASE DeleteTeam(c, hint) BY <1>2, <2>1 DEF DeleteTeam
  <2>2. ASSUME NEW m \in TcMembers, RemoveMember(c, hint, m)
        PROVE  \E op, listed :
                 /\ op \in {"remove", "delete"} /\ listed \subseteq MembersOf(t) /\ (op = "delete" => listed = MembersOf(t))
                 /\ tcCall' = [tcCall EXCEPT ![c] = [op |-> op, at |-> "next", team |-> t, now |-> 0, left |-> listed, listed |-> listed]]
    <3>1. {m} \subseteq MembersOf(t) /\ "remove" \in {"remove", "delete"} BY <1>2, <2>2 DEF RemoveMember
    <3>2. tcCall' = [tcCall EXCEPT ![c] = [op |-> "remove", at |-> "next", team |-> t, now |-> 0, left |-> {m}, listed |-> {m}]]
      BY <1>2, <2>2 DEF RemoveMember
    <3> QED BY <3>1, <3>2
  <2> QED BY <2>1, <2>2
<1>4. PICK k : k = [op |-> op, at |-> "next", team |-> t, now |-> 0, left |-> listed, listed |-> listed] OBVIOUS
<1>5. /\ tcCall' = [tcCall EXCEPT ![c] = k] /\ tcCall[c].at = "idle" /\ t # 0
      /\ UNCHANGED <<tcTeam, tcBound, tcMember, tcOnline, tcQueue, tcContext, tcCrashed, tcLost, tcOdd, tcMisled>>
  BY <1>2, <1>3, <1>4 DEF DeleteTeam, RemoveMember, Free, tcGhosts
<1>6. t \in TcTeams /\ (t = tcBound \/ t = tcContext) BY <1>2, <1>5, TcResolves
<1>7. /\ listed \subseteq TcMembers
      /\ \A m \in listed : tcMember[m].status = "active" /\ tcMember[m].team = t
      /\ op = "delete" => \A m \in TcMembers : tcMember[m].status = "active" /\ tcMember[m].team = t => m \in listed
  BY <1>3 DEF MembersOf
<1>8. k.op = op /\ k.at = "next" /\ k.team = t /\ k.left = listed /\ k.listed = listed BY <1>4
<1>9. k \in TcCallRecords BY <1>3, <1>4, <1>6, <1>7 DEF TcCallRecords, TcNamed
<1>10. TcCallFits(k) /\ TcStopped(k) BY <1>3, <1>6, <1>7, <1>8 DEF TcCallFits, TcStopped
<1>11. tcCall' \in [TcCallers -> TcCallRecords] BY <1>1, <1>5, <1>9 DEF TcTyped
<1>12. TcTyped' BY <1>1, <1>5, <1>11 DEF TcTyped
<1>13. LeaderIsTold' BY <1>1, <1>5 DEF LeaderIsTold
<1>14. \A u \in TcTeams : TcMentioned(u)' => TcMentioned(u) \/ u = tcCall[c].team BY <1>5 DEF TcMentioned
<1>15. tcCall[c].listed = {} BY <1>1, <1>5, TcNoCallFits DEF TcCallsFit, TcCallFits
<1>16. TcMentioned(k.team) BY <1>6, <1>8 DEF TcMentioned
<1>17. k.op = "delete" => \A m \in TcMembers \ tcOdd' : tcMember[m].status = "active" /\ tcMember[m].team = k.team => m \in k.listed
  BY <1>7, <1>8
<1>18. tcOdd \subseteq tcOdd' /\ tcCall[c].listed \subseteq k.listed \cup tcOdd' /\ k.at # "bind" /\ tcCall[c].at # "bind"
  BY <1>5, <1>8, <1>15
<1> QED BY <1>5, <1>9, <1>10, <1>12, <1>13, <1>14, <1>16, <1>17, <1>18, TcCallMoves

\* The leader's session gets a team of its own.
LEMMA TcCreates == ASSUME TcInd, NEW c \in TcCallers, CreateTeam(c) PROVE TcInd'
<1>1. /\ TcTyped /\ TcCallsFit /\ TcUnmade /\ TcFresh /\ TcListed /\ ActiveIsBound /\ MembersAreServed /\ NamesAreUnique
      /\ LeaderIsTold
  BY DEF TcInd
<1>2. PICK t \in TcTeams : tcTeam[t] = "none" /\ WriteTeam(c, t) BY DEF CreateTeam
<1>3. PICK k : k = [NoCall EXCEPT !.op = "create", !.at = "bind", !.team = t] OBVIOUS
<1>4. /\ tcTeam' = [tcTeam EXCEPT ![t] = "active"] /\ tcCall' = [tcCall EXCEPT ![c] = k]
      /\ tcCall[c].at = "idle" /\ ~TcActive(tcBound) /\ tcBound' = 0
      /\ UNCHANGED <<tcMember, tcOnline, tcQueue, tcContext, tcCrashed, tcLost, tcOdd, tcMisled>>
  BY <1>2, <1>3 DEF CreateTeam, WriteTeam, Free, tcGhosts
<1>5. k.op = "create" /\ k.at = "bind" /\ k.team = t /\ k.listed = {} /\ k.left = {} BY <1>3 DEF NoCall
<1>6. k \in TcCallRecords BY <1>3 DEF NoCall, TcCallRecords, TcNamed
<1>7. tcCall \in [TcCallers -> TcCallRecords] /\ tcTeam \in [TcTeams -> {"none", "active", "deleted", "gone"}]
  BY <1>1 DEF TcTyped
<1>8. tcCall'[c] = k /\ \A d \in TcCallers : d # c => tcCall'[d] = tcCall[d] BY <1>4, <1>7
<1>9. tcTeam'[t] = "active" /\ \A u \in TcTeams : u # t => tcTeam'[u] = tcTeam[u] BY <1>4, <1>7
<1>10. tcCall[c].listed = {} /\ tcCall[c].op = "none" BY <1>1, <1>4, TcNoCallFits DEF TcCallsFit, TcCallFits
<1>11. ~TcMentioned(t) /\ \A d \in TcCallers : tcCall[d].team # t BY <1>1, <1>2 DEF TcUnmade
<1>12. \A u \in TcTeams : TcMentioned(u)' => TcMentioned(u) BY <1>4, TcNumbers DEF TcMentioned
<1>13. TcTyped'
  <2>1. tcCall' \in [TcCallers -> TcCallRecords] /\ tcTeam' \in [TcTeams -> {"none", "active", "deleted", "gone"}]
    BY <1>4, <1>6, <1>7
  <2> QED BY <1>1, <1>4, <2>1 DEF TcTyped, TcNamed
<1>14. TcCallsFit'
  <2>1. TcCallFits(k) /\ TcStopped(k) BY <1>5 DEF TcCallFits, TcStopped
  <2>2. \A d \in TcCallers : TcCallFits(tcCall'[d]) /\ TcStopped(tcCall'[d]) BY <1>1, <1>8, <2>1 DEF TcCallsFit
  <2> QED BY <1>4, <2>2 DEF TcCallsFit, TcCallFits, TcStopped
<1>15. TcUnmade'
  <2>1. \A u \in TcTeams : tcTeam'[u] = "none" => u # t /\ tcTeam[u] = "none" BY <1>9
  <2> QED BY <1>1, <1>5, <1>8, <1>12, <2>1 DEF TcUnmade
<1>16. TcFresh'
  <2> SUFFICES ASSUME NEW d \in TcCallers, NEW u \in TcTeams, tcCall'[d].at = "bind", tcCall'[d].team = u
               PROVE  /\ tcTeam'[u] = "active" /\ ~TcMentioned(u)'
                      /\ \A e \in TcCallers : tcCall'[e].team = u => e = d
    BY DEF TcFresh
  <2>1. CASE d = c
    <3>1. u = t BY <1>5, <1>8, <2>1
    <3>2. ~TcMentioned(t)' BY <1>11, <1>12
    <3>3. \A e \in TcCallers : tcCall'[e].team = t => e = d BY <1>8, <1>11, <2>1
    <3> QED BY <1>9, <3>1, <3>2, <3>3 DEF TcMentioned
  <2>2. CASE d # c
    <3>1. u = tcCall[d].team BY <1>8, <2>2
    <3>2. tcCall'[d] = tcCall[d] /\ u # t BY <1>8, <1>11, <2>2, <3>1
    <3>3. u \in TcTeams BY <1>1, <3>1, <3>2 DEF TcCallsFit, TcCallFits
    <3>4. tcTeam[u] = "active" /\ ~TcMentioned(u) /\ \A e \in TcCallers : tcCall[e].team = u => e = d
      BY <1>1, <3>1, <3>2 DEF TcFresh
    <3>5. ~TcMentioned(u)' BY <1>12, <3>3, <3>4
    <3>6. \A e \in TcCallers : tcCall'[e].team = u => e = d BY <1>5, <1>8, <3>2, <3>4
    <3> QED BY <1>9, <3>1, <3>2, <3>3, <3>4, <3>5, <3>6 DEF TcMentioned
  <2> QED BY <2>1, <2>2
<1>17. TcListed'
  <2>1. \A d \in TcCallers : tcCall'[d].op = "delete" => tcCall'[d] = tcCall[d] BY <1>5, <1>8
  <2> QED BY <1>1, <1>4, <2>1 DEF TcListed
<1>18. ActiveIsBound'
  <2>1. \A d \in TcCallers : tcCall[d].at = "bind" => tcCall'[d] = tcCall[d] BY <1>4, <1>8
  <2>2. \A u \in TcTeams : tcTeam'[u] = "active" => u = t \/ tcTeam[u] = "active" BY <1>9
  <2> QED BY <1>1, <1>4, <1>5, <1>8, <2>1, <2>2 DEF ActiveIsBound, TcActive
<1>19. MembersAreServed'
  <2>1. \A d \in TcCallers : tcCall[d].listed \subseteq tcCall'[d].listed BY <1>8, <1>10
  <2>2. \A u \in TcTeams : tcTeam[u] = "active" => tcTeam'[u] = "active" BY <1>9
  <2> QED BY <1>1, <1>4, <2>1, <2>2 DEF MembersAreServed, TcActive
<1>20. NamesAreUnique' BY <1>1, <1>4 DEF NamesAreUnique
<1>21. LeaderIsTold'
  <2>1. tcBound = 0 \/ tcLost # {} BY <1>1, <1>4 DEF ActiveIsBound
  <2> QED BY <1>1, <1>4, <2>1 DEF LeaderIsTold
<1> QED BY <1>13, <1>14, <1>15, <1>16, <1>17, <1>18, <1>19, <1>20, <1>21 DEF TcInd

\* The leader's session is bound to the team that was made for it.
LEMMA TcBinds == ASSUME TcInd, NEW c \in TcCallers, BindLeader(c) PROVE TcInd'
<1>1. /\ TcTyped /\ TcCallsFit /\ TcUnmade /\ TcFresh /\ TcListed /\ ActiveIsBound /\ MembersAreServed /\ NamesAreUnique
  BY DEF TcInd
<1>2. PICK t : t = tcCall[c].team OBVIOUS
<1>3. PICK k : k = [tcCall[c] EXCEPT !.at = "said"] OBVIOUS
<1>4. /\ tcCall[c].at = "bind" /\ tcBound = 0 /\ tcBound' = t /\ tcCall' = [tcCall EXCEPT ![c] = k] /\ tcMisled' = TRUE
      /\ UNCHANGED <<tcTeam, tcMember, tcOnline, tcQueue, tcContext, tcCrashed, tcLost, tcOdd>>
  BY <1>2, <1>3 DEF BindLeader, tcGhosts
<1>5. tcCall \in [TcCallers -> TcCallRecords] /\ tcCall[c] \in TcCallRecords BY <1>1 DEF TcTyped
<1>6. t \in TcTeams /\ tcCall[c].listed = {} /\ tcCall[c].op = "create" BY <1>1, <1>2, <1>4 DEF TcCallsFit, TcCallFits
<1>7. k \in TcCallRecords /\ k.op = "create" /\ k.at = "said" /\ k.team = t /\ k.listed = {}
  BY <1>2, <1>3, <1>5, <1>6 DEF TcCallRecords
<1>8. tcCall'[c] = k /\ \A d \in TcCallers : d # c => tcCall'[d] = tcCall[d] BY <1>4, <1>5
<1>9. tcTeam[t] = "active" /\ \A d \in TcCallers : tcCall[d].team = t => d = c BY <1>1, <1>2, <1>4, <1>6 DEF TcFresh
<1>10. \A u \in TcTeams : TcMentioned(u)' => TcMentioned(u) \/ u = t BY <1>4 DEF TcMentioned
<1>11. TcTyped'
  <2>1. tcCall' \in [TcCallers -> TcCallRecords] BY <1>4, <1>5, <1>7
  <2> QED BY <1>1, <1>4, <1>6, <2>1 DEF TcTyped, TcNamed
<1>12. TcCallsFit'
  <2>1. TcCallFits(k) /\ TcStopped(k) BY <1>6, <1>7 DEF TcCallFits, TcStopped
  <2>2. \A d \in TcCallers : TcCallFits(tcCall'[d]) /\ TcStopped(tcCall'[d]) BY <1>1, <1>8, <2>1 DEF TcCallsFit
  <2> QED BY <1>4, <2>2 DEF TcCallsFit, TcCallFits, TcStopped
<1>13. TcUnmade'
  <2> SUFFICES ASSUME NEW u \in TcTeams, tcTeam[u] = "none"
               PROVE  ~TcMentioned(u)' /\ \A d \in TcCallers : tcCall'[d].team # u
    BY <1>4 DEF TcUnmade
  <2>1. ~TcMentioned(u) /\ u # t /\ \A d \in TcCallers : tcCall[d].team # u BY <1>1, <1>9 DEF TcUnmade
  <2> QED BY <1>7, <1>8, <1>10, <2>1
<1>14. TcFresh'
  <2> SUFFICES ASSUME NEW d \in TcCallers, NEW u \in TcTeams, tcCall'[d].at = "bind", tcCall'[d].team = u
               PROVE  /\ tcTeam'[u] = "active" /\ ~TcMentioned(u)'
                      /\ \A e \in TcCallers : tcCall'[e].team = u => e = d
    BY DEF TcFresh
  <2>1. d # c /\ tcCall'[d] = tcCall[d] BY <1>7, <1>8
  <2>2. u = tcCall[d].team BY <2>1
  <2>3. u \in TcTeams /\ u # t BY <1>1, <1>9, <2>1, <2>2 DEF TcCallsFit, TcCallFits
  <2>4. tcTeam[u] = "active" /\ ~TcMentioned(u) /\ \A e \in TcCallers : tcCall[e].team = u => e = d
    BY <1>1, <2>1, <2>2 DEF TcFresh
  <2>5. ~TcMentioned(u)' BY <1>10, <2>3, <2>4
  <2>6. \A e \in TcCallers : tcCall'[e].team = u => e = d BY <1>7, <1>8, <2>3, <2>4
  <2> QED BY <1>4, <2>1, <2>2, <2>4, <2>5, <2>6 DEF TcMentioned
<1>15. TcListed'
  <2>1. \A d \in TcCallers : tcCall'[d].op = "delete" => tcCall'[d] = tcCall[d] BY <1>7, <1>8
  <2> QED BY <1>1, <1>4, <2>1 DEF TcListed
<1>16. ActiveIsBound'
  <2>1. \A d \in TcCallers : tcCall[d].at = "bind" => tcCall[d].team = t \/ tcCall'[d] = tcCall[d] BY <1>2, <1>8
  <2>2. \A u \in TcTeams : tcTeam[u] = "active" => \/ u = t \/ u \in tcLost
                                                   \/ \E d \in TcCallers : tcCall'[d].at = "bind" /\ tcCall'[d].team = u
    BY <1>1, <1>4, <2>1, TcNumbers DEF ActiveIsBound, TcActive
  <2> QED BY <1>4, <1>6, <1>9, <2>2 DEF ActiveIsBound, TcActive
<1>17. MembersAreServed'
  <2>1. \A d \in TcCallers : tcCall[d].listed \subseteq tcCall'[d].listed BY <1>6, <1>8
  <2> QED BY <1>1, <1>4, <2>1 DEF MembersAreServed, TcActive
<1>18. NamesAreUnique' BY <1>1, <1>4 DEF NamesAreUnique
<1>19. LeaderIsTold' BY <1>4 DEF LeaderIsTold
<1> QED BY <1>11, <1>12, <1>13, <1>14, <1>15, <1>16, <1>17, <1>18, <1>19 DEF TcInd

\* A creation that comes too late takes its files and the binding away.
LEMMA TcBindFails == ASSUME TcInd, NEW c \in TcCallers, BindFails(c) PROVE TcInd'
<1>1. /\ TcTyped /\ TcCallsFit /\ TcUnmade /\ TcFresh /\ TcListed /\ ActiveIsBound /\ MembersAreServed /\ NamesAreUnique
  BY DEF TcInd
<1>2. PICK t : t = tcCall[c].team OBVIOUS
<1>3. /\ tcCall[c].at = "bind" /\ tcBound # 0 /\ tcBound' = 0 /\ tcLost' = tcLost \cup {tcBound} /\ tcMisled' = TRUE
      /\ tcTeam' = [tcTeam EXCEPT ![t] = "gone"] /\ tcCall' = [tcCall EXCEPT ![c] = NoCall]
      /\ UNCHANGED <<tcMember, tcOnline, tcQueue, tcContext, tcCrashed, tcOdd>>
  BY <1>2 DEF BindFails, Undone, EndsCall
<1>4. tcCall \in [TcCallers -> TcCallRecords] /\ tcTeam \in [TcTeams -> {"none", "active", "deleted", "gone"}] BY <1>1 DEF TcTyped
<1>5. t \in TcTeams /\ tcCall[c].listed = {} /\ tcCall[c].op = "create" BY <1>1, <1>2, <1>3 DEF TcCallsFit, TcCallFits
<1>6. tcCall'[c] = NoCall /\ \A d \in TcCallers : d # c => tcCall'[d] = tcCall[d] BY <1>3, <1>4
<1>7. tcTeam'[t] = "gone" /\ \A u \in TcTeams : u # t => tcTeam'[u] = tcTeam[u] BY <1>3, <1>4, <1>5
<1>8. ~TcMentioned(t) /\ \A d \in TcCallers : tcCall[d].team = t => d = c BY <1>1, <1>2, <1>3, <1>5 DEF TcFresh
<1>9. \A u \in TcTeams : TcMentioned(u)' => TcMentioned(u) BY <1>3, TcNumbers DEF TcMentioned
<1>10. TcTyped'
  <2>1. tcCall' \in [TcCallers -> TcCallRecords] BY <1>3, <1>4, TcNoCallFits
  <2>2. tcTeam' \in [TcTeams -> {"none", "active", "deleted", "gone"}] BY <1>3, <1>4
  <2>3. tcLost' \subseteq TcTeams BY <1>1, <1>3 DEF TcTyped, TcNamed
  <2> QED BY <1>1, <1>3, <2>1, <2>2, <2>3 DEF TcTyped, TcNamed
<1>11. TcCallsFit'
  <2>1. \A d \in TcCallers : TcCallFits(tcCall'[d]) /\ TcStopped(tcCall'[d]) BY <1>1, <1>6, TcNoCallFits DEF TcCallsFit
  <2> QED BY <1>3, <2>1 DEF TcCallsFit, TcCallFits, TcStopped
<1>12. TcUnmade'
  <2> SUFFICES ASSUME NEW u \in TcTeams, tcTeam'[u] = "none"
               PROVE  ~TcMentioned(u)' /\ \A d \in TcCallers : tcCall'[d].team # u
    BY DEF TcUnmade
  <2>1. tcTeam[u] = "none" BY <1>7
  <2>2. ~TcMentioned(u) /\ \A d \in TcCallers : tcCall[d].team # u BY <1>1, <2>1 DEF TcUnmade
  <2> QED BY <1>6, <1>9, <2>2, TcNumbers, TcNoCallFits
<1>13. TcFresh'
  <2> SUFFICES ASSUME NEW d \in TcCallers, NEW u \in TcTeams, tcCall'[d].at = "bind", tcCall'[d].team = u
               PROVE  /\ tcTeam'[u] = "active" /\ ~TcMentioned(u)'
                      /\ \A e \in TcCallers : tcCall'[e].team = u => e = d
    BY DEF TcFresh
  <2>1. d # c /\ tcCall'[d] = tcCall[d] BY <1>6, TcNoCallFits
  <2>2. u = tcCall[d].team BY <2>1
  <2>3. u \in TcTeams /\ u # t BY <1>1, <1>8, <2>1, <2>2 DEF TcCallsFit, TcCallFits
  <2>4. tcTeam[u] = "active" /\ ~TcMentioned(u) /\ \A e \in TcCallers : tcCall[e].team = u => e = d
    BY <1>1, <2>1, <2>2 DEF TcFresh
  <2>5. ~TcMentioned(u)' BY <1>9, <2>3, <2>4
  <2>6. \A e \in TcCallers : tcCall'[e].team = u => e = d BY <1>6, <2>3, <2>4, TcNumbers, TcNoCallFits
  <2> QED BY <1>7, <2>1, <2>2, <2>3, <2>4, <2>5, <2>6 DEF TcMentioned
<1>14. TcListed'
  <2>1. \A d \in TcCallers : tcCall'[d].op = "delete" => tcCall'[d] = tcCall[d] BY <1>6, TcNoCallFits
  <2> QED BY <1>1, <1>3, <2>1 DEF TcListed
<1>15. ActiveIsBound'
  <2>1. \A d \in TcCallers : tcCall[d].at = "bind" => tcCall[d].team = t \/ tcCall'[d] = tcCall[d] BY <1>2, <1>6
  <2>2. \A u \in TcTeams : tcTeam'[u] = "active" =>
          u \in tcLost' \/ \E d \in TcCallers : tcCall'[d].at = "bind" /\ tcCall'[d].team = u
    BY <1>1, <1>3, <1>7, <2>1 DEF ActiveIsBound, TcActive
  <2> QED BY <1>3, <2>2 DEF ActiveIsBound, TcActive
<1>16. MembersAreServed'
  <2> SUFFICES ASSUME NEW m \in TcMembers \ tcOdd
               PROVE  /\ tcMember[m].status = "active" =>
                           /\ tcMember[m].runner = "up" \/ \E d \in TcCallers : m \in tcCall'[d].listed
                           /\ TcActive(tcMember[m].team)'
                      /\ tcMember[m].status = "removed" => tcMember[m].runner = "gone"
    BY <1>3 DEF MembersAreServed
  <2>1. \A d \in TcCallers : tcCall[d].listed \subseteq tcCall'[d].listed BY <1>5, <1>6
  <2>2. /\ tcMember[m].status = "active" =>
             /\ tcMember[m].runner = "up" \/ \E d \in TcCallers : m \in tcCall[d].listed
             /\ tcMember[m].team \in TcTeams /\ tcTeam[tcMember[m].team] = "active"
        /\ tcMember[m].status = "removed" => tcMember[m].runner = "gone"
    BY <1>1 DEF MembersAreServed, TcActive
  <2>3. tcMember[m].team # t BY <1>8 DEF TcMentioned
  <2> QED BY <1>3, <1>7, <2>1, <2>2, <2>3 DEF TcActive
<1>17. NamesAreUnique' BY <1>1, <1>3 DEF NamesAreUnique
<1>18. LeaderIsTold' BY <1>3 DEF LeaderIsTold
<1> QED BY <1>10, <1>11, <1>12, <1>13, <1>14, <1>15, <1>16, <1>17, <1>18 DEF TcInd

\* A teammate is registered with the team the caller means.
LEMMA TcRegisters ==
    ASSUME TcInd, NEW c \in TcCallers, NEW hint \in Hints, NEW name \in TcNames, NEW m \in TcMembers, NEW works \in BOOLEAN,
           RegisterMember(c, hint, name, m, works)
    PROVE  TcInd'
<1>1. /\ TcTyped /\ TcCallsFit /\ TcUnmade /\ TcFresh /\ TcListed /\ ActiveIsBound /\ MembersAreServed /\ NamesAreUnique
      /\ LeaderIsTold
  BY DEF TcInd
<1>2. PICK t : t = Resolved(hint) OBVIOUS
<1>3. PICK r : r = [team |-> t, name |-> name, status |-> "active", runner |-> IF works THEN "up" ELSE "none"] OBVIOUS
<1>4. /\ t # 0 /\ ~NameTaken(t, name) /\ tcMember[m] = TcNoMember
      /\ tcMember' = [tcMember EXCEPT ![m] = r]
      /\ tcOdd' = IF works /\ \A d \in TcCallers : tcCall[d].op = "delete" => tcCall[d].team # t
                  THEN tcOdd ELSE tcOdd \cup {m}
      /\ UNCHANGED <<tcTeam, tcBound, tcCall, tcOnline, tcQueue, tcContext, tcCrashed, tcLost, tcMisled>>
  BY <1>2, <1>3 DEF RegisterMember
<1>5. t \in TcTeams /\ tcTeam[t] = "active" /\ (t = tcBound \/ t = tcContext) BY <1>2, <1>4, TcResolves
<1>6. r.team = t /\ r.name = name /\ r.status = "active" /\ r.runner \in {"up", "none"} /\ (works => r.runner = "up")
  BY <1>3
<1>7. r \in TcMemberRecords BY <1>3, <1>5 DEF TcMemberRecords, TcNamed
<1>8. tcMember \in [TcMembers -> TcMemberRecords] BY <1>1 DEF TcTyped
<1>9. tcMember'[m] = r /\ \A n \in TcMembers : n # m => tcMember'[n] = tcMember[n] BY <1>4, <1>8
<1>10. tcMember[m].status = "none" BY <1>4 DEF TcNoMember
<1>11. TcMentioned(t) BY <1>5 DEF TcMentioned
<1>12. \A u \in TcTeams : TcMentioned(u)' => TcMentioned(u)
  <2> SUFFICES ASSUME NEW u \in TcTeams, TcMentioned(u)', u # t PROVE TcMentioned(u)
    BY <1>11
  <2>1. \A n \in TcMembers : tcMember'[n].team = u => tcMember[n].team = u BY <1>6, <1>9
  <2> QED BY <1>4, <2>1 DEF TcMentioned
<1>13. \A d \in TcCallers : m \notin tcCall[d].listed BY <1>1, <1>10 DEF TcCallsFit, TcStopped
<1>14. tcOdd \subseteq tcOdd' /\ tcOdd' \subseteq tcOdd \cup {m} BY <1>4
<1>15. TcTyped'
  <2>1. tcMember' \in [TcMembers -> TcMemberRecords] BY <1>4, <1>7, <1>8
  <2>2. tcOdd' \subseteq TcMembers BY <1>1, <1>14 DEF TcTyped
  <2> QED BY <1>1, <1>4, <2>1, <2>2 DEF TcTyped
<1>16. TcCallsFit'
  <2> SUFFICES ASSUME NEW d \in TcCallers, NEW n \in tcCall[d].listed
               PROVE  tcMember'[n].status # "none" /\ (n \in tcCall[d].left \/ tcMember'[n].runner = "gone")
    BY <1>1, <1>4 DEF TcCallsFit, TcCallFits, TcStopped
  <2>1. n # m /\ n \in TcMembers BY <1>1, <1>13 DEF TcTyped, TcCallRecords
  <2> QED BY <1>1, <1>9, <2>1 DEF TcCallsFit, TcStopped
<1>17. TcUnmade' BY <1>1, <1>4, <1>12 DEF TcUnmade
<1>18. TcFresh'
  <2>1. \A d \in TcCallers : tcCall[d].at = "bind" => tcCall[d].team \in TcTeams BY <1>1 DEF TcCallsFit, TcCallFits
  <2> QED BY <1>1, <1>4, <1>12, <2>1 DEF TcFresh
<1>19. TcListed'
  <2> SUFFICES ASSUME NEW d \in TcCallers, tcCall[d].op = "delete", NEW n \in TcMembers \ tcOdd',
                      tcMember'[n].status = "active", tcMember'[n].team = tcCall[d].team
               PROVE  n \in tcCall[d].listed
    BY <1>4 DEF TcListed
  <2>1. CASE n = m BY <1>4, <1>6, <1>9, <2>1
  <2>2. CASE n # m BY <1>1, <1>9, <1>14, <2>2 DEF TcListed
  <2> QED BY <2>1, <2>2
<1>20. ActiveIsBound' BY <1>1, <1>4 DEF ActiveIsBound, TcActive
<1>21. MembersAreServed'
  <2> SUFFICES ASSUME NEW n \in TcMembers \ tcOdd'
               PROVE  /\ tcMember'[n].status = "active" =>
                           /\ tcMember'[n].runner = "up" \/ \E d \in TcCallers : n \in tcCall[d].listed
                           /\ tcMember'[n].team \in TcTeams /\ tcTeam[tcMember'[n].team] = "active"
                      /\ tcMember'[n].status = "removed" => tcMember'[n].runner = "gone"
    BY <1>4 DEF MembersAreServed, TcActive
  <2>1. CASE n = m BY <1>4, <1>5, <1>6, <1>9, <2>1
  <2>2. CASE n # m BY <1>1, <1>9, <1>14, <2>2 DEF MembersAreServed, TcActive
  <2> QED BY <2>1, <2>2
<1>22. NamesAreUnique'
  <2> SUFFICES ASSUME NEW n \in TcMembers, NEW o \in TcMembers, tcMember'[n].status = "active", tcMember'[o].status = "active",
                      tcMember'[n].team = tcMember'[o].team, tcMember'[n].name = tcMember'[o].name, n # o
               PROVE  FALSE
    BY DEF NamesAreUnique
  <2>1. \A q \in TcMembers : ~(tcMember[q].status = "active" /\ tcMember[q].team = t /\ tcMember[q].name = name)
    BY <1>4 DEF NameTaken, MembersOf
  <2>2. n # m /\ o # m BY <1>6, <1>9, <2>1
  <2> QED BY <1>1, <1>9, <2>2 DEF NamesAreUnique
<1>23. LeaderIsTold' BY <1>1, <1>4 DEF LeaderIsTold
<1> QED BY <1>15, <1>16, <1>17, <1>18, <1>19, <1>20, <1>21, <1>22, <1>23 DEF TcInd

\* The runner of a member that a call has listed stops, or is asked to.
LEMMA TcRunners ==
    ASSUME TcInd, NEW c \in TcCallers, NEW k \in TcCallRecords, NEW m \in TcMembers, NEW r \in {"none", "stopping", "gone"},
           tcCall' = [tcCall EXCEPT ![c] = k], tcMember' = [tcMember EXCEPT ![m].runner = r],
           UNCHANGED <<tcTeam, tcBound, tcOnline, tcQueue, tcContext, tcCrashed, tcLost, tcOdd, tcMisled>>,
           m \in tcCall[c].listed, tcMember[m].runner = "gone" => r = "gone",
           k.op = tcCall[c].op, k.team = tcCall[c].team, k.listed = tcCall[c].listed,
           k.at # "bind", tcCall[c].at # "bind", TcCallFits(k),
           \A n \in tcCall[c].left \ k.left : n = m /\ r = "gone"
    PROVE  TcInd'
<1>1. /\ TcTyped /\ TcCallsFit /\ TcUnmade /\ TcFresh /\ TcListed /\ ActiveIsBound /\ MembersAreServed /\ NamesAreUnique
      /\ LeaderIsTold
  BY DEF TcInd
<1>2. tcCall \in [TcCallers -> TcCallRecords] /\ tcMember \in [TcMembers -> TcMemberRecords] BY <1>1 DEF TcTyped
<1>3. tcCall'[c] = k /\ \A d \in TcCallers : d # c => tcCall'[d] = tcCall[d] BY <1>2
<1>4. PICK old : old = tcMember[m] OBVIOUS
<1>5. PICK new : new = [old EXCEPT !.runner = r] OBVIOUS
<1>6. old \in TcMemberRecords BY <1>2, <1>4
<1>7. new \in TcMemberRecords /\ new.team = old.team /\ new.name = old.name /\ new.status = old.status /\ new.runner = r
  BY <1>5, <1>6 DEF TcMemberRecords
<1>8. tcMember' = [tcMember EXCEPT ![m] = new] BY <1>4, <1>5
<1>9. tcMember'[m] = new /\ \A n \in TcMembers : n # m => tcMember'[n] = tcMember[n] BY <1>2, <1>8
<1>10. \A n \in TcMembers : /\ tcMember'[n].team = tcMember[n].team /\ tcMember'[n].name = tcMember[n].name
                            /\ tcMember'[n].status = tcMember[n].status
                            /\ tcMember[n].runner = "gone" => tcMember'[n].runner = "gone"
                            /\ n # m => tcMember'[n].runner = tcMember[n].runner
  BY <1>4, <1>7, <1>9
<1>11. \A d \in TcCallers : /\ tcCall'[d].op = tcCall[d].op /\ tcCall'[d].team = tcCall[d].team
                            /\ tcCall'[d].listed = tcCall[d].listed
                            /\ tcCall'[d].at = "bind" <=> tcCall[d].at = "bind"
  BY <1>3
<1>12. \A u : TcMentioned(u)' <=> TcMentioned(u) BY <1>10 DEF TcMentioned
<1>13. TcTyped'
  <2>1. tcCall' \in [TcCallers -> TcCallRecords] BY <1>2
  <2>2. tcMember' \in [TcMembers -> TcMemberRecords] BY <1>2, <1>7, <1>8
  <2> QED BY <1>1, <2>1, <2>2 DEF TcTyped
<1>14. TcCallsFit'
  <2>1. \A d \in TcCallers : TcCallFits(tcCall'[d]) BY <1>1, <1>3 DEF TcCallsFit
  <2>2. ASSUME NEW d \in TcCallers, NEW n \in tcCall'[d].listed
        PROVE  tcMember'[n].status # "none" /\ (n \in tcCall'[d].left \/ tcMember'[n].runner = "gone")
    <3>1. n \in tcCall[d].listed /\ n \in TcMembers BY <1>2, <1>11 DEF TcCallRecords
    <3>2. tcMember[n].status # "none" /\ (n \in tcCall[d].left \/ tcMember[n].runner = "gone")
      BY <1>1, <3>1 DEF TcCallsFit, TcStopped
    <3>3. CASE d = c BY <1>3, <1>7, <1>9, <1>10, <3>1, <3>2, <3>3
    <3>4. CASE d # c BY <1>3, <1>10, <3>1, <3>2, <3>4
    <3> QED BY <3>3, <3>4
  <2> QED BY <2>1, <2>2 DEF TcCallsFit, TcCallFits, TcStopped
<1>15. TcUnmade' BY <1>1, <1>11, <1>12 DEF TcUnmade
<1>16. TcFresh'
  <2> SUFFICES ASSUME NEW d \in TcCallers, NEW u \in TcTeams, tcCall'[d].at = "bind", tcCall'[d].team = u
               PROVE  /\ tcTeam'[u] = "active" /\ ~TcMentioned(u)'
                      /\ \A e \in TcCallers : tcCall'[e].team = u => e = d
    BY DEF TcFresh
  <2>1. tcTeam[u] = "active" /\ ~TcMentioned(u) /\ \A e \in TcCallers : tcCall[e].team = u => e = d
    BY <1>1, <1>11 DEF TcFresh
  <2>2. ~TcMentioned(u)' BY <1>11, <1>12, <2>1 DEF TcMentioned
  <2> QED BY <1>11, <2>1, <2>2 DEF TcMentioned
<1>17. TcListed' BY <1>1, <1>10, <1>11 DEF TcListed
<1>18. ActiveIsBound' BY <1>1, <1>11 DEF ActiveIsBound, TcActive
<1>19. MembersAreServed'
  <2> SUFFICES ASSUME NEW n \in TcMembers \ tcOdd
               PROVE  /\ tcMember'[n].status = "active" =>
                           /\ tcMember'[n].runner = "up" \/ \E d \in TcCallers : n \in tcCall'[d].listed
                           /\ tcMember'[n].team \in TcTeams /\ tcTeam[tcMember'[n].team] = "active"
                      /\ tcMember'[n].status = "removed" => tcMember'[n].runner = "gone"
    BY DEF MembersAreServed, TcActive
  <2>1. /\ tcMember[n].status = "active" =>
             /\ tcMember[n].runner = "up" \/ \E d \in TcCallers : n \in tcCall[d].listed
             /\ tcMember[n].team \in TcTeams /\ tcTeam[tcMember[n].team] = "active"
        /\ tcMember[n].status = "removed" => tcMember[n].runner = "gone"
    BY <1>1 DEF MembersAreServed, TcActive
  <2>2. CASE n = m BY <1>10, <1>11, <2>1, <2>2
  <2>3. CASE n # m BY <1>10, <1>11, <2>1, <2>3
  <2> QED BY <2>2, <2>3
<1>20. NamesAreUnique' BY <1>1, <1>10 DEF NamesAreUnique
<1>21. LeaderIsTold' BY <1>1 DEF LeaderIsTold
<1> QED BY <1>13, <1>14, <1>15, <1>16, <1>17, <1>18, <1>19, <1>20, <1>21 DEF TcInd

LEMMA TcStopsNext == ASSUME TcInd, NEW c \in TcCallers, NEW m \in TcMembers, StopNext(c, m) PROVE TcInd'
<1>1. TcTyped /\ TcCallsFit BY DEF TcInd
<1>2. PICK k : k = [tcCall[c] EXCEPT !.at = "stop", !.now = m] OBVIOUS
<1>3. PICK r : r = IF tcMember[m].runner = "up" THEN "stopping" ELSE tcMember[m].runner OBVIOUS
<1>4. tcCall[c] \in TcCallRecords /\ tcMember[m] \in TcMemberRecords BY <1>1 DEF TcTyped
<1>5. tcCall[c].at = "next" /\ m \in tcCall[c].left /\ tcCall' = [tcCall EXCEPT ![c] = k]
      /\ tcMember' = [tcMember EXCEPT ![m].runner = r]
      /\ UNCHANGED <<tcTeam, tcBound, tcOnline, tcQueue, tcContext, tcCrashed, tcLost, tcOdd, tcMisled>>
  BY <1>2, <1>3 DEF StopNext, tcGhosts
<1>6. /\ k \in TcCallRecords /\ k.op = tcCall[c].op /\ k.at = "stop" /\ k.team = tcCall[c].team /\ k.now = m
      /\ k.left = tcCall[c].left /\ k.listed = tcCall[c].listed
  BY <1>2, <1>4 DEF TcCallRecords
<1>7. tcCall[c].op \in {"remove", "delete"} /\ tcCall[c].team \in TcTeams /\ tcCall[c].left \subseteq tcCall[c].listed
  BY <1>1, <1>5 DEF TcCallsFit, TcCallFits
<1>8. TcCallFits(k) BY <1>5, <1>6, <1>7 DEF TcCallFits
<1>9. r \in {"none", "stopping", "gone"} /\ (tcMember[m].runner = "gone" => r = "gone")
  BY <1>3, <1>4 DEF TcMemberRecords
<1>10. m \in tcCall[c].listed /\ k.at # "bind" /\ tcCall[c].at # "bind" /\ \A n \in tcCall[c].left \ k.left : n = m /\ r = "gone"
  BY <1>5, <1>6, <1>7
<1> QED BY <1>5, <1>6, <1>8, <1>9, <1>10, TcRunners

LEMMA TcMemberStops == ASSUME TcInd, NEW c \in TcCallers, MemberStopped(c) PROVE TcInd'
<1>1. TcTyped /\ TcCallsFit BY DEF TcInd
<1>2. PICK m : m = tcCall[c].now OBVIOUS
<1>3. PICK k : k = [tcCall[c] EXCEPT !.at = "next", !.left = @ \ {m}, !.now = 0] OBVIOUS
<1>4. tcCall[c] \in TcCallRecords BY <1>1 DEF TcTyped
<1>5. tcCall[c].at = "stop" /\ tcCall' = [tcCall EXCEPT ![c] = k] /\ tcMember' = [tcMember EXCEPT ![m].runner = "gone"]
      /\ UNCHANGED <<tcTeam, tcBound, tcOnline, tcQueue, tcContext, tcCrashed, tcLost, tcOdd, tcMisled>>
  BY <1>2, <1>3 DEF MemberStopped, WithoutRunner, tcGhosts
<1>6. /\ tcCall[c].op \in {"remove", "delete"} /\ tcCall[c].team \in TcTeams /\ tcCall[c].left \subseteq tcCall[c].listed
      /\ m \in tcCall[c].left
  BY <1>1, <1>2, <1>5 DEF TcCallsFit, TcCallFits
<1>7. /\ k \in TcCallRecords /\ k.op = tcCall[c].op /\ k.at = "next" /\ k.team = tcCall[c].team
      /\ k.left = tcCall[c].left \ {m} /\ k.listed = tcCall[c].listed
  BY <1>3, <1>4 DEF TcCallRecords
<1>8. TcCallFits(k) BY <1>6, <1>7 DEF TcCallFits
<1>9. m \in TcMembers /\ m \in tcCall[c].listed BY <1>4, <1>6 DEF TcCallRecords
<1>10. k.at # "bind" /\ tcCall[c].at # "bind" /\ \A n \in tcCall[c].left \ k.left : n = m /\ "gone" = "gone"
  BY <1>5, <1>7
<1> QED BY <1>5, <1>7, <1>8, <1>9, <1>10, TcRunners

\* What a call makes of the members once every runner has stopped.
LEMMA TcFinishes ==
    ASSUME TcInd, NEW c \in TcCallers, IsLast(c)
    PROVE  /\ TcFinished(c) \in [TcMembers -> TcMemberRecords]
           /\ \A m \in TcMembers \ tcCall[c].listed : TcFinished(c)[m] = tcMember[m]
           /\ \A m \in TcMembers : TcFinished(c)[m].team = tcMember[m].team /\ TcFinished(c)[m].name = tcMember[m].name
           /\ \A m \in tcCall[c].listed : TcFinished(c)[m].status = "removed" /\ TcFinished(c)[m].runner = "gone"
           /\ tcCall[c].listed \subseteq TcMembers /\ tcCall[c].team \in TcTeams
<1>1. TcTyped /\ TcCallsFit BY DEF TcInd
<1>2. tcCall[c] \in TcCallRecords /\ tcMember \in [TcMembers -> TcMemberRecords] BY <1>1 DEF TcTyped
<1>3. PICK now, listed : now = tcCall[c].now /\ listed = tcCall[c].listed OBVIOUS
<1>4. tcCall[c].at = "stop" /\ tcCall[c].left = {now} BY <1>3 DEF IsLast
<1>5. tcCall[c].team \in TcTeams /\ now \in listed /\ listed \subseteq TcMembers
  BY <1>1, <1>2, <1>3, <1>4 DEF TcCallsFit, TcCallFits, TcCallRecords
<1>6. \A m \in listed : m = now \/ tcMember[m].runner = "gone" BY <1>1, <1>3, <1>4 DEF TcCallsFit, TcStopped
<1>7. \A m \in TcMembers : TcFinished(c)[m] =
        IF m = now THEN [[tcMember[m] EXCEPT !.status = "removed"] EXCEPT !.runner = "gone"]
        ELSE IF m \in listed THEN [tcMember[m] EXCEPT !.status = "removed"] ELSE tcMember[m]
  BY <1>3, <1>5 DEF TcFinished, RemovedFrom
<1>8. ASSUME NEW m \in TcMembers
      PROVE  /\ TcFinished(c)[m] \in TcMemberRecords
             /\ TcFinished(c)[m].team = tcMember[m].team /\ TcFinished(c)[m].name = tcMember[m].name
             /\ m \in listed => TcFinished(c)[m].status = "removed" /\ TcFinished(c)[m].runner = "gone"
             /\ m \notin listed => TcFinished(c)[m] = tcMember[m]
  <2>1. tcMember[m] \in TcMemberRecords BY <1>2
  <2>2. CASE m = now BY <1>5, <1>7, <2>1, <2>2 DEF TcMemberRecords
  <2>3. CASE m # now /\ m \in listed BY <1>6, <1>7, <2>1, <2>3 DEF TcMemberRecords
  <2>4. CASE m \notin listed BY <1>5, <1>7, <2>1, <2>4
  <2> QED BY <2>2, <2>3, <2>4
<1>9. DOMAIN TcFinished(c) = TcMembers /\ TcFinished(c) = [m \in TcMembers |-> TcFinished(c)[m]] BY DEF TcFinished
<1>10. TcFinished(c) \in [TcMembers -> TcMemberRecords] BY <1>8, <1>9
<1> QED BY <1>3, <1>5, <1>8, <1>10

\* A call ends; the members it has stopped are removed, and teams without any others are tombstoned.
LEMMA TcClears ==
    ASSUME TcInd, NEW c \in TcCallers, NEW S \in SUBSET TcMembers, NEW D \in SUBSET TcTeams,
           tcCall' = [tcCall EXCEPT ![c] = NoCall], tcCall[c].at # "bind", tcCall[c].listed \subseteq S,
           \A m \in TcMembers \ S : tcMember'[m] = tcMember[m],
           \A m \in TcMembers : tcMember'[m].team = tcMember[m].team /\ tcMember'[m].name = tcMember[m].name,
           \A m \in S : tcMember'[m].status = "removed" /\ tcMember'[m].runner = "gone",
           \A t \in TcTeams : tcTeam'[t] = IF t \in D THEN "deleted" ELSE tcTeam[t],
           \A t \in D, d \in TcCallers : tcCall[d].at = "bind" => tcCall[d].team # t,
           \A m \in TcMembers \ tcOdd : tcMember[m].status = "active" /\ tcMember[m].team \in D => m \in S,
           tcBound' = 0 \/ (tcBound' = tcBound /\ D = {}),
           tcLost \subseteq tcLost', tcBound' = 0 /\ TcActive(tcBound) => tcBound \in D \cup tcLost',
           tcOdd' = tcOdd, TcTyped', LeaderIsTold',
           \A t \in TcTeams : TcMentioned(t)' => TcMentioned(t)
    PROVE  TcInd'
<1>1. /\ TcTyped /\ TcCallsFit /\ TcUnmade /\ TcFresh /\ TcListed /\ ActiveIsBound /\ MembersAreServed /\ NamesAreUnique
  BY DEF TcInd
<1>2. tcCall \in [TcCallers -> TcCallRecords] /\ tcMember \in [TcMembers -> TcMemberRecords] BY <1>1 DEF TcTyped
<1>3. tcCall'[c] = NoCall /\ \A d \in TcCallers : d # c => tcCall'[d] = tcCall[d] BY <1>2
<1>4. \A m \in TcMembers : tcMember'[m].status = "active" => m \notin S /\ tcMember'[m] = tcMember[m] OBVIOUS
<1>5. TcCallsFit'
  <2>1. \A d \in TcCallers : TcCallFits(tcCall'[d]) BY <1>1, <1>3, TcNoCallFits DEF TcCallsFit
  <2>2. ASSUME NEW d \in TcCallers, NEW n \in tcCall'[d].listed
        PROVE  tcMember'[n].status # "none" /\ (n \in tcCall'[d].left \/ tcMember'[n].runner = "gone")
    <3>1. d # c /\ tcCall'[d] = tcCall[d] BY <1>3, TcNoCallFits
    <3>2. n \in tcCall[d].listed /\ n \in TcMembers BY <1>2, <3>1 DEF TcCallRecords
    <3>3. tcMember[n].status # "none" /\ (n \in tcCall[d].left \/ tcMember[n].runner = "gone")
      BY <1>1, <3>2 DEF TcCallsFit, TcStopped
    <3>4. CASE n \in S BY <3>4
    <3>5. CASE n \notin S BY <3>1, <3>2, <3>3, <3>5
    <3> QED BY <3>4, <3>5
  <2> QED BY <2>1, <2>2 DEF TcCallsFit, TcCallFits, TcStopped
<1>6. TcUnmade'
  <2> SUFFICES ASSUME NEW u \in TcTeams, tcTeam'[u] = "none"
               PROVE  ~TcMentioned(u)' /\ \A d \in TcCallers : tcCall'[d].team # u
    BY DEF TcUnmade
  <2>1. tcTeam[u] = "none" BY DEF TcUnmade
  <2>2. ~TcMentioned(u) /\ \A d \in TcCallers : tcCall[d].team # u BY <1>1, <2>1 DEF TcUnmade
  <2> QED BY <1>3, <2>2, TcNumbers, TcNoCallFits
<1>7. TcFresh'
  <2> SUFFICES ASSUME NEW d \in TcCallers, NEW u \in TcTeams, tcCall'[d].at = "bind", tcCall'[d].team = u
               PROVE  /\ tcTeam'[u] = "active" /\ ~TcMentioned(u)'
                      /\ \A e \in TcCallers : tcCall'[e].team = u => e = d
    BY DEF TcFresh
  <2>1. d # c /\ tcCall'[d] = tcCall[d] BY <1>3, TcNoCallFits
  <2>2. u = tcCall[d].team BY <2>1
  <2>3. u \in TcTeams BY <1>1, <2>1, <2>2 DEF TcCallsFit, TcCallFits
  <2>4. tcTeam[u] = "active" /\ ~TcMentioned(u) /\ \A e \in TcCallers : tcCall[e].team = u => e = d
    BY <1>1, <2>1, <2>2 DEF TcFresh
  <2>5. ~TcMentioned(u)' BY <2>3, <2>4
  <2>6. tcTeam'[u] = "active" BY <2>1, <2>2, <2>3, <2>4
  <2>7. \A e \in TcCallers : tcCall'[e].team = u => e = d BY <1>3, <2>3, <2>4, TcNumbers, TcNoCallFits
  <2> QED BY <2>1, <2>2, <2>5, <2>6, <2>7 DEF TcMentioned
<1>8. TcListed'
  <2> SUFFICES ASSUME NEW d \in TcCallers, tcCall'[d].op = "delete", NEW n \in TcMembers \ tcOdd,
                      tcMember'[n].status = "active", tcMember'[n].team = tcCall'[d].team
               PROVE  n \in tcCall'[d].listed
    BY DEF TcListed
  <2>1. tcCall'[d] = tcCall[d] BY <1>3, TcNoCallFits
  <2>2. tcMember'[n] = tcMember[n] BY <1>4
  <2> QED BY <1>1, <2>1, <2>2 DEF TcListed
<1>9. ActiveIsBound'
  <2>1. \A d \in TcCallers : tcCall[d].at = "bind" => tcCall'[d] = tcCall[d] BY <1>3
  <2>2. \A u \in TcTeams : tcTeam'[u] = "active" =>
          u = tcBound' \/ u \in tcLost' \/ \E d \in TcCallers : tcCall'[d].at = "bind" /\ tcCall'[d].team = u
    <3> SUFFICES ASSUME NEW u \in TcTeams, tcTeam'[u] = "active", u \notin tcLost',
                        ~ \E d \in TcCallers : tcCall'[d].at = "bind" /\ tcCall'[d].team = u
                 PROVE  u = tcBound'
      OBVIOUS
    <3>1. u \notin D /\ tcTeam[u] = "active" OBVIOUS
    <3>2. u = tcBound BY <1>1, <2>1, <3>1 DEF ActiveIsBound, TcActive
    <3> QED BY <3>1, <3>2 DEF TcActive
  <2>3. tcBound' # 0 => (tcBound' \in TcTeams /\ tcTeam'[tcBound'] = "active") \/ tcBound' \in tcLost'
    <3> SUFFICES ASSUME tcBound' # 0 PROVE (tcBound' \in TcTeams /\ tcTeam'[tcBound'] = "active") \/ tcBound' \in tcLost'
      OBVIOUS
    <3>1. tcBound' = tcBound /\ D = {} OBVIOUS
    <3> QED BY <1>1, <3>1 DEF ActiveIsBound, TcActive
  <2> QED BY <2>2, <2>3 DEF ActiveIsBound, TcActive
<1>10. MembersAreServed'
  <2> SUFFICES ASSUME NEW n \in TcMembers \ tcOdd
               PROVE  /\ tcMember'[n].status = "active" =>
                           /\ tcMember'[n].runner = "up" \/ \E d \in TcCallers : n \in tcCall'[d].listed
                           /\ tcMember'[n].team \in TcTeams /\ tcTeam'[tcMember'[n].team] = "active"
                      /\ tcMember'[n].status = "removed" => tcMember'[n].runner = "gone"
    BY DEF MembersAreServed, TcActive
  <2>1. CASE n \in S BY <2>1
  <2>2. CASE n \notin S
    <3>1. tcMember'[n] = tcMember[n] BY <2>2
    <3>2. /\ tcMember[n].status = "active" =>
               /\ tcMember[n].runner = "up" \/ \E d \in TcCallers : n \in tcCall[d].listed
               /\ tcMember[n].team \in TcTeams /\ tcTeam[tcMember[n].team] = "active"
          /\ tcMember[n].status = "removed" => tcMember[n].runner = "gone"
      BY <1>1 DEF MembersAreServed, TcActive
    <3>3. \A d \in TcCallers : n \in tcCall[d].listed => n \in tcCall'[d].listed BY <1>3, <2>2
    <3> QED BY <2>2, <3>1, <3>2, <3>3
  <2> QED BY <2>1, <2>2
<1>11. NamesAreUnique' BY <1>1, <1>4 DEF NamesAreUnique
<1> QED BY <1>5, <1>6, <1>7, <1>8, <1>9, <1>10, <1>11 DEF TcInd

LEMMA TcRemovalEnds == ASSUME TcInd, NEW c \in TcCallers, RemovalDone(c) PROVE TcInd'
<1>1. TcTyped /\ LeaderIsTold BY DEF TcInd
<1>2. PICK S : S = tcCall[c].listed OBVIOUS
<1>3. /\ IsLast(c) /\ tcMember' = TcFinished(c) /\ tcCall' = [tcCall EXCEPT ![c] = NoCall]
      /\ UNCHANGED <<tcTeam, tcBound, tcOnline, tcQueue, tcContext, tcCrashed, tcLost, tcOdd, tcMisled>>
  BY DEF RemovalDone, EndsCall, tcGhosts
<1>4. /\ tcMember' \in [TcMembers -> TcMemberRecords] /\ S \subseteq TcMembers
      /\ \A m \in TcMembers \ S : tcMember'[m] = tcMember[m]
      /\ \A m \in TcMembers : tcMember'[m].team = tcMember[m].team /\ tcMember'[m].name = tcMember[m].name
      /\ \A m \in S : tcMember'[m].status = "removed" /\ tcMember'[m].runner = "gone"
  BY <1>2, <1>3, TcFinishes
<1>5. tcCall' \in [TcCallers -> TcCallRecords] BY <1>1, <1>3, TcNoCallFits DEF TcTyped
<1>6. TcTyped' BY <1>1, <1>3, <1>4, <1>5 DEF TcTyped
<1>7. LeaderIsTold' BY <1>1, <1>3 DEF LeaderIsTold
<1>8. \A t \in TcTeams : TcMentioned(t)' => TcMentioned(t) BY <1>3, <1>4 DEF TcMentioned
<1>9. tcCall[c].at # "bind" /\ tcCall[c].listed \subseteq S BY <1>2, <1>3 DEF IsLast
<1>10. PICK D : D = {} OBVIOUS
<1>11. /\ D \in SUBSET TcTeams /\ \A t \in TcTeams : tcTeam'[t] = IF t \in D THEN "deleted" ELSE tcTeam[t]
       /\ \A t \in D, d \in TcCallers : tcCall[d].at = "bind" => tcCall[d].team # t
       /\ \A m \in TcMembers \ tcOdd : tcMember[m].status = "active" /\ tcMember[m].team \in D => m \in S
       /\ tcBound' = 0 \/ (tcBound' = tcBound /\ D = {})
       /\ tcLost \subseteq tcLost' /\ (tcBound' = 0 /\ TcActive(tcBound) => tcBound \in D \cup tcLost') /\ tcOdd' = tcOdd
  BY <1>3, <1>10, TcNumbers DEF TcActive
<1> QED BY <1>3, <1>4, <1>6, <1>7, <1>8, <1>9, <1>11, TcClears

\* The tombstone of a team and what goes with it.
LEMMA TcTombstones ==
    ASSUME TcInd, NEW t \in TcTeams, Tombstones(t),
           UNCHANGED <<tcOnline, tcContext, tcCrashed, tcOdd>>,
           tcMember' \in [TcMembers -> TcMemberRecords], tcCall' \in [TcCallers -> TcCallRecords],
           \A m \in TcMembers : tcMember'[m].team = tcMember[m].team
    PROVE  /\ TcTyped' /\ LeaderIsTold' /\ tcBound' = 0 /\ tcLost \subseteq tcLost'
           /\ TcActive(tcBound) => tcBound \in {t} \cup tcLost'
           /\ \A u \in TcTeams : tcTeam'[u] = IF u \in {t} THEN "deleted" ELSE tcTeam[u]
           /\ \A u \in TcTeams : TcMentioned(u)' => TcMentioned(u)
<1>1. TcTyped BY DEF TcInd
<1>2. /\ tcTeam' = [tcTeam EXCEPT ![t] = "deleted"] /\ tcBound' = 0 /\ QueueUpdate(0)
      /\ tcLost' = IF TcActive(tcBound) /\ tcBound # t THEN tcLost \cup {tcBound} ELSE tcLost
  BY DEF Tombstones, Unbound
<1>3. 0 \in TcNamed BY DEF TcNamed
<1>4. /\ tcQueue' \in Seq(TcNamed) /\ Len(tcQueue') <= TcQueueMax /\ tcMisled' \in BOOLEAN /\ LeaderIsTold'
      /\ \A k \in DOMAIN tcQueue' : tcQueue'[k] = 0 \/ \E l \in DOMAIN tcQueue : tcQueue[l] = tcQueue'[k]
  BY <1>1, <1>2, <1>3, TcQueues
<1>5. tcTeam \in [TcTeams -> {"none", "active", "deleted", "gone"}] /\ tcLost \subseteq TcTeams BY <1>1 DEF TcTyped
<1>6. tcTeam' \in [TcTeams -> {"none", "active", "deleted", "gone"}] BY <1>2, <1>5
<1>7. tcLost' \subseteq TcTeams /\ tcLost \subseteq tcLost' /\ (TcActive(tcBound) => tcBound \in {t} \cup tcLost')
  BY <1>2, <1>5 DEF TcActive
<1>8. TcTyped' BY <1>1, <1>2, <1>3, <1>4, <1>6, <1>7 DEF TcTyped
<1>9. \A u \in TcTeams : TcMentioned(u)' => TcMentioned(u) BY <1>2, <1>4, TcNumbers DEF TcMentioned
<1>10. \A u \in TcTeams : tcTeam'[u] = IF u \in {t} THEN "deleted" ELSE tcTeam[u] BY <1>2, <1>5
<1> QED BY <1>2, <1>4, <1>7, <1>8, <1>9, <1>10

LEMMA TcDeletionEnds == ASSUME TcInd, NEW c \in TcCallers, DeletionDone(c) PROVE TcInd'
<1>1. TcTyped /\ TcFresh /\ TcListed BY DEF TcInd
<1>2. PICK S, t : S = tcCall[c].listed /\ t = tcCall[c].team OBVIOUS
<1>3. /\ IsLast(c) /\ tcCall[c].op = "delete" /\ tcMember' = TcFinished(c) /\ tcCall' = [tcCall EXCEPT ![c] = NoCall]
      /\ Tombstones(t) /\ UNCHANGED <<tcOnline, tcContext, tcCrashed, tcOdd>>
  BY <1>2 DEF DeletionDone, EndsCall
<1>4. /\ tcMember' \in [TcMembers -> TcMemberRecords] /\ S \subseteq TcMembers /\ t \in TcTeams
      /\ \A m \in TcMembers \ S : tcMember'[m] = tcMember[m]
      /\ \A m \in TcMembers : tcMember'[m].team = tcMember[m].team /\ tcMember'[m].name = tcMember[m].name
      /\ \A m \in S : tcMember'[m].status = "removed" /\ tcMember'[m].runner = "gone"
  BY <1>2, <1>3, TcFinishes
<1>5. tcCall' \in [TcCallers -> TcCallRecords] BY <1>1, <1>3, TcNoCallFits DEF TcTyped
<1>6. /\ TcTyped' /\ LeaderIsTold' /\ tcBound' = 0 /\ tcLost \subseteq tcLost'
      /\ TcActive(tcBound) => tcBound \in {t} \cup tcLost'
      /\ \A u \in TcTeams : tcTeam'[u] = IF u \in {t} THEN "deleted" ELSE tcTeam[u]
      /\ \A u \in TcTeams : TcMentioned(u)' => TcMentioned(u)
  BY <1>3, <1>4, <1>5, TcTombstones
<1>7. tcCall[c].at # "bind" /\ tcCall[c].listed \subseteq S BY <1>2, <1>3 DEF IsLast
<1>8. PICK D : D = {t} OBVIOUS
<1>9. /\ D \in SUBSET TcTeams
      /\ \A u \in D, d \in TcCallers : tcCall[d].at = "bind" => tcCall[d].team # u
      /\ \A m \in TcMembers \ tcOdd : tcMember[m].status = "active" /\ tcMember[m].team \in D => m \in S
  BY <1>1, <1>2, <1>3, <1>4, <1>7, <1>8 DEF TcFresh, TcListed
<1>10. /\ \A u \in TcTeams : tcTeam'[u] = IF u \in D THEN "deleted" ELSE tcTeam[u]
       /\ tcBound' = 0 \/ (tcBound' = tcBound /\ D = {})
       /\ tcBound' = 0 /\ TcActive(tcBound) => tcBound \in D \cup tcLost'
       /\ tcOdd' = tcOdd
  BY <1>3, <1>6, <1>8
<1> QED BY <1>3, <1>4, <1>6, <1>7, <1>9, <1>10, TcClears

LEMMA TcDeletesEmpty == ASSUME TcInd, NEW c \in TcCallers, NEW hint \in Hints, DeleteEmptyTeam(c, hint) PROVE TcInd'
<1>1. TcTyped /\ TcCallsFit /\ TcFresh BY DEF TcInd
<1>2. PICK t : t = Resolved(hint) OBVIOUS
<1>3. /\ tcCall[c].at = "idle" /\ t # 0 /\ MembersOf(t) = {} /\ Tombstones(t)
      /\ UNCHANGED <<tcMember, tcCall, tcOnline, tcContext, tcCrashed, tcOdd>>
  BY <1>2 DEF DeleteEmptyTeam, Free
<1>4. t \in TcTeams /\ TcMentioned(t) BY <1>2, <1>3, TcResolves DEF TcMentioned
<1>5. tcCall \in [TcCallers -> TcCallRecords] /\ tcMember \in [TcMembers -> TcMemberRecords] BY <1>1 DEF TcTyped
<1>6. tcCall[c] = NoCall BY <1>1, <1>3 DEF TcCallsFit, TcCallFits
<1>7. tcCall' = [tcCall EXCEPT ![c] = NoCall] BY <1>3, <1>5, <1>6
<1>8. /\ TcTyped' /\ LeaderIsTold' /\ tcBound' = 0 /\ tcLost \subseteq tcLost'
      /\ TcActive(tcBound) => tcBound \in {t} \cup tcLost'
      /\ \A u \in TcTeams : tcTeam'[u] = IF u \in {t} THEN "deleted" ELSE tcTeam[u]
      /\ \A u \in TcTeams : TcMentioned(u)' => TcMentioned(u)
  BY <1>3, <1>4, <1>5, TcTombstones
<1>9. PICK D, S : D = {t} /\ S = {} OBVIOUS
<1>10. tcCall[c].at # "bind" /\ tcCall[c].listed \subseteq S /\ S \in SUBSET TcMembers /\ D \in SUBSET TcTeams
  BY <1>4, <1>6, <1>9, TcNoCallFits
<1>11. /\ \A u \in D, d \in TcCallers : tcCall[d].at = "bind" => tcCall[d].team # u
       /\ \A m \in TcMembers \ tcOdd : tcMember[m].status = "active" /\ tcMember[m].team \in D => m \in S
  BY <1>1, <1>3, <1>4, <1>9 DEF TcFresh, MembersOf
<1>12. /\ \A m \in TcMembers \ S : tcMember'[m] = tcMember[m]
       /\ \A m \in TcMembers : tcMember'[m].team = tcMember[m].team /\ tcMember'[m].name = tcMember[m].name
       /\ \A m \in S : tcMember'[m].status = "removed" /\ tcMember'[m].runner = "gone"
  BY <1>3, <1>9
<1>13. /\ \A u \in TcTeams : tcTeam'[u] = IF u \in D THEN "deleted" ELSE tcTeam[u]
       /\ tcBound' = 0 \/ (tcBound' = tcBound /\ D = {})
       /\ tcBound' = 0 /\ TcActive(tcBound) => tcBound \in D \cup tcLost'
       /\ tcOdd' = tcOdd
  BY <1>3, <1>8, <1>9
<1> QED BY <1>7, <1>8, <1>10, <1>11, <1>12, <1>13, TcClears

\* The runtime dies; at most one deletion stands between the tombstone and the binding.
LEMMA TcCrashes1 == ASSUME TcInd, TcCrash PROVE TcInd'
<1>1. /\ TcTyped /\ TcCallsFit /\ TcUnmade /\ TcFresh /\ TcListed /\ ActiveIsBound /\ MembersAreServed /\ NamesAreUnique
  BY DEF TcInd
<1>2. tcCall \in [TcCallers -> TcCallRecords] /\ tcMember \in [TcMembers -> TcMemberRecords]
      /\ tcTeam \in [TcTeams -> {"none", "active", "deleted", "gone"}]
  BY <1>1 DEF TcTyped
<1> DEFINE cut == UNION {tcCall[e].listed : e \in TcCallers}
           making == {tcCall[e].team : e \in {d \in TcCallers : tcCall[d].at = "bind"}}
<1>3. /\ tcCrashed < TcCrashes /\ tcCrashed' = tcCrashed + 1 /\ tcMisled' = TRUE
      /\ tcCall' = [e \in TcCallers |-> NoCall] /\ tcOnline' = FALSE /\ tcQueue' = <<>>
      /\ tcBound' = tcBound /\ tcContext' = tcContext
  BY DEF TcCrash
\* The teams and the members whose deletion was cut at its last step.
<1>4. PICK D \in SUBSET TcTeams, S \in SUBSET TcMembers :
        /\ \A t \in TcTeams : tcTeam'[t] = IF t \in D THEN "deleted" ELSE tcTeam[t]
        /\ tcTeam' \in [TcTeams -> {"none", "active", "deleted", "gone"}]
        /\ tcMember' \in [TcMembers -> TcMemberRecords]
        /\ \A m \in TcMembers \ S : tcMember'[m] = tcMember[m]
        /\ \A m \in TcMembers : tcMember'[m].team = tcMember[m].team /\ tcMember'[m].name = tcMember[m].name
        /\ \A m \in S : tcMember'[m].status = "removed" /\ tcMember'[m].runner = "gone"
        /\ tcLost' = tcLost \cup making \cup D
        /\ tcOdd' = tcOdd \cup (cut \ S)
        /\ \A m \in TcMembers \ tcOdd : tcMember[m].status = "active" /\ tcMember[m].team \in D => m \in S
  <2>1. PICK dying \in {{}} \cup {{e} : e \in {d \in TcCallers : IsLast(d) /\ tcCall[d].op = "delete"}} :
          /\ tcTeam' = [t \in TcTeams |-> IF \E e \in dying : tcCall[e].team = t THEN "deleted" ELSE tcTeam[t]]
          /\ tcMember' = IF dying = {} THEN tcMember ELSE TcFinished(CHOOSE e \in dying : TRUE)
          /\ tcLost' = tcLost \cup making \cup {tcCall[e].team : e \in dying}
          /\ tcOdd' = tcOdd \cup (IF dying = {} THEN cut ELSE cut \ tcCall[CHOOSE e \in dying : TRUE].listed)
    BY DEF TcCrash
  <2>2. CASE dying = {}
    <3>1. PICK D, S : D = {} /\ S = {} OBVIOUS
    <3>2. D \in SUBSET TcTeams /\ S \in SUBSET TcMembers BY <3>1
    <3>3. /\ tcTeam' = tcTeam /\ tcMember' = tcMember /\ tcLost' = tcLost \cup making \cup D /\ tcOdd' = tcOdd \cup (cut \ S)
      BY <1>2, <2>1, <2>2, <3>1
    <3>4. /\ \A t \in TcTeams : tcTeam'[t] = IF t \in D THEN "deleted" ELSE tcTeam[t]
          /\ \A m \in TcMembers \ S : tcMember'[m] = tcMember[m]
          /\ \A m \in TcMembers : tcMember'[m].team = tcMember[m].team /\ tcMember'[m].name = tcMember[m].name
          /\ \A m \in S : tcMember'[m].status = "removed" /\ tcMember'[m].runner = "gone"
          /\ \A m \in TcMembers \ tcOdd : tcMember[m].status = "active" /\ tcMember[m].team \in D => m \in S
      BY <3>1, <3>3
    <3> QED BY <1>2, <3>2, <3>3, <3>4
  <2>3. CASE dying # {}
    <3>1. PICK c \in TcCallers : IsLast(c) /\ tcCall[c].op = "delete" /\ dying = {c} BY <2>1, <2>3
    <3>2. (CHOOSE e \in dying : TRUE) = c BY <3>1
    <3>3. PICK t, S : t = tcCall[c].team /\ S = tcCall[c].listed OBVIOUS
    <3>4. /\ TcFinished(c) \in [TcMembers -> TcMemberRecords] /\ S \subseteq TcMembers /\ t \in TcTeams
          /\ \A m \in TcMembers \ S : TcFinished(c)[m] = tcMember[m]
          /\ \A m \in TcMembers : TcFinished(c)[m].team = tcMember[m].team /\ TcFinished(c)[m].name = tcMember[m].name
          /\ \A m \in S : TcFinished(c)[m].status = "removed" /\ TcFinished(c)[m].runner = "gone"
      BY <3>1, <3>3, TcFinishes
    <3>5. PICK D : D = {t} OBVIOUS
    <3>6. tcMember' = TcFinished(c) /\ tcOdd' = tcOdd \cup (cut \ S) BY <2>1, <2>3, <3>2, <3>3
    <3>7. tcLost' = tcLost \cup making \cup D BY <2>1, <3>1, <3>3, <3>5
    <3>8. \A u \in TcTeams : tcTeam'[u] = IF u \in D THEN "deleted" ELSE tcTeam[u] BY <2>1, <3>1, <3>3, <3>5
    <3>9. tcTeam' \in [TcTeams -> {"none", "active", "deleted", "gone"}] BY <1>2, <2>1
    <3>10. \A m \in TcMembers \ tcOdd : tcMember[m].status = "active" /\ tcMember[m].team \in D => m \in S
      BY <1>1, <3>1, <3>3, <3>5 DEF TcListed
    <3>11. D \in SUBSET TcTeams /\ S \in SUBSET TcMembers BY <3>4, <3>5
    <3>12. /\ tcMember' \in [TcMembers -> TcMemberRecords]
           /\ \A m \in TcMembers \ S : tcMember'[m] = tcMember[m]
           /\ \A m \in TcMembers : tcMember'[m].team = tcMember[m].team /\ tcMember'[m].name = tcMember[m].name
           /\ \A m \in S : tcMember'[m].status = "removed" /\ tcMember'[m].runner = "gone"
      BY <3>4, <3>6
    <3> HIDE DEF cut, making
    <3> QED BY <3>6, <3>7, <3>8, <3>9, <3>10, <3>11, <3>12
  <2> QED BY <2>2, <2>3
<1>5. \A e \in TcCallers : tcCall[e].listed \subseteq cut /\ tcCall[e].listed \subseteq TcMembers BY <1>2 DEF TcCallRecords
<1>6. cut \subseteq TcMembers BY <1>5
<1>7. \A t \in TcTeams : (t \in making <=> \E e \in TcCallers : tcCall[e].at = "bind" /\ tcCall[e].team = t) OBVIOUS
<1>8. making \subseteq TcTeams BY <1>1 DEF TcCallsFit, TcCallFits
<1> HIDE DEF cut, making
<1>9. \A e \in TcCallers : tcCall'[e] = NoCall BY <1>3
<1>10. TcTyped'
  <2>1. tcCall' \in [TcCallers -> TcCallRecords] BY <1>3, TcNoCallFits
  <2>2. <<>> \in Seq(TcNamed) /\ Len(<<>>) = 0 OBVIOUS
  <2>3. Len(tcQueue') <= TcQueueMax BY <1>3, <2>2, TcNumbers
  <2>4. tcCrashed' \in 0 .. TcCrashes BY <1>1, <1>3, TcAssumption DEF TcTyped
  <2>5. tcLost' \subseteq TcTeams /\ tcOdd' \subseteq TcMembers BY <1>1, <1>4, <1>6, <1>8 DEF TcTyped
  <2> QED BY <1>1, <1>3, <1>4, <2>1, <2>2, <2>3, <2>4, <2>5 DEF TcTyped
<1>11. TcCallsFit' BY <1>9, TcNoCallFits DEF TcCallsFit, TcCallFits, TcStopped
<1>12. TcUnmade'
  <2> SUFFICES ASSUME NEW u \in TcTeams, tcTeam'[u] = "none"
               PROVE  ~TcMentioned(u)' /\ \A d \in TcCallers : tcCall'[d].team # u
    BY DEF TcUnmade
  <2>1. tcTeam[u] = "none" BY <1>4
  <2>2. ~TcMentioned(u) BY <1>1, <2>1 DEF TcUnmade
  <2>3. DOMAIN <<>> = {} OBVIOUS
  <2>4. ~TcMentioned(u)' BY <1>3, <1>4, <2>2, <2>3 DEF TcMentioned
  <2> QED BY <1>9, <2>4, TcNumbers, TcNoCallFits
<1>13. TcFresh' /\ TcListed' BY <1>9, TcNoCallFits DEF TcFresh, TcListed
<1>14. ActiveIsBound'
  <2>1. \A u \in TcTeams : tcTeam'[u] = "active" => u = tcBound \/ u \in tcLost'
    BY <1>1, <1>4, <1>7 DEF ActiveIsBound, TcActive
  <2>2. tcBound # 0 => (tcBound \in TcTeams /\ tcTeam'[tcBound] = "active") \/ tcBound \in tcLost'
    BY <1>1, <1>4 DEF ActiveIsBound, TcActive
  <2> QED BY <1>3, <2>1, <2>2 DEF ActiveIsBound, TcActive
<1>15. MembersAreServed'
  <2> SUFFICES ASSUME NEW n \in TcMembers \ tcOdd'
               PROVE  /\ tcMember'[n].status = "active" =>
                           /\ tcMember'[n].runner = "up" \/ \E d \in TcCallers : n \in tcCall'[d].listed
                           /\ tcMember'[n].team \in TcTeams /\ tcTeam'[tcMember'[n].team] = "active"
                      /\ tcMember'[n].status = "removed" => tcMember'[n].runner = "gone"
    BY DEF MembersAreServed, TcActive
  <2>1. CASE n \in S BY <1>4, <2>1
  <2>2. CASE n \notin S
    <3>1. tcMember'[n] = tcMember[n] /\ n \in TcMembers \ tcOdd /\ n \notin cut BY <1>4, <2>2
    <3>2. /\ tcMember[n].status = "active" =>
               /\ tcMember[n].runner = "up" \/ \E d \in TcCallers : n \in tcCall[d].listed
               /\ tcMember[n].team \in TcTeams /\ tcTeam[tcMember[n].team] = "active"
          /\ tcMember[n].status = "removed" => tcMember[n].runner = "gone"
      BY <1>1, <3>1 DEF MembersAreServed, TcActive
    <3> QED BY <1>4, <1>5, <2>2, <3>1, <3>2
  <2> QED BY <2>1, <2>2
<1>16. NamesAreUnique'
  <2>1. \A m \in TcMembers : tcMember'[m].status = "active" => tcMember'[m] = tcMember[m] BY <1>4
  <2> QED BY <1>1, <2>1 DEF NamesAreUnique
<1>17. LeaderIsTold' BY <1>3 DEF LeaderIsTold
<1> QED BY <1>10, <1>11, <1>12, <1>13, <1>14, <1>15, <1>16, <1>17 DEF TcInd

----
LEMMA TcStarts == TcInit => TcInd
<1> SUFFICES ASSUME TcInit PROVE TcInd
  OBVIOUS
<1>1. /\ tcTeam = [t \in TcTeams |-> "none"] /\ tcBound = 0 /\ tcMember = [m \in TcMembers |-> TcNoMember]
      /\ tcCall = [c \in TcCallers |-> NoCall] /\ tcOnline = TRUE /\ tcQueue = <<>> /\ tcContext = 0
      /\ tcCrashed = 0 /\ tcLost = {} /\ tcOdd = {} /\ tcMisled = FALSE
  BY DEF TcInit
<1>2. <<>> \in Seq(TcNamed) /\ Len(<<>>) = 0 /\ DOMAIN <<>> = {} OBVIOUS
<1>3. TcNoMember \in TcMemberRecords /\ TcNoMember.team = 0 /\ TcNoMember.status = "none"
  BY DEF TcNoMember, TcMemberRecords, TcNamed
<1>4. (\A c \in TcCallers : tcCall[c] = NoCall) /\ (\A m \in TcMembers : tcMember[m] = TcNoMember) /\ \A t \in TcTeams : tcTeam[t] = "none"
  BY <1>1
<1>5. TcTyped
  <2>1. 0 \in 0 .. TcCrashes /\ 0 <= TcQueueMax BY TcAssumption
  <2>2. tcCall \in [TcCallers -> TcCallRecords] /\ tcMember \in [TcMembers -> TcMemberRecords] BY <1>1, <1>3, TcNoCallFits
  <2>3. tcTeam \in [TcTeams -> {"none", "active", "deleted", "gone"}] BY <1>1
  <2> QED BY <1>1, <1>2, <2>1, <2>2, <2>3 DEF TcTyped, TcNamed
<1>6. TcCallsFit BY <1>4, TcNoCallFits DEF TcCallsFit, TcCallFits, TcStopped
<1>7. TcUnmade BY <1>1, <1>2, <1>3, <1>4, TcNoCallFits, TcNumbers DEF TcUnmade, TcMentioned
<1>8. TcFresh /\ TcListed BY <1>4, TcNoCallFits DEF TcFresh, TcListed
<1>9. ActiveIsBound BY <1>1, <1>4 DEF ActiveIsBound, TcActive
<1>10. MembersAreServed /\ NamesAreUnique BY <1>3, <1>4 DEF MembersAreServed, NamesAreUnique
<1>11. LeaderIsTold BY <1>1 DEF LeaderIsTold
<1> QED BY <1>5, <1>6, <1>7, <1>8, <1>9, <1>10, <1>11 DEF TcInd

LEMMA TcCallSteps == ASSUME TcInd, NEW c \in TcCallers, TcCallStep(c) PROVE TcInd'
<1>1. CASE ReuseTeam(c) BY <1>1, TcReuses
<1>2. CASE CreateTeam(c) BY <1>2, TcCreates
<1>3. CASE BindLeader(c) BY <1>3, TcBinds
<1>4. CASE BindFails(c) BY <1>4, TcBindFails
<1>5. CASE TellLeader(c) BY <1>5, TcTells
<1>6. ASSUME NEW hint \in Hints, DeleteTeam(c, hint) PROVE TcInd' BY <1>6, TcRemoves
<1>7. ASSUME NEW hint \in Hints, DeleteEmptyTeam(c, hint) PROVE TcInd' BY <1>7, TcDeletesEmpty
<1>8. ASSUME NEW hint \in Hints, NEW m \in TcMembers, RemoveMember(c, hint, m) PROVE TcInd' BY <1>8, TcRemoves
<1>9. ASSUME NEW hint \in Hints, NEW m \in TcMembers, NEW name \in TcNames, NEW works \in BOOLEAN,
             RegisterMember(c, hint, name, m, works)
      PROVE  TcInd'
  BY <1>9, TcRegisters
<1>10. ASSUME NEW m \in TcMembers, StopNext(c, m) PROVE TcInd' BY <1>10, TcStopsNext
<1>11. CASE MemberStopped(c) BY <1>11, TcMemberStops
<1>12. CASE RemovalDone(c) BY <1>12, TcRemovalEnds
<1>13. CASE DeletionDone(c) BY <1>13, TcDeletionEnds
<1>14. CASE CallCut(c) BY <1>14, TcCuts
<1> QED BY <1>1, <1>2, <1>3, <1>4, <1>5, <1>6, <1>7, <1>8, <1>9, <1>10, <1>11, <1>12, <1>13, <1>14 DEF TcCallStep

LEMMA TcStep == ASSUME TcInd, [TcNext]_tcVars PROVE TcInd'
<1>1. ASSUME NEW c \in TcCallers, TcCallStep(c) PROVE TcInd' BY <1>1, TcCallSteps
<1>2. CASE ApplyUpdate BY <1>2, TcApplies
<1>3. CASE SessionCloses \/ SessionOpens BY <1>3, TcSession
<1>4. CASE TcCrash BY <1>4, TcCrashes1
<1>5. CASE UNCHANGED tcVars
  <2>1. UNCHANGED <<tcTeam, tcBound, tcMember, tcCall, tcOnline, tcQueue, tcContext, tcCrashed, tcLost, tcOdd, tcMisled>>
    BY <1>5 DEF tcVars
  <2>2. TcTyped' BY <2>1 DEF TcInd, TcTyped
  <2>3. LeaderIsTold' BY <2>1 DEF TcInd, LeaderIsTold
  <2>4. \A t \in TcTeams : TcMentioned(t)' => TcMentioned(t) BY <2>1 DEF TcMentioned
  <2> QED BY <2>1, <2>2, <2>3, <2>4, TcStill
<1> QED BY <1>1, <1>2, <1>3, <1>4, <1>5 DEF TcNext

LEMMA TcIndSafe == TcInd => ControlSafe
<1> SUFFICES ASSUME TcInd PROVE ControlSafe
  OBVIOUS
<1>1. TcTyped /\ ActiveIsBound /\ MembersAreServed /\ NamesAreUnique /\ LeaderIsTold BY DEF TcInd
<1>2. TcTypeOK BY <1>1 DEF TcTyped, TcTypeOK, TcNamed, TcMemberRecords
<1> QED BY <1>1, <1>2 DEF ControlSafe

----
(* The messages of the teams: TeamBus. *)

TbCommands == [msg : TbIds \cup {"prompt"}, prio : Nat, turn : BOOLEAN]

TbTyped ==
    /\ tbMate \in [TbMates -> {"active", "forgotten", "removed"}]
    /\ tbDelivery \in [TbIds -> [TbPeople -> {"none", "pending", "delivered"}]]
    /\ tbToGo \in [TbIds -> SUBSET TbPeople] /\ tbHeard \in [TbIds -> Nat]
    /\ tbStatus \in {"offline", "idle", "ready", "waiting"} /\ tbAt \in {"none", "ack", "turn"}
    /\ tbQueue \in Seq(TbCommands) /\ tbNow \in TbCommands \cup {NoCommand}
    /\ tbRunner \in [TbMates -> {"off", "on"}] /\ tbBox \in [TbMates -> SUBSET TbIds]
    /\ tbExcuse \in [Excuses -> SUBSET (TbIds \cup TbMates)]

\* A message that is in a queue, and one that is there once at most.
TbIn(q, i) == \E k \in DOMAIN q : q[k].msg = i
TbOnceIn(q, i) == \A k, l \in DOMAIN q : q[k].msg = i /\ q[l].msg = i => k = l

\* Nothing waits in a session that has not started, and a command that is handled has been heard.
TbSessionFits ==
    /\ tbStatus \in {"offline", "idle"} => tbQueue = <<>> /\ tbAt = "none"
    /\ tbAt = "none" <=> tbNow = NoCommand
    /\ tbAt = "ack" => tbNow.msg \in TbIds /\ tbHeard[tbNow.msg] > 0
    /\ tbAt = "turn" => \A i \in TbIds : tbNow.msg = i => tbDelivery[i]["leader"] # "pending"

\* A message that was not sent to the leader has not come near it.
TbUnsent ==
    \A i \in TbIds : tbDelivery[i]["leader"] = "none" =>
        tbHeard[i] = 0 /\ ~TbIn(tbQueue, i) /\ tbNow.msg # i /\ "leader" \notin tbToGo[i]

\* A message is on one way to the leader at most.
TbOneWay ==
    \A i \in TbIds \ tbExcuse["twice"] :
        /\ TbOnceIn(tbQueue, i) /\ tbHeard[i] <= 1
        /\ TbIn(tbQueue, i) \/ "leader" \in tbToGo[i] => tbHeard[i] = 0
        /\ "leader" \in tbToGo[i] => ~TbIn(tbQueue, i)
        /\ tbDelivery[i]["leader"] = "pending" => tbHeard[i] = 0 \/ tbNow.msg = i

\* What is pending is on its way, or excused (PendingIsComing).
TbComing ==
    tbStatus \in {"ready", "waiting"} =>
        \A i \in TbIds : tbDelivery[i]["leader"] = "pending" =>
            \/ TbIn(tbQueue, i) \/ tbNow.msg = i \/ "leader" \in tbToGo[i]
            \/ i \in tbExcuse["skipped"] \/ i \in tbExcuse["dropped"]

TbInd == TbTyped /\ TbSessionFits /\ TbUnsent /\ TbOneWay /\ TbComing /\ AcknowledgedIsHeard /\ WaitingHasRunner

----
LEMMA TbWords ==
    /\ "prompt" \notin TbIds /\ "none" \notin TbIds /\ "leader" \notin TbMates
    /\ \A i \in TbIds : Message(i) \in TbMessages /\ Message(i).prio \in Nat
    /\ Prompt \in TbCommands /\ Prompt.msg = "prompt" /\ NoCommand.msg = "none" /\ NoCommand \notin TbCommands
<1>1. "prompt" \notin TbIds /\ "none" \notin TbIds /\ "leader" \notin TbMates BY TbAssumption DEF TbIds
<1>2. ASSUME NEW i \in TbIds PROVE Message(i) \in TbMessages /\ Message(i).prio \in Nat
  <2>1. \E g \in TbMessages : g.id = i BY DEF TbIds
  <2>2. Message(i) \in TbMessages BY <2>1 DEF Message
  <2> QED BY <2>2, TbAssumption
<1>3. Prompt \in TbCommands /\ Prompt.msg = "prompt" BY DEF Prompt, TbCommands
<1>4. NoCommand.msg = "none" BY DEF NoCommand
<1>5. NoCommand \notin TbCommands
  <2>1. \A x \in TbCommands : x.msg \in TbIds \cup {"prompt"} BY DEF TbCommands
  <2> QED BY <1>1, <1>4, <2>1
<1> QED BY <1>1, <1>2, <1>3, <1>4, <1>5

LEMMA TbJoins ==
    ASSUME NEW S, NEW a \in Seq(S), NEW b \in Seq(S), NEW r, r = a \o b
    PROVE  /\ r \in Seq(S) /\ Len(r) = Len(a) + Len(b)
           /\ \A k \in 1 .. Len(a) : r[k] = a[k]
           /\ \A k \in 1 .. Len(b) : r[Len(a) + k] = b[k]
OBVIOUS

LEMMA TbOne == ASSUME NEW S, NEW e \in S PROVE <<e>> \in Seq(S) /\ Len(<<e>>) = 1 /\ <<e>>[1] = e
OBVIOUS

\* A command put into a sequence at some place.
TbPut(q, i, e, r) ==
    /\ r \in Seq(TbCommands) /\ Len(r) = Len(q) + 1
    /\ \A k \in 1 .. (Len(q) + 1) : (k < i => r[k] = q[k]) /\ (k = i => r[k] = e) /\ (k > i => r[k] = q[k - 1])

LEMMA TbInserts ==
    ASSUME NEW q \in Seq(TbCommands), NEW e \in TbCommands, NEW i \in 1 .. (Len(q) + 1),
           NEW r, r = InsertAt(q, i, e)
    PROVE  TbPut(q, i, e, r)
<1>1. PICK a, b, w : a = SubSeq(q, 1, i - 1) /\ b = SubSeq(q, i, Len(q)) /\ w = <<e>> OBVIOUS
<1>2. /\ a \in Seq(TbCommands) /\ Len(a) = i - 1 /\ b \in Seq(TbCommands) /\ Len(b) = Len(q) - i + 1
      /\ \A k \in 1 .. (i - 1) : a[k] = q[k]
      /\ \A k \in 1 .. (Len(q) - i + 1) : b[k] = q[i + k - 1]
  BY <1>1
<1>3. r = a \o w \o b BY <1>1 DEF InsertAt
<1>4. w \in Seq(TbCommands) /\ Len(w) = 1 /\ w[1] = e BY <1>1, TbOne
<1>5. PICK h : h = a \o w OBVIOUS
<1>6. /\ h \in Seq(TbCommands) /\ Len(h) = Len(a) + Len(w)
      /\ \A k \in 1 .. Len(a) : h[k] = a[k]
      /\ \A k \in 1 .. Len(w) : h[Len(a) + k] = w[k]
  <2>1. a \in Seq(TbCommands) /\ w \in Seq(TbCommands) /\ h = a \o w BY <1>2, <1>4, <1>5
  <2> QED BY <2>1, TbJoins
<1>7. /\ r \in Seq(TbCommands) /\ Len(r) = Len(h) + Len(b)
      /\ \A k \in 1 .. Len(h) : r[k] = h[k]
      /\ \A k \in 1 .. Len(b) : r[Len(h) + k] = b[k]
  <2>1. h \in Seq(TbCommands) /\ b \in Seq(TbCommands) /\ r = h \o b BY <1>2, <1>3, <1>5, <1>6
  <2> QED BY <2>1, TbJoins
<1>8. Len(h) = i /\ h[i] = e
  <2>1. 1 \in 1 .. Len(w) /\ Len(a) + 1 = i BY <1>2, <1>4
  <2> QED BY <1>4, <1>6, <2>1
<1>9. ASSUME NEW k \in 1 .. (Len(q) + 1)
      PROVE  (k < i => r[k] = q[k]) /\ (k = i => r[k] = e) /\ (k > i => r[k] = q[k - 1])
  <2>1. CASE k < i
    <3>1. k \in 1 .. Len(a) /\ k \in 1 .. Len(h) BY <1>2, <1>8, <2>1
    <3> QED BY <1>2, <1>6, <1>7, <2>1, <3>1
  <2>2. CASE k = i BY <1>7, <1>8, <2>2
  <2>3. CASE k > i
    <3>1. PICK j : j = k - i OBVIOUS
    <3>2. j \in 1 .. Len(b) /\ j \in 1 .. (Len(q) - i + 1) /\ Len(h) + j = k /\ i + j - 1 = k - 1
      BY <1>2, <1>8, <2>3, <3>1
    <3>3. r[k] = b[j] BY <1>7, <3>2
    <3>4. b[j] = q[k - 1] BY <1>2, <3>2
    <3>5. ~(k < i) /\ k # i BY <2>3
    <3> QED BY <3>3, <3>4, <3>5
  <2>4. k < i \/ k = i \/ k > i OBVIOUS
  <2> QED BY <2>1, <2>2, <2>3, <2>4
<1>10. Len(r) = Len(q) + 1 BY <1>2, <1>7, <1>8
<1> QED BY <1>7, <1>9, <1>10 DEF TbPut

\* What a command that is queued changes of the messages in the queue.
LEMMA TbEnqueues ==
    ASSUME NEW q \in Seq(TbCommands), NEW e \in TbCommands
    PROVE  /\ Enqueued(q, e) \in Seq(TbCommands)
           /\ \A i : TbIn(Enqueued(q, e), i) <=> TbIn(q, i) \/ i = e.msg
           /\ \A i : TbOnceIn(q, i) /\ (i = e.msg => ~TbIn(q, i)) => TbOnceIn(Enqueued(q, e), i)
<1>1. PICK T, n : T = {k \in DOMAIN q : q[k].prio >= e.prio} /\ n = Cardinality(T) OBVIOUS
<1>2. n \in 0 .. Len(q) /\ Len(q) \in Nat
  <2>1. Len(q) \in Nat /\ 1 \in Int /\ Len(q) \in Int /\ DOMAIN q = 1 .. Len(q) OBVIOUS
  <2>2. IsFiniteSet(1 .. Len(q)) /\ Cardinality(1 .. Len(q)) = Len(q)
    <3>1. IsFiniteSet(1 .. Len(q)) /\ Cardinality(1 .. Len(q)) = IF 1 > Len(q) THEN 0 ELSE Len(q) - 1 + 1
      BY <2>1, FS_Interval
    <3> QED BY <2>1, <3>1
  <2>3. T \in SUBSET (1 .. Len(q)) BY <1>1, <2>1
  <2>4. IsFiniteSet(T) /\ Cardinality(T) <= Len(q) BY <2>2, <2>3, FS_Subset
  <2>5. Cardinality(T) \in Nat BY <2>4, FS_CardinalityType
  <2> QED BY <1>1, <2>1, <2>4, <2>5
<1>3. PICK r : r = Enqueued(q, e) OBVIOUS
<1>4. /\ r \in Seq(TbCommands) /\ Len(r) = Len(q) + 1 /\ Len(q) \in Nat
      /\ \A k \in 1 .. (Len(q) + 1) : (k < n + 1 => r[k] = q[k]) /\ (k = n + 1 => r[k] = e) /\ (k > n + 1 => r[k] = q[k - 1])
  <2>1. PICK i : i = 1 + n OBVIOUS
  <2>2. i \in 1 .. (Len(q) + 1) /\ i = n + 1 BY <1>2, <2>1
  <2>3. r = InsertAt(q, i, e) BY <1>1, <1>3, <2>1 DEF Enqueued
  <2>4. TbPut(q, i, e, r)
    BY <2>2, <2>3, TbInserts
  <2> QED BY <1>2, <2>2, <2>4 DEF TbPut
<1>5. DOMAIN r = 1 .. (Len(q) + 1) /\ DOMAIN q = 1 .. Len(q) BY <1>4
<1>6. \A k \in DOMAIN r : \/ k = n + 1 /\ r[k] = e
                          \/ k < n + 1 /\ k \in DOMAIN q /\ r[k] = q[k]
                          \/ k > n + 1 /\ k - 1 \in DOMAIN q /\ r[k] = q[k - 1]
  BY <1>2, <1>4, <1>5
<1>7. \A k \in DOMAIN q : \/ k \in DOMAIN r /\ r[k] = q[k]
                          \/ k + 1 \in DOMAIN r /\ r[k + 1] = q[k]
  <2> SUFFICES ASSUME NEW k \in 1 .. Len(q)
               PROVE  \/ k \in 1 .. (Len(q) + 1) /\ r[k] = q[k]
                      \/ k + 1 \in 1 .. (Len(q) + 1) /\ r[k + 1] = q[k]
    BY <1>5
  <2>1. CASE k < n + 1 BY <1>2, <1>4, <2>1
  <2>2. CASE k >= n + 1
    <3>1. k + 1 \in 1 .. (Len(q) + 1) /\ k + 1 > n + 1 /\ (k + 1) - 1 = k BY <1>2, <2>2
    <3> QED BY <1>4, <3>1
  <2> QED BY <1>2, <2>1, <2>2
<1>8. n + 1 \in DOMAIN r /\ r[n + 1] = e BY <1>2, <1>4, <1>5
<1>9. \A i : TbIn(r, i) <=> TbIn(q, i) \/ i = e.msg BY <1>6, <1>7, <1>8 DEF TbIn
<1>10. ASSUME NEW i, TbOnceIn(q, i), i = e.msg => ~TbIn(q, i) PROVE TbOnceIn(r, i)
  <2> SUFFICES ASSUME NEW k \in DOMAIN r, NEW l \in DOMAIN r, r[k].msg = i, r[l].msg = i PROVE k = l
    BY DEF TbOnceIn
  <2>1. CASE i = e.msg
    <3>1. \A j \in DOMAIN q : q[j].msg # i BY <1>10, <2>1 DEF TbIn
    <3> QED BY <1>6, <3>1
  <2>2. CASE i # e.msg
    <3>1. \A j \in DOMAIN r : r[j].msg = i =>
            j # n + 1 /\ \/ j < n + 1 /\ j \in DOMAIN q /\ q[j].msg = i
                         \/ j > n + 1 /\ j - 1 \in DOMAIN q /\ q[j - 1].msg = i
      BY <1>2, <1>5, <1>6, <2>2
    <3>2. k \in Nat /\ l \in Nat BY <1>5
    <3>3. (k = l) \/ (k = l - 1) \/ (k - 1 = l) \/ (k - 1 = l - 1) BY <1>10, <3>1 DEF TbOnceIn
    <3>4. ASSUME k < n + 1, l > n + 1 PROVE FALSE
      <4>1. k = l - 1 BY <1>10, <3>1, <3>4, <1>2, <3>2 DEF TbOnceIn
      <4> QED BY <1>2, <3>2, <3>4, <4>1
    <3>5. ASSUME k > n + 1, l < n + 1 PROVE FALSE
      <4>1. k - 1 = l BY <1>10, <3>1, <3>5, <1>2, <3>2 DEF TbOnceIn
      <4> QED BY <1>2, <3>2, <3>5, <4>1
    <3>6. CASE k < n + 1 /\ l < n + 1 BY <1>2, <1>10, <3>1, <3>2, <3>6 DEF TbOnceIn
    <3>7. CASE k > n + 1 /\ l > n + 1
      <4>1. k - 1 = l - 1 BY <1>2, <1>10, <3>1, <3>2, <3>7 DEF TbOnceIn
      <4> QED BY <3>2, <4>1
    <3> QED BY <1>2, <3>1, <3>2, <3>4, <3>5, <3>6, <3>7
  <2> QED BY <2>1, <2>2
<1> QED BY <1>3, <1>4, <1>9, <1>10

\* What the next command taken leaves.
LEMMA TbTakes ==
    ASSUME NEW q \in Seq(TbCommands), q # <<>>
    PROVE  /\ Head(q) \in TbCommands /\ Tail(q) \in Seq(TbCommands)
           /\ \A i : TbIn(q, i) <=> TbIn(Tail(q), i) \/ i = Head(q).msg
           /\ \A i : TbOnceIn(q, i) => TbOnceIn(Tail(q), i) /\ (i = Head(q).msg => ~TbIn(Tail(q), i))
<1>1. PICK r, n : r = Tail(q) /\ n = Len(q) OBVIOUS
<1>2. /\ n \in Nat /\ n > 0 /\ Head(q) = q[1] /\ q[1] \in TbCommands /\ r \in Seq(TbCommands)
      /\ DOMAIN q = 1 .. n /\ DOMAIN r = 1 .. (n - 1)
      /\ \A k \in 1 .. (n - 1) : r[k] = q[k + 1]
  BY <1>1
<1>3. \A k \in DOMAIN r : k \in Nat /\ k + 1 \in DOMAIN q /\ k + 1 # 1 /\ r[k] = q[k + 1] BY <1>2
<1>4. \A k \in DOMAIN q : k = 1 \/ (k - 1 \in DOMAIN r /\ r[k - 1] = q[k])
  <2> SUFFICES ASSUME NEW k \in 1 .. n, k # 1 PROVE k - 1 \in 1 .. (n - 1) /\ r[k - 1] = q[k]
    BY <1>2
  <2>1. k - 1 \in 1 .. (n - 1) /\ (k - 1) + 1 = k BY <1>2
  <2> QED BY <1>2, <2>1
<1>5. 1 \in DOMAIN q BY <1>2
<1>6. \A i : TbIn(q, i) <=> TbIn(r, i) \/ i = q[1].msg BY <1>3, <1>4, <1>5 DEF TbIn
<1>7. ASSUME NEW i, TbOnceIn(q, i) PROVE TbOnceIn(r, i) /\ (i = q[1].msg => ~TbIn(r, i))
  <2>1. TbOnceIn(r, i)
    <3> SUFFICES ASSUME NEW k \in DOMAIN r, NEW l \in DOMAIN r, r[k].msg = i, r[l].msg = i PROVE k = l
      BY DEF TbOnceIn
    <3>1. k + 1 = l + 1 BY <1>3, <1>7 DEF TbOnceIn
    <3>2. k \in Nat /\ l \in Nat BY <1>3
    <3> QED BY <3>1, <3>2
  <2>2. ASSUME i = q[1].msg, NEW k \in DOMAIN r, r[k].msg = i PROVE FALSE
    <3>1. k + 1 = 1 BY <1>3, <1>5, <1>7, <2>2 DEF TbOnceIn
    <3> QED BY <1>3, <3>1
  <2> QED BY <2>1, <2>2 DEF TbIn
<1> QED BY <1>1, <1>2, <1>6, <1>7

LEMMA TbNothingWaits == <<>> \in Seq(TbCommands) /\ \A i : ~TbIn(<<>>, i) /\ TbOnceIn(<<>>, i)
BY DEF TbIn, TbOnceIn

\* A session that is opened with nothing waiting in it holds each pending message once.
LEMMA TbReplays ==
    ASSUME NEW q \in OpenedQueues, tbQueue = <<>>
    PROVE  /\ q \in Seq(TbCommands)
           /\ \A i : TbIn(q, i) <=> i \in Replayable
           /\ \A i : TbOnceIn(q, i)
<1>1. PICK order \in ReplayOrders, turn \in BOOLEAN :
        q = [k \in DOMAIN order |-> IngressOf(order[k], Message(order[k]).turn \/ turn)]
  BY DEF OpenedQueues
<1>2. PICK R, n : R = Replayable /\ n = Cardinality(Replayable) OBVIOUS
<1>3. IsFiniteSet(R) /\ n \in Nat
  <2>1. IsFiniteSet(TbIds)
    <3>1. PICK f : f = [g \in TbMessages |-> g.id] OBVIOUS
    <3>2. f \in Surjection(TbMessages, TbIds) BY <3>1 DEF Surjection, TbIds
    <3> QED BY <3>2, FS_Surjection, TbAssumption
  <2>2. R \in SUBSET TbIds BY <1>2 DEF Replayable
  <2>3. IsFiniteSet(R) BY <2>1, <2>2, FS_Subset
  <2> QED BY <1>2, <2>3, FS_CardinalityType
<1>4. order \in [1 .. n -> R] /\ \A j, k \in 1 .. n : j # k => order[j] # order[k]
  BY <1>1, <1>2 DEF ReplayOrders, SetToSeqs
<1>5. \A i \in R : \E k \in 1 .. n : order[k] = i
  <2>1. order \in Injection(1 .. n, R) BY <1>4 DEF Injection, IsInjective
  <2>2. Cardinality(1 .. n) = n BY <1>3, FS_Interval
  <2>3. order \in Surjection(1 .. n, R) BY <1>2, <1>3, <2>1, <2>2, FS_Injection
  <2> QED BY <2>3 DEF Surjection
<1>6. DOMAIN order = 1 .. n /\ DOMAIN q = 1 .. n BY <1>1, <1>4
<1>7. \A k \in 1 .. n : q[k] \in TbCommands /\ q[k].msg = order[k] /\ order[k] \in R
  <2> SUFFICES ASSUME NEW k \in 1 .. n PROVE q[k] \in TbCommands /\ q[k].msg = order[k] /\ order[k] \in R
    OBVIOUS
  <2>1. order[k] \in R /\ order[k] \in TbIds BY <1>2, <1>4 DEF Replayable
  <2>2. q[k] = IngressOf(order[k], Message(order[k]).turn \/ turn) BY <1>1, <1>6
  <2>3. (Message(order[k]).turn \/ turn) \in BOOLEAN OBVIOUS
  <2> QED BY <2>1, <2>2, <2>3, TbWords DEF IngressOf, TbCommands
<1>8. q \in Seq(TbCommands)
  <2>1. q = [k \in 1 .. n |-> q[k]] BY <1>1, <1>6
  <2> QED BY <1>3, <1>7, <2>1
<1>9. \A i : TbIn(q, i) <=> i \in R BY <1>5, <1>6, <1>7 DEF TbIn
<1>10. \A i : TbOnceIn(q, i) BY <1>4, <1>6, <1>7 DEF TbOnceIn
<1> QED BY <1>2, <1>8, <1>9, <1>10
----
\* A sequence of commands in the place of another: the same messages, and none that comes twice.
LEMMA TbSame ==
    ASSUME TbInd, tbStatus' = "ready" \/ tbStatus' = tbStatus, tbStatus' = "ready" => tbStatus # "offline",
           tbStatus' # "ready" => tbQueue' = tbQueue,
           UNCHANGED <<tbMate, tbDelivery, tbToGo, tbNow, tbAt, tbHeard, tbBox, tbRunner>>,
           tbQueue' \in Seq(TbCommands), tbExcuse' \in [Excuses -> SUBSET (TbIds \cup TbMates)],
           \A i \in TbIds : (TbIn(tbQueue', i) <=> TbIn(tbQueue, i)) /\ (TbOnceIn(tbQueue, i) => TbOnceIn(tbQueue', i)),
           tbExcuse'["twice"] = tbExcuse["twice"] /\ tbExcuse'["unrun"] = tbExcuse["unrun"]
             /\ tbExcuse["dropped"] \subseteq tbExcuse'["dropped"] /\ tbExcuse["skipped"] \subseteq tbExcuse'["skipped"],
           tbStatus = "idle" /\ tbStatus' = "ready" =>
             \A i \in TbIds : tbDelivery[i]["leader"] = "pending" => TbIn(tbQueue, i) \/ i \in tbExcuse'["skipped"]
    PROVE  TbInd'
<1>1. TbTyped /\ TbSessionFits /\ TbUnsent /\ TbOneWay /\ TbComing /\ AcknowledgedIsHeard /\ WaitingHasRunner BY DEF TbInd
<1>2. TbTyped' BY <1>1 DEF TbTyped
<1>3. TbSessionFits' BY <1>1 DEF TbSessionFits
<1>4. TbUnsent' BY <1>1 DEF TbUnsent
<1>5. TbOneWay' BY <1>1 DEF TbOneWay
<1>6. TbComing' BY <1>1 DEF TbComing, TbTyped
<1>7. AcknowledgedIsHeard' /\ WaitingHasRunner' BY <1>1 DEF AcknowledgedIsHeard, WaitingHasRunner
<1> QED BY <1>2, <1>3, <1>4, <1>5, <1>6, <1>7 DEF TbInd

\* A session that is opened, and perhaps prompted.
LEMMA TbOpens ==
    ASSUME TbInd, NEW q \in OpenedQueues, tbStatus # "offline", tbStatus' = "ready", tbExcuse' = OpenExcuse,
           UNCHANGED <<tbMate, tbDelivery, tbToGo, tbNow, tbAt, tbHeard, tbBox, tbRunner>>,
           tbQueue' = q \/ tbQueue' = Enqueued(q, Prompt)
    PROVE  TbInd'
<1>1. TbTyped /\ TbSessionFits /\ TbUnsent /\ TbOneWay /\ TbComing /\ AcknowledgedIsHeard /\ WaitingHasRunner BY DEF TbInd
<1>2. tbQueue \in Seq(TbCommands) BY <1>1 DEF TbTyped
<1>3. q \in Seq(TbCommands)
  <2>1. CASE tbQueue # <<>> BY <1>2, <2>1 DEF OpenedQueues
  <2>2. CASE tbQueue = <<>> BY <2>2, TbReplays
  <2> QED BY <2>1, <2>2
<1>4. /\ tbQueue' \in Seq(TbCommands)
      /\ \A i \in TbIds : (TbIn(tbQueue', i) <=> TbIn(q, i)) /\ (TbOnceIn(q, i) => TbOnceIn(tbQueue', i))
  <2>1. CASE tbQueue' = q BY <1>3, <2>1
  <2>2. CASE tbQueue' = Enqueued(q, Prompt)
    <3>1. \A i \in TbIds : i # Prompt.msg BY TbWords
    <3> QED BY <1>3, <2>2, <3>1, TbEnqueues, TbWords
  <2> QED BY <2>1, <2>2
<1>5. CASE tbQueue # <<>>
  <2>1. q = tbQueue BY <1>5 DEF OpenedQueues
  <2>2. tbExcuse' = [tbExcuse EXCEPT !["skipped"] = @ \cup {i \in TbIds : Pending(i) /\ ~IsQueued(i)}] BY <1>5 DEF OpenExcuse
  <2>3. PICK S : S = {i \in TbIds : Pending(i) /\ ~IsQueued(i)} OBVIOUS
  <2>4. tbExcuse' = [tbExcuse EXCEPT !["skipped"] = @ \cup S] /\ S \subseteq TbIds BY <2>2, <2>3
  <2>5. /\ tbExcuse' \in [Excuses -> SUBSET (TbIds \cup TbMates)]
        /\ tbExcuse'["twice"] = tbExcuse["twice"] /\ tbExcuse'["unrun"] = tbExcuse["unrun"]
        /\ tbExcuse'["dropped"] = tbExcuse["dropped"] /\ tbExcuse'["skipped"] = tbExcuse["skipped"] \cup S
    BY <1>1, <2>4 DEF TbTyped, Excuses
  <2>6. tbStatus # "idle" BY <1>1, <1>5 DEF TbSessionFits
  <2> QED BY <1>4, <2>1, <2>5, <2>6, TbSame
<1>6. CASE tbQueue = <<>>
  <2>1. \A i : (TbIn(q, i) <=> i \in Replayable) /\ TbOnceIn(q, i) BY <1>6, TbReplays
  <2>2. \A i \in TbIds : (TbIn(tbQueue', i) <=> tbDelivery[i]["leader"] = "pending") /\ TbOnceIn(tbQueue', i)
    BY <1>4, <2>1 DEF Replayable, Pending
  <2>3. PICK S, R : S = {i \in Replayable : "leader" \in tbToGo[i] \/ tbNow.msg = i} /\ R = Replayable OBVIOUS
  <2>4. tbExcuse' = [tbExcuse EXCEPT !["twice"] = @ \cup S, !["skipped"] = @ \ R] /\ S \subseteq TbIds
    BY <1>6, <2>3 DEF OpenExcuse, Replayable
  <2>5. /\ tbExcuse' \in [Excuses -> SUBSET (TbIds \cup TbMates)]
        /\ tbExcuse'["twice"] = tbExcuse["twice"] \cup S /\ tbExcuse'["unrun"] = tbExcuse["unrun"]
    BY <1>1, <2>4 DEF TbTyped, Excuses
  <2>6. TbTyped' BY <1>1, <1>4, <2>5 DEF TbTyped
  <2>7. TbSessionFits' BY <1>1 DEF TbSessionFits
  <2>8. TbUnsent' BY <1>1, <2>2 DEF TbUnsent
  <2>9. TbOneWay'
    <3> SUFFICES ASSUME NEW i \in TbIds, i \notin tbExcuse'["twice"]
                 PROVE  /\ TbOnceIn(tbQueue', i) /\ tbHeard[i] <= 1
                        /\ TbIn(tbQueue', i) \/ "leader" \in tbToGo[i] => tbHeard[i] = 0
                        /\ "leader" \in tbToGo[i] => ~TbIn(tbQueue', i)
                        /\ tbDelivery[i]["leader"] = "pending" => tbHeard[i] = 0 \/ tbNow.msg = i
      BY DEF TbOneWay
    <3>1. i \notin tbExcuse["twice"] /\ i \notin S BY <2>5
    <3>2. tbDelivery[i]["leader"] = "pending" => "leader" \notin tbToGo[i] /\ tbNow.msg # i
      BY <2>3, <3>1 DEF Replayable, Pending
    <3> QED BY <1>1, <2>2, <3>1, <3>2 DEF TbOneWay
  <2>10. TbComing' BY <2>2 DEF TbComing
  <2>11. AcknowledgedIsHeard' /\ WaitingHasRunner' BY <1>1, <2>5 DEF AcknowledgedIsHeard, WaitingHasRunner
  <2> QED BY <2>6, <2>7, <2>8, <2>9, <2>10, <2>11 DEF TbInd
<1> QED BY <1>5, <1>6

LEMMA TbStarts2 == ASSUME TbInd, StartSession \/ ResumeAndPrompt PROVE TbInd'
<1>1. tbStatus # "offline" /\ tbStatus' = "ready" /\ tbExcuse' = OpenExcuse
  BY DEF StartSession, ResumeAndPrompt
<1>2. UNCHANGED <<tbMate, tbDelivery, tbToGo, tbNow, tbAt, tbHeard, tbBox, tbRunner>>
  BY DEF StartSession, ResumeAndPrompt, tbMates
<1>3. \E q \in OpenedQueues : tbQueue' = q \/ tbQueue' = Enqueued(q, Prompt)
  BY DEF StartSession, ResumeAndPrompt
<1> QED BY <1>1, <1>2, <1>3, TbOpens

LEMMA TbPromptsFirst == ASSUME TbInd, PromptFirst PROVE TbInd'
<1>1. TbTyped BY DEF TbInd
<1>2. PICK S : S = {j \in TbIds : Pending(j) /\ ~IsQueued(j)} OBVIOUS
<1>3. /\ tbStatus = "idle" /\ tbStatus' = "ready" /\ tbQueue' = Enqueued(tbQueue, Prompt) /\ S \subseteq TbIds
      /\ tbExcuse' = [tbExcuse EXCEPT !["skipped"] = @ \cup S]
      /\ UNCHANGED <<tbMate, tbDelivery, tbToGo, tbNow, tbAt, tbHeard, tbBox, tbRunner>>
  BY <1>2 DEF PromptFirst, tbMates
<1>4. /\ tbExcuse' \in [Excuses -> SUBSET (TbIds \cup TbMates)]
      /\ tbExcuse'["twice"] = tbExcuse["twice"] /\ tbExcuse'["unrun"] = tbExcuse["unrun"]
      /\ tbExcuse'["dropped"] = tbExcuse["dropped"] /\ tbExcuse'["skipped"] = tbExcuse["skipped"] \cup S
  BY <1>1, <1>3 DEF TbTyped, Excuses
<1>5. \A i \in TbIds : i # Prompt.msg BY TbWords
<1>6. /\ tbQueue' \in Seq(TbCommands)
      /\ \A i \in TbIds : (TbIn(tbQueue', i) <=> TbIn(tbQueue, i)) /\ (TbOnceIn(tbQueue, i) => TbOnceIn(tbQueue', i))
  BY <1>1, <1>3, <1>5, TbEnqueues, TbWords DEF TbTyped
<1>7. \A i \in TbIds : tbDelivery[i]["leader"] = "pending" => TbIn(tbQueue, i) \/ i \in tbExcuse'["skipped"]
  BY <1>2, <1>4 DEF Pending, IsQueued, TbIn
<1> QED BY <1>3, <1>4, <1>6, <1>7, TbSame

----
LEMMA TbTakesNext == ASSUME TbInd, TakeCommand PROVE TbInd'
<1>1. TbTyped /\ TbSessionFits /\ TbUnsent /\ TbOneWay /\ TbComing /\ AcknowledgedIsHeard /\ WaitingHasRunner BY DEF TbInd
<1>2. PICK c : c = Head(tbQueue) OBVIOUS
<1>3. /\ tbStatus \in {"ready", "waiting"} /\ tbAt = "none" /\ tbQueue # <<>> /\ tbNow' = c /\ tbQueue' = Tail(tbQueue)
      /\ tbAt' = IF c.msg = "prompt" THEN "turn" ELSE "ack"
      /\ tbHeard' = [i \in TbIds |-> IF i = c.msg THEN tbHeard[i] + 1 ELSE tbHeard[i]]
      /\ UNCHANGED <<tbMate, tbDelivery, tbToGo, tbStatus, tbBox, tbRunner, tbExcuse>>
  BY <1>2 DEF TakeCommand, tbMates
<1>4. /\ c \in TbCommands /\ tbQueue' \in Seq(TbCommands)
      /\ \A i : TbIn(tbQueue, i) <=> TbIn(tbQueue', i) \/ i = c.msg
      /\ \A i : TbOnceIn(tbQueue, i) => TbOnceIn(tbQueue', i) /\ (i = c.msg => ~TbIn(tbQueue', i))
  BY <1>1, <1>2, <1>3, TbTakes DEF TbTyped
<1>5. c.msg \in TbIds \cup {"prompt"} BY <1>4 DEF TbCommands
<1>6. /\ tbHeard' \in [TbIds -> Nat] /\ \A i \in TbIds : tbHeard[i] \in Nat
      /\ \A i \in TbIds : i = c.msg => tbHeard'[i] = tbHeard[i] + 1
      /\ \A i \in TbIds : i # c.msg => tbHeard'[i] = tbHeard[i]
  BY <1>1, <1>3 DEF TbTyped
<1>7. tbNow = NoCommand /\ \A i \in TbIds : tbNow.msg # i BY <1>1, <1>3, TbWords DEF TbSessionFits
<1>8. TbTyped' BY <1>1, <1>3, <1>4, <1>6 DEF TbTyped
<1>9. TbSessionFits'
  <2>1. tbNow' # NoCommand BY <1>3, <1>4, TbWords
  <2>2. tbAt' = "ack" => c.msg \in TbIds /\ tbHeard'[c.msg] > 0 BY <1>3, <1>5, <1>6
  <2>3. tbAt' = "turn" => c.msg = "prompt" BY <1>3
  <2> QED BY <1>3, <2>1, <2>2, <2>3, TbWords DEF TbSessionFits
<1>10. TbUnsent' BY <1>1, <1>3, <1>4, <1>6 DEF TbUnsent
<1>11. TbOneWay'
  <2> SUFFICES ASSUME NEW i \in TbIds, i \notin tbExcuse["twice"]
               PROVE  /\ TbOnceIn(tbQueue', i) /\ tbHeard'[i] <= 1
                      /\ TbIn(tbQueue', i) \/ "leader" \in tbToGo[i] => tbHeard'[i] = 0
                      /\ "leader" \in tbToGo[i] => ~TbIn(tbQueue', i)
                      /\ tbDelivery[i]["leader"] = "pending" => tbHeard'[i] = 0 \/ tbNow'.msg = i
    BY <1>3 DEF TbOneWay
  <2>1. /\ TbOnceIn(tbQueue, i) /\ tbHeard[i] <= 1
        /\ TbIn(tbQueue, i) \/ "leader" \in tbToGo[i] => tbHeard[i] = 0
        /\ "leader" \in tbToGo[i] => ~TbIn(tbQueue, i)
        /\ tbDelivery[i]["leader"] = "pending" => tbHeard[i] = 0
    BY <1>1, <1>7 DEF TbOneWay
  <2>2. CASE i = c.msg BY <1>3, <1>4, <1>6, <2>1, <2>2
  <2>3. CASE i # c.msg BY <1>3, <1>4, <1>6, <2>1, <2>3
  <2> QED BY <2>2, <2>3
<1>12. TbComing' BY <1>1, <1>3, <1>4, <1>7 DEF TbComing
<1>13. AcknowledgedIsHeard' /\ WaitingHasRunner' BY <1>1, <1>3, <1>6 DEF AcknowledgedIsHeard, WaitingHasRunner
<1> QED BY <1>8, <1>9, <1>10, <1>11, <1>12, <1>13 DEF TbInd

LEMMA TbAcknowledges == ASSUME TbInd, AcknowledgeDelivery PROVE TbInd'
<1>1. TbTyped /\ TbSessionFits /\ TbUnsent /\ TbOneWay /\ TbComing /\ AcknowledgedIsHeard /\ WaitingHasRunner BY DEF TbInd
<1>2. PICK m : m = tbNow.msg OBVIOUS
<1>3. /\ tbAt = "ack" /\ tbDelivery' = [tbDelivery EXCEPT ![m]["leader"] = "delivered"]
      /\ \/ tbAt' = "turn" /\ tbNow' = tbNow
         \/ tbAt' = "none" /\ tbNow' = NoCommand
      /\ UNCHANGED <<tbMate, tbToGo, tbStatus, tbQueue, tbHeard, tbBox, tbRunner, tbExcuse>>
  BY <1>2 DEF AcknowledgeDelivery, tbMates
<1>4. m \in TbIds /\ tbHeard[m] > 0 /\ tbNow # NoCommand BY <1>1, <1>2, <1>3 DEF TbSessionFits
<1>5. /\ tbDelivery' \in [TbIds -> [TbPeople -> {"none", "pending", "delivered"}]]
      /\ tbDelivery'[m]["leader"] = "delivered"
      /\ \A i \in TbIds : i # m => tbDelivery'[i] = tbDelivery[i]
  <2>1. tbDelivery[m] \in [TbPeople -> {"none", "pending", "delivered"}] /\ "leader" \in TbPeople
    BY <1>1, <1>4 DEF TbTyped, TbPeople
  <2>2. PICK f : f = [tbDelivery[m] EXCEPT !["leader"] = "delivered"] OBVIOUS
  <2>3. f \in [TbPeople -> {"none", "pending", "delivered"}] /\ f["leader"] = "delivered" BY <2>1, <2>2
  <2>4. tbDelivery' = [tbDelivery EXCEPT ![m] = f] BY <1>3, <2>2
  <2> QED BY <1>1, <1>4, <2>3, <2>4 DEF TbTyped
<1>6. tbDelivery[m]["leader"] # "none" BY <1>1, <1>2, <1>4 DEF TbUnsent
<1>7. \A i \in TbIds : i # m => tbNow.msg # i /\ tbNow'.msg # i BY <1>2, <1>3, TbWords
<1>8. TbTyped' BY <1>1, <1>3, <1>5 DEF TbTyped
<1>9. TbSessionFits'
  <2>1. tbStatus \notin {"offline", "idle"} BY <1>1, <1>3 DEF TbSessionFits
  <2>2. \A i \in TbIds : tbNow.msg = i => tbDelivery'[i]["leader"] # "pending" BY <1>2, <1>5
  <2> QED BY <1>3, <1>4, <2>1, <2>2 DEF TbSessionFits
<1>10. TbUnsent'
  <2>1. \A i \in TbIds : tbDelivery'[i]["leader"] = "none" => i # m /\ tbDelivery[i]["leader"] = "none" BY <1>5
  <2> QED BY <1>1, <1>3, <1>7, <2>1 DEF TbUnsent
<1>11. TbOneWay'
  <2>1. \A i \in TbIds : tbDelivery'[i]["leader"] = "pending" => i # m /\ tbDelivery[i]["leader"] = "pending" BY <1>5
  <2> QED BY <1>1, <1>3, <1>7, <2>1 DEF TbOneWay
<1>12. TbComing'
  <2>1. \A i \in TbIds : tbDelivery'[i]["leader"] = "pending" => i # m /\ tbDelivery[i]["leader"] = "pending" BY <1>5
  <2> QED BY <1>1, <1>3, <1>7, <2>1 DEF TbComing
<1>13. AcknowledgedIsHeard' BY <1>1, <1>3, <1>4, <1>5 DEF AcknowledgedIsHeard
<1>14. WaitingHasRunner' BY <1>1, <1>3 DEF WaitingHasRunner
<1> QED BY <1>8, <1>9, <1>10, <1>11, <1>12, <1>13, <1>14 DEF TbInd

LEMMA TbReceiptFails == ASSUME TbInd, ReceiptFails PROVE TbInd'
<1>1. TbTyped /\ TbSessionFits /\ TbUnsent /\ TbOneWay /\ TbComing /\ AcknowledgedIsHeard /\ WaitingHasRunner BY DEF TbInd
<1>2. PICK m : m = tbNow.msg OBVIOUS
<1>3. /\ tbAt = "ack" /\ tbAt' = "none" /\ tbNow' = NoCommand
      /\ tbExcuse' = [tbExcuse EXCEPT !["twice"] = @ \cup {m}, !["skipped"] = @ \cup {m}]
      /\ UNCHANGED <<tbMate, tbDelivery, tbToGo, tbStatus, tbQueue, tbHeard, tbBox, tbRunner>>
  BY <1>2 DEF ReceiptFails, tbMates
<1>4. m \in TbIds BY <1>1, <1>2, <1>3 DEF TbSessionFits
<1>5. /\ tbExcuse' \in [Excuses -> SUBSET (TbIds \cup TbMates)]
      /\ tbExcuse'["twice"] = tbExcuse["twice"] \cup {m} /\ tbExcuse'["skipped"] = tbExcuse["skipped"] \cup {m}
      /\ tbExcuse'["dropped"] = tbExcuse["dropped"] /\ tbExcuse'["unrun"] = tbExcuse["unrun"]
  BY <1>1, <1>3, <1>4 DEF TbTyped, Excuses
<1>6. \A i \in TbIds : (i # m => tbNow.msg # i) /\ tbNow'.msg # i BY <1>2, <1>3, TbWords
<1>7. TbTyped' BY <1>1, <1>3, <1>5 DEF TbTyped
<1>8. TbSessionFits' BY <1>1, <1>3 DEF TbSessionFits
<1>9. TbUnsent' BY <1>1, <1>3, <1>6 DEF TbUnsent
<1>10. TbOneWay'
  <2>1. \A i \in TbIds : i \notin tbExcuse'["twice"] => i # m /\ i \notin tbExcuse["twice"] BY <1>5
  <2> QED BY <1>1, <1>3, <1>6, <2>1 DEF TbOneWay
<1>11. TbComing' BY <1>1, <1>3, <1>5, <1>6 DEF TbComing
<1>12. AcknowledgedIsHeard' /\ WaitingHasRunner' BY <1>1, <1>3, <1>5 DEF AcknowledgedIsHeard, WaitingHasRunner
<1> QED BY <1>7, <1>8, <1>9, <1>10, <1>11, <1>12 DEF TbInd

\* The turn ends, the session closes or is registered.
LEMMA TbSessionMoves == ASSUME TbInd, EndTurn \/ CloseSession \/ Register PROVE TbInd'
<1>1. TbTyped /\ TbSessionFits /\ TbUnsent /\ TbOneWay /\ TbComing /\ AcknowledgedIsHeard /\ WaitingHasRunner BY DEF TbInd
<1>2. /\ UNCHANGED <<tbMate, tbDelivery, tbToGo, tbHeard, tbBox, tbRunner, tbExcuse>>
      /\ \/ tbAt = "turn" /\ tbAt' = "none" /\ tbNow' = NoCommand /\ tbStatus' \in {"ready", "waiting"} /\ tbQueue' = tbQueue
         \/ tbAt = "none" /\ tbStatus' = "offline" /\ tbQueue' = <<>> /\ tbAt' = "none" /\ tbNow' = tbNow
         \/ tbStatus = "offline" /\ tbStatus' = "idle" /\ tbQueue' = tbQueue /\ tbNow' = tbNow /\ tbAt' = tbAt
  BY DEF EndTurn, CloseSession, Register, tbMates
<1>3. AcknowledgedIsHeard' /\ WaitingHasRunner' BY <1>1, <1>2 DEF AcknowledgedIsHeard, WaitingHasRunner
<1>4. CASE tbAt = "turn" /\ tbAt' = "none" /\ tbNow' = NoCommand /\ tbStatus' \in {"ready", "waiting"} /\ tbQueue' = tbQueue
  <2>1. \A i \in TbIds : tbNow'.msg # i /\ (tbDelivery[i]["leader"] = "pending" => tbNow.msg # i)
    BY <1>1, <1>4, TbWords DEF TbSessionFits
  <2>2. tbStatus \in {"ready", "waiting"} BY <1>1, <1>4 DEF TbSessionFits, TbTyped
  <2>3. TbTyped' BY <1>1, <1>2, <1>4 DEF TbTyped
  <2>4. TbSessionFits' BY <1>1, <1>2, <1>4 DEF TbSessionFits
  <2>5. TbUnsent' BY <1>1, <1>2, <1>4, <2>1 DEF TbUnsent
  <2>6. TbOneWay' BY <1>1, <1>2, <1>4, <2>1 DEF TbOneWay
  <2>7. TbComing' BY <1>1, <1>2, <1>4, <2>1, <2>2 DEF TbComing
  <2> QED BY <1>3, <2>3, <2>4, <2>5, <2>6, <2>7 DEF TbInd
<1>5. CASE tbAt = "none" /\ tbStatus' = "offline" /\ tbQueue' = <<>> /\ tbAt' = "none" /\ tbNow' = tbNow
  <2>1. TbTyped' BY <1>1, <1>2, <1>5, TbNothingWaits DEF TbTyped
  <2>2. TbSessionFits' BY <1>1, <1>2, <1>5 DEF TbSessionFits
  <2>3. TbUnsent' BY <1>1, <1>2, <1>5, TbNothingWaits DEF TbUnsent
  <2>4. TbOneWay' BY <1>1, <1>2, <1>5, TbNothingWaits DEF TbOneWay
  <2>5. TbComing' BY <1>5 DEF TbComing
  <2> QED BY <1>3, <2>1, <2>2, <2>3, <2>4, <2>5 DEF TbInd
<1>6. CASE tbStatus = "offline" /\ tbStatus' = "idle" /\ tbQueue' = tbQueue /\ tbNow' = tbNow /\ tbAt' = tbAt
  <2>1. TbTyped' BY <1>1, <1>2, <1>6 DEF TbTyped
  <2>2. TbSessionFits' BY <1>1, <1>2, <1>6 DEF TbSessionFits
  <2>3. TbUnsent' BY <1>1, <1>2, <1>6 DEF TbUnsent
  <2>4. TbOneWay' BY <1>1, <1>2, <1>6 DEF TbOneWay
  <2>5. TbComing' BY <1>6 DEF TbComing
  <2> QED BY <1>3, <2>1, <2>2, <2>3, <2>4, <2>5 DEF TbInd
<1> QED BY <1>2, <1>4, <1>5, <1>6

\* The teammates and their runners, which the leader does not see.
LEMMA TbMatesMove ==
    ASSUME TbInd, UNCHANGED <<tbDelivery, tbToGo, tbStatus, tbQueue, tbNow, tbAt, tbHeard>>,
           tbMate' \in [TbMates -> {"active", "forgotten", "removed"}],
           tbRunner' \in [TbMates -> {"off", "on"}], tbBox' \in [TbMates -> SUBSET TbIds],
           tbExcuse' \in [Excuses -> SUBSET (TbIds \cup TbMates)],
           \A e \in Excuses : e # "unrun" => tbExcuse'[e] = tbExcuse[e],
           WaitingHasRunner'
    PROVE  TbInd'
<1>1. TbTyped /\ TbSessionFits /\ TbUnsent /\ TbOneWay /\ TbComing /\ AcknowledgedIsHeard BY DEF TbInd
<1>2. /\ tbExcuse'["twice"] = tbExcuse["twice"] /\ tbExcuse'["skipped"] = tbExcuse["skipped"]
      /\ tbExcuse'["dropped"] = tbExcuse["dropped"]
  BY DEF Excuses
<1>3. TbTyped' BY <1>1 DEF TbTyped
<1>4. TbSessionFits' /\ TbUnsent' /\ AcknowledgedIsHeard' BY <1>1 DEF TbSessionFits, TbUnsent, AcknowledgedIsHeard
<1>5. TbOneWay' BY <1>1, <1>2 DEF TbOneWay
<1>6. TbComing' BY <1>1, <1>2 DEF TbComing
<1> QED BY <1>3, <1>4, <1>5, <1>6 DEF TbInd

LEMMA TbRunners ==
    ASSUME TbInd, NEW m \in TbMates,
           RunnerRaises(m) \/ ForgetTeammate(m) \/ RemoveTeammateRecord(m) \/ \E i \in TbIds : RunnerReads(m, i)
    PROVE  TbInd'
<1>1. TbTyped /\ WaitingHasRunner BY DEF TbInd
<1>2. UNCHANGED <<tbDelivery, tbToGo, tbStatus, tbQueue, tbNow, tbAt, tbHeard>>
  BY DEF RunnerRaises, ForgetTeammate, RemoveTeammateRecord, RunnerReads, tbSession
<1>3. CASE RunnerRaises(m)
  <2>1. /\ UNCHANGED <<tbMate, tbBox>> /\ tbRunner' = [tbRunner EXCEPT ![m] = "off"]
        /\ tbExcuse' = [tbExcuse EXCEPT !["unrun"] = @ \cup {m}]
    BY <1>3 DEF RunnerRaises
  <2>2. /\ tbExcuse' \in [Excuses -> SUBSET (TbIds \cup TbMates)] /\ \A e \in Excuses : e # "unrun" => tbExcuse'[e] = tbExcuse[e]
        /\ tbExcuse'["unrun"] = tbExcuse["unrun"] \cup {m}
    BY <1>1, <2>1 DEF TbTyped, Excuses
  <2>3. tbRunner' \in [TbMates -> {"off", "on"}] /\ \A n \in TbMates : n # m => tbRunner'[n] = tbRunner[n] BY <1>1, <2>1 DEF TbTyped
  <2>4. WaitingHasRunner' BY <1>1, <2>1, <2>2, <2>3 DEF WaitingHasRunner
  <2> QED BY <1>1, <1>2, <2>1, <2>2, <2>3, <2>4, TbMatesMove DEF TbTyped
<1>4. CASE ForgetTeammate(m)
  <2>1. /\ tbMate' = [tbMate EXCEPT ![m] = "forgotten"] /\ tbBox' = [tbBox EXCEPT ![m] = {}]
        /\ tbRunner' = [tbRunner EXCEPT ![m] = "off"] /\ tbExcuse' = tbExcuse
    BY <1>4 DEF ForgetTeammate
  <2>2. /\ tbMate' \in [TbMates -> {"active", "forgotten", "removed"}]
        /\ tbRunner' \in [TbMates -> {"off", "on"}] /\ tbBox' \in [TbMates -> SUBSET TbIds]
        /\ tbBox'[m] = {} /\ tbRunner'[m] = "off"
        /\ \A n \in TbMates : n # m => tbRunner'[n] = tbRunner[n] /\ tbBox'[n] = tbBox[n]
    BY <1>1, <2>1 DEF TbTyped
  <2>3. WaitingHasRunner' BY <1>1, <2>1, <2>2 DEF WaitingHasRunner
  <2> QED BY <1>1, <1>2, <2>1, <2>2, <2>3, TbMatesMove DEF TbTyped
<1>5. CASE RemoveTeammateRecord(m)
  <2>1. tbMate' = [tbMate EXCEPT ![m] = "removed"] /\ UNCHANGED <<tbBox, tbRunner, tbExcuse>>
    BY <1>5 DEF RemoveTeammateRecord, tbMates
  <2>2. tbMate' \in [TbMates -> {"active", "forgotten", "removed"}] BY <1>1, <2>1 DEF TbTyped
  <2>3. WaitingHasRunner' BY <1>1, <2>1 DEF WaitingHasRunner
  <2> QED BY <1>1, <1>2, <2>1, <2>2, <2>3, TbMatesMove DEF TbTyped
<1>6. ASSUME NEW i \in TbIds, RunnerReads(m, i) PROVE TbInd'
  <2>1. PICK b, u : b = tbBox[m] \ {i} /\ u = (IF tbBox[m] = {i} THEN "off" ELSE "on") OBVIOUS
  <2>2. /\ tbRunner[m] = "on" /\ i \in tbBox[m] /\ tbBox' = [tbBox EXCEPT ![m] = b]
        /\ tbRunner' = [tbRunner EXCEPT ![m] = u] /\ UNCHANGED <<tbMate, tbExcuse>>
    BY <1>6, <2>1 DEF RunnerReads
  <2>3. (b # {} <=> u = "on") /\ b \subseteq tbBox[m] /\ u \in {"off", "on"} BY <2>1, <2>2
  <2>4. /\ tbRunner' \in [TbMates -> {"off", "on"}] /\ tbBox' \in [TbMates -> SUBSET TbIds]
        /\ tbBox'[m] = b /\ tbRunner'[m] = u
        /\ \A n \in TbMates : n # m => tbRunner'[n] = tbRunner[n] /\ tbBox'[n] = tbBox[n]
    BY <1>1, <2>2, <2>3 DEF TbTyped
  <2>5. WaitingHasRunner' BY <1>1, <2>2, <2>3, <2>4 DEF WaitingHasRunner
  <2> QED BY <1>1, <1>2, <2>2, <2>4, <2>5, TbMatesMove DEF TbTyped
<1> QED BY <1>3, <1>4, <1>5, <1>6

LEMMA TbCrashes == ASSUME TbInd, BusCrash PROVE TbInd'
<1>1. TbTyped /\ TbSessionFits /\ TbUnsent /\ TbOneWay /\ TbComing /\ AcknowledgedIsHeard /\ WaitingHasRunner BY DEF TbInd
<1>2. PICK S, D, U : /\ S = (IF tbAt = "ack" THEN {tbNow.msg} ELSE {}) /\ D = {i \in TbIds : tbToGo[i] # {}}
                     /\ U = {m \in TbMates : tbRunner[m] = "on"}
  OBVIOUS
<1>3. /\ tbStatus' = "offline" /\ tbQueue' = <<>> /\ tbNow' = NoCommand /\ tbAt' = "none"
      /\ tbToGo' = [i \in TbIds |-> {}] /\ tbRunner' = [m \in TbMates |-> "off"]
      /\ tbExcuse' = [tbExcuse EXCEPT !["twice"] = @ \cup S, !["dropped"] = @ \cup D, !["unrun"] = @ \cup U]
      /\ UNCHANGED <<tbMate, tbDelivery, tbHeard, tbBox>>
  BY <1>2 DEF BusCrash
<1>4. S \subseteq TbIds /\ D \subseteq TbIds /\ U \subseteq TbMates BY <1>1, <1>2 DEF TbSessionFits
<1>5. /\ tbExcuse' \in [Excuses -> SUBSET (TbIds \cup TbMates)]
      /\ tbExcuse'["twice"] = tbExcuse["twice"] \cup S /\ tbExcuse'["unrun"] = tbExcuse["unrun"] \cup U
  BY <1>1, <1>3, <1>4 DEF TbTyped, Excuses
<1>6. TbTyped' BY <1>1, <1>3, <1>5, TbNothingWaits DEF TbTyped
<1>7. TbSessionFits' BY <1>3 DEF TbSessionFits
<1>8. \A i \in TbIds : tbNow'.msg # i /\ "leader" \notin tbToGo'[i] /\ ~TbIn(tbQueue', i) /\ TbOnceIn(tbQueue', i)
  BY <1>3, TbWords, TbNothingWaits
<1>9. TbUnsent' BY <1>1, <1>3, <1>8 DEF TbUnsent
<1>10. TbOneWay'
  <2>1. \A i \in TbIds : i \notin tbExcuse'["twice"] /\ tbDelivery[i]["leader"] = "pending" => tbNow.msg # i
    <3> SUFFICES ASSUME NEW i \in TbIds, i \notin S, tbDelivery[i]["leader"] = "pending", tbNow.msg = i PROVE FALSE
      BY <1>5
    <3>1. tbAt # "none" BY <1>1, TbWords DEF TbSessionFits
    <3>2. tbAt # "turn" BY <1>1 DEF TbSessionFits
    <3> QED BY <1>1, <1>2, <3>1, <3>2 DEF TbTyped
  <2> QED BY <1>1, <1>3, <1>5, <1>8, <2>1 DEF TbOneWay
<1>11. TbComing' BY <1>3 DEF TbComing
<1>12. AcknowledgedIsHeard' BY <1>1, <1>3 DEF AcknowledgedIsHeard
<1>13. WaitingHasRunner'
  <2>1. \A m \in TbMates : m \notin tbExcuse'["unrun"] => m \notin tbExcuse["unrun"] /\ tbRunner[m] # "on" BY <1>2, <1>5
  <2> QED BY <1>1, <1>3, <2>1 DEF WaitingHasRunner
<1> QED BY <1>6, <1>7, <1>9, <1>10, <1>11, <1>12, <1>13 DEF TbInd

----
\* What is routed of the message i: to r now, and to others later.
TbRouting(i, r, others) ==
    /\ r \in TbPeople /\ others \subseteq TbPeople
    /\ "leader" \in tbToGo[i] => r = "leader" \/ "leader" \in others
    /\ r = "leader" => "leader" \notin others
    /\ (r = "leader" \/ "leader" \in others) /\ i \notin tbExcuse["twice"] => tbHeard[i] = 0 /\ ~TbIn(tbQueue, i)

\* One delivery is routed, of a message that has just been stored or was stored before.
LEMMA TbRoutes ==
    ASSUME TbInd, NEW i \in TbIds, NEW r, NEW others, Route(i, r, others), TbRouting(i, r, others),
           UNCHANGED <<tbMate, tbHeard>>, tbDelivery' \in [TbIds -> [TbPeople -> {"none", "pending", "delivered"}]],
           \A j \in TbIds : j # i => tbDelivery'[j] = tbDelivery[j],
           tbDelivery'[i]["leader"] = tbDelivery[i]["leader"]
             \/ (tbDelivery'[i]["leader"] = "pending" /\ tbHeard[i] = 0 /\ (r = "leader" \/ "leader" \in others)),
           r = "leader" \/ "leader" \in others => tbDelivery'[i]["leader"] # "none"
    PROVE  TbInd'
<1>1. TbTyped /\ TbSessionFits /\ TbUnsent /\ TbOneWay /\ TbComing /\ AcknowledgedIsHeard /\ WaitingHasRunner BY DEF TbInd
<1>2. /\ r \in TbPeople /\ others \subseteq TbPeople
      /\ "leader" \in tbToGo[i] => r = "leader" \/ "leader" \in others
      /\ r = "leader" => "leader" \notin others
      /\ (r = "leader" \/ "leader" \in others) /\ i \notin tbExcuse["twice"] => tbHeard[i] = 0 /\ ~TbIn(tbQueue, i)
  BY DEF TbRouting
<1>3. tbNow' = tbNow /\ tbAt' = tbAt BY DEF Route, RouteToLeader, RouteToTeammate, RouteFails, tbSession
<1>4. AcknowledgedIsHeard'
  <2>1. \A j \in TbIds : tbDelivery'[j]["leader"] = "delivered" => tbDelivery[j]["leader"] = "delivered" OBVIOUS
  <2> QED BY <1>1, <2>1 DEF AcknowledgedIsHeard
<1>5. \A j \in TbIds : tbDelivery'[j]["leader"] = "none" => tbDelivery[j]["leader"] = "none"
                                                     /\ (j = i => r # "leader" /\ "leader" \notin others)
  OBVIOUS
<1>6. \A j \in TbIds : tbDelivery'[j]["leader"] = "pending" =>
        tbDelivery[j]["leader"] = "pending" \/ (j = i /\ tbHeard[i] = 0 /\ (r = "leader" \/ "leader" \in others))
  OBVIOUS
<1>7. \A j \in TbIds : tbNow.msg = j /\ tbAt = "turn" => tbDelivery'[j]["leader"] # "pending"
  <2>1. \A j \in TbIds : tbNow.msg = j => tbHeard[j] # 0 \/ tbDelivery[j]["leader"] # "none"
    BY <1>1 DEF TbUnsent
  <2> SUFFICES ASSUME NEW j \in TbIds, tbNow.msg = j, tbAt = "turn", tbDelivery'[j]["leader"] = "pending" PROVE FALSE
    OBVIOUS
  <2>2. tbDelivery[j]["leader"] # "pending" BY <1>1 DEF TbSessionFits
  <2>3. j = i /\ tbHeard[i] = 0 /\ tbDelivery[i]["leader"] # "pending" BY <1>6, <2>2
  <2>4. tbDelivery[i]["leader"] = "delivered"
    <3>1. tbDelivery[i]["leader"] \in {"none", "pending", "delivered"} BY <1>1 DEF TbTyped, TbPeople
    <3> QED BY <1>1, <2>3, <3>1 DEF TbUnsent
  <2> QED BY <1>1, <2>3, <2>4 DEF AcknowledgedIsHeard
<1>8. ASSUME tbToGo' = [tbToGo EXCEPT ![i] = others] \/ tbToGo' = [tbToGo EXCEPT ![i] = {}],
             UNCHANGED <<tbStatus, tbQueue>>,
             tbBox' \in [TbMates -> SUBSET TbIds], tbRunner' \in [TbMates -> {"off", "on"}],
             tbExcuse' \in [Excuses -> SUBSET (TbIds \cup TbMates)],
             tbExcuse'["twice"] = tbExcuse["twice"], tbExcuse'["skipped"] = tbExcuse["skipped"],
             tbExcuse["dropped"] \subseteq tbExcuse'["dropped"],
             (tbToGo'[i] = others /\ (r = "leader" => tbStatus = "offline")) \/ i \in tbExcuse'["dropped"],
             WaitingHasRunner'
      PROVE  TbInd'
  <2>1. /\ tbToGo' \in [TbIds -> SUBSET TbPeople] /\ tbToGo'[i] \subseteq others
        /\ \A j \in TbIds : j # i => tbToGo'[j] = tbToGo[j]
    BY <1>1, <1>2, <1>8 DEF TbTyped
  <2>2. TbTyped' BY <1>1, <1>3, <1>8, <2>1 DEF TbTyped
  <2>3. TbSessionFits' BY <1>1, <1>3, <1>7, <1>8 DEF TbSessionFits
  <2>4. TbUnsent' BY <1>1, <1>3, <1>5, <1>8, <2>1 DEF TbUnsent
  <2>5. TbOneWay'
    <3> SUFFICES ASSUME NEW j \in TbIds, j \notin tbExcuse["twice"]
                 PROVE  /\ TbOnceIn(tbQueue, j) /\ tbHeard[j] <= 1
                        /\ TbIn(tbQueue, j) \/ "leader" \in tbToGo'[j] => tbHeard[j] = 0
                        /\ "leader" \in tbToGo'[j] => ~TbIn(tbQueue, j)
                        /\ tbDelivery'[j]["leader"] = "pending" => tbHeard[j] = 0 \/ tbNow.msg = j
      BY <1>3, <1>8 DEF TbOneWay
    <3> QED BY <1>1, <1>2, <1>6, <2>1 DEF TbOneWay
  <2>6. TbComing'
    <3> SUFFICES ASSUME tbStatus \in {"ready", "waiting"}, NEW j \in TbIds, tbDelivery'[j]["leader"] = "pending"
                 PROVE  \/ TbIn(tbQueue, j) \/ tbNow.msg = j \/ "leader" \in tbToGo'[j]
                        \/ j \in tbExcuse'["skipped"] \/ j \in tbExcuse'["dropped"]
      BY <1>3, <1>8 DEF TbComing
    <3>1. CASE j # i BY <1>1, <1>6, <1>8, <2>1, <3>1 DEF TbComing
    <3>2. CASE j = i /\ i \notin tbExcuse'["dropped"]
      <4>1. tbToGo'[i] = others /\ r # "leader" BY <1>8, <3>2
      <4>2. CASE "leader" \in others BY <3>2, <4>1, <4>2
      <4>3. CASE "leader" \notin others
        <5>1. tbDelivery[i]["leader"] = "pending" /\ "leader" \notin tbToGo[i] BY <1>2, <1>6, <3>2, <4>1, <4>3
        <5> QED BY <1>1, <1>8, <3>2, <5>1 DEF TbComing
      <4> QED BY <4>2, <4>3
    <3> QED BY <3>1, <3>2
  <2> QED BY <1>4, <1>8, <2>2, <2>3, <2>4, <2>5, <2>6 DEF TbInd
<1>9. CASE r = "leader" /\ tbStatus = "offline"
  <2>1. /\ UNCHANGED <<tbStatus, tbQueue, tbExcuse, tbBox, tbRunner>> /\ tbToGo' = [tbToGo EXCEPT ![i] = others]
    BY <1>9 DEF Route, RouteToLeader, tbMates
  <2>2. tbToGo'[i] = others BY <1>1, <2>1 DEF TbTyped
  <2>3. WaitingHasRunner' BY <1>1, <2>1 DEF WaitingHasRunner
  <2> QED BY <1>1, <1>8, <1>9, <2>1, <2>2, <2>3 DEF TbTyped
<1>10. CASE r = "leader" /\ tbStatus # "offline"
  <2>1. PICK S : S = {j \in TbIds \ {i} : Pending(j) /\ ~IsQueued(j)} OBVIOUS
  <2>2. PICK command \in LeaderIngress(i) :
          /\ tbQueue' = Enqueued(tbQueue, command) /\ tbToGo' = [tbToGo EXCEPT ![i] = others]
          /\ tbStatus' = IF tbStatus = "idle" THEN "ready" ELSE tbStatus
          /\ tbExcuse' = IF tbStatus # "idle" THEN tbExcuse ELSE [tbExcuse EXCEPT !["skipped"] = @ \cup S]
          /\ UNCHANGED <<tbBox, tbRunner>>
    BY <1>10, <2>1 DEF Route, RouteToLeader, tbMates
  <2>3. command \in TbCommands /\ command.msg = i
    <3>1. PICK turn \in BOOLEAN : command = IngressOf(i, turn) BY <2>2 DEF LeaderIngress
    <3> QED BY <3>1, TbWords DEF IngressOf, TbCommands
  <2>4. /\ tbQueue' \in Seq(TbCommands)
        /\ \A j : TbIn(tbQueue', j) <=> TbIn(tbQueue, j) \/ j = i
        /\ \A j : TbOnceIn(tbQueue, j) /\ (j = i => ~TbIn(tbQueue, j)) => TbOnceIn(tbQueue', j)
    BY <1>1, <2>2, <2>3, TbEnqueues DEF TbTyped
  <2>5. S \subseteq TbIds BY <2>1
  <2>6. /\ tbExcuse' \in [Excuses -> SUBSET (TbIds \cup TbMates)]
        /\ tbExcuse'["twice"] = tbExcuse["twice"] /\ tbExcuse'["unrun"] = tbExcuse["unrun"]
        /\ tbExcuse'["dropped"] = tbExcuse["dropped"] /\ tbExcuse["skipped"] \subseteq tbExcuse'["skipped"]
        /\ tbStatus = "idle" => S \subseteq tbExcuse'["skipped"]
    <3>1. CASE tbStatus # "idle" BY <1>1, <2>2, <3>1 DEF TbTyped
    <3>2. CASE tbStatus = "idle" BY <1>1, <2>2, <2>5, <3>2 DEF TbTyped, Excuses
    <3> QED BY <3>1, <3>2
  <2>7. /\ tbToGo' \in [TbIds -> SUBSET TbPeople] /\ tbToGo'[i] = others
        /\ \A j \in TbIds : j # i => tbToGo'[j] = tbToGo[j]
    BY <1>1, <1>2, <2>2 DEF TbTyped
  <2>8. tbStatus' \in {"ready", "waiting"} BY <1>1, <1>10, <2>2 DEF TbTyped
  <2>9. TbTyped' BY <1>1, <1>3, <2>2, <2>4, <2>6, <2>7, <2>8 DEF TbTyped
  <2>10. TbSessionFits' BY <1>1, <1>3, <1>7, <2>8 DEF TbSessionFits
  <2>11. TbUnsent' BY <1>1, <1>3, <1>5, <1>10, <2>4, <2>7 DEF TbUnsent
  <2>12. TbOneWay'
    <3> SUFFICES ASSUME NEW j \in TbIds, j \notin tbExcuse["twice"]
                 PROVE  /\ TbOnceIn(tbQueue', j) /\ tbHeard[j] <= 1
                        /\ TbIn(tbQueue', j) \/ "leader" \in tbToGo'[j] => tbHeard[j] = 0
                        /\ "leader" \in tbToGo'[j] => ~TbIn(tbQueue', j)
                        /\ tbDelivery'[j]["leader"] = "pending" => tbHeard[j] = 0 \/ tbNow.msg = j
      BY <1>3, <2>6 DEF TbOneWay
    <3>1. CASE j = i BY <1>1, <1>2, <1>10, <2>4, <2>7, <3>1 DEF TbOneWay
    <3>2. CASE j # i BY <1>1, <2>4, <2>7, <3>2 DEF TbOneWay
    <3> QED BY <3>1, <3>2
  <2>13. TbComing'
    <3> SUFFICES ASSUME NEW j \in TbIds, j # i, tbDelivery[j]["leader"] = "pending"
                 PROVE  \/ TbIn(tbQueue', j) \/ tbNow.msg = j \/ "leader" \in tbToGo'[j]
                        \/ j \in tbExcuse'["skipped"] \/ j \in tbExcuse'["dropped"]
      BY <1>3, <1>6, <2>4 DEF TbComing
    <3>1. CASE tbStatus = "idle"
      <4>1. j \in S \/ TbIn(tbQueue, j) BY <2>1 DEF Pending, IsQueued, TbIn
      <4> QED BY <2>4, <2>6, <3>1, <4>1
    <3>2. CASE tbStatus # "idle" BY <1>1, <1>10, <2>4, <2>6, <2>7, <3>2 DEF TbComing, TbTyped
    <3> QED BY <3>1, <3>2
  <2>14. WaitingHasRunner' BY <1>1, <2>2, <2>6 DEF WaitingHasRunner
  <2> QED BY <1>4, <2>9, <2>10, <2>11, <2>12, <2>13, <2>14 DEF TbInd
<1>11. CASE r # "leader" /\ tbMate[r] = "active"
  <2>1. /\ tbBox' = [tbBox EXCEPT ![r] = @ \cup {i}] /\ tbRunner' = [tbRunner EXCEPT ![r] = "on"]
        /\ tbExcuse' = [tbExcuse EXCEPT !["unrun"] = @ \ {r}]
        /\ UNCHANGED <<tbStatus, tbQueue>> /\ tbToGo' = [tbToGo EXCEPT ![i] = others]
    BY <1>11 DEF Route, RouteToTeammate, RunnerFor, tbSession
  <2>2. r \in TbMates BY <1>2, <1>11 DEF TbPeople
  <2>3. /\ tbExcuse' \in [Excuses -> SUBSET (TbIds \cup TbMates)]
        /\ tbExcuse'["twice"] = tbExcuse["twice"] /\ tbExcuse'["skipped"] = tbExcuse["skipped"]
        /\ tbExcuse'["dropped"] = tbExcuse["dropped"] /\ tbExcuse'["unrun"] = tbExcuse["unrun"] \ {r}
    BY <1>1, <2>1 DEF TbTyped, Excuses
  <2>4. /\ tbRunner' \in [TbMates -> {"off", "on"}] /\ tbBox' \in [TbMates -> SUBSET TbIds]
        /\ tbBox'[r] # {} /\ tbRunner'[r] = "on"
        /\ \A n \in TbMates : n # r => tbRunner'[n] = tbRunner[n] /\ tbBox'[n] = tbBox[n]
    BY <1>1, <2>1, <2>2 DEF TbTyped
  <2>5. WaitingHasRunner' BY <1>1, <2>3, <2>4 DEF WaitingHasRunner
  <2>6. tbToGo'[i] = others BY <1>1, <2>1 DEF TbTyped
  <2> QED BY <1>8, <1>11, <2>1, <2>3, <2>4, <2>5, <2>6
<1>12. CASE r # "leader" /\ tbMate[r] # "active"
  <2>1. /\ tbExcuse' = [tbExcuse EXCEPT !["dropped"] = @ \cup {i}]
        /\ UNCHANGED <<tbStatus, tbQueue, tbBox, tbRunner>> /\ tbToGo' = [tbToGo EXCEPT ![i] = {}]
    BY <1>12 DEF Route, RouteFails, tbSession, tbMates
  <2>2. /\ tbExcuse' \in [Excuses -> SUBSET (TbIds \cup TbMates)]
        /\ tbExcuse'["twice"] = tbExcuse["twice"] /\ tbExcuse'["skipped"] = tbExcuse["skipped"]
        /\ tbExcuse'["dropped"] = tbExcuse["dropped"] \cup {i} /\ tbExcuse'["unrun"] = tbExcuse["unrun"]
    BY <1>1, <2>1 DEF TbTyped, Excuses
  <2>3. WaitingHasRunner' BY <1>1, <2>1, <2>2 DEF WaitingHasRunner
  <2> QED BY <1>1, <1>8, <2>1, <2>2, <2>3 DEF TbTyped
<1> QED BY <1>9, <1>10, <1>11, <1>12

LEMMA TbSends == ASSUME TbInd, NEW g \in TbMessages, SendMessage(g) PROVE TbInd'
<1>1. TbTyped /\ TbUnsent BY DEF TbInd
<1>2. PICK i, R : i = g.id /\ R = Recipients(g) OBVIOUS
<1>3. i \in TbIds BY <1>2 DEF TbIds
<1>4. PICK r \in R : Route(i, r, R \ {r}) BY <1>2 DEF SendMessage
<1>5. /\ ~Published(i) /\ R \subseteq Team /\ UNCHANGED <<tbMate, tbHeard>>
      /\ tbDelivery' = [tbDelivery EXCEPT ![i] = [p \in TbPeople |-> IF p \in R THEN "pending" ELSE "none"]]
  BY <1>2 DEF SendMessage
<1>6. R \subseteq TbPeople BY <1>5 DEF Team, TbPeople
<1>7. "leader" \in TbPeople BY DEF TbPeople
<1>8. /\ tbDelivery' \in [TbIds -> [TbPeople -> {"none", "pending", "delivered"}]]
      /\ tbDelivery'[i]["leader"] = IF "leader" \in R THEN "pending" ELSE "none"
      /\ \A j \in TbIds : j # i => tbDelivery'[j] = tbDelivery[j]
  <2>1. PICK f : f = [p \in TbPeople |-> IF p \in R THEN "pending" ELSE "none"] OBVIOUS
  <2>2. f \in [TbPeople -> {"none", "pending", "delivered"}] /\ f["leader"] = IF "leader" \in R THEN "pending" ELSE "none"
    BY <1>7, <2>1
  <2>3. tbDelivery' = [tbDelivery EXCEPT ![i] = f] BY <1>5, <2>1
  <2> QED BY <1>1, <1>3, <2>2, <2>3 DEF TbTyped
<1>9. tbDelivery[i]["leader"] = "none" BY <1>5, <1>7 DEF Published
<1>10. tbHeard[i] = 0 /\ ~TbIn(tbQueue, i) /\ "leader" \notin tbToGo[i] BY <1>1, <1>3, <1>9 DEF TbUnsent
<1>11. TbRouting(i, r, R \ {r}) BY <1>6, <1>10 DEF TbRouting
<1>12. ("leader" \in R) <=> (r = "leader" \/ "leader" \in R \ {r}) OBVIOUS
<1> QED BY <1>3, <1>4, <1>5, <1>8, <1>9, <1>10, <1>11, <1>12, TbRoutes

LEMMA TbRoutesNext == ASSUME TbInd, NEW i \in TbIds, RouteNext(i) PROVE TbInd'
<1>1. TbTyped /\ TbUnsent /\ TbOneWay BY DEF TbInd
<1>2. PICK r \in tbToGo[i] : Route(i, r, tbToGo[i] \ {r}) BY DEF RouteNext
<1>3. UNCHANGED <<tbMate, tbDelivery, tbHeard>> BY DEF RouteNext
<1>4. tbToGo[i] \subseteq TbPeople BY <1>1 DEF TbTyped
<1>5. "leader" \in tbToGo[i] =>
        /\ tbDelivery[i]["leader"] # "none"
        /\ i \notin tbExcuse["twice"] => tbHeard[i] = 0 /\ ~TbIn(tbQueue, i)
  BY <1>1 DEF TbUnsent, TbOneWay
<1>6. TbRouting(i, r, tbToGo[i] \ {r}) BY <1>2, <1>4, <1>5 DEF TbRouting
<1>7. r = "leader" \/ "leader" \in tbToGo[i] \ {r} => tbDelivery[i]["leader"] # "none" BY <1>2, <1>5
<1>8. tbDelivery' \in [TbIds -> [TbPeople -> {"none", "pending", "delivered"}]] BY <1>1, <1>3 DEF TbTyped
<1> QED BY <1>2, <1>3, <1>6, <1>7, <1>8, TbRoutes

----
LEMMA TbBegins == TbInit => TbInd
<1> SUFFICES ASSUME TbInit PROVE TbInd
  OBVIOUS
<1>1. TbTyped
  <2>1. tbDelivery \in [TbIds -> [TbPeople -> {"none", "pending", "delivered"}]] BY DEF TbInit
  <2>2. tbToGo \in [TbIds -> SUBSET TbPeople] /\ tbHeard \in [TbIds -> Nat] BY DEF TbInit
  <2>3. tbExcuse \in [Excuses -> SUBSET (TbIds \cup TbMates)] BY DEF TbInit
  <2>4. tbMate \in [TbMates -> {"active", "forgotten", "removed"}] /\ tbRunner \in [TbMates -> {"off", "on"}]
        /\ tbBox \in [TbMates -> SUBSET TbIds]
    BY DEF TbInit
  <2> QED BY <2>1, <2>2, <2>3, <2>4, TbNothingWaits DEF TbInit, TbTyped
<1>2. TbSessionFits BY DEF TbInit, TbSessionFits
<1>3. \A i \in TbIds : /\ tbDelivery[i]["leader"] = "none" /\ tbHeard[i] = 0 /\ tbToGo[i] = {} /\ tbNow.msg # i
                       /\ ~TbIn(tbQueue, i) /\ TbOnceIn(tbQueue, i)
  BY TbWords, TbNothingWaits DEF TbInit, TbPeople
<1>4. TbUnsent /\ TbOneWay /\ AcknowledgedIsHeard BY <1>3 DEF TbUnsent, TbOneWay, AcknowledgedIsHeard
<1>5. TbComing BY <1>3 DEF TbComing
<1>6. WaitingHasRunner BY DEF TbInit, WaitingHasRunner
<1> QED BY <1>1, <1>2, <1>4, <1>5, <1>6 DEF TbInd

LEMMA TbStep == ASSUME TbInd, [TbNext]_tbVars PROVE TbInd'
<1>1. ASSUME NEW g \in TbMessages, SendMessage(g) PROVE TbInd' BY <1>1, TbSends
<1>2. ASSUME NEW i \in TbIds, RouteNext(i) PROVE TbInd' BY <1>2, TbRoutesNext
<1>3. CASE StartSession \/ ResumeAndPrompt BY <1>3, TbStarts2
<1>4. CASE PromptFirst BY <1>4, TbPromptsFirst
<1>5. CASE TakeCommand BY <1>5, TbTakesNext
<1>6. CASE AcknowledgeDelivery BY <1>6, TbAcknowledges
<1>7. CASE ReceiptFails BY <1>7, TbReceiptFails
<1>8. CASE EndTurn \/ CloseSession \/ Register BY <1>8, TbSessionMoves
<1>9. ASSUME NEW m \in TbMates,
             RunnerRaises(m) \/ ForgetTeammate(m) \/ RemoveTeammateRecord(m) \/ \E i \in TbIds : RunnerReads(m, i)
      PROVE  TbInd'
  BY <1>9, TbRunners
<1>10. CASE BusCrash BY <1>10, TbCrashes
<1>11. CASE UNCHANGED tbVars
  <2>1. UNCHANGED <<tbMate, tbDelivery, tbToGo, tbStatus, tbQueue, tbNow, tbAt, tbHeard, tbBox, tbRunner, tbExcuse>>
    BY <1>11 DEF tbVars
  <2>2. TbTyped /\ WaitingHasRunner BY DEF TbInd
  <2>3. WaitingHasRunner' BY <2>1, <2>2 DEF WaitingHasRunner
  <2> QED BY <2>1, <2>2, <2>3, TbMatesMove DEF TbTyped
<1> QED BY <1>1, <1>2, <1>3, <1>4, <1>5, <1>6, <1>7, <1>8, <1>9, <1>10, <1>11 DEF TbNext

LEMMA TbIndSafe == TbInd => BusSafe
<1> SUFFICES ASSUME TbInd PROVE BusSafe
  OBVIOUS
<1>1. TbTyped /\ TbOneWay /\ TbComing /\ AcknowledgedIsHeard /\ WaitingHasRunner BY DEF TbInd
<1>2. TbTypeOK
  <2>1. \A k \in DOMAIN tbQueue : tbQueue[k].msg \in TbIds \cup {"prompt"}
    <3>1. \A k \in DOMAIN tbQueue : tbQueue[k] \in TbCommands BY <1>1 DEF TbTyped
    <3> QED BY <3>1 DEF TbCommands
  <2> QED BY <1>1, <2>1 DEF TbTyped, TbTypeOK
<1>3. PendingIsComing BY <1>1 DEF PendingIsComing, TbComing, Pending, IsQueued, TbIn
<1>4. HeardOnce
  <2> SUFFICES ASSUME NEW i \in TbIds, i \notin tbExcuse["twice"]
               PROVE  tbHeard[i] + Cardinality({k \in DOMAIN tbQueue : tbQueue[k].msg = i}) <= 1
    BY DEF HeardOnce
  <2>1. TbOnceIn(tbQueue, i) /\ tbHeard[i] <= 1 /\ (TbIn(tbQueue, i) => tbHeard[i] = 0) /\ tbHeard[i] \in Nat
    BY <1>1 DEF TbOneWay, TbTyped
  <2>2. CASE TbIn(tbQueue, i)
    <3>1. PICK k \in DOMAIN tbQueue : tbQueue[k].msg = i BY <2>2 DEF TbIn
    <3>2. {l \in DOMAIN tbQueue : tbQueue[l].msg = i} = {k} BY <2>1, <3>1 DEF TbOnceIn
    <3>3. Cardinality({k}) = 1 BY FS_Singleton
    <3> QED BY <2>1, <2>2, <3>2, <3>3
  <2>3. CASE ~TbIn(tbQueue, i)
    <3>1. {l \in DOMAIN tbQueue : tbQueue[l].msg = i} = {} BY <2>3 DEF TbIn
    <3>2. Cardinality({}) = 0 BY FS_EmptySet
    <3> QED BY <2>1, <3>1, <3>2
  <2> QED BY <2>2, <2>3
<1> QED BY <1>1, <1>2, <1>3, <1>4 DEF BusSafe

----
(* The runs of web_research: WebResearch. *)

WsStages == {"search", "inspect", "plan", "act", "synthesize", "repair", "verify", "project", "done"}
WsStops ==
    {"none", "policy_blocked", "budget_exhausted", "freshness_unsupported", "partial_result", "sufficient_evidence",
     "remaining_gaps", "unresolved_conflict"}
WsAsked ==
    [strategy : {"deterministic", "pro"}, hard : BOOLEAN, required : BOOLEAN, plan : Nat, search : Nat,
     fetch : Nat, find : Nat, desired : Nat, turns : Nat, together : Nat]
WsResults == [stop : WsStops, gaps : BOOLEAN, conflict : BOOLEAN, cites : SUBSET UNION WsResponses]

\* The fields, each with its type.
WsRecords ==
    [request : WsAsked, stage : WsStages, used : [Kinds -> Nat], marks : SUBSET {"policy", "budget", "failure"},
     gaps : BOOLEAN, fresh : SUBSET {"none", "enforced", "unsupported", "fallback"}, sources : SUBSET Pages,
     evidence : SUBSET (Pages \X {"page", "match", "snippet"}), direct : SUBSET Pages, queries : Nat,
     passes : SUBSET {"official_confirmation", "credible_reporting", "wider_discovery"}, low : BOOLEAN,
     found : SUBSET Pages, chosen : SUBSET Pages, selected : SUBSET Pages, had : Nat, turn : Nat, raised : BOOLEAN,
     intent : {"none", "sufficient_evidence", "partial_result"}, left : 0 .. MaxActions, executed : BOOLEAN,
     invalid : 0 .. MaxInvalid, claims : {{}} \cup WsResponses, repaired : BOOLEAN, status : WsStops, result : WsResults]

\* What holds of a run at every stage: within its budget, what is found, selected and inspected comes from
\* its sources, a strict run has no snippets, and only a planned one reads direct urls.
WsSound(r) ==
    /\ r \in WsRecords
    /\ \A k \in Kinds : r.used[k] <= r.request[k]
    /\ \A e \in r.evidence : e[1] \in r.sources
    /\ r.found \subseteq r.sources /\ r.chosen \subseteq r.selected
    /\ r.request.hard => \A e \in r.evidence : e[2] # "snippet"
    /\ \A c \in r.result.cites : \E e \in r.evidence : e[1] = c.page
    /\ r.direct # {} => r.request.strategy = "pro"

\* What the stage says of it.
WsPlaced(r) ==
    /\ r.stage \in {"search", "inspect"} => r.request.strategy # "pro"
    /\ r.stage \in {"plan", "act", "synthesize", "repair", "verify"} => r.request.strategy = "pro"
    /\ r.stage = "search" => StopReason(r, "none") # "sufficient_evidence"
    /\ r.stage \in {"synthesize", "repair", "verify", "project"} /\ r.request.strategy = "pro"
         /\ OnlyDirect(r) /\ r.request.desired > 1 => r.status = "remaining_gaps"
    /\ r.stage = "done" /\ r.result.stop = "sufficient_evidence" =>
         /\ Cardinality(Inspected(r)) >= r.request.desired
         /\ r.marks \subseteq {"policy"} /\ ~r.result.gaps /\ ~r.result.conflict
         /\ ~StaleSources(r)
         /\ r.request.desired > 1 => ~OnlyDirect(r)

WsInd == WsSound(ws) /\ WsPlaced(ws)

----
\* What the operations on a record leave alone.
WsKeeps(r, t) ==
    /\ t.request = r.request /\ t.stage = r.stage /\ t.status = r.status /\ t.direct = r.direct
    /\ t.left = r.left /\ t.queries = r.queries /\ t.found \subseteq r.found /\ t.result = r.result

\* A field is given another value of its type.
LEMMA WsPutLedger ==
    ASSUME NEW r \in WsRecords
    PROVE  /\ \A v \in SUBSET Pages : [r EXCEPT !.sources = v] \in WsRecords
           /\ \A v \in SUBSET {"none", "enforced", "unsupported", "fallback"} : [r EXCEPT !.fresh = v] \in WsRecords
           /\ \A v \in SUBSET (Pages \X {"page", "match", "snippet"}) : [r EXCEPT !.evidence = v] \in WsRecords
           /\ \A v \in SUBSET {"official_confirmation", "credible_reporting", "wider_discovery"} : [r EXCEPT !.passes = v] \in WsRecords
           /\ \A v \in Nat : [r EXCEPT !.queries = v] \in WsRecords
<1>1. \A v \in SUBSET Pages : [r EXCEPT !.sources = v] \in WsRecords BY DEF WsRecords
<1>2. \A v \in SUBSET {"none", "enforced", "unsupported", "fallback"} : [r EXCEPT !.fresh = v] \in WsRecords BY DEF WsRecords
<1>3. \A v \in SUBSET (Pages \X {"page", "match", "snippet"}) : [r EXCEPT !.evidence = v] \in WsRecords BY DEF WsRecords
<1>4. \A v \in SUBSET {"official_confirmation", "credible_reporting", "wider_discovery"} : [r EXCEPT !.passes = v] \in WsRecords BY DEF WsRecords
<1>5. \A v \in Nat : [r EXCEPT !.queries = v] \in WsRecords BY DEF WsRecords
<1> QED BY <1>1, <1>2, <1>3, <1>4, <1>5

LEMMA WsPutPages ==
    ASSUME NEW r \in WsRecords
    PROVE  /\ \A v \in BOOLEAN : [r EXCEPT !.low = v] \in WsRecords
           /\ \A v \in SUBSET Pages : [r EXCEPT !.found = v] \in WsRecords
           /\ \A v \in SUBSET Pages : [r EXCEPT !.chosen = v] \in WsRecords
           /\ \A v \in SUBSET Pages : [r EXCEPT !.selected = v] \in WsRecords
           /\ \A v \in Nat : [r EXCEPT !.had = v] \in WsRecords
<1>1. \A v \in BOOLEAN : [r EXCEPT !.low = v] \in WsRecords BY DEF WsRecords
<1>2. \A v \in SUBSET Pages : [r EXCEPT !.found = v] \in WsRecords BY DEF WsRecords
<1>3. \A v \in SUBSET Pages : [r EXCEPT !.chosen = v] \in WsRecords BY DEF WsRecords
<1>4. \A v \in SUBSET Pages : [r EXCEPT !.selected = v] \in WsRecords BY DEF WsRecords
<1>5. \A v \in Nat : [r EXCEPT !.had = v] \in WsRecords BY DEF WsRecords
<1> QED BY <1>1, <1>2, <1>3, <1>4, <1>5

LEMMA WsPutPlan ==
    ASSUME NEW r \in WsRecords
    PROVE  /\ \A v \in WsAsked : [r EXCEPT !.request = v] \in WsRecords
           /\ \A v \in Nat : [r EXCEPT !.turn = v] \in WsRecords
           /\ \A v \in BOOLEAN : [r EXCEPT !.raised = v] \in WsRecords
           /\ \A v \in {"none", "sufficient_evidence", "partial_result"} : [r EXCEPT !.intent = v] \in WsRecords
           /\ \A v \in 0 .. MaxActions : [r EXCEPT !.left = v] \in WsRecords
           /\ \A v \in BOOLEAN : [r EXCEPT !.executed = v] \in WsRecords
           /\ \A v \in 0 .. MaxInvalid : [r EXCEPT !.invalid = v] \in WsRecords
<1>1. \A v \in WsAsked : [r EXCEPT !.request = v] \in WsRecords BY DEF WsRecords
<1>2. \A v \in Nat : [r EXCEPT !.turn = v] \in WsRecords BY DEF WsRecords
<1>3. \A v \in BOOLEAN : [r EXCEPT !.raised = v] \in WsRecords BY DEF WsRecords
<1>4. \A v \in {"none", "sufficient_evidence", "partial_result"} : [r EXCEPT !.intent = v] \in WsRecords BY DEF WsRecords
<1>5. \A v \in 0 .. MaxActions : [r EXCEPT !.left = v] \in WsRecords BY DEF WsRecords
<1>6. \A v \in BOOLEAN : [r EXCEPT !.executed = v] \in WsRecords BY DEF WsRecords
<1>7. \A v \in 0 .. MaxInvalid : [r EXCEPT !.invalid = v] \in WsRecords BY DEF WsRecords
<1> QED BY <1>1, <1>2, <1>3, <1>4, <1>5, <1>6, <1>7

LEMMA WsPutAnswer ==
    ASSUME NEW r \in WsRecords
    PROVE  /\ \A v \in WsStages : [r EXCEPT !.stage = v] \in WsRecords
           /\ \A v \in BOOLEAN : [r EXCEPT !.gaps = v] \in WsRecords
           /\ \A v \in {{}} \cup WsResponses : [r EXCEPT !.claims = v] \in WsRecords
           /\ \A v \in BOOLEAN : [r EXCEPT !.repaired = v] \in WsRecords
           /\ \A v \in WsStops : [r EXCEPT !.status = v] \in WsRecords
           /\ \A v \in WsResults : [r EXCEPT !.result = v] \in WsRecords
<1>1. \A v \in WsStages : [r EXCEPT !.stage = v] \in WsRecords BY DEF WsRecords
<1>2. \A v \in BOOLEAN : [r EXCEPT !.gaps = v] \in WsRecords BY DEF WsRecords
<1>3. \A v \in {{}} \cup WsResponses : [r EXCEPT !.claims = v] \in WsRecords BY DEF WsRecords
<1>4. \A v \in BOOLEAN : [r EXCEPT !.repaired = v] \in WsRecords BY DEF WsRecords
<1>5. \A v \in WsStops : [r EXCEPT !.status = v] \in WsRecords BY DEF WsRecords
<1>6. \A v \in WsResults : [r EXCEPT !.result = v] \in WsRecords BY DEF WsRecords
<1> QED BY <1>1, <1>2, <1>3, <1>4, <1>5, <1>6

LEMMA WsReserves ==
    ASSUME NEW r, WsSound(r), NEW kind \in Kinds
    PROVE  WsSound(Reserve(r, kind)) /\ WsKeeps(r, Reserve(r, kind)) /\ Reserve(r, kind).evidence = r.evidence
<1>1. CASE Reserved(r, kind)
  <2>1. PICK t : t = [r EXCEPT !.used[kind] = @ + 1] OBVIOUS
  <2>2. r \in WsRecords /\ r.used[kind] < r.request[kind] BY <1>1 DEF WsSound, Reserved
  <2>3. t = [r EXCEPT !.used = [r.used EXCEPT ![kind] = r.used[kind] + 1]] BY <2>1, <2>2 DEF WsRecords
  <2>4. r.used \in [Kinds -> Nat] /\ r.request \in WsAsked /\ [r.used EXCEPT ![kind] = r.used[kind] + 1] \in [Kinds -> Nat]
    BY <2>2 DEF WsRecords
  <2>5. t \in WsRecords /\ t.used = [r.used EXCEPT ![kind] = r.used[kind] + 1] BY <2>2, <2>3, <2>4 DEF WsRecords
  <2>6. WsKeeps(r, t) /\ t.evidence = r.evidence BY <2>2, <2>3 DEF WsRecords, WsKeeps
  <2>7. \A k \in Kinds : r.request[k] \in Nat BY <2>4 DEF WsAsked, Kinds
  <2>8. \A k \in Kinds : t.used[k] <= t.request[k]
    <3> SUFFICES ASSUME NEW k \in Kinds PROVE t.used[k] <= r.request[k] BY <2>6 DEF WsKeeps
    <3>1. CASE k = kind BY <2>2, <2>4, <2>5, <2>7, <3>1
    <3>2. CASE k # kind BY <2>4, <2>5, <3>2 DEF WsSound
    <3> QED BY <3>1, <3>2
  <2>9. t.sources = r.sources /\ t.found = r.found /\ t.chosen = r.chosen /\ t.selected = r.selected
    BY <2>2, <2>3 DEF WsRecords
  <2>10. WsSound(t) BY <2>5, <2>6, <2>8, <2>9 DEF WsSound, WsKeeps
  <2>11. Reserve(r, kind) = t BY <1>1, <2>1 DEF Reserve
  <2> QED BY <2>6, <2>10, <2>11
<1>2. CASE ~Reserved(r, kind)
  <2>1. PICK t : t = [r EXCEPT !.marks = @ \cup {"budget"}] OBVIOUS
  <2>2. r \in WsRecords BY DEF WsSound
  <2>3. t \in WsRecords BY <2>1, <2>2 DEF WsRecords
  <2>4. WsKeeps(r, t) /\ t.evidence = r.evidence BY <2>1, <2>2 DEF WsRecords, WsKeeps
  <2>5. t.sources = r.sources /\ t.found = r.found /\ t.chosen = r.chosen /\ t.selected = r.selected /\ t.used = r.used
    BY <2>1, <2>2 DEF WsRecords
  <2>6. WsSound(t) BY <2>3, <2>4, <2>5 DEF WsSound, WsKeeps
  <2>7. Reserve(r, kind) = t BY <1>2, <2>1 DEF Reserve
  <2> QED BY <2>4, <2>6, <2>7
<1> QED BY <1>1, <1>2

\* A change of the marks, the gaps, the outcomes of searches or the loop's own counters disturbs nothing.
WsAside(r, t) ==
    /\ t \in WsRecords /\ t.request = r.request /\ t.used = r.used /\ t.sources = r.sources
    /\ t.evidence = r.evidence /\ t.found \in {r.found, {}} /\ t.chosen \subseteq r.chosen /\ t.selected = r.selected
    /\ t.result.cites = r.result.cites /\ t.direct = r.direct

LEMMA WsAsides == ASSUME NEW r, WsSound(r), NEW t, WsAside(r, t) PROVE WsSound(t)
BY DEF WsSound, WsAside

LEMMA WsFails ==
    ASSUME NEW r, WsSound(r), NEW t, t \in {RecordFailure(r), RecordRejection(r), RecordGap(r)}
    PROVE  WsSound(t) /\ WsKeeps(r, t) /\ t.evidence = r.evidence /\ t.claims = r.claims
<1>0. r \in WsRecords BY DEF WsSound
<1>1. CASE t = RecordFailure(r)
  <2>1. WsAside(r, t) /\ WsKeeps(r, t) /\ t.claims = r.claims
    BY <1>0, <1>1 DEF RecordFailure, WsRecords, WsKeeps, WsAside
  <2> QED BY <2>1, WsAsides DEF WsAside
<1>2. CASE t = RecordRejection(r)
  <2>1. WsAside(r, t) /\ WsKeeps(r, t) /\ t.claims = r.claims
    BY <1>0, <1>2 DEF RecordRejection, WsRecords, WsKeeps, WsAside
  <2> QED BY <2>1, WsAsides DEF WsAside
<1>3. CASE t = RecordGap(r)
  <2>1. WsAside(r, t) /\ WsKeeps(r, t) /\ t.claims = r.claims
    BY <1>0, <1>3 DEF RecordGap, WsRecords, WsKeeps, WsAside
  <2> QED BY <2>1, WsAsides DEF WsAside
<1> QED BY <1>1, <1>2, <1>3

LEMMA WsSearched ==
    ASSUME NEW r, WsSound(r), NEW pages \in SUBSET Pages, NEW o \in {"none", "enforced", "unsupported", "fallback"},
           NEW t, t = RecordSearch(r, pages, o)
    PROVE  WsSound(t) /\ WsKeeps(r, t) /\ t.evidence = r.evidence /\ t.sources = r.sources \cup pages
<1>0. r \in WsRecords BY DEF WsSound
<1>1. t = [r EXCEPT !.sources = r.sources \cup pages, !.fresh = r.fresh \cup {o}] BY DEF RecordSearch
<1>2. r.sources \cup pages \in SUBSET Pages
      /\ r.fresh \cup {o} \in SUBSET {"none", "enforced", "unsupported", "fallback"}
  BY <1>0 DEF WsRecords
<1>3. PICK u : u = [r EXCEPT !.sources = r.sources \cup pages] OBVIOUS
<1>4. u \in WsRecords /\ u.fresh = r.fresh
  <2>1. u \in WsRecords BY <1>0, <1>2, <1>3, WsPutLedger
  <2> QED BY <1>0, <1>3, <2>1 DEF WsRecords
<1>5. t = [u EXCEPT !.fresh = r.fresh \cup {o}] BY <1>1, <1>3
<1>6. t \in WsRecords BY <1>2, <1>4, <1>5, WsPutLedger
<1>7. /\ t.request = r.request /\ t.used = r.used /\ t.sources = r.sources \cup pages /\ t.evidence = r.evidence
      /\ t.found = r.found /\ t.chosen = r.chosen /\ t.selected = r.selected /\ t.result = r.result /\ t.direct = r.direct
      /\ t.stage = r.stage /\ t.status = r.status /\ t.left = r.left /\ t.queries = r.queries
  BY <1>0, <1>1 DEF WsRecords
<1> QED BY <1>6, <1>7 DEF WsSound, WsKeeps

\* A piece of evidence is recorded with its source.
LEMMA WsInspects ==
    ASSUME NEW r, WsSound(r), NEW p \in Pages, NEW t, t = RecordFetch(r, p) \/ t = RecordFind(r, p)
    PROVE  WsSound(t) /\ WsKeeps(r, t)
<1>0. r \in WsRecords BY DEF WsSound
<1>1. PICK kind \in {"page", "match"} :
        t = [r EXCEPT !.sources = r.sources \cup {p}, !.evidence = r.evidence \cup {<<p, kind>>}]
  BY DEF RecordFetch, RecordFind
<1>2. r.sources \cup {p} \in SUBSET Pages
  BY <1>0 DEF WsRecords
<1>3. r.evidence \cup {<<p, kind>>} \in SUBSET (Pages \X {"page", "match", "snippet"})
  BY <1>0 DEF WsRecords
<1>4. t \in WsRecords BY <1>0, <1>1, <1>2, <1>3 DEF WsRecords
<1>5. /\ t.request = r.request /\ t.used = r.used /\ t.sources = r.sources \cup {p}
      /\ t.evidence = r.evidence \cup {<<p, kind>>}
      /\ t.found = r.found /\ t.chosen = r.chosen /\ t.selected = r.selected /\ t.result = r.result /\ t.direct = r.direct
      /\ t.stage = r.stage /\ t.status = r.status /\ t.left = r.left /\ t.queries = r.queries
  BY <1>0, <1>1 DEF WsRecords
<1>6. <<p, kind>>[1] = p /\ <<p, kind>>[2] # "snippet" OBVIOUS
<1>7. /\ \A e \in t.evidence : e[1] \in t.sources
      /\ t.request.hard => \A e \in t.evidence : e[2] # "snippet"
  BY <1>5, <1>6 DEF WsSound
<1> QED BY <1>4, <1>5, <1>7 DEF WsSound, WsKeeps

LEMMA WsFilled ==
    ASSUME NEW r, WsSound(r), NEW s \in SUBSET r.found, s # {} => ~r.request.hard, NEW t, t = RecordSnippets(r, s)
    PROVE  WsSound(t) /\ WsKeeps(r, t)
<1>0. r \in WsRecords BY DEF WsSound
<1>1. PICK E : E = {<<p, "snippet">> : p \in s} OBVIOUS
<1>2. t = [r EXCEPT !.evidence = r.evidence \cup E] BY <1>1 DEF RecordSnippets
<1>3. s \subseteq r.sources /\ s \subseteq Pages BY <1>0 DEF WsSound, WsRecords
<1>4. \A e \in E : e \in Pages \X {"page", "match", "snippet"} /\ e[1] \in r.sources BY <1>1, <1>3
<1>5. r.evidence \cup E \in SUBSET (Pages \X {"page", "match", "snippet"}) BY <1>0, <1>4 DEF WsRecords
<1>6. t \in WsRecords BY <1>0, <1>2, <1>5 DEF WsRecords
<1>7. /\ t.request = r.request /\ t.used = r.used /\ t.sources = r.sources /\ t.evidence = r.evidence \cup E
      /\ t.found = r.found /\ t.chosen = r.chosen /\ t.selected = r.selected /\ t.result = r.result /\ t.direct = r.direct
      /\ t.stage = r.stage /\ t.status = r.status /\ t.left = r.left /\ t.queries = r.queries
  BY <1>0, <1>2 DEF WsRecords
<1>8. r.request.hard => E = {} BY <1>1
<1>9. /\ \A e \in t.evidence : e[1] \in t.sources
      /\ t.request.hard => \A e \in t.evidence : e[2] # "snippet"
  BY <1>4, <1>7, <1>8 DEF WsSound
<1> QED BY <1>6, <1>7, <1>9 DEF WsSound, WsKeeps

----
\* The stop reason is made of the marks, the outcomes of searches and the evidence.
LEMMA WsSameReason ==
    ASSUME NEW r, NEW t, t.marks = r.marks, t.fresh = r.fresh, t.evidence = r.evidence, t.request = r.request, NEW child
    PROVE  /\ StopReason(t, child) = StopReason(r, child) /\ OnlyDirect(t) = (t.evidence # {} /\ t.direct # {} /\ Inspected(r) \subseteq t.direct)
           /\ Inspected(t) = Inspected(r) /\ StaleSources(t) = StaleSources(r)
<1>1. Inspected(t) = Inspected(r) BY DEF Inspected
<1>2. StaleSources(t) = StaleSources(r) BY DEF StaleSources
<1>3. StopReason(t, child) = StopReason(r, child) BY <1>1, <1>2 DEF StopReason
<1>4. OnlyDirect(t) = (t.evidence # {} /\ t.direct # {} /\ Inspected(r) \subseteq t.direct) BY <1>1 DEF OnlyDirect
<1> QED BY <1>1, <1>2, <1>3, <1>4

LEMMA WsReasons ==
    ASSUME NEW r, NEW child \in WsStops
    PROVE  StopReason(r, child) \in WsStops /\ (r.evidence = {} => StopReason(r, child) # "sufficient_evidence")
BY DEF StopReason, WsStops

LEMMA WsDecides ==
    ASSUME NEW r, Decision(r).replan \/ Decision(r).stop \notin FinalStops
    PROVE  StopReason(r, "none") # "sufficient_evidence"
<1> SUFFICES ASSUME StopReason(r, "none") = "sufficient_evidence" PROVE FALSE
  OBVIOUS
<1>1. Decision(r) = [stop |-> "sufficient_evidence", replan |-> FALSE] BY DEF Decision
<1> QED BY <1>1 DEF FinalStops

LEMMA WsStopsOf == ASSUME NEW r PROVE Decision(r).stop \in WsStops
<1>1. StopReason(r, "none") \in WsStops BY WsReasons DEF WsStops
<1> QED BY <1>1 DEF Decision, WsStops

\* The loop goes on only without what it was asked for.
LEMMA WsContinues ==
    ASSUME NEW r, WsSound(r), r.request.strategy # "pro", NEW t, t = Continued(r)
    PROVE  WsSound(t) /\ WsPlaced(t)
<1>0. r \in WsRecords BY DEF WsSound
<1>1. CASE Decision(r).replan
  <2>1. PICK u : u = Replanned(r) OBVIOUS
  <2>2. /\ u \in WsRecords /\ WsAside(r, u) /\ u.marks = r.marks /\ u.fresh = r.fresh /\ u.evidence = r.evidence
        /\ u.request = r.request
    <3>1. PICK family \in {"official_confirmation", "credible_reporting", "wider_discovery"} :
            u = r \/ u = [r EXCEPT !.passes = r.passes \cup {family},
                                  !.queries = r.queries + (IF family = "official_confirmation" THEN 1 ELSE 2)]
      BY <2>1 DEF Replanned
    <3>2. PICK n \in {1, 2} : u = r \/ u = [r EXCEPT !.passes = r.passes \cup {family}, !.queries = r.queries + n]
      BY <3>1
    <3>3. r.passes \cup {family} \in SUBSET {"official_confirmation", "credible_reporting", "wider_discovery"}
          /\ r.queries + n \in Nat
      BY <1>0 DEF WsRecords
    <3>4. CASE u = r BY <1>0, <3>4 DEF WsRecords, WsAside
    <3>5. CASE u = [r EXCEPT !.passes = r.passes \cup {family}, !.queries = r.queries + n]
      <4>1. u \in WsRecords BY <1>0, <3>3, <3>5, WsPutLedger
      <4> QED BY <1>0, <3>5, <4>1 DEF WsRecords, WsAside
    <3> QED BY <3>2, <3>4, <3>5
  <2>3. t = [u EXCEPT !.stage = "search"] BY <1>1, <2>1 DEF Continued
  <2>4. t \in WsRecords BY <2>2, <2>3 DEF WsRecords, WsStages
  <2>5. /\ WsAside(u, t) /\ t.marks = u.marks /\ t.fresh = u.fresh /\ t.evidence = u.evidence /\ t.request = u.request
        /\ t.stage = "search"
    BY <2>2, <2>3, <2>4 DEF WsRecords, WsAside
  <2>6. WsSound(t)
    <3>1. WsSound(u) BY <2>2, WsAsides
    <3> QED BY <2>5, <3>1, WsAsides
  <2>7. StopReason(t, "none") = StopReason(r, "none") BY <2>2, <2>5, WsSameReason
  <2>8. WsPlaced(t) BY <1>1, <2>2, <2>5, <2>7, WsDecides DEF WsPlaced
  <2> QED BY <2>6, <2>8
<1>2. CASE ~Decision(r).replan
  <2>1. PICK s \in {"project", "search"} :
          t = [r EXCEPT !.stage = s] /\ (s = "search" => Decision(r).stop \notin FinalStops)
    BY <1>2 DEF Continued
  <2>2. t \in WsRecords BY <1>0, <2>1 DEF WsRecords, WsStages
  <2>3. /\ WsAside(r, t) /\ t.marks = r.marks /\ t.fresh = r.fresh /\ t.evidence = r.evidence /\ t.request = r.request
        /\ t.stage = s
    BY <1>0, <2>1, <2>2 DEF WsRecords, WsAside
  <2>4. WsSound(t) BY <2>3, WsAsides
  <2>5. StopReason(t, "none") = StopReason(r, "none") BY <2>3, WsSameReason
  <2>6. s = "search" => StopReason(t, "none") # "sufficient_evidence" BY <2>1, <2>5, WsDecides
  <2>7. WsPlaced(t) BY <2>1, <2>3, <2>6 DEF WsPlaced
  <2> QED BY <2>4, <2>7
<1> QED BY <1>1, <1>2

LEMMA WsCounts ==
    ASSUME NEW r \in WsRecords
    PROVE  Cardinality(r.evidence) \in Nat /\ Cardinality(Inspected(r)) \in Nat
<1>1. IsFiniteSet({"page", "match", "snippet"})
  <2>1. IsFiniteSet({}) BY FS_EmptySet
  <2>2. IsFiniteSet({"page"}) BY <2>1, FS_AddElement
  <2>3. IsFiniteSet({"page"} \cup {"match"}) BY <2>2, FS_AddElement
  <2>4. IsFiniteSet({"page"} \cup {"match"} \cup {"snippet"}) BY <2>3, FS_AddElement
  <2>5. {"page"} \cup {"match"} \cup {"snippet"} = {"page", "match", "snippet"} OBVIOUS
  <2> QED BY <2>4, <2>5
<1>2. IsFiniteSet(Pages \X {"page", "match", "snippet"}) BY <1>1, WsAssumption, FS_Product
<1>3. r.evidence \in SUBSET (Pages \X {"page", "match", "snippet"}) BY DEF WsRecords
<1>4. IsFiniteSet(r.evidence) BY <1>2, <1>3, FS_Subset
<1>5. \A e \in r.evidence : e[1] \in Pages BY <1>3
<1>6. Inspected(r) \subseteq Pages BY <1>5 DEF Inspected
<1>7. IsFiniteSet(Inspected(r)) BY <1>6, WsAssumption, FS_Subset
<1> QED BY <1>4, <1>7, FS_CardinalityType

----
(* The deterministic loop. *)
LEMMA WsSearchFails == ASSUME WsInd, SearchFails PROVE WsInd'
<1>1. WsSound(ws) /\ ws.request.strategy # "pro" /\ ws.queries > 0 BY DEF WsInd, WsPlaced, SearchFails
<1>2. PICK a : a = Reserve(ws, "search") OBVIOUS
<1>3. WsSound(a) /\ WsKeeps(ws, a) BY <1>1, <1>2, WsReserves DEF Kinds
<1>4. PICK b : b = RecordFailure(a) OBVIOUS
<1>5. WsSound(b) /\ WsKeeps(a, b) BY <1>3, <1>4, WsFails
<1>6. PICK c : c = RecordGap(b) OBVIOUS
<1>7. WsSound(c) /\ WsKeeps(b, c) BY <1>5, <1>6, WsFails
<1>8. PICK d : d = [c EXCEPT !.queries = @ - 1, !.low = TRUE] OBVIOUS
<1>9. c \in WsRecords /\ ws \in WsRecords /\ c.queries = ws.queries /\ c.request = ws.request
  BY <1>1, <1>3, <1>5, <1>7 DEF WsSound, WsKeeps
<1>10. c.queries - 1 \in Nat BY <1>1, <1>9 DEF WsRecords
<1>11. d \in WsRecords BY <1>8, <1>9, <1>10 DEF WsRecords
<1>12. WsAside(c, d) BY <1>8, <1>9, <1>11 DEF WsRecords, WsAside
<1>13. WsSound(d) /\ d.request.strategy # "pro" BY <1>1, <1>7, <1>9, <1>12, WsAsides DEF WsAside
<1>14. ws' = Continued(d) BY <1>2, <1>4, <1>6, <1>8 DEF SearchFails
<1> QED BY <1>13, <1>14, WsContinues DEF WsInd

LEMMA WsSelects ==
    ASSUME NEW r, NEW pages, NEW s \in Selections(r, pages)
    PROVE  s \subseteq pages
<1>1. CASE Limit(r) = 0 \/ pages = {} BY <1>1 DEF Selections
<1>2. CASE ~(Limit(r) = 0 \/ pages = {}) /\ pages \ r.selected = {} BY <1>2 DEF Selections
<1>3. CASE ~(Limit(r) = 0 \/ pages = {}) /\ pages \ r.selected # {} BY <1>3 DEF Selections
<1> QED BY <1>1, <1>2, <1>3

LEMMA WsSearches == ASSUME WsInd, Search PROVE WsInd'
<1>1. WsSound(ws) /\ ws.request.strategy # "pro" /\ ws.queries > 0 /\ ws \in WsRecords
  BY DEF WsInd, WsPlaced, WsSound, Search
<1>2. PICK pages \in SUBSET Pages, o \in {"none", "enforced", "unsupported", "fallback"} :
        \E s \in Selections(ws, pages) :
          ws' = [RecordSearch(Reserve(ws, "search"), pages, o) EXCEPT
                   !.stage = "inspect", !.queries = @ - 1, !.found = pages, !.chosen = s,
                   !.selected = @ \cup s, !.had = Cardinality(ws.evidence)]
  <2>1. PICK pages \in SUBSET Pages,
             o \in IF ws.request.required THEN {"enforced", "unsupported", "fallback"} ELSE {"none"} :
          \E s \in Selections(ws, pages) :
            ws' = [RecordSearch(Reserve(ws, "search"), pages, o) EXCEPT
                     !.stage = "inspect", !.queries = @ - 1, !.found = pages, !.chosen = s,
                     !.selected = @ \cup s, !.had = Cardinality(ws.evidence)]
    BY DEF Search
  <2>2. o \in {"none", "enforced", "unsupported", "fallback"} OBVIOUS
  <2> QED BY <2>1, <2>2
<1>3. PICK s \in Selections(ws, pages) :
        ws' = [RecordSearch(Reserve(ws, "search"), pages, o) EXCEPT
                 !.stage = "inspect", !.queries = @ - 1, !.found = pages, !.chosen = s,
                 !.selected = @ \cup s, !.had = Cardinality(ws.evidence)]
  BY <1>2
<1>4. PICK a : a = Reserve(ws, "search") OBVIOUS
<1>5. WsSound(a) /\ WsKeeps(ws, a) BY <1>1, <1>4, WsReserves DEF Kinds
<1>6. PICK b : b = RecordSearch(a, pages, o) OBVIOUS
<1>7. WsSound(b) /\ WsKeeps(a, b) /\ b.sources = a.sources \cup pages BY <1>5, <1>6, WsSearched
<1>8. b \in WsRecords /\ b.queries = ws.queries /\ b.request = ws.request BY <1>5, <1>7 DEF WsSound, WsKeeps
<1>9. PICK n, h : n = b.queries - 1 /\ h = Cardinality(ws.evidence) OBVIOUS
<1>10. n \in Nat /\ h \in Nat BY <1>1, <1>8, <1>9, WsCounts DEF WsRecords
<1>11. s \in SUBSET Pages /\ b.selected \cup s \in SUBSET Pages BY <1>8, WsSelects DEF WsRecords
<1>12. ws' = [b EXCEPT !.stage = "inspect", !.queries = n, !.found = pages, !.chosen = s,
                       !.selected = b.selected \cup s, !.had = h]
  BY <1>3, <1>4, <1>6, <1>9
<1>13. ws' \in WsRecords BY <1>8, <1>10, <1>11, <1>12, WsPutLedger, WsPutPages, WsPutAnswer DEF WsStages
<1>14. /\ ws'.request = b.request /\ ws'.used = b.used /\ ws'.sources = b.sources /\ ws'.evidence = b.evidence
       /\ ws'.found = pages /\ ws'.chosen = s /\ ws'.selected = b.selected \cup s /\ ws'.result = b.result
       /\ ws'.direct = b.direct /\ ws'.stage = "inspect"
  BY <1>8, <1>12 DEF WsRecords
<1>15. WsSound(ws') BY <1>7, <1>13, <1>14 DEF WsSound
<1>16. WsPlaced(ws') BY <1>1, <1>8, <1>14 DEF WsPlaced
<1> QED BY <1>15, <1>16 DEF WsInd

LEMMA WsLooks == ASSUME WsInd, Inspect PROVE WsInd'
<1>1. WsSound(ws) /\ WsPlaced(ws) /\ ws \in WsRecords /\ ws.stage = "inspect" BY DEF WsInd, WsSound, Inspect
<1>2. PICK p, next : /\ p \in ws.chosen /\ next = [ws EXCEPT !.chosen = @ \ {p}]
                     /\ ws' \in {RecordRejection(next), RecordFailure(Reserve(next, "fetch")),
                                 RecordFetch(Reserve(next, "fetch"), p)}
  BY DEF Inspect
<1>3. next = [ws EXCEPT !.chosen = ws.chosen \ {p}] /\ ws.chosen \ {p} \in SUBSET Pages /\ p \in Pages
  BY <1>1, <1>2 DEF WsRecords
<1>4. next \in WsRecords BY <1>1, <1>3 DEF WsRecords
<1>5. WsAside(ws, next) /\ WsKeeps(ws, next) BY <1>1, <1>3, <1>4 DEF WsRecords, WsAside, WsKeeps
<1>6. WsSound(next) BY <1>1, <1>5, WsAsides
<1>7. PICK a : a = Reserve(next, "fetch") OBVIOUS
<1>8. WsSound(a) /\ WsKeeps(next, a) BY <1>6, <1>7, WsReserves DEF Kinds
<1>9. ws' \in {RecordRejection(next), RecordFailure(a), RecordFetch(a, p)} BY <1>2, <1>7
<1>10. WsSound(ws') /\ (WsKeeps(next, ws') \/ WsKeeps(a, ws'))
  <2>1. CASE ws' = RecordRejection(next) BY <1>6, <2>1, WsFails
  <2>2. CASE ws' = RecordFailure(a) BY <1>8, <2>2, WsFails
  <2>3. CASE ws' = RecordFetch(a, p) BY <1>3, <1>8, <2>3, WsInspects
  <2> QED BY <1>9, <2>1, <2>2, <2>3
<1>11. ws'.stage = "inspect" /\ ws'.request = ws.request BY <1>1, <1>5, <1>8, <1>10 DEF WsKeeps
<1>12. WsPlaced(ws') BY <1>1, <1>11 DEF WsPlaced
<1> QED BY <1>10, <1>12 DEF WsInd

LEMMA WsEvaluates == ASSUME WsInd, Evaluate PROVE WsInd'
<1>1. WsSound(ws) /\ ws \in WsRecords /\ ws.request.strategy # "pro" BY DEF WsInd, WsSound, WsPlaced, Evaluate
<1>2. PICK s, l : /\ s \in SUBSET ws.found /\ (s # {} => ~ws.request.hard) /\ l \in BOOLEAN
                  /\ ws' = Continued([RecordSnippets(ws, s) EXCEPT !.low = l, !.found = {}, !.had = 0])
  <2>1. PICK progress, snippets :
          /\ progress \in BOOLEAN /\ snippets \subseteq ws.found /\ (snippets # {} => ~ws.request.hard)
          /\ \E s \in SUBSET snippets :
               ws' = Continued([RecordSnippets(ws, s) EXCEPT !.low = ~progress /\ s = {}, !.found = {}, !.had = 0])
    BY DEF Evaluate
  <2>2. PICK s \in SUBSET snippets :
          ws' = Continued([RecordSnippets(ws, s) EXCEPT !.low = ~progress /\ s = {}, !.found = {}, !.had = 0])
    BY <2>1
  <2>3. PICK l \in BOOLEAN : l = (~progress /\ s = {}) OBVIOUS
  <2> QED BY <2>1, <2>2, <2>3
<1>3. PICK a : a = RecordSnippets(ws, s) OBVIOUS
<1>4. WsSound(a) /\ WsKeeps(ws, a) BY <1>1, <1>2, <1>3, WsFilled
<1>5. PICK b : b = [a EXCEPT !.low = l, !.found = {}, !.had = 0] OBVIOUS
<1>6. a \in WsRecords BY <1>4 DEF WsSound
<1>7. b \in WsRecords BY <1>2, <1>5, <1>6 DEF WsRecords
<1>8. WsAside(a, b) BY <1>5, <1>6, <1>7 DEF WsRecords, WsAside
<1>9. WsSound(b) /\ b.request.strategy # "pro" BY <1>1, <1>4, <1>8, WsAsides DEF WsAside, WsKeeps
<1>10. ws' = Continued(b) BY <1>2, <1>3, <1>5
<1> QED BY <1>9, <1>10, WsContinues DEF WsInd

LEMMA WsLoopEnds == ASSUME WsInd, LoopEnds PROVE WsInd'
<1>1. WsSound(ws) /\ ws \in WsRecords /\ ws.request.strategy # "pro" BY DEF WsInd, WsSound, WsPlaced, LoopEnds
<1>2. ws' = [ws EXCEPT !.stage = "project"] BY DEF LoopEnds
<1>3. ws' \in WsRecords BY <1>1, <1>2 DEF WsRecords, WsStages
<1>4. WsAside(ws, ws') /\ ws'.stage = "project" BY <1>1, <1>2, <1>3 DEF WsRecords, WsAside
<1>5. WsSound(ws') BY <1>1, <1>4, WsAsides
<1>6. WsPlaced(ws') BY <1>1, <1>4 DEF WsPlaced, WsAside
<1> QED BY <1>5, <1>6 DEF WsInd

----
(* The loop that a model plans. *)

\* Budgets only rise.
LEMMA WsRaises ==
    ASSUME NEW r, WsSound(r), NEW t, t = Raised(r)
    PROVE  WsSound(t) /\ t.stage = r.stage /\ t.request.strategy = r.request.strategy /\ t.left = r.left
<1>0. r \in WsRecords /\ r.request \in WsAsked BY DEF WsSound, WsRecords
<1>1. CASE r.raised BY <1>1 DEF Raised
<1>2. CASE ~r.raised
  <2>1. PICK up : up = [k \in Budget |-> Larger(r.request[k], Floor[k])] OBVIOUS
  <2>2. \A k \in Budget : r.request[k] \in Nat /\ Floor[k] \in Nat
    BY <1>0, WsAssumption DEF WsAsked, Budget
  <2>3. \A k \in Budget : up[k] \in Nat /\ up[k] >= r.request[k] BY <2>1, <2>2 DEF Larger
  <2>4. PICK q : q = [f \in DOMAIN r.request |-> IF f \in Budget THEN up[f] ELSE r.request[f]] OBVIOUS
  <2>5. DOMAIN r.request = {"strategy", "hard", "required", "plan", "search", "fetch", "find", "desired", "turns", "together"}
    BY <1>0 DEF WsAsked
  <2>6. DOMAIN q = DOMAIN r.request /\ \A f \in DOMAIN r.request : f \in Budget => q[f] = up[f] BY <2>4
  <2>7. \A f \in DOMAIN r.request : f \notin Budget => q[f] = r.request[f] BY <2>4
  <2>8. /\ q["strategy"] = r.request["strategy"] /\ q["hard"] = r.request["hard"] /\ q["required"] = r.request["required"]
        /\ q["plan"] = r.request["plan"]
    BY <2>5, <2>7 DEF Budget
  <2>9. \A k \in {"search", "fetch", "find", "desired", "turns", "together"} : q[k] \in Nat /\ q[k] >= r.request[k]
    BY <2>3, <2>5, <2>6 DEF Budget
  <2>10. q \in WsAsked
    <3>1. q = [f \in DOMAIN r.request |-> q[f]] BY <2>4
    <3> QED BY <1>0, <2>5, <2>8, <2>9, <3>1 DEF WsAsked
  <2>11. PICK b \in BOOLEAN : t = [r EXCEPT !.request = q, !.raised = b]
    <3>1. PICK b \in BOOLEAN : b = (\E k \in Budget : up[k] > r.request[k]) OBVIOUS
    <3> QED BY <1>0, <1>2, <2>1, <2>4, <3>1 DEF Raised, WsRecords
  <2>12. t \in WsRecords
    <3>1. PICK u : u = [r EXCEPT !.request = q] OBVIOUS
    <3>2. u \in WsRecords BY <1>0, <2>10, <3>1, WsPutPlan
    <3>3. t = [u EXCEPT !.raised = b] BY <2>11, <3>1
    <3> QED BY <3>2, <3>3, WsPutPlan
  <2>13. /\ t.request = q /\ t.used = r.used /\ t.sources = r.sources /\ t.evidence = r.evidence
         /\ t.found = r.found /\ t.chosen = r.chosen /\ t.selected = r.selected /\ t.result = r.result
         /\ t.direct = r.direct /\ t.stage = r.stage /\ t.left = r.left
    BY <1>0, <2>11 DEF WsRecords
  <2>14. \A k \in Kinds : t.used[k] <= t.request[k]
    <3> SUFFICES ASSUME NEW k \in Kinds PROVE r.used[k] <= q[k] BY <2>13
    <3>1. r.used[k] \in Nat BY <1>0 DEF WsRecords
    <3>2. k \in Budget /\ q[k] \in Nat /\ q[k] >= r.request[k] /\ r.request[k] \in Nat
      BY <2>2, <2>9 DEF Kinds, Budget
    <3>3. r.used[k] <= r.request[k] BY DEF WsSound
    <3> QED BY <3>1, <3>2, <3>3
  <2>15. t.request.hard = r.request.hard /\ t.request.strategy = r.request.strategy BY <2>8, <2>13
  <2> QED BY <2>12, <2>13, <2>14, <2>15 DEF WsSound
<1> QED BY <1>1, <1>2

\* What is left with only direct urls says that gaps remain.
LEMMA WsLeaves ==
    ASSUME NEW r, WsSound(r), r.request.strategy = "pro", NEW t, t = Leave(r)
    PROVE  WsSound(t) /\ WsPlaced(t)
<1>0. r \in WsRecords BY DEF WsSound
<1>1. PICK d : d = TerminalDecision(r) OBVIOUS
<1>2. d \in WsStops
  <2>1. r.intent \in WsStops BY <1>0 DEF WsRecords, WsStops
  <2>2. StopReason(r, r.intent) \in WsStops BY <2>1, WsReasons
  <2> QED BY <1>1, <2>2 DEF TerminalDecision, WsStops
<1>3. t = [r EXCEPT !.stage = "synthesize", !.status = d, !.turn = 0, !.raised = FALSE, !.intent = "none", !.left = 0,
                    !.executed = FALSE, !.invalid = 0]
  BY <1>1 DEF Leave
<1>4. 0 \in 0 .. MaxActions /\ 0 \in 0 .. MaxInvalid BY WsAssumption DEF MaxInvalid
<1>5. t \in WsRecords
  <2>1. PICK u : u = [r EXCEPT !.stage = "synthesize", !.status = d] OBVIOUS
  <2>2. PICK v : v = [u EXCEPT !.turn = 0, !.raised = FALSE, !.intent = "none"] OBVIOUS
  <2>3. t = [v EXCEPT !.left = 0, !.executed = FALSE, !.invalid = 0] BY <1>3, <2>1, <2>2
  <2>4. u \in WsRecords BY <1>0, <1>2, <2>1, WsPutAnswer DEF WsStages
  <2>5. v \in WsRecords BY <2>2, <2>4, WsPutPlan
  <2>6. PICK w : w = [v EXCEPT !.left = 0] OBVIOUS
  <2>7. w \in WsRecords BY <1>4, <2>5, <2>6, WsPutPlan
  <2>8. PICK x : x = [w EXCEPT !.executed = FALSE] OBVIOUS
  <2>9. x \in WsRecords BY <2>7, <2>8, WsPutPlan
  <2>10. t = [x EXCEPT !.invalid = 0] BY <2>3, <2>6, <2>8
  <2> QED BY <1>4, <2>9, <2>10, WsPutPlan
<1>6. WsAside(r, t) /\ t.stage = "synthesize" /\ t.status = d /\ t.evidence = r.evidence /\ t.direct = r.direct
  BY <1>0, <1>3, <1>5 DEF WsRecords, WsAside
<1>7. WsSound(t) BY <1>6, WsAsides
<1>8. OnlyDirect(t) => OnlyDirect(r) BY <1>6 DEF OnlyDirect, Inspected
<1>9. OnlyDirect(t) /\ t.request.desired > 1 => t.status = "remaining_gaps"
  BY <1>1, <1>6, <1>8 DEF TerminalDecision, WsAside
<1>10. WsPlaced(t) BY <1>6, <1>9 DEF WsPlaced, WsAside
<1> QED BY <1>7, <1>10

LEMMA WsPlanFails == ASSUME WsInd, PlanFails PROVE WsInd'
<1>1. WsSound(ws) /\ ws.request.strategy = "pro" BY DEF WsInd, WsPlaced, PlanFails
<1>2. PICK r : r = RecordGap(ws) OBVIOUS
<1>3. WsSound(r) /\ r.request.strategy = "pro" BY <1>1, <1>2, WsFails DEF WsKeeps
<1>4. ws' = Leave(r) BY <1>2 DEF PlanFails
<1> QED BY <1>3, <1>4, WsLeaves DEF WsInd

LEMMA WsPlans == ASSUME WsInd, Plan PROVE WsInd'
<1>1. WsSound(ws) /\ ws.request.strategy = "pro" /\ ws \in WsRecords BY DEF WsInd, WsPlaced, WsSound, Plan
<1>2. PICK broad \in BOOLEAN, gap \in BOOLEAN, n \in 0 .. MaxActions,
           intent \in {ws.intent, "sufficient_evidence", "partial_result"} :
        ws' = [(IF gap THEN RecordGap(IF broad THEN Raised(ws) ELSE ws) ELSE (IF broad THEN Raised(ws) ELSE ws))
                 EXCEPT !.stage = "act", !.left = n, !.intent = intent, !.executed = FALSE]
  BY DEF Plan
<1>3. PICK a : a = IF broad THEN Raised(ws) ELSE ws OBVIOUS
<1>4. WsSound(a) /\ a.request.strategy = "pro" BY <1>1, <1>3, WsRaises
<1>5. PICK b : b = IF gap THEN RecordGap(a) ELSE a OBVIOUS
<1>6. WsSound(b) /\ b.request.strategy = "pro" /\ b \in WsRecords BY <1>4, <1>5, WsFails DEF WsKeeps, WsSound
<1>7. ws' = [b EXCEPT !.stage = "act", !.left = n, !.intent = intent, !.executed = FALSE] BY <1>2, <1>3, <1>5
<1>8. intent \in {"none", "sufficient_evidence", "partial_result"} BY <1>1, <1>2 DEF WsRecords
<1>9. ws' \in WsRecords BY <1>6, <1>7, <1>8, WsPutPlan, WsPutAnswer DEF WsStages
<1>10. WsAside(b, ws') /\ ws'.stage = "act" BY <1>6, <1>7, <1>9 DEF WsRecords, WsAside
<1>11. WsSound(ws') BY <1>6, <1>10, WsAsides
<1>12. WsPlaced(ws') BY <1>6, <1>10 DEF WsPlaced, WsAside
<1> QED BY <1>11, <1>12 DEF WsInd

\* A record in the middle of a planned turn.
WsActing(r) == WsSound(r) /\ r.stage = "act" /\ r.left > 0 /\ r.request.strategy = "pro"

LEMMA WsCounted ==
    ASSUME NEW r, WsActing(r), NEW t, t = Accepted(r) \/ t = Refused(r)
                                      \/ t = [r EXCEPT !.invalid = Smaller(@ + 1, MaxInvalid), !.left = @ - 1]
    PROVE  WsSound(t) /\ WsPlaced(t)
<1>0. r \in WsRecords /\ WsSound(r) BY DEF WsActing, WsSound
<1>1. PICK n : n = r.left - 1 OBVIOUS
<1>2. n \in 0 .. MaxActions BY <1>0, <1>1, WsAssumption DEF WsActing, WsRecords
<1>3. PICK m : m = Smaller(r.invalid + 1, MaxInvalid) OBVIOUS
<1>4. m \in 0 .. MaxInvalid BY <1>0, <1>3 DEF WsRecords, Smaller, MaxInvalid
<1>5. PICK e \in BOOLEAN, i \in {r.invalid, m}, g \in BOOLEAN :
        t = [r EXCEPT !.executed = e, !.invalid = i, !.left = n, !.gaps = g]
  <2>1. CASE t = Accepted(r)
    <3>1. t = [r EXCEPT !.executed = TRUE, !.invalid = r.invalid, !.left = n, !.gaps = r.gaps]
      BY <1>0, <1>1, <2>1 DEF Accepted, WsRecords
    <3>2. r.gaps \in BOOLEAN BY <1>0 DEF WsRecords
    <3> QED BY <3>1, <3>2
  <2>2. CASE t = Refused(r)
    <3>1. PICK g : g = RecordGap(r) OBVIOUS
    <3>2. g = [r EXCEPT !.gaps = TRUE] BY <3>1 DEF RecordGap
    <3>3. t = [g EXCEPT !.invalid = Smaller(@ + 1, MaxInvalid), !.left = @ - 1] BY <2>2, <3>1 DEF Refused
    <3>4. t = [r EXCEPT !.executed = r.executed, !.invalid = m, !.left = n, !.gaps = TRUE]
      BY <1>0, <1>1, <1>3, <3>2, <3>3 DEF WsRecords
    <3>5. r.executed \in BOOLEAN BY <1>0 DEF WsRecords
    <3> QED BY <3>4, <3>5
  <2>3. CASE t = [r EXCEPT !.invalid = Smaller(@ + 1, MaxInvalid), !.left = @ - 1]
    <3>1. t = [r EXCEPT !.executed = r.executed, !.invalid = m, !.left = n, !.gaps = r.gaps]
      BY <1>0, <1>1, <1>3, <2>3 DEF WsRecords
    <3>2. r.executed \in BOOLEAN /\ r.gaps \in BOOLEAN BY <1>0 DEF WsRecords
    <3> QED BY <3>1, <3>2
  <2> QED BY <2>1, <2>2, <2>3
<1>6. i \in 0 .. MaxInvalid BY <1>0, <1>4, <1>5 DEF WsRecords
<1>7. t \in WsRecords BY <1>0, <1>2, <1>5, <1>6, WsPutPlan, WsPutAnswer
<1>8. WsAside(r, t) /\ t.stage = r.stage BY <1>0, <1>5, <1>7 DEF WsRecords, WsAside
<1>9. WsSound(t) BY <1>0, <1>8, WsAsides
<1>10. WsPlaced(t) BY <1>8 DEF WsActing, WsPlaced, WsAside
<1> QED BY <1>9, <1>10

LEMMA WsAttempts ==
    ASSUME WsActing(ws), NEW kind \in Kinds, NEW record, WsActing(record), Attempt(kind, record)
    PROVE  WsInd'
<1>1. PICK a : a = Reserve(ws, kind) OBVIOUS
<1>2. WsActing(a)
  <2>1. WsSound(a) /\ WsKeeps(ws, a) BY <1>1, WsReserves DEF WsActing
  <2> QED BY <2>1 DEF WsActing, WsKeeps
<1>3. PICK b : b = RecordFailure(a) OBVIOUS
<1>4. WsActing(b)
  <2>1. WsSound(b) /\ WsKeeps(a, b) BY <1>2, <1>3, WsFails DEF WsActing
  <2> QED BY <1>2, <2>1 DEF WsActing, WsKeeps
<1>5. ws' \in {Accepted(record), Refused(b), Refused(a)} BY <1>1, <1>3 DEF Attempt
<1> QED BY <1>2, <1>4, <1>5, WsCounted DEF WsInd

LEMMA WsActs == ASSUME WsInd, Act PROVE WsInd'
<1>1. WsActing(ws) /\ WsSound(ws) /\ ws \in WsRecords BY DEF WsInd, WsPlaced, WsActing, WsSound, Act
<1>2. {"search", "fetch", "find"} = Kinds BY DEF Kinds
<1>3. CASE ActSearch
  <2>1. PICK pages \in SUBSET Pages, o \in {"none", "enforced", "unsupported", "fallback"} :
          Attempt("search", RecordSearch(Reserve(ws, "search"), pages, o))
    BY <1>3 DEF ActSearch
  <2>2. PICK a : a = Reserve(ws, "search") OBVIOUS
  <2>3. WsSound(a) /\ WsKeeps(ws, a) BY <1>1, <1>2, <2>2, WsReserves
  <2>4. PICK b : b = RecordSearch(a, pages, o) OBVIOUS
  <2>5. WsSound(b) /\ WsKeeps(a, b) BY <2>3, <2>4, WsSearched
  <2>6. WsActing(b) BY <1>1, <2>3, <2>5 DEF WsActing, WsKeeps
  <2> QED BY <1>1, <1>2, <2>1, <2>2, <2>4, <2>6, WsAttempts
<1>4. CASE ActFetch
  <2>1. PICK p \in ws.sources : Attempt("fetch", RecordFetch(Reserve(ws, "fetch"), p)) BY <1>4 DEF ActFetch
  <2>2. PICK a : a = Reserve(ws, "fetch") OBVIOUS
  <2>3. WsSound(a) /\ WsKeeps(ws, a) BY <1>1, <1>2, <2>2, WsReserves
  <2>4. PICK b : b = RecordFetch(a, p) OBVIOUS
  <2>5. p \in Pages BY <1>1, <2>1 DEF WsRecords
  <2>6. WsSound(b) /\ WsKeeps(a, b) BY <2>3, <2>4, <2>5, WsInspects
  <2>7. WsActing(b) BY <1>1, <2>3, <2>6 DEF WsActing, WsKeeps
  <2> QED BY <1>1, <1>2, <2>1, <2>2, <2>4, <2>7, WsAttempts
<1>5. CASE ActDirect
  <2>1. PICK p \in Pages : Attempt("fetch", [RecordFetch(Reserve(ws, "fetch"), p) EXCEPT !.direct = @ \cup {p}])
    BY <1>5 DEF ActDirect
  <2>2. PICK a : a = Reserve(ws, "fetch") OBVIOUS
  <2>3. WsSound(a) /\ WsKeeps(ws, a) BY <1>1, <1>2, <2>2, WsReserves
  <2>4. PICK b : b = RecordFetch(a, p) OBVIOUS
  <2>5. WsSound(b) /\ WsKeeps(a, b) BY <2>3, <2>4, WsInspects
  <2>6. PICK c : c = [b EXCEPT !.direct = @ \cup {p}] OBVIOUS
  <2>7. b \in WsRecords /\ b.request.strategy = "pro" BY <1>1, <2>3, <2>5 DEF WsActing, WsSound, WsKeeps
  <2>8. b.direct \cup {p} \in SUBSET Pages BY <2>7 DEF WsRecords
  <2>9. c \in WsRecords BY <2>6, <2>7, <2>8 DEF WsRecords
  <2>10. /\ c.request = b.request /\ c.used = b.used /\ c.sources = b.sources /\ c.evidence = b.evidence
         /\ c.found = b.found /\ c.chosen = b.chosen /\ c.selected = b.selected /\ c.result = b.result
         /\ c.stage = b.stage /\ c.left = b.left
    BY <2>6, <2>7 DEF WsRecords
  <2>11. WsSound(c) BY <2>5, <2>7, <2>9, <2>10 DEF WsSound
  <2>12. WsActing(c) BY <1>1, <2>3, <2>5, <2>10, <2>11 DEF WsActing, WsKeeps
  <2> QED BY <1>1, <1>2, <2>1, <2>2, <2>4, <2>6, <2>12, WsAttempts
<1>6. CASE ActFind
  <2>1. PICK p \in PagesRead(ws), matches \in BOOLEAN :
          Attempt("find", IF matches THEN RecordFind(Reserve(ws, "find"), p) ELSE Reserve(ws, "find"))
    BY <1>6 DEF ActFind
  <2>2. PICK a : a = Reserve(ws, "find") OBVIOUS
  <2>3. WsSound(a) /\ WsKeeps(ws, a) BY <1>1, <1>2, <2>2, WsReserves
  <2>4. p \in Pages
    <3>1. ws.evidence \in SUBSET (Pages \X {"page", "match", "snippet"}) BY <1>1 DEF WsRecords
    <3>2. PICK e \in ws.evidence : p = e[1] BY <2>1 DEF PagesRead
    <3> QED BY <3>1, <3>2
  <2>5. PICK b : b = IF matches THEN RecordFind(a, p) ELSE a OBVIOUS
  <2>6. WsSound(b) /\ (WsKeeps(a, b) \/ b = a) BY <2>3, <2>4, <2>5, WsInspects
  <2>7. WsActing(b) BY <1>1, <2>3, <2>6 DEF WsActing, WsKeeps
  <2> QED BY <1>1, <1>2, <2>1, <2>2, <2>5, <2>7, WsAttempts
<1>7. CASE ActRejected
  <2>1. PICK b : b = RecordRejection(ws) OBVIOUS
  <2>2. WsSound(b) /\ WsKeeps(ws, b) BY <1>1, <2>1, WsFails
  <2>3. WsActing(b) BY <1>1, <2>2 DEF WsActing, WsKeeps
  <2>4. ws' \in {Refused(ws), Refused(b)} BY <1>7, <2>1 DEF ActRejected
  <2> QED BY <1>1, <2>3, <2>4, WsCounted DEF WsInd
<1>8. CASE ActStop
  <2>1. ws' = [ws EXCEPT !.invalid = Smaller(@ + 1, MaxInvalid), !.left = @ - 1] BY <1>8 DEF ActStop
  <2> QED BY <1>1, <2>1, WsCounted DEF WsInd
<1> QED BY <1>3, <1>4, <1>5, <1>6, <1>7, <1>8 DEF Act

LEMMA WsTurns == ASSUME WsInd, TurnEnds \/ TurnsRunOut PROVE WsInd'
<1>1. WsSound(ws) /\ ws.request.strategy = "pro" /\ ws \in WsRecords
  BY DEF WsInd, WsPlaced, WsSound, TurnEnds, TurnsRunOut
<1>2. \/ ws' = [ws EXCEPT !.stage = "plan", !.turn = @ + 1, !.executed = FALSE]
      \/ \E r \in {ws, RecordGap(ws)} : ws' = Leave(r)
  BY DEF TurnEnds, TurnsRunOut
<1>3. CASE ws' = [ws EXCEPT !.stage = "plan", !.turn = @ + 1, !.executed = FALSE]
  <2>1. ws.turn + 1 \in Nat BY <1>1 DEF WsRecords
  <2>2. ws' \in WsRecords BY <1>1, <1>3, <2>1, WsPutPlan, WsPutAnswer DEF WsStages
  <2>3. WsAside(ws, ws') /\ ws'.stage = "plan" BY <1>1, <1>3, <2>2 DEF WsRecords, WsAside
  <2>4. WsSound(ws') BY <1>1, <2>3, WsAsides
  <2>5. WsPlaced(ws') BY <1>1, <2>3 DEF WsPlaced, WsAside
  <2> QED BY <2>4, <2>5 DEF WsInd
<1>4. ASSUME NEW r \in {ws, RecordGap(ws)}, ws' = Leave(r) PROVE WsInd'
  <2>1. WsSound(r) /\ r.request.strategy = "pro"
    <3>1. CASE r = ws BY <1>1, <3>1
    <3>2. CASE r = RecordGap(ws)
      <4>1. WsSound(r) /\ WsKeeps(ws, r) BY <1>1, <3>2, WsFails
      <4> QED BY <1>1, <4>1 DEF WsKeeps
    <3> QED BY <1>4, <3>1, <3>2
  <2> QED BY <1>4, <2>1, WsLeaves DEF WsInd
<1> QED BY <1>2, <1>3, <1>4

----
(* The answer and the result. *)

\* What has left the loop and is not done yet.
LEMMA WsMoves ==
    ASSUME WsInd, ws.stage \in {"synthesize", "repair", "verify"}, ws' \in WsRecords,
           ws'.request = ws.request, ws'.used = ws.used, ws'.sources = ws.sources, ws'.evidence = ws.evidence,
           ws'.found = ws.found, ws'.chosen = ws.chosen, ws'.selected = ws.selected, ws'.direct = ws.direct,
           ws'.status = ws.status, ws'.stage \in {"repair", "verify", "project"},
           \A c \in ws'.result.cites : \E e \in ws.evidence : e[1] = c.page
    PROVE  WsInd'
<1>1. WsSound(ws') BY DEF WsInd, WsSound
<1>2. OnlyDirect(ws') = OnlyDirect(ws) BY DEF OnlyDirect, Inspected
<1>3. WsPlaced(ws') BY <1>2 DEF WsInd, WsPlaced
<1> QED BY <1>1, <1>3 DEF WsInd

LEMMA WsAnswers == ASSUME WsInd, SynthesisFails \/ Synthesize \/ Repair PROVE WsInd'
<1>1. ws \in WsRecords /\ WsSound(ws) BY DEF WsInd, WsSound
<1>2. PICK c \in {{}} \cup WsResponses, s \in {"repair", "verify", "project"}, g \in BOOLEAN, b \in BOOLEAN :
        ws' = [ws EXCEPT !.claims = c, !.stage = s, !.repaired = b, !.gaps = g]
  <2>1. ws.claims \in {{}} \cup WsResponses /\ ws.repaired \in BOOLEAN /\ ws.gaps \in BOOLEAN BY <1>1 DEF WsRecords
  <2>2. CASE SynthesisFails
    <3>1. ws' = [[ws EXCEPT !.gaps = TRUE] EXCEPT !.stage = "project"] BY <2>2 DEF SynthesisFails, RecordGap
    <3>2. ws' = [ws EXCEPT !.claims = ws.claims, !.stage = "project", !.repaired = ws.repaired, !.gaps = TRUE]
      BY <1>1, <3>1 DEF WsRecords
    <3> QED BY <2>1, <3>2
  <2>3. CASE Synthesize
    <3>1. PICK c \in WsResponses, s \in {"verify", "repair"} : ws' = [ws EXCEPT !.claims = c, !.stage = s]
      BY <2>3 DEF Synthesize
    <3>2. ws' = [ws EXCEPT !.claims = c, !.stage = s, !.repaired = ws.repaired, !.gaps = ws.gaps]
      BY <1>1, <3>1 DEF WsRecords
    <3> QED BY <2>1, <3>1, <3>2
  <2>4. CASE Repair
    <3>1. PICK c \in {ws.claims} \cup WsResponses : ws' = [ws EXCEPT !.claims = c, !.stage = "verify", !.repaired = TRUE]
      BY <2>4 DEF Repair
    <3>2. ws' = [ws EXCEPT !.claims = c, !.stage = "verify", !.repaired = TRUE, !.gaps = ws.gaps]
      BY <1>1, <3>1 DEF WsRecords
    <3> QED BY <2>1, <3>1, <3>2
  <2> QED BY <2>2, <2>3, <2>4
<1>3. ws' \in WsRecords BY <1>1, <1>2, WsPutAnswer DEF WsStages
<1>4. /\ ws'.request = ws.request /\ ws'.used = ws.used /\ ws'.sources = ws.sources /\ ws'.evidence = ws.evidence
      /\ ws'.found = ws.found /\ ws'.chosen = ws.chosen /\ ws'.selected = ws.selected /\ ws'.direct = ws.direct
      /\ ws'.status = ws.status /\ ws'.stage \in {"repair", "verify", "project"} /\ ws'.result = ws.result
  BY <1>1, <1>2 DEF WsRecords
<1>5. ws.stage \in {"synthesize", "repair", "verify"} BY DEF SynthesisFails, Synthesize, Repair
<1>6. \A cited \in ws'.result.cites : \E e \in ws.evidence : e[1] = cited.page BY <1>1, <1>4 DEF WsSound
<1> QED BY <1>3, <1>4, <1>5, <1>6, WsMoves

LEMMA WsVerifies == ASSUME WsInd, Verify PROVE WsInd'
<1>1. ws \in WsRecords /\ WsSound(ws) /\ ws.stage = "verify" BY DEF WsInd, WsSound, Verify
<1>2. PICK units, g :
        /\ g \in BOOLEAN /\ units \subseteq ws.claims /\ units \subseteq BoundTo(ws, ws.claims)
        /\ ws' = [ws EXCEPT !.stage = "project", !.result = [ws.result EXCEPT !.cites = units], !.gaps = g]
  <2>1. PICK entailed \in SUBSET ws.claims, fails \in BOOLEAN :
          LET units == IF fails THEN {} ELSE AcceptedUnits(entailed)
              next == [ws EXCEPT !.stage = "project", !.result.cites = units] IN
          ws' = next \/ ws' = RecordGap(next)
    BY DEF Verify
  <2>2. PICK units : units = IF fails THEN {} ELSE AcceptedUnits(entailed) OBVIOUS
  <2>3. PICK next : next = [ws EXCEPT !.stage = "project", !.result.cites = units] OBVIOUS
  <2>4. units \subseteq ws.claims /\ units \subseteq BoundTo(ws, ws.claims)
    BY <2>2 DEF AcceptedUnits
  <2>5. /\ units \subseteq ws.claims /\ units \subseteq BoundTo(ws, ws.claims)
        /\ next = [ws EXCEPT !.stage = "project", !.result.cites = units]
        /\ ws' = next \/ ws' = RecordGap(next)
    BY <2>1, <2>2, <2>3, <2>4
  <2>6. next = [ws EXCEPT !.stage = "project", !.result = [ws.result EXCEPT !.cites = units]] BY <1>1, <2>5 DEF WsRecords
  <2>7. PICK g : g = IF ws' = next THEN ws.gaps ELSE TRUE OBVIOUS
  <2>8. g \in BOOLEAN BY <1>1, <2>7 DEF WsRecords
  <2>9. ws' = [next EXCEPT !.gaps = g]
    <3>1. CASE ws' = next BY <1>1, <2>6, <2>7, <3>1 DEF WsRecords
    <3>2. CASE ws' # next BY <2>5, <2>7, <3>2 DEF RecordGap
    <3> QED BY <3>1, <3>2
  <2>10. ws' = [ws EXCEPT !.stage = "project", !.result = [ws.result EXCEPT !.cites = units], !.gaps = g]
    BY <1>1, <2>6, <2>9 DEF WsRecords
  <2> QED BY <2>5, <2>8, <2>10
<1>3. PICK o : o = [ws.result EXCEPT !.cites = units] OBVIOUS
<1>4. ws.result \in WsResults /\ ws.claims \in {{}} \cup WsResponses BY <1>1 DEF WsRecords
<1>5. units \in SUBSET UNION WsResponses
  <2>1. ws.claims = {} \/ ws.claims \in WsResponses BY <1>4
  <2> QED BY <1>2, <2>1
<1>6. o \in WsResults /\ o.cites = units BY <1>3, <1>4, <1>5 DEF WsResults
<1>7. ws' = [ws EXCEPT !.stage = "project", !.result = o, !.gaps = g] BY <1>2, <1>3
<1>8. ws' \in WsRecords
  <2>1. PICK u : u = [ws EXCEPT !.stage = "project"] OBVIOUS
  <2>2. PICK v : v = [u EXCEPT !.result = o] OBVIOUS
  <2>3. ws' = [v EXCEPT !.gaps = g] BY <1>7, <2>1, <2>2
  <2>4. u \in WsRecords BY <1>1, <2>1, WsPutAnswer DEF WsStages
  <2>5. v \in WsRecords BY <1>6, <2>2, <2>4, WsPutAnswer
  <2> QED BY <1>2, <2>3, <2>5, WsPutAnswer
<1>9. /\ ws'.request = ws.request /\ ws'.used = ws.used /\ ws'.sources = ws.sources /\ ws'.evidence = ws.evidence
      /\ ws'.found = ws.found /\ ws'.chosen = ws.chosen /\ ws'.selected = ws.selected /\ ws'.direct = ws.direct
      /\ ws'.status = ws.status /\ ws'.stage = "project" /\ ws'.result = o
  BY <1>1, <1>7 DEF WsRecords
<1>10. \A c \in units : \E e \in ws.evidence : e[1] = c.page BY <1>2 DEF BoundTo, Inspected
<1> QED BY <1>1, <1>6, <1>8, <1>9, <1>10, WsMoves

LEMMA WsProjects == ASSUME WsInd, Project PROVE WsInd'
<1>1. ws \in WsRecords /\ WsSound(ws) /\ WsPlaced(ws) /\ ws.stage = "project" BY DEF WsInd, WsSound, Project
<1>2. PICK status : status = IF ws.request.strategy = "pro" THEN ws.status ELSE Decision(ws).stop OBVIOUS
<1>3. PICK stop : stop = StopReason(ws, status) OBVIOUS
<1>4. PICK refined : refined = Refined(ws, stop, status) OBVIOUS
<1>5. status \in WsStops /\ stop \in WsStops /\ refined \in WsStops
  <2>1. status \in WsStops BY <1>1, <1>2, WsStopsOf DEF WsRecords
  <2>2. stop \in WsStops BY <1>3, <2>1, WsReasons
  <2> QED BY <1>4, <2>1, <2>2 DEF Refined, WsStops
<1>6. PICK g \in BOOLEAN, k \in BOOLEAN : g = (ws.gaps \/ stop # "sufficient_evidence") /\ k = Conflicting(ws)
  BY DEF Conflicting
<1>7. PICK o : o = [stop |-> refined, cites |-> ws.result.cites, gaps |-> g, conflict |-> k] OBVIOUS
<1>8. o \in WsResults /\ o.cites = ws.result.cites /\ o.stop = refined /\ o.gaps = g /\ o.conflict = k
  BY <1>1, <1>5, <1>6, <1>7 DEF WsRecords, WsResults
<1>9. ws' = [ws EXCEPT !.stage = "done", !.status = status, !.result = o]
  BY <1>2, <1>3, <1>4, <1>6, <1>7 DEF Project
<1>10. ws' \in WsRecords BY <1>1, <1>5, <1>8, <1>9, WsPutAnswer DEF WsStages
<1>11. /\ WsAside(ws, ws') /\ ws'.stage = "done" /\ ws'.result = o /\ ws'.marks = ws.marks /\ ws'.fresh = ws.fresh
       /\ ws'.evidence = ws.evidence /\ ws'.direct = ws.direct
  BY <1>1, <1>8, <1>9, <1>10 DEF WsRecords, WsAside
<1>12. WsSound(ws') BY <1>1, <1>11, WsAsides
<1>13. Inspected(ws') = Inspected(ws) /\ OnlyDirect(ws') = OnlyDirect(ws) /\ StaleSources(ws') = StaleSources(ws)
  BY <1>11 DEF WsAside, Inspected, OnlyDirect, StaleSources
<1>14. ASSUME refined = "sufficient_evidence"
       PROVE  /\ Cardinality(Inspected(ws)) >= ws.request.desired
              /\ ws.marks \subseteq {"policy"} /\ ~g /\ ~k /\ ~StaleSources(ws)
              /\ ws.request.desired > 1 => ~OnlyDirect(ws)
  <2>1. /\ status # "remaining_gaps" /\ stop = "sufficient_evidence" /\ ~Conflicting(ws)
        /\ ~ws.gaps /\ ~StaleSources(ws)
    BY <1>4, <1>14 DEF Refined
  <2>2. ws.evidence # {} BY <1>3, <1>5, <2>1, WsReasons
  <2>3. ws.marks \cap {"budget", "failure"} = {} /\ ~(Cardinality(Inspected(ws)) < ws.request.desired)
    BY <1>3, <2>1, <2>2 DEF StopReason
  <2>4. ws.marks \subseteq {"policy"} BY <1>1, <2>3 DEF WsRecords
  <2>5. Cardinality(Inspected(ws)) >= ws.request.desired
    <3>1. Cardinality(Inspected(ws)) \in Nat /\ ws.request.desired \in Nat BY <1>1, WsCounts DEF WsRecords, WsAsked
    <3> QED BY <2>3, <3>1
  <2>6. ws.request.desired > 1 => ~OnlyDirect(ws)
    <3> SUFFICES ASSUME ws.request.desired > 1, OnlyDirect(ws) PROVE FALSE
      OBVIOUS
    <3>1. ws.request.strategy = "pro" BY <1>1 DEF WsSound, OnlyDirect
    <3>2. ws.status = "remaining_gaps" BY <1>1, <3>1 DEF WsPlaced
    <3> QED BY <1>2, <2>1, <3>1, <3>2
  <2> QED BY <1>6, <2>1, <2>4, <2>5, <2>6
<1>15. WsPlaced(ws') BY <1>8, <1>11, <1>13, <1>14 DEF WsPlaced, WsAside
<1> QED BY <1>12, <1>15 DEF WsInd

----
LEMMA WsStarts == WsInit => WsInd
<1> SUFFICES ASSUME WsInit PROVE WsInd
  OBVIOUS
<1>1. PICK q \in WsRequests :
        ws = [request |-> q, stage |-> IF q.strategy = "pro" THEN "plan" ELSE "search",
          used |-> [k \in Kinds |-> 0], marks |-> {}, gaps |-> FALSE, fresh |-> {},
          sources |-> {}, evidence |-> {}, direct |-> {},
          queries |-> q.plan, passes |-> {}, low |-> FALSE, found |-> {}, chosen |-> {}, selected |-> {}, had |-> 0,
          turn |-> 0, raised |-> FALSE, intent |-> "none", left |-> 0, executed |-> FALSE, invalid |-> 0,
          claims |-> {}, repaired |-> FALSE, status |-> "none", result |-> NoResult]
  BY DEF WsInit
<1>2. q \in WsAsked BY WsAssumption DEF WsAsked
<1>3. /\ (IF q.strategy = "pro" THEN "plan" ELSE "search") \in WsStages /\ q.plan \in Nat
      /\ [k \in Kinds |-> 0] \in [Kinds -> Nat]
      /\ 0 \in 0 .. MaxActions /\ 0 \in 0 .. MaxInvalid
  BY <1>2, WsAssumption DEF WsAsked, WsStages, MaxInvalid
<1>4. NoResult \in WsResults /\ NoResult.cites = {} BY DEF NoResult, WsResults, WsStops
<1>5. ws \in WsRecords BY <1>1, <1>2, <1>3, <1>4 DEF WsRecords, WsStops
<1>6. /\ ws.request = q /\ ws.used = [k \in Kinds |-> 0] /\ ws.evidence = {} /\ ws.found = {} /\ ws.chosen = {}
      /\ ws.direct = {} /\ ws.result.cites = {} /\ ws.stage = IF q.strategy = "pro" THEN "plan" ELSE "search"
  BY <1>1, <1>4
<1>7. \A k \in Kinds : ws.used[k] <= ws.request[k]
  <2>1. \A k \in Kinds : ws.used[k] = 0 /\ q[k] \in Nat BY <1>2, <1>6 DEF WsAsked, Kinds
  <2> QED BY <1>6, <2>1
<1>8. WsSound(ws) BY <1>5, <1>6, <1>7 DEF WsSound
<1>9. StopReason(ws, "none") # "sufficient_evidence" BY <1>6, WsReasons DEF WsStops
<1>10. WsPlaced(ws) BY <1>6, <1>9 DEF WsPlaced
<1> QED BY <1>8, <1>10 DEF WsInd

LEMMA WsStep == ASSUME WsInd, [WsNext]_ws PROVE WsInd'
<1>1. CASE WsNext
  BY <1>1, WsSearchFails, WsSearches, WsLooks, WsEvaluates, WsLoopEnds, WsPlanFails, WsPlans, WsActs, WsTurns,
     WsAnswers, WsVerifies, WsProjects
  DEF WsNext
<1>2. CASE UNCHANGED ws BY <1>2 DEF WsInd
<1> QED BY <1>1, <1>2

LEMMA WsIndSafe == WsInd => ResearchSafe
<1> SUFFICES ASSUME WsInd PROVE ResearchSafe
  OBVIOUS
<1>1. WsSound(ws) /\ WsPlaced(ws) /\ ws \in WsRecords BY DEF WsInd, WsSound
<1>2. WsTypeOK BY <1>1 DEF WsRecords, WsSound, WsTypeOK
<1>3. SufficientIsEarned BY <1>1 DEF WsPlaced, SufficientIsEarned, Inspected
<1>4. EnoughIsEnough BY <1>1 DEF WsPlaced, EnoughIsEnough
<1>5. BudgetHolds BY <1>1 DEF WsSound, BudgetHolds
<1>6. AnswerIsBacked BY <1>1 DEF WsSound, AnswerIsBacked, Inspected
<1>7. StrictIsInspected BY <1>1 DEF WsSound, StrictIsInspected
<1> QED BY <1>2, <1>3, <1>4, <1>5, <1>6, <1>7 DEF ResearchSafe

----
(* The composition: MCServices. *)

SvVars == <<part, vars, ws, ms, sj, tpVars, tbVars, tcVars>>

\* A component takes a step of its own, or none.
LEMMA SvSteps ==
    [SvNext]_SvVars => /\ part' = part
                       /\ part = "shelljobs" => [SjNext]_sj
                       /\ part = "tools" => [TpNext]_tpVars
                       /\ part = "bus" => [TbNext]_tbVars
                       /\ part = "control" => [TcNext]_tcVars
                       /\ part = "research" => [WsNext]_ws
<1> SUFFICES ASSUME [SvNext]_SvVars
             PROVE  /\ part' = part /\ (part = "shelljobs" => [SjNext]_sj) /\ (part = "tools" => [TpNext]_tpVars)
                    /\ (part = "bus" => [TbNext]_tbVars) /\ (part = "control" => [TcNext]_tcVars)
                    /\ (part = "research" => [WsNext]_ws)
  OBVIOUS
<1>1. CASE UNCHANGED SvVars
  BY <1>1 DEF SvVars
<1>2. CASE Only("mailbox", Next, <<ws, ms, sj, tpVars, tbVars, tcVars>>)
  BY <1>2 DEF Only
<1>3. CASE Only("research", WsNext, <<vars, ms, sj, tpVars, tbVars, tcVars>>)
  BY <1>3 DEF Only
<1>4. CASE Only("stream", MsNext, <<vars, ws, sj, tpVars, tbVars, tcVars>>)
  BY <1>4 DEF Only
<1>5. CASE Only("shelljobs", SjNext, <<vars, ws, ms, tpVars, tbVars, tcVars>>)
  BY <1>5 DEF Only
<1>6. CASE Only("tools", TpNext, <<vars, ws, ms, sj, tbVars, tcVars>>)
  BY <1>6 DEF Only
<1>7. CASE Only("bus", TbNext, <<vars, ws, ms, sj, tpVars, tcVars>>)
  BY <1>7 DEF Only
<1>8. CASE Only("control", TcNext, <<vars, ws, ms, sj, tpVars, tbVars>>)
  BY <1>8 DEF Only
<1> QED BY <1>1, <1>2, <1>3, <1>4, <1>5, <1>6, <1>7, <1>8 DEF SvNext

SvInd ==
    /\ (part = "shelljobs" => SjInd) /\ (part = "tools" => TpInd)
    /\ (part = "bus" => TbInd) /\ (part = "control" => TcInd)
    /\ (part = "research" => WsInd)

\* The inductive invariants hold of the composition: of the shell jobs (builtin_overrides.py and the
\* broker), of the tool pipeline (tool_runtime.py, tool_orchestration.py), of the teams' messages,
\* of their records (team_message_bus.py, team_control_plane.py) and of the research runs (_tool_impls.py).
THEOREM ServicesInductive == SvSpec => []SvInd
<1>1. SvInit => SvInd
  BY SjStarts, TpStarted, TbBegins, TcStarts, WsStarts DEF SvInit, SvInd
<1>2. SvInd /\ [SvNext]_SvVars => SvInd'
  <2> SUFFICES ASSUME SvInd, [SvNext]_SvVars PROVE SvInd'
    OBVIOUS
  <2>1. /\ part' = part /\ (part = "shelljobs" => [SjNext]_sj) /\ (part = "tools" => [TpNext]_tpVars)
        /\ (part = "bus" => [TbNext]_tbVars) /\ (part = "control" => [TcNext]_tcVars)
        /\ (part = "research" => [WsNext]_ws)
    BY SvSteps
  <2>2. part' = "shelljobs" => SjInd' BY <2>1, SjStep DEF SvInd
  <2>3. part' = "tools" => TpInd' BY <2>1, TpStep DEF SvInd
  <2>4. part' = "bus" => TbInd' BY <2>1, TbStep DEF SvInd
  <2>5. part' = "control" => TcInd' BY <2>1, TcStep DEF SvInd
  <2>6. part' = "research" => WsInd' BY <2>1, WsStep DEF SvInd
  <2> QED BY <2>2, <2>3, <2>4, <2>5, <2>6 DEF SvInd
<1> QED BY <1>1, <1>2, PTL DEF SvSpec, SvVars

\* A tool runs on what was allowed, the observations of a replayed batch are those of what was last
\* done to each path and the host hears each notification once (tool_runtime.py,
\* tool_orchestration.py); the shell jobs say nothing false of a shell that runs and own every one
\* (builtin_overrides.py).
THEOREM ToolsSafety == SvSpec => []ToolsSafe
<1>1. SvInd => ToolsSafe
  BY SjIndSafe, TpIndSafe DEF SvInd, ToolsSafe
<1> QED BY <1>1, ServicesInductive, PTL

\* An active team is the one its leader is bound to, its active members are served, their names are
\* unique and the leader is told of its team (team_control_plane.py); a message comes before the
\* leader once, what is pending is on its way, what is acknowledged was heard, and the mail of a
\* teammate has a runner (team_message_bus.py).
THEOREM TeamPlaneSafety == SvSpec => []TeamPlaneSafe
<1>1. SvInd => TeamPlaneSafe
  BY TbIndSafe, TcIndSafe DEF SvInd, TeamPlaneSafe
<1> QED BY <1>1, ServicesInductive, PTL

\* A research run that says "sufficient_evidence" has the sources that were asked for, fresh if they have
\* to be, with no failure, gap or conflict; a run with enough searches no further, none spends more than
\* its budget, what an answer cites was inspected, and a strict run takes no snippet for evidence
\* (core.py, _tool_impls.py).
THEOREM ResearchSafety == SvSpec => []ResearchRunsSafe
<1>1. SvInd => ResearchRunsSafe
  BY WsIndSafe DEF SvInd, ResearchRunsSafe
<1> QED BY <1>1, ServicesInductive, PTL
=============================================================================
