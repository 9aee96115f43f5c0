---------------------------- MODULE ShellBroker ----------------------------
(***************************************************************************)
(* The shells of the code assistant (examples/apps/code_assistant/         *)
(* shell_broker.py). A broker is a process of its own that runs the shells *)
(* of one workspace and answers on a socket; clients find it by a metadata *)
(* file, spawn one if it does not answer, and it ends when it is idle or   *)
(* told to. What it knows of a shell is kept in a sidecar file, which the  *)
(* next broker loads; the shells are sessions of their own and survive it. *)
(***************************************************************************)
EXTENDS Naturals

CONSTANTS SbClients, Shells,
          MaxBrokers,        \* bound: brokers spawned
          MaxBrokerCrashes   \* bound: brokers killed from outside

ASSUME SbAssumption == MaxBrokers \in Nat /\ MaxBrokerCrashes \in Nat

VARIABLES sbFile,      \* the broker that the metadata file names, 0 if there is none
          sbSocket,    \* the broker whose socket is at the path, 0 if there is none
          sbState,     \* how far each broker is
          sbIdle,      \* the brokers whose idle timer runs
          sbEntry,     \* what each broker knows of each shell
          sbSpawning,  \* the brokers and shells whose start is under way
          sbEnded,     \* the shells that a closing broker has dealt with
          sbProc,      \* the process of each shell
          sbParent,    \* the broker that started it
          sbDisk,      \* the status in the sidecar of each shell
          sbClient,    \* what each client does
          sbCleaning,  \* is somebody about to remove the files of a broker told to stop?
          sbCrashes,   \* brokers killed
          sbEscaped,   \* shells that outlived a stop or their broker, or were signalled too early
          sbMixed,     \* did two brokers live at once, or a client remove the files of a live one?
          sbStrayed    \* brokers told to stop a shell that never started

sbFiles == <<sbFile, sbSocket, sbDisk>>
sbClients == <<sbClient, sbCleaning>>
sbGhosts == <<sbEscaped, sbMixed, sbStrayed>>
sbVars == <<sbFiles, sbState, sbIdle, sbEntry, sbSpawning, sbEnded, sbProc, sbParent, sbClients,
            sbCrashes, sbGhosts>>

SbBrokers == 1..MaxBrokers
\* "exited" is completed or command_failed, by the exit code.
EndStatus == {"exited", "stopped", "interrupted", "recovery_unavailable"}
Unknown == [status |-> "none", live |-> FALSE, stop |-> FALSE, intr |-> FALSE]

SbInit ==
    /\ sbFile = 0 /\ sbSocket = 0 /\ sbDisk = [e \in Shells |-> "none"]
    /\ sbState = [b \in SbBrokers |-> "unborn"] /\ sbIdle = {}
    /\ sbEntry = [b \in SbBrokers |-> [e \in Shells |-> Unknown]]
    /\ sbSpawning = {} /\ sbEnded = [b \in SbBrokers |-> {}]
    /\ sbProc = [e \in Shells |-> "none"] /\ sbParent = [e \in Shells |-> 0]
    /\ sbClient = [c \in SbClients |-> "idle"] /\ sbCleaning = FALSE /\ sbCrashes = 0
    /\ sbEscaped = {} /\ sbMixed = FALSE /\ sbStrayed = {}

Alive(b) == sbState[b] \notin {"unborn", "gone"}
Busy(b) == \E e \in Shells : sbEntry[b][e].live /\ sbEntry[b][e].status = "running"
SetEntry(b, e, entry) == sbEntry' = [sbEntry EXCEPT ![b][e] = entry]

\* With the process of a broker goes what it knew and what it was starting.
Dies(b) ==
    /\ sbState' = [sbState EXCEPT ![b] = "gone"] /\ sbIdle' = sbIdle \ {b}
    /\ sbEntry' = [sbEntry EXCEPT ![b] = [e \in Shells |-> Unknown]]
    /\ sbSpawning' = {s \in sbSpawning : s[1] # b} /\ sbEnded' = [sbEnded EXCEPT ![b] = {}]

SaveStatus(e, status) == sbDisk' = [sbDisk EXCEPT ![e] = status]

----
(* Clients                                                                 *)
\* A request needs the file, and reaches whoever listens at the path.
Answers == sbFile # 0 /\ sbSocket # 0 /\ sbState[sbSocket] \in {"bound", "serving"}

\* ensure_shell_broker
Ensure(c) ==
    /\ sbClient[c] = "idle"
    /\ IF Answers
       THEN /\ sbClient' = [sbClient EXCEPT ![c] = "ready"]
            /\ UNCHANGED <<sbState, sbMixed>>
       ELSE \E b \in SbBrokers :
            /\ \A d \in SbBrokers : sbState[d] = "unborn" <=> d >= b
            /\ sbState' = [sbState EXCEPT ![b] = "born"]
            /\ sbClient' = [sbClient EXCEPT ![c] = "waiting"]
            /\ sbMixed' = (sbMixed \/ \E d \in SbBrokers : Alive(d))
    /\ UNCHANGED <<sbFiles, sbIdle, sbEntry, sbSpawning, sbEnded, sbProc, sbParent,
                   sbCleaning, sbCrashes, sbEscaped, sbStrayed>>

\* It polls until the deadline.
EndWait(c) ==
    /\ sbClient[c] = "waiting"
    /\ sbClient' = [sbClient EXCEPT ![c] = IF Answers THEN "ready" ELSE "idle"]
    /\ UNCHANGED <<sbFiles, sbState, sbIdle, sbEntry, sbSpawning, sbEnded, sbProc, sbParent,
                   sbCleaning, sbCrashes, sbGhosts>>

\* The start of a shell with a new id, which the broker records before there is a process.
RequestStart(c, e) ==
    /\ sbClient[c] = "ready" /\ \A b \in SbBrokers : sbEntry[b][e] = Unknown /\ sbDisk[e] = "none"
    /\ sbClient' = [sbClient EXCEPT ![c] = "idle"]
    /\ IF Answers
       THEN /\ SetEntry(sbSocket, e, [Unknown EXCEPT !.status = "running", !.live = TRUE])
            /\ sbSpawning' = sbSpawning \cup {<<sbSocket, e>>}
       ELSE UNCHANGED <<sbEntry, sbSpawning>>
    /\ UNCHANGED <<sbFiles, sbState, sbIdle, sbEnded, sbProc, sbParent, sbCleaning, sbCrashes,
                   sbGhosts>>

\* stop_shell_broker: a broker that does not answer is killed by its pid.
StopBroker ==
    /\ ~sbCleaning /\ sbFile # 0 /\ sbCleaning' = TRUE
    /\ IF Answers
       THEN /\ sbState' = [sbState EXCEPT ![sbSocket] = "closing"]
            /\ UNCHANGED <<sbIdle, sbEntry, sbSpawning, sbEnded>>
       ELSE Dies(sbFile)
    /\ UNCHANGED <<sbFiles, sbProc, sbParent, sbClient, sbCrashes, sbGhosts>>

\* A moment later it removes the files, whosever they are.
CleanFiles ==
    /\ sbCleaning /\ sbCleaning' = FALSE
    /\ sbFile' = 0 /\ sbSocket' = 0
    /\ sbMixed' = (sbMixed \/ \E b \in SbBrokers : sbState[b] \in {"bound", "serving"})
    /\ UNCHANGED <<sbState, sbIdle, sbEntry, sbSpawning, sbEnded, sbProc, sbParent, sbDisk,
                   sbClient, sbCrashes, sbEscaped, sbStrayed>>

----
(* The life of a broker                                                    *)
LoadedNever(e) ==  \* Mutant: nobody asks whether the process is there.
    IF sbDisk[e] = "running" THEN "recovery_unavailable" ELSE sbDisk[e]

\* A shell that should run but does not cannot be recovered.
Loaded(e) ==
    IF sbDisk[e] = "running" /\ sbProc[e] # "running" THEN "recovery_unavailable" ELSE sbDisk[e]

Load(b) ==
    /\ sbState[b] = "born" /\ sbState' = [sbState EXCEPT ![b] = "loaded"]
    /\ sbEntry' = [sbEntry EXCEPT ![b] = [e \in Shells |-> [Unknown EXCEPT !.status = Loaded(e)]]]
    /\ sbDisk' = [e \in Shells |-> Loaded(e)]
    /\ UNCHANGED <<sbFile, sbSocket, sbIdle, sbSpawning, sbEnded, sbProc, sbParent, sbClients,
                   sbCrashes, sbGhosts>>

\* The socket of an earlier broker is unlinked.
Bind(b) ==
    /\ sbState[b] = "loaded" /\ sbState' = [sbState EXCEPT ![b] = "bound"]
    /\ sbSocket' = b
    /\ UNCHANGED <<sbFile, sbDisk, sbIdle, sbEntry, sbSpawning, sbEnded, sbProc, sbParent,
                   sbClients, sbCrashes, sbGhosts>>

PublishedOnce(b) == IF sbFile = 0 THEN b ELSE sbFile  \* Mutant: a file that is there stays.

Published(b) == b

SbPublish(b) ==
    /\ sbState[b] = "bound" /\ sbState' = [sbState EXCEPT ![b] = "serving"]
    /\ sbFile' = Published(b) /\ sbIdle' = sbIdle \cup {b}
    /\ UNCHANGED <<sbSocket, sbDisk, sbEntry, sbSpawning, sbEnded, sbProc, sbParent, sbClients,
                   sbCrashes, sbGhosts>>

IdleFires(b) ==
    /\ b \in sbIdle /\ sbState[b] = "serving"
    /\ sbIdle' = sbIdle \ {b}
    /\ sbState' = IF Busy(b) THEN sbState ELSE [sbState EXCEPT ![b] = "closing"]
    /\ UNCHANGED <<sbFiles, sbEntry, sbSpawning, sbEnded, sbProc, sbParent, sbClients, sbCrashes,
                   sbGhosts>>

\* A closing broker terminates its shells one after the other.
EndShell(b, e) ==
    LET entry == sbEntry[b][e] IN
    /\ sbState[b] = "closing" /\ e \notin sbEnded[b]
    /\ sbEnded' = [sbEnded EXCEPT ![b] = @ \cup {e}]
    /\ sbProc' = IF entry.live /\ entry.status = "running" /\ sbParent[e] = b
                 THEN [sbProc EXCEPT ![e] = "ended"] ELSE sbProc
    /\ UNCHANGED <<sbFiles, sbState, sbIdle, sbEntry, sbSpawning, sbParent, sbClients, sbCrashes,
                   sbGhosts>>

Verdict(entry) ==
    IF entry.stop THEN "stopped" ELSE IF entry.intr THEN "interrupted" ELSE "exited"

Watched(b, e) == sbParent[e] = b /\ sbEntry[b][e].live

\* It removes the files, whosever they are; the tasks that watch are cancelled and say what
\* they would of a shell without an exit code, those that start are cancelled with the shell.
CleanUp(b) ==
    /\ sbState[b] = "closing" /\ sbEnded[b] = Shells
    /\ Dies(b)
    /\ sbFile' = 0 /\ sbSocket' = 0
    /\ sbDisk' = [e \in Shells |-> IF Watched(b, e) THEN Verdict(sbEntry[b][e]) ELSE sbDisk[e]]
    /\ sbEscaped' = sbEscaped \cup {e \in Shells : Watched(b, e) /\ sbProc[e] = "running"}
    /\ UNCHANGED <<sbProc, sbParent, sbClients, sbCrashes, sbMixed, sbStrayed>>

\* Killed from outside; its shells go on.
CrashBroker(b) ==
    /\ Alive(b) /\ sbCrashes < MaxBrokerCrashes
    /\ sbCrashes' = sbCrashes + 1 /\ Dies(b)
    /\ UNCHANGED <<sbFiles, sbProc, sbParent, sbClients, sbGhosts>>

----
(* Shells                                                                  *)
Spawn(b, e) ==
    /\ <<b, e>> \in sbSpawning /\ Alive(b)
    /\ sbSpawning' = sbSpawning \ {<<b, e>>}
    /\ sbProc' = [sbProc EXCEPT ![e] = "running"] /\ sbParent' = [sbParent EXCEPT ![e] = b]
    /\ SetEntry(b, e, [sbEntry[b][e] EXCEPT !.status = "running"]) /\ SaveStatus(e, "running")
    /\ sbIdle' = sbIdle \cup {b}
    /\ UNCHANGED <<sbFile, sbSocket, sbState, sbEnded, sbClients, sbCrashes, sbGhosts>>

\* The entry of a shell that could not be started stays, running.
SpawnFails(b, e) ==
    /\ <<b, e>> \in sbSpawning
    /\ sbSpawning' = sbSpawning \ {<<b, e>>}
    /\ UNCHANGED <<sbFiles, sbState, sbIdle, sbEntry, sbEnded, sbProc, sbParent, sbClients,
                   sbCrashes, sbGhosts>>

\* By itself, by a signal it obeys, or by the one it cannot refuse.
ProcessEnds(e) ==
    /\ sbProc[e] = "running" /\ sbProc' = [sbProc EXCEPT ![e] = "ended"]
    /\ UNCHANGED <<sbFiles, sbState, sbIdle, sbEntry, sbSpawning, sbEnded, sbParent, sbClients,
                   sbCrashes, sbGhosts>>

RearmedNever(b) == sbIdle  \* Mutant: the end of a shell does not start the idle timer.

Rearmed(b) == sbIdle \cup {b}

WatchEnds(b, e) ==
    LET entry == sbEntry[b][e] IN
    /\ Watched(b, e) /\ sbProc[e] = "ended" /\ Alive(b)
    /\ SetEntry(b, e, [entry EXCEPT !.status = Verdict(entry), !.live = FALSE])
    /\ SaveStatus(e, Verdict(entry)) /\ sbIdle' = Rearmed(b)
    /\ UNCHANGED <<sbFile, sbSocket, sbState, sbSpawning, sbEnded, sbProc, sbParent, sbClients,
                   sbCrashes, sbGhosts>>

\* A shell that is watched gets its status when it ends. Any other one is signalled, if its
\* process is known, and said to have stopped at once; one whose start is under way starts.
StopShell(e) ==
    LET b == sbSocket
        entry == sbEntry[b][e]
        known == sbParent[e] \notin {0, b} \/ ~entry.live IN
    /\ Answers /\ entry.status # "none"
    /\ IF Watched(b, e)
       THEN SetEntry(b, e, [entry EXCEPT !.stop = TRUE]) /\ UNCHANGED <<sbProc, sbDisk, sbEscaped, sbStrayed>>
       ELSE /\ SetEntry(b, e, [entry EXCEPT !.stop = TRUE, !.status = "stopped"]) /\ SaveStatus(e, "stopped")
            /\ \E survives \in BOOLEAN :
                /\ sbProc' = IF known /\ ~survives /\ sbProc[e] = "running"
                             THEN [sbProc EXCEPT ![e] = "ended"] ELSE sbProc
                /\ sbEscaped' = IF sbProc'[e] = "running" \/ <<b, e>> \in sbSpawning THEN sbEscaped \cup {e} ELSE sbEscaped
            /\ sbStrayed' = IF entry.live THEN sbStrayed \cup {b} ELSE sbStrayed
    /\ UNCHANGED <<sbFile, sbSocket, sbState, sbIdle, sbSpawning, sbEnded, sbParent, sbClients,
                   sbCrashes, sbMixed>>

InterruptShell(e) ==
    LET b == sbSocket
        entry == sbEntry[b][e] IN
    /\ Answers /\ entry.status # "none"
    /\ SetEntry(b, e, [entry EXCEPT !.intr = TRUE]) /\ SaveStatus(e, entry.status)
    /\ sbEscaped' = IF <<b, e>> \in sbSpawning THEN sbEscaped \cup {e} ELSE sbEscaped
    /\ UNCHANGED <<sbFile, sbSocket, sbState, sbIdle, sbSpawning, sbEnded, sbProc, sbParent,
                   sbClients, sbCrashes, sbMixed, sbStrayed>>

SbNext ==
    \/ \E c \in SbClients :
        \/ Ensure(c) \/ EndWait(c) \/ \E e \in Shells : RequestStart(c, e)
    \/ StopBroker \/ CleanFiles
    \/ \E b \in SbBrokers :
        \/ Load(b) \/ Bind(b) \/ SbPublish(b) \/ IdleFires(b) \/ CleanUp(b) \/ CrashBroker(b)
        \/ \E e \in Shells :
            EndShell(b, e) \/ Spawn(b, e) \/ SpawnFails(b, e) \/ WatchEnds(b, e)
    \/ \E e \in Shells : ProcessEnds(e) \/ StopShell(e) \/ InterruptShell(e)

SbSpec == SbInit /\ [][SbNext]_sbVars

----
(* Properties                                                              *)
SbTypeOK ==
    /\ {sbFile, sbSocket} \subseteq 0..MaxBrokers
    /\ sbDisk \in [Shells -> EndStatus \cup {"none", "running"}]
    /\ sbState \in [SbBrokers -> {"unborn", "born", "loaded", "bound", "serving", "closing", "gone"}]
    /\ sbIdle \subseteq SbBrokers
    /\ \A b \in SbBrokers, e \in Shells :
        /\ sbEntry[b][e].status \in EndStatus \cup {"none", "running"}
        /\ {sbEntry[b][e].live, sbEntry[b][e].stop, sbEntry[b][e].intr} \subseteq BOOLEAN
    /\ sbSpawning \subseteq SbBrokers \X Shells /\ sbEnded \in [SbBrokers -> SUBSET Shells]
    /\ sbProc \in [Shells -> {"none", "running", "ended"}] /\ sbParent \in [Shells -> 0..MaxBrokers]
    /\ sbClient \in [SbClients -> {"idle", "waiting", "ready"}] /\ sbCleaning \in BOOLEAN
    /\ sbCrashes \in 0..MaxBrokerCrashes
    /\ sbEscaped \subseteq Shells /\ sbMixed \in BOOLEAN /\ sbStrayed \subseteq SbBrokers

\* A shell that runs is found again: its sidecar says so, through crashes, restarts and
\* brokers that overlap, unless it outlived a stop or the end of its
\* broker, or was signalled before it had started.
RunningIsOnDisk ==
    \A e \in Shells \ sbEscaped : sbProc[e] = "running" => sbDisk[e] = "running"

\* No broker says of such a shell that it is over.
RunningIsNotOver ==
    \A b \in SbBrokers, e \in Shells \ sbEscaped :
        Alive(b) /\ sbEntry[b][e].status \in EndStatus => sbProc[e] # "running"

\* A broker that serves is the one that clients find, unless two lived at once.
ServingIsFound ==
    ~sbMixed => \A b \in SbBrokers : sbState[b] = "serving" => sbFile = b /\ sbSocket = b

\* A broker does not wait for ever with nothing to do, unless it was told to stop a shell
\* that had never started.
IdleIsTimed ==
    \A b \in SbBrokers \ sbStrayed : sbState[b] = "serving" => b \in sbIdle \/ Busy(b)

ShellsSafe == SbTypeOK /\ RunningIsOnDisk /\ RunningIsNotOver /\ ServingIsFound /\ IdleIsTimed
=============================================================================
