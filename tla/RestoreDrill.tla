---------------------------- MODULE RestoreDrill ----------------------------
(***************************************************************************)
(* The PROD point-in-time restore drill of platformctl: `run` writes       *)
(* marker A into the source database, picks the restore time, writes       *)
(* marker B, restores a target as of that time and validates it; `cleanup` *)
(* deletes the target and the markers.  Both walk the phases of one state  *)
(* file, saved after every transition, so that a rerun resumes.            *)
(*                                                                         *)
(* The markers are written, checked and removed by Kubernetes Jobs that    *)
(* act on their own: a Job outlives the invocation that started it.  A     *)
(* restore time is the set of markers committed before it, which is what a *)
(* database restored to that time holds.                                   *)
(***************************************************************************)
EXTENDS Naturals, Sequences

CONSTANTS
    Drills,     \* identities that first runs may draw: DrillID and TargetID
    Procs,      \* platformctl invocations that may run at the same time
    Commands,   \* what they are started with: "run", "cleanup"
    Budget,     \* bound: how often each kind of fault happens
    None        \* no state file, no restore time

\* "change" is what someone else does to the account meanwhile.
FaultKinds == {"crash", "disk", "job", "kube", "aws", "timeout", "refuse", "broken", "change"}
Jobs       == {"write-a", "write-b", "validate", "cleanup"}
Markers    == {"A", "B"}

\* RestoreDrillPhase, in the order the drill goes through them.
Phases == <<"initialized", "marker-a-written", "restore-window-ready", "marker-b-written",
            "restore-requested", "target-available", "validated", "cleanup-pending",
            "target-delete-requested", "target-deleted", "source-marker-cleaned", "cleaned">>
PhaseSet       == {Phases[n] : n \in DOMAIN Phases}
Rank(ph)       == CHOOSE n \in DOMAIN Phases : Phases[n] = ph
NextPhase(ph)  == Phases[Rank(ph) + 1]

NeedsRestoreApproval(ph) == Rank(ph) <= Rank("marker-b-written")
CleanupStarted(ph)       == Rank(ph) >= Rank("cleanup-pending")

\* The Job a phase runs, if it runs one.
JobOf == [ph \in {"initialized", "restore-window-ready", "target-available", "target-deleted"} |->
            CASE ph = "initialized"          -> "write-a"
              [] ph = "restore-window-ready" -> "write-b"
              [] ph = "target-available"     -> "validate"
              [] ph = "target-deleted"       -> "cleanup"]

\* What Prepare recorded or found in order, and a later step compares again:
\* the source's identity, endpoint, network and backups; the application
\* Secret's hash; that no snapshot or managed Secret of the target is left.
Aspects == {"source", "secret", "leftover"}

\* What the state file holds, once there is one.
Times  == {None} \cup SUBSET Markers
States == [id : Drills, phase : PhaseSet, time : Times]

ASSUME DrillAssumption ==
    /\ Commands \subseteq {"run", "cleanup"}
    /\ Budget \in [FaultKinds -> Nat]
    /\ \A s \in SUBSET Markers : None # s
    /\ \A st \in States : None # st

VARIABLES
    file,      \* the state file: drill, phase and restore time, or None
    pc,        \* the invocations: program counter
    cmd,       \* what each was started with
    mem,       \* the state each holds in memory
    markers,   \* each drill's marker rows in the source database
    job,       \* its Kubernetes Jobs: absent, running, complete, failed
    sees,      \* the restore time its write-a Job printed
    target,    \* its target RDS instance: the status
    holds,     \* the drill's markers in the target's data
    tagged,    \* the target carries the drill's identity and ownership tags
    raced,     \* history: two first runs both found no state file
    drift,     \* per drill, the aspects that differ from what Prepare recorded
    other,     \* a target of a drill elsewhere, tagged Purpose=restore-drill, exists
    faults     \* faults of each kind so far

procVars  == <<pc, cmd, mem>>
jobVars   == <<job, sees>>
rdsVars   == <<target, holds, tagged>>
restVars  == <<other, raced, drift>>
vars == <<file, pc, cmd, mem, markers, job, sees, target, holds, tagged,
          raced, drift, other, faults>>

\* The state of a drill that Prepare has just named.
Fresh(d) == [id |-> d, phase |-> "initialized", time |-> None]

Init ==
    /\ file = None
    /\ pc = [p \in Procs |-> "off"]
    /\ cmd = [p \in Procs |-> "run"]
    /\ \E d \in Drills : mem = [p \in Procs |-> Fresh(d)]
    /\ markers = [d \in Drills |-> {}]
    /\ job = [d \in Drills |-> [j \in Jobs |-> "absent"]] /\ sees = [d \in Drills |-> None]
    /\ target = [d \in Drills |-> "absent"] /\ holds = [d \in Drills |-> {}]
    /\ tagged = [d \in Drills |-> TRUE]
    /\ raced = FALSE /\ other = FALSE
    /\ drift = [d \in Drills |-> {}]
    /\ faults = [f \in FaultKinds |-> 0]

Fault(f) ==
    /\ faults[f] < Budget[f]
    /\ faults' = [faults EXCEPT ![f] = @ + 1]

Goto(p, l) == pc' = [pc EXCEPT ![p] = l]

\* The drill invocation p works on, and what it finds of its target.
Mine(p)    == mem[p].id
Status(p)  == target[Mine(p)]
OwnTags(p) == tagged[Mine(p)]

\* The file has the drill's identity, and cleanup still acts on it.
Recorded(d) == file # None /\ file.id = d /\ file.phase # "cleaned"

\* None of these aspects has changed since the drill's preflight.
Same(p, aspects) == drift[Mine(p)] \cap aspects = {}

\* FindTaggedRDSResources: a target of some drill, this one's aside.
Elsewhere(d) == other \/ \E e \in Drills \ {d} : target[e] # "absent"

\* Invocation p is about to do the work of phase ph.
At(p, ph) == pc[p] = "ready" /\ mem[p].phase = ph

\* The step's work is done: the phase advances in memory, then on disk.
Advance(p, st) ==
    /\ mem' = [mem EXCEPT ![p] = [st EXCEPT !.phase = NextPhase(@)]]
    /\ Goto(p, "save")

-----------------------------------------------------------------------------
(* Starting.                                                               *)

\* Mutant: a first run does not look for the state file.
RunFirst_IgnoresFile(p) ==
    /\ pc[p] = "off" /\ "run" \in Commands
    /\ \E d \in Drills :
         /\ \A q \in Procs : pc[q] # "off" => Mine(q) # d
         /\ target[d] = "absent" /\ ~Elsewhere(d) /\ markers[d] = {}
         /\ \A j \in Jobs : job[d][j] = "absent"
         /\ mem' = [mem EXCEPT ![p] = Fresh(d)]
         /\ drift' = [drift EXCEPT ![d] = {}]
    /\ cmd' = [cmd EXCEPT ![p] = "run"]
    /\ Goto(p, "save-new")
    /\ raced' = (raced \/ \E q \in Procs \ {p} : pc[q] = "save-new")
    /\ UNCHANGED <<file, markers, jobVars, rdsVars, other, faults>>

\* `run` without a state file: Prepare checks the source, finds no tagged
\* target and probes the source with a Job; nothing is stored yet.
RunFirst(p) ==
    /\ pc[p] = "off" /\ "run" \in Commands
    /\ file = None
    /\ \E d \in Drills :
         /\ \A q \in Procs : pc[q] # "off" => Mine(q) # d
         /\ target[d] = "absent" /\ ~Elsewhere(d) /\ markers[d] = {}
         /\ \A j \in Jobs : job[d][j] = "absent"
         /\ mem' = [mem EXCEPT ![p] = Fresh(d)]
         /\ drift' = [drift EXCEPT ![d] = {}]
    /\ cmd' = [cmd EXCEPT ![p] = "run"]
    /\ Goto(p, "save-new")
    /\ raced' = (raced \/ \E q \in Procs \ {p} : pc[q] = "save-new")
    /\ UNCHANGED <<file, markers, jobVars, rdsVars, other, faults>>

\* The first state is saved before anything is created.
SaveNew(p) ==
    /\ pc[p] = "save-new"
    /\ \/ file' = mem[p] /\ Goto(p, "approve") /\ UNCHANGED faults
       \/ Fault("disk") /\ Goto(p, "off") /\ UNCHANGED file
    /\ UNCHANGED <<cmd, mem, markers, jobVars, rdsVars, restVars>>

\* `run` with a state file resumes; from the cleanup phases it returns.
RunResume(p) ==
    /\ pc[p] = "off" /\ "run" \in Commands
    /\ file # None
    /\ ~CleanupStarted(file.phase)
    /\ cmd' = [cmd EXCEPT ![p] = "run"]
    /\ mem' = [mem EXCEPT ![p] = file]
    /\ Goto(p, IF NeedsRestoreApproval(file.phase) THEN "approve" ELSE "ready")
    /\ UNCHANGED <<file, markers, jobVars, rdsVars, restVars, faults>>

\* `cleanup` starts from any phase but the last, once PrepareCleanup finds
\* no target or the drill's own.
CleanupStart(p) ==
    /\ pc[p] = "off" /\ "cleanup" \in Commands
    /\ file # None
    /\ file.phase # "cleaned"
    /\ target[file.id] = "absent" \/ tagged[file.id]
    /\ cmd' = [cmd EXCEPT ![p] = "cleanup"]
    /\ mem' = [mem EXCEPT ![p] = file]
    /\ Goto(p, IF Rank(file.phase) <= Rank("cleanup-pending") THEN "approve" ELSE "ready")
    /\ UNCHANGED <<file, markers, jobVars, rdsVars, restVars, faults>>

\* Mutant: cleanup keeps the phase it found instead of cleanup-pending.
Approve_KeepsPhase(p) ==
    /\ pc[p] = "approve"
    /\ Goto(p, "ready")
    /\ UNCHANGED <<file, cmd, mem, markers, jobVars, rdsVars, restVars, faults>>

\* The operator types the literal; cleanup then enters its first phase.
Approve(p) ==
    /\ pc[p] = "approve"
    /\ IF cmd[p] = "cleanup" /\ ~CleanupStarted(mem[p].phase)
       THEN /\ mem' = [mem EXCEPT ![p].phase = "cleanup-pending"]
            /\ \/ file' = mem'[p] /\ Goto(p, "ready") /\ UNCHANGED faults
               \/ Fault("disk") /\ Goto(p, "off") /\ UNCHANGED file
       ELSE Goto(p, "ready") /\ UNCHANGED <<file, mem, faults>>
    /\ UNCHANGED <<cmd, markers, jobVars, rdsVars, restVars>>

\* Anything else ends the invocation.
Refuse(p) ==
    /\ pc[p] = "approve"
    /\ Fault("refuse")
    /\ Goto(p, "off")
    /\ UNCHANGED <<file, cmd, mem, markers, jobVars, rdsVars, restVars>>

-----------------------------------------------------------------------------
(* Kubernetes Jobs.                                                        *)

\* ValidateTarget goes on to its Job: the Secret is the one recorded, and the
\* target is the drill's own and has an endpoint, whatever its status.
CanValidate(p) ==
    /\ Same(p, {"secret"})
    /\ Status(p) \notin {"absent", "creating"} /\ OwnTags(p)

\* runJob replaces a Job of that name and applies a new one.
StartJob(p) ==
    /\ pc[p] = "ready" /\ mem[p].phase \in DOMAIN JobOf
    /\ mem[p].phase = "target-available" => CanValidate(p)
    /\ job' = [job EXCEPT ![Mine(p)][JobOf[mem[p].phase]] = "running"]
    /\ Goto(p, "job")
    /\ UNCHANGED <<file, cmd, mem, markers, sees, rdsVars, restVars, faults>>

NothingToValidate(p) ==
    /\ At(p, "target-available")
    /\ ~CanValidate(p)
    /\ Goto(p, "fail")
    /\ UNCHANGED <<file, cmd, mem, markers, jobVars, rdsVars, restVars, faults>>

\* The marker table: write-a makes it, a cleanup that empties it drops it.
TableExists == \E d \in Drills : markers[d] # {}

\* What a Job does to its drill's markers, and the time it reads.
Effect(d, j) ==
    /\ markers' = [markers EXCEPT ![d] = CASE j = "write-a"  -> @ \cup {"A"}
                                          [] j = "write-b"  -> @ \cup {"B"}
                                          [] j = "cleanup"  -> {}
                                          [] j = "validate" -> @]
    /\ sees' = IF j = "write-a" THEN [sees EXCEPT ![d] = markers'[d]] ELSE sees

\* Mutant: validate only looks for marker A.
JobSucceeds_OnlyA(d, j) ==
    /\ job[d][j] = "running"
    /\ j = "write-b" => TableExists
    /\ j = "validate" => target[d] = "available" /\ "A" \in holds[d]
    /\ Effect(d, j)
    /\ job' = [job EXCEPT ![d][j] = "complete"]
    /\ UNCHANGED <<file, procVars, rdsVars, restVars, faults>>

\* Write-b needs the table write-a made; validate needs A there and B not.
JobSucceeds(d, j) ==
    /\ job[d][j] = "running"
    /\ j = "write-b" => TableExists
    /\ j = "validate" => target[d] = "available" /\ holds[d] = {"A"}
    /\ Effect(d, j)
    /\ job' = [job EXCEPT ![d][j] = "complete"]
    /\ UNCHANGED <<file, procVars, rdsVars, restVars, faults>>

\* The pod fails or is killed, before its transaction took effect or after.
JobFails(d, j) ==
    /\ job[d][j] = "running"
    /\ \/ Fault("job") /\ (Effect(d, j) \/ UNCHANGED <<markers, sees>>)
       \/ /\ \/ j = "write-b" /\ ~TableExists
             \/ j = "validate" /\ ~(target[d] = "available" /\ holds[d] = {"A"})
          /\ UNCHANGED <<markers, sees, faults>>
    /\ job' = [job EXCEPT ![d][j] = "failed"]
    /\ UNCHANGED <<file, procVars, rdsVars, restVars>>

\* Mutant: the restore time is read when the result is decoded.
JobDone_LateTime(p) ==
    LET j == JobOf[mem[p].phase] IN
    /\ pc[p] = "job" /\ job[Mine(p)][j] = "complete"
    /\ job' = [job EXCEPT ![Mine(p)][j] = "absent"]
    /\ IF j = "cleanup" THEN Goto(p, "purge") /\ UNCHANGED mem
       ELSE Advance(p, IF j = "write-b" THEN [mem[p] EXCEPT !.time = markers[Mine(p)]] ELSE mem[p])
    /\ UNCHANGED <<file, cmd, markers, sees, rdsVars, restVars, faults>>

\* The Job is complete: its result is read from the logs and it is deleted.
JobDone(p) ==
    LET j == JobOf[mem[p].phase] IN
    /\ pc[p] = "job" /\ job[Mine(p)][j] = "complete"
    /\ job' = [job EXCEPT ![Mine(p)][j] = "absent"]
    /\ IF j = "cleanup" THEN Goto(p, "purge") /\ UNCHANGED mem
       ELSE Advance(p, IF j = "write-a" THEN [mem[p] EXCEPT !.time = sees[Mine(p)]] ELSE mem[p])
    /\ UNCHANGED <<file, cmd, markers, sees, rdsVars, restVars, faults>>

\* Mutant: a Job that did not complete in time is left running.
JobLost_KeepsJob(p) ==
    LET j == JobOf[mem[p].phase] IN
    /\ pc[p] = "job"
    /\ \/ job[Mine(p)][j] \in {"failed", "absent"} /\ UNCHANGED faults
       \/ Fault("timeout")
    /\ Goto(p, "fail")
    /\ UNCHANGED <<file, cmd, mem, markers, jobVars, rdsVars, restVars>>

\* The Job failed, is gone, or did not complete in time.  The deferred
\* delete removes it, unless kubectl fails too.
JobLost(p) ==
    LET j == JobOf[mem[p].phase] IN
    /\ pc[p] = "job"
    /\ \/ /\ (job[Mine(p)][j] \in {"failed", "absent"} /\ UNCHANGED faults) \/ Fault("timeout")
          /\ job' = [job EXCEPT ![Mine(p)][j] = "absent"]
       \/ Fault("kube") /\ UNCHANGED job
    /\ Goto(p, "fail")
    /\ UNCHANGED <<file, cmd, mem, markers, sees, rdsVars, restVars>>

\* CleanupSourceMarker ends with deleting every Job of the drill by label.
PurgeJobs(p) ==
    /\ pc[p] = "purge"
    /\ \/ /\ job' = [job EXCEPT ![Mine(p)] = [j \in Jobs |-> "absent"]]
          /\ Advance(p, mem[p])
          /\ UNCHANGED faults
       \/ /\ Fault("kube")
          /\ Goto(p, "fail")
          /\ UNCHANGED <<mem, job>>
    /\ UNCHANGED <<file, cmd, markers, sees, rdsVars, restVars>>

-----------------------------------------------------------------------------
(* The target.                                                             *)

\* The restore time lies in the source's restorable window.
WaitRestoreWindow(p) ==
    /\ At(p, "marker-a-written")
    /\ Advance(p, mem[p])
    /\ UNCHANGED <<file, cmd, markers, jobVars, rdsVars, restVars, faults>>

\* RequestRestore finds the target an earlier invocation asked for.
ReuseTarget(p) ==
    /\ At(p, "marker-b-written")
    /\ Same(p, {"source"})
    /\ Status(p) # "absent" /\ OwnTags(p)
    /\ Advance(p, mem[p])
    /\ UNCHANGED <<file, cmd, markers, jobVars, rdsVars, restVars, faults>>

\* RequestRestore sees no target of any drill and goes on to create one.
DecideRestore(p) ==
    /\ At(p, "marker-b-written")
    /\ Same(p, {"source"})
    /\ Status(p) = "absent" /\ ~Elsewhere(Mine(p))
    /\ Goto(p, "restore")
    /\ UNCHANGED <<file, cmd, mem, markers, jobVars, rdsVars, restVars, faults>>

\* RestoreRDSPointInTime: AWS creates the target; its answer may be lost.
RestoreCall(p) ==
    /\ pc[p] = "restore"
    /\ Status(p) = "absent"
    /\ target' = [target EXCEPT ![Mine(p)] = "creating"]
    /\ tagged' = [tagged EXCEPT ![Mine(p)] = TRUE]
    /\ holds' = [holds EXCEPT ![Mine(p)] = mem[p].time]
    /\ \/ Advance(p, mem[p]) /\ UNCHANGED faults
       \/ Fault("aws") /\ Goto(p, "fail") /\ UNCHANGED mem
    /\ UNCHANGED <<file, cmd, markers, jobVars, restVars>>

\* AWS refuses the request: an instance of that name exists.
RestoreConflict(p) ==
    /\ pc[p] = "restore" /\ Status(p) # "absent"
    /\ Goto(p, "fail")
    /\ UNCHANGED <<file, cmd, mem, markers, jobVars, rdsVars, restVars, faults>>

WaitTargetAvailable(p) ==
    /\ At(p, "restore-requested")
    /\ Status(p) = "available" /\ OwnTags(p)
    /\ Advance(p, mem[p])
    /\ UNCHANGED <<file, cmd, markers, jobVars, rdsVars, restVars, faults>>

\* The validated drill stops before its cleanup.
FinishRun(p) ==
    /\ At(p, "validated")
    /\ Advance(p, mem[p])
    /\ UNCHANGED <<file, cmd, markers, jobVars, rdsVars, restVars, faults>>

\* DeleteTarget: nothing to do when it is absent or already deleting; AWS
\* does not delete an instance that is still being created.
DeleteTarget(p) ==
    /\ At(p, "cleanup-pending") /\ cmd[p] = "cleanup"
    /\ Status(p) = "absent" \/ (OwnTags(p) /\ Status(p) # "creating")
    /\ target' = [target EXCEPT ![Mine(p)] = IF @ = "absent" THEN "absent" ELSE "deleting"]
    /\ Advance(p, mem[p])
    /\ UNCHANGED <<file, cmd, markers, jobVars, holds, tagged, restVars, faults>>

WaitTargetDeleted(p) ==
    /\ At(p, "target-delete-requested")
    /\ Status(p) = "absent"
    /\ Advance(p, mem[p])
    /\ UNCHANGED <<file, cmd, markers, jobVars, rdsVars, restVars, faults>>

\* VerifyClean finds no target, Job, snapshot or managed Secret of the drill,
\* and the source, its backups and the application Secret as they were.  The
\* markers in the source are not looked at.
FoundClean(p) ==
    /\ Status(p) = "absent"
    /\ Same(p, Aspects)
    /\ \A j \in Jobs : job[Mine(p)][j] = "absent"

VerifyClean(p) ==
    /\ At(p, "source-marker-cleaned")
    /\ FoundClean(p)
    /\ Advance(p, mem[p])
    /\ UNCHANGED <<file, cmd, markers, jobVars, rdsVars, restVars, faults>>

\* The condition of the step does not hold, and the code reports it at once.
Refused(p) ==
    \/ At(p, "marker-b-written")
         /\ \/ ~Same(p, {"source"})
            \/ IF Status(p) = "absent" THEN Elsewhere(Mine(p)) ELSE ~OwnTags(p)
    \/ At(p, "restore-requested")
         /\ (Status(p) \in {"broken", "deleting"} \/ (Status(p) = "available" /\ ~OwnTags(p)))
    \/ At(p, "cleanup-pending") /\ Status(p) # "absent" /\ (~OwnTags(p) \/ Status(p) = "creating")
    \/ At(p, "source-marker-cleaned") /\ ~FoundClean(p)

\* Any step fails: a refusal, an AWS or Kubernetes error, or a wait that
\* does not end in time.
StepFails(p) ==
    /\ pc[p] = "ready"
    /\ \/ Refused(p) /\ UNCHANGED faults
       \/ mem[p].phase \notin {"validated"} /\ Fault("timeout")
    /\ Goto(p, "fail")
    /\ UNCHANGED <<file, cmd, mem, markers, jobVars, rdsVars, restVars>>

-----------------------------------------------------------------------------
(* The state file, and the end of an invocation.                           *)

\* Mutant: a finished run removes its state.
Save_RemovesDone(p) ==
    /\ pc[p] = "save"
    /\ file' = IF mem[p].phase = "cleanup-pending" THEN None ELSE mem[p]
    /\ Goto(p, IF mem[p].phase \in {"cleanup-pending", "cleaned"} THEN "off" ELSE "ready")
    /\ UNCHANGED <<cmd, mem, markers, jobVars, rdsVars, restVars, faults>>

\* The rename replaces the file with the state in memory, whatever it was.
Save(p) ==
    /\ pc[p] = "save"
    /\ file' = mem[p]
    /\ Goto(p, IF mem[p].phase = "cleaned" \/ (cmd[p] = "run" /\ mem[p].phase = "cleanup-pending")
               THEN "off" ELSE "ready")
    /\ UNCHANGED <<cmd, mem, markers, jobVars, rdsVars, restVars, faults>>

SaveFails(p) ==
    /\ pc[p] = "save"
    /\ Fault("disk")
    /\ Goto(p, "fail")
    /\ UNCHANGED <<file, cmd, mem, markers, jobVars, rdsVars, restVars>>

\* The error is saved with the state in memory, if the disk lets it, and
\* the invocation ends.
Fail(p) ==
    /\ pc[p] = "fail"
    /\ \/ file' = mem[p] /\ UNCHANGED faults
       \/ Fault("disk") /\ UNCHANGED file
    /\ Goto(p, "off")
    /\ UNCHANGED <<cmd, mem, markers, jobVars, rdsVars, restVars>>

\* The terminal or the process dies: its Jobs live on.
Crash(p) ==
    /\ pc[p] # "off"
    /\ Fault("crash")
    /\ Goto(p, "off")
    /\ UNCHANGED <<file, cmd, mem, markers, jobVars, rdsVars, restVars>>

-----------------------------------------------------------------------------
(* RDS and the rest of the account.                                        *)

TargetReady(d) ==
    /\ target[d] = "creating"
    /\ target' = [target EXCEPT ![d] = "available"]
    /\ UNCHANGED <<file, procVars, markers, jobVars, holds, tagged, restVars, faults>>

\* The restore ends in a status from which the target never gets available.
TargetBreaks(d) ==
    /\ target[d] = "creating"
    /\ Fault("broken")
    /\ target' = [target EXCEPT ![d] = "broken"]
    /\ UNCHANGED <<file, procVars, markers, jobVars, holds, tagged, restVars>>

TargetGone(d) ==
    /\ target[d] = "deleting"
    /\ target' = [target EXCEPT ![d] = "absent"]
    /\ holds' = [holds EXCEPT ![d] = {}] /\ tagged' = [tagged EXCEPT ![d] = TRUE]
    /\ UNCHANGED <<file, procVars, markers, jobVars, restVars, faults>>

\* Someone changes the target's tags, or puts them back.
Retag(d) ==
    /\ target[d] # "absent"
    /\ \/ tagged[d] /\ Fault("change")
       \/ ~tagged[d] /\ UNCHANGED faults
    /\ tagged' = [tagged EXCEPT ![d] = ~@]
    /\ UNCHANGED <<file, procVars, markers, jobVars, target, holds, restVars>>

\* Another drill's target appears, or goes away.
OtherDrill ==
    /\ \/ ~other /\ Fault("change")
       \/ other /\ UNCHANGED faults
    /\ other' = ~other
    /\ UNCHANGED <<file, procVars, markers, jobVars, rdsVars, raced, drift>>

\* The source is modified or replaced, its backups lapse, the Secret is
\* rotated, a snapshot of the target is taken; all but the Secret may be put
\* back as it was.
Drifts(d, x) ==
    /\ Recorded(d)
    /\ \/ x \notin drift[d] /\ Fault("change") /\ (x = "leftover" => target[d] # "absent")
          /\ drift' = [drift EXCEPT ![d] = @ \cup {x}]
       \/ /\ x \in drift[d] /\ x # "secret"
          /\ drift' = [drift EXCEPT ![d] = @ \ {x}] /\ UNCHANGED faults
    /\ UNCHANGED <<file, procVars, markers, jobVars, rdsVars, raced, other>>

-----------------------------------------------------------------------------
Step(p) ==
    \/ SaveNew(p) \/ Approve(p) \/ StartJob(p) \/ NothingToValidate(p) \/ JobDone(p)
    \/ JobLost(p) \/ PurgeJobs(p) \/ WaitRestoreWindow(p) \/ ReuseTarget(p)
    \/ DecideRestore(p) \/ RestoreCall(p) \/ RestoreConflict(p) \/ WaitTargetAvailable(p)
    \/ FinishRun(p) \/ DeleteTarget(p) \/ WaitTargetDeleted(p) \/ VerifyClean(p)
    \/ StepFails(p) \/ Save(p) \/ SaveFails(p) \/ Fail(p)

Next ==
    \/ \E p \in Procs : \/ RunFirst(p) \/ RunResume(p) \/ CleanupStart(p)
                        \/ Step(p) \/ Refuse(p) \/ Crash(p)
    \/ \E d \in Drills : \/ \E j \in Jobs : JobSucceeds(d, j) \/ JobFails(d, j)
                         \/ TargetReady(d) \/ TargetBreaks(d) \/ TargetGone(d) \/ Retag(d)
                         \/ \E x \in Aspects : Drifts(d, x)
    \/ OtherDrill

Spec == Init /\ [][Next]_vars

\* An invocation runs on, Jobs and RDS operations end, other drills go away,
\* and the operator reruns the commands, cleanup again and again.
Fairness ==
    /\ \A p \in Procs : /\ WF_vars(Step(p))
                        /\ WF_vars(RunFirst(p) \/ RunResume(p))
                        /\ SF_vars(CleanupStart(p))
    /\ \A d \in Drills :
         /\ \A j \in Jobs : WF_vars(JobSucceeds(d, j) \/ JobFails(d, j))
         /\ WF_vars(TargetReady(d)) /\ WF_vars(TargetGone(d))
         /\ WF_vars(Retag(d) /\ tagged'[d])
    /\ WF_vars(OtherDrill /\ ~other')

FairSpec == Spec /\ Fairness

-----------------------------------------------------------------------------
(* Properties.                                                             *)

\* The restored data lies between the two markers: A is in it and B is not,
\* whichever invocations wrote them and read the restore time.
RestoreBoundary == \A d \in Drills : target[d] # "absent" => holds[d] = {"A"}

\* A drill whose state says validated has a target that passed, even when
\* two invocations worked on the same state.
ValidatedBoundary == file # None /\ file.phase = "validated" => holds[file.id] = {"A"}

\* A target that costs money is never forgotten: its state file exists and
\* cleanup still acts on it.
TargetIsRecorded == \A d \in Drills : target[d] # "absent" => Recorded(d)

\* Two invocations on one path lose a target only if both looked for the
\* state file before either had saved its first state; any other overlap
\* leaves the target recorded.
LostOnlyToRace == \A d \in Drills : target[d] # "absent" => Recorded(d) \/ raced

\* A cleaned drill has left no marker in the source, unless an invocation
\* died, or a call to Kubernetes failed, at some time: a Job can then outlive
\* its invocation and write after the cleanup.
CleanedLeavesNoMarker ==
    file # None /\ file.phase = "cleaned" =>
        markers[file.id] = {} \/ faults["crash"] + faults["kube"] > 0

\* From wherever a drill stopped, cleaning up again and again ends it, even
\* when its target can never be validated, unless what its preflight recorded
\* of the source, the backups or the application Secret stays different, or a
\* snapshot of the target stays: then every cleanup fails in VerifyClean.
CleanupCompletes ==
    (\A d \in Drills : []<>(drift[d] = {}))
        => (file # None ~> (file # None /\ file.phase = "cleaned"))
=============================================================================
