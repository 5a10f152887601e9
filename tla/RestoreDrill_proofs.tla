------------------------ MODULE RestoreDrill_proofs ------------------------
(***************************************************************************)
(* Proofs about the PROD restore drill, for every set of drills and every  *)
(* number of faults: with any number of runs at the same time, and with    *)
(* one operator who runs, cleans up, crashes and starts again.             *)
(***************************************************************************)
EXTENDS RestoreDrill, TLAPS

-----------------------------------------------------------------------------
(* The phases.                                                             *)

LEMMA RankIs ==
    ASSUME NEW n \in 1..12
    PROVE  Rank(Phases[n]) = n
  <1>1. DOMAIN Phases = 1..12 BY DEF Phases
  <1>2. \A m \in 1..12 : Phases[m] = Phases[n] => m = n BY DEF Phases
  <1> QED BY <1>1, <1>2 DEF Rank

LEMMA RankFacts ==
    /\ Rank("initialized") = 1 /\ Rank("marker-a-written") = 2
    /\ Rank("restore-window-ready") = 3 /\ Rank("marker-b-written") = 4
    /\ Rank("restore-requested") = 5 /\ Rank("target-available") = 6
    /\ Rank("validated") = 7 /\ Rank("cleanup-pending") = 8
    /\ Rank("target-delete-requested") = 9 /\ Rank("target-deleted") = 10
    /\ Rank("source-marker-cleaned") = 11 /\ Rank("cleaned") = 12
  BY RankIs DEF Phases

LEMMA PhaseFacts ==
    PhaseSet = {"initialized", "marker-a-written", "restore-window-ready", "marker-b-written",
                "restore-requested", "target-available", "validated", "cleanup-pending",
                "target-delete-requested", "target-deleted", "source-marker-cleaned", "cleaned"}
  <1>1. DOMAIN Phases = 1..12 BY DEF Phases
  <1>2. \A n \in 1..12 : n \in {1, 2, 3, 4, 5, 6, 7, 8, 9, 10, 11, 12} OBVIOUS
  <1> QED BY <1>1, <1>2 DEF PhaseSet, Phases

LEMMA NextFacts ==
    /\ NextPhase("initialized") = "marker-a-written"
    /\ NextPhase("marker-a-written") = "restore-window-ready"
    /\ NextPhase("restore-window-ready") = "marker-b-written"
    /\ NextPhase("marker-b-written") = "restore-requested"
    /\ NextPhase("restore-requested") = "target-available"
    /\ NextPhase("target-available") = "validated"
    /\ NextPhase("validated") = "cleanup-pending"
    /\ NextPhase("cleanup-pending") = "target-delete-requested"
    /\ NextPhase("target-delete-requested") = "target-deleted"
    /\ NextPhase("target-deleted") = "source-marker-cleaned"
    /\ NextPhase("source-marker-cleaned") = "cleaned"
  BY RankFacts DEF NextPhase, Phases

LEMMA StartedFacts ==
    ASSUME NEW ph \in PhaseSet
    PROVE  /\ CleanupStarted(ph) <=> ph \in {"cleanup-pending", "target-delete-requested",
                                            "target-deleted", "source-marker-cleaned", "cleaned"}
           /\ NeedsRestoreApproval(ph) <=> ph \in {"initialized", "marker-a-written",
                                            "restore-window-ready", "marker-b-written"}
           /\ Rank(ph) <= Rank("cleanup-pending") <=>
                 ph \notin {"target-delete-requested", "target-deleted",
                            "source-marker-cleaned", "cleaned"}
  BY RankFacts, PhaseFacts DEF CleanupStarted, NeedsRestoreApproval

LEMMA JobOfFacts ==
    /\ DOMAIN JobOf = {"initialized", "restore-window-ready", "target-available", "target-deleted"}
    /\ JobOf["initialized"] = "write-a" /\ JobOf["restore-window-ready"] = "write-b"
    /\ JobOf["target-available"] = "validate" /\ JobOf["target-deleted"] = "cleanup"
  BY DEF JobOf

-----------------------------------------------------------------------------
(* Types, for any number of invocations and both commands.                 *)

Points    == {"off", "save-new", "approve", "ready", "job", "restore", "purge", "save", "fail"}
JobStates == {"absent", "running", "complete", "failed"}

Typed ==
    /\ file \in States \cup {None}
    /\ pc \in [Procs -> Points] /\ mem \in [Procs -> States]
    /\ cmd \in [Procs -> {"run", "cleanup"}]
    /\ markers \in [Drills -> SUBSET Markers]
    /\ job \in [Drills -> [Jobs -> JobStates]] /\ sees \in [Drills -> Times]
    /\ target \in [Drills -> {"absent", "creating", "available", "broken", "deleting"}]
    /\ holds \in [Drills -> Times]

\* The point of an invocation tells its phase.
Placed ==
    \A p \in Procs : /\ pc[p] = "job" => mem[p].phase \in DOMAIN JobOf
                     /\ pc[p] = "restore" => mem[p].phase = "marker-b-written"
                     /\ pc[p] = "purge" => mem[p].phase = "target-deleted"

Base == Typed /\ Placed

LEMMA NoneFacts == None \notin States /\ None \in Times /\ SUBSET Markers \subseteq Times
  BY DrillAssumption DEF Times

LEMMA FreshTyped == \A d \in Drills : Fresh(d) \in States /\ Fresh(d).id = d
                                      /\ Fresh(d).phase = "initialized" /\ Fresh(d).time = None
  BY NoneFacts, PhaseFacts DEF Fresh, States

\* The other invocations are where they were.
Others(p) == \A q \in Procs \ {p} : pc'[q] = pc[q] /\ mem'[q] = mem[q] /\ cmd'[q] = cmd[q]

LEMMA GotoIs ==
    ASSUME Base, NEW p \in Procs, NEW l \in Points, Goto(p, l)
    PROVE  pc' \in [Procs -> Points] /\ pc'[p] = l /\ \A q \in Procs \ {p} : pc'[q] = pc[q]
  BY DEF Goto, Base, Typed

LEMMA AdvanceIs ==
    ASSUME Base, NEW p \in Procs, NEW st \in States, st.phase # "cleaned", Advance(p, st)
    PROVE  /\ mem' \in [Procs -> States] /\ mem'[p].id = st.id /\ mem'[p].time = st.time
           /\ mem'[p].phase = NextPhase(st.phase) /\ pc'[p] = "save"
           /\ pc' \in [Procs -> Points]
           /\ \A q \in Procs \ {p} : mem'[q] = mem[q] /\ pc'[q] = pc[q]
  <1>1. NextPhase(st.phase) \in PhaseSet
    <2>1. st.phase \in PhaseSet BY DEF States
    <2> QED BY <2>1, NextFacts, PhaseFacts
  <1>2. [st EXCEPT !.phase = NextPhase(@)] \in States BY <1>1 DEF States
  <1>3. Goto(p, "save") /\ mem' = [mem EXCEPT ![p] = [st EXCEPT !.phase = NextPhase(@)]]
    BY DEF Advance
  <1>4. pc' \in [Procs -> Points] /\ pc'[p] = "save" /\ \A q \in Procs \ {p} : pc'[q] = pc[q]
    BY <1>3, GotoIs DEF Points
  <1>5. mem' \in [Procs -> States] /\ mem'[p] = [st EXCEPT !.phase = NextPhase(@)]
        /\ \A q \in Procs \ {p} : mem'[q] = mem[q]
    BY <1>2, <1>3 DEF Base, Typed
  <1>6. /\ [st EXCEPT !.phase = NextPhase(@)].id = st.id
        /\ [st EXCEPT !.phase = NextPhase(@)].time = st.time
        /\ [st EXCEPT !.phase = NextPhase(@)].phase = NextPhase(st.phase)
    BY DEF States
  <1> QED BY <1>4, <1>5, <1>6

\* The rest of the state is typed, and p alone has moved.
LEMMA Moved ==
    ASSUME Base, NEW p \in Procs,
           pc' \in [Procs -> Points], mem' \in [Procs -> States],
           \A q \in Procs \ {p} : pc'[q] = pc[q] /\ mem'[q] = mem[q],
           UNCHANGED cmd, file' \in {file, mem'[p]}, UNCHANGED markers,
           job' \in [Drills -> [Jobs -> JobStates]], UNCHANGED sees,
           target' \in [Drills -> {"absent", "creating", "available", "broken", "deleting"}],
           holds' \in [Drills -> Times],
           pc'[p] = "job" => mem'[p].phase \in DOMAIN JobOf,
           pc'[p] = "restore" => mem'[p].phase = "marker-b-written",
           pc'[p] = "purge" => mem'[p].phase = "target-deleted"
    PROVE  Base' /\ Others(p)
  <1>1. Typed' BY DEF Base, Typed
  <1>2. Placed' BY DEF Base, Placed
  <1> QED BY <1>1, <1>2 DEF Base, Others

\* p goes somewhere and keeps its state.
LEMMA WentBase ==
    ASSUME Base, NEW p \in Procs, NEW l \in Points, Goto(p, l),
           UNCHANGED <<cmd, mem, markers, sees, target, holds>>, file' \in {file, mem[p]},
           job' \in [Drills -> [Jobs -> JobStates]],
           l = "job" => mem[p].phase \in DOMAIN JobOf,
           l = "restore" => mem[p].phase = "marker-b-written",
           l = "purge" => mem[p].phase = "target-deleted"
    PROVE  Base' /\ Others(p) /\ pc'[p] = l /\ mem'[p] = mem[p]
  <1>1. pc' \in [Procs -> Points] /\ pc'[p] = l /\ \A q \in Procs \ {p} : pc'[q] = pc[q]
    BY GotoIs
  <1> QED BY <1>1, Moved DEF Base, Typed

\* p has done the work of its phase.
LEMMA AdvancedBase ==
    ASSUME Base, NEW p \in Procs, NEW st \in States, st.phase # "cleaned", Advance(p, st),
           UNCHANGED <<cmd, file, markers, sees>>,
           job' \in [Drills -> [Jobs -> JobStates]],
           target' \in [Drills -> {"absent", "creating", "available", "broken", "deleting"}],
           holds' \in [Drills -> Times]
    PROVE  /\ Base' /\ Others(p) /\ pc'[p] = "save" /\ mem'[p].id = st.id
           /\ mem'[p].time = st.time /\ mem'[p].phase = NextPhase(st.phase)
  <1>1. /\ mem' \in [Procs -> States] /\ mem'[p].id = st.id /\ mem'[p].time = st.time
        /\ mem'[p].phase = NextPhase(st.phase) /\ pc'[p] = "save"
        /\ pc' \in [Procs -> Points]
        /\ \A q \in Procs \ {p} : mem'[q] = mem[q] /\ pc'[q] = pc[q]
    BY AdvanceIs
  <1> QED BY <1>1, Moved

\* A Job of a drill is started, or deleted with all the others of its drill.
LEMMA JobTyped ==
    ASSUME Base, NEW d \in Drills, NEW j \in Jobs, NEW x \in JobStates
    PROVE  /\ [job EXCEPT ![d][j] = x] \in [Drills -> [Jobs -> JobStates]]
           /\ [job EXCEPT ![d] = [k \in Jobs |-> "absent"]] \in [Drills -> [Jobs -> JobStates]]
  BY DEF Base, Typed, JobStates

LEMMA MemFacts ==
    ASSUME Base, NEW p \in Procs
    PROVE  /\ mem[p] \in States /\ Mine(p) \in Drills /\ mem[p].phase \in PhaseSet
           /\ mem[p].time \in Times
           /\ mem[p].phase \in DOMAIN JobOf => JobOf[mem[p].phase] \in Jobs
  <1>1. mem[p] \in States BY DEF Base, Typed
  <1>2. \A ph \in DOMAIN JobOf : JobOf[ph] \in Jobs BY JobOfFacts DEF Jobs
  <1> QED BY <1>1, <1>2 DEF States, Mine

\* The steps in which an invocation only goes on, fails or ends.
Goes(p) == \/ StartJob(p) \/ NothingToValidate(p) \/ JobLost(p) \/ DecideRestore(p)
           \/ RestoreConflict(p) \/ StepFails(p) \/ Save(p) \/ SaveFails(p) \/ Fail(p)
           \/ Refuse(p) \/ Crash(p)

LEMMA GoesBase ==
    ASSUME Base, NEW p \in Procs, Goes(p)
    PROVE  /\ Base' /\ Others(p) /\ UNCHANGED <<cmd, mem, markers, sees, target, holds, raced>>
           /\ pc'[p] \in {"off", "ready", "job", "restore", "fail"}
           /\ pc'[p] = "ready" => pc[p] = "save"
           /\ pc'[p] \in {"job", "restore"} => pc[p] = "ready"
           /\ file' \in {file, mem[p]} /\ (file' # file => pc[p] \in {"save", "fail"})
           /\ pc[p] # "off" /\ (pc[p] = "save-new" => pc'[p] = "off")
           /\ pc'[p] \in {"ready", "restore"} => UNCHANGED job
           /\ \A d \in Drills, j \in Jobs : job'[d][j] \in {job[d][j], "running", "absent"}
           /\ pc'[p] = "ready" => /\ mem[p].phase # "cleaned" /\ file' = mem[p]
                                 /\ ~(cmd[p] = "run" /\ mem[p].phase = "cleanup-pending")
  <1> USE DEF procVars, jobVars, rdsVars, restVars
  <1>1. mem[p].phase \in DOMAIN JobOf => JobOf[mem[p].phase] \in Jobs BY MemFacts
  <1>2. job \in [Drills -> [Jobs -> JobStates]] /\ Mine(p) \in Drills
         /\ {"off", "ready", "job", "restore", "fail"} \subseteq Points
         /\ {"absent", "running"} \subseteq JobStates
    BY MemFacts DEF Base, Typed, Points, JobStates
  <1>3. CASE StartJob(p)
    <2>1. JobOf[mem[p].phase] \in Jobs BY <1>3, <1>1 DEF StartJob
    <2>2. job' = [job EXCEPT ![Mine(p)][JobOf[mem[p].phase]] = "running"] BY <1>3 DEF StartJob
    <2>3. job' \in [Drills -> [Jobs -> JobStates]] BY <1>2, <2>1, <2>2, JobTyped
    <2> QED BY <1>3, <1>2, <2>3, WentBase DEF StartJob
  <1>4. CASE NothingToValidate(p)
    <2>1. pc[p] = "ready" /\ Goto(p, "fail")
          /\ UNCHANGED <<file, cmd, mem, markers, job, sees, target, holds, tagged, other, raced>>
      BY <1>4 DEF NothingToValidate, At
    <2> QED BY <2>1, <1>2, WentBase
  <1>5. CASE JobLost(p)
    <2>1. JobOf[mem[p].phase] \in Jobs BY <1>5, <1>1 DEF JobLost, Base, Placed
    <2>2. job' \in {job, [job EXCEPT ![Mine(p)][JobOf[mem[p].phase]] = "absent"]}
      BY <1>5 DEF JobLost
    <2>3. job' \in [Drills -> [Jobs -> JobStates]] BY <1>2, <2>1, <2>2, JobTyped
    <2>4. pc[p] = "job" /\ Goto(p, "fail")
          /\ UNCHANGED <<file, cmd, mem, markers, sees, target, holds, raced>>
      BY <1>5 DEF JobLost
    <2>5. \A d \in Drills, j \in Jobs : job'[d][j] \in {job[d][j], "running", "absent"}
      BY <1>2, <2>1, <2>2
    <2> QED BY <1>2, <2>3, <2>4, <2>5, WentBase
  <1>6. CASE DecideRestore(p) BY <1>6, <1>2, WentBase DEF DecideRestore, At
  <1>7. CASE RestoreConflict(p) BY <1>7, <1>2, WentBase DEF RestoreConflict
  <1>8. CASE StepFails(p) BY <1>8, <1>2, WentBase DEF StepFails
  <1>9. CASE Save(p) BY <1>9, <1>2, WentBase DEF Save
  <1>10. CASE SaveFails(p) BY <1>10, <1>2, WentBase DEF SaveFails
  <1>11. CASE Fail(p) BY <1>11, <1>2, WentBase DEF Fail
  <1>12. CASE Refuse(p) BY <1>12, <1>2, WentBase DEF Refuse
  <1>13. CASE Crash(p) BY <1>13, <1>2, WentBase DEF Crash
  <1> QED
    BY <1>3, <1>4, <1>5, <1>6, <1>7, <1>8, <1>9, <1>10, <1>11, <1>12, <1>13 DEF Goes

\* The steps that do the work of a phase, with their phase.
Works(p, ph) ==
    \/ ph = "marker-a-written" /\ WaitRestoreWindow(p)
    \/ ph = "marker-b-written" /\ ReuseTarget(p)
    \/ ph = "restore-requested" /\ WaitTargetAvailable(p)
    \/ ph = "validated" /\ FinishRun(p)
    \/ ph = "cleanup-pending" /\ DeleteTarget(p)
    \/ ph = "target-delete-requested" /\ WaitTargetDeleted(p)
    \/ ph = "source-marker-cleaned" /\ VerifyClean(p)

LEMMA WorksBase ==
    ASSUME Base, NEW p \in Procs, NEW ph, Works(p, ph)
    PROVE  /\ Base' /\ Others(p) /\ pc[p] = "ready" /\ mem[p].phase = ph /\ pc'[p] = "save"
           /\ mem'[p].id = Mine(p) /\ mem'[p].time = mem[p].time /\ mem'[p].phase = NextPhase(ph)
           /\ UNCHANGED <<cmd, file, markers, job, sees, holds, raced, faults>>
           /\ ph # "cleanup-pending" => UNCHANGED target
  <1> USE DEF procVars, jobVars, rdsVars, restVars
  <1>1. /\ pc[p] = "ready" /\ mem[p].phase = ph /\ ph # "cleaned" /\ Advance(p, mem[p])
        /\ UNCHANGED <<cmd, file, markers, job, sees, holds, raced, faults>>
        /\ ph # "cleanup-pending" => UNCHANGED target
    BY DEF Works, WaitRestoreWindow, ReuseTarget, WaitTargetAvailable, FinishRun,
           DeleteTarget, WaitTargetDeleted, VerifyClean, At
  <1>2. mem[p] \in States /\ Mine(p) \in Drills BY MemFacts
  <1>3. target' \in [Drills -> {"absent", "creating", "available", "broken", "deleting"}]
    <2>1. CASE ph = "cleanup-pending"
      <3>1. target' = [target EXCEPT ![Mine(p)] = IF @ = "absent" THEN "absent" ELSE "deleting"]
        BY <2>1 DEF Works, DeleteTarget
      <3> QED BY <3>1 DEF Base, Typed
    <2>2. CASE ph # "cleanup-pending" BY <1>1, <2>2 DEF Base, Typed
    <2> QED BY <2>1, <2>2
  <1>4. job' \in [Drills -> [Jobs -> JobStates]] /\ holds' \in [Drills -> Times]
    BY <1>1 DEF Base, Typed
  <1>5. /\ Base' /\ Others(p) /\ pc'[p] = "save" /\ mem'[p].id = mem[p].id
        /\ mem'[p].time = mem[p].time /\ mem'[p].phase = NextPhase(mem[p].phase)
    BY <1>1, <1>2, <1>3, <1>4, AdvancedBase
  <1> QED BY <1>1, <1>5 DEF Mine

LEMMA JobDoneBase ==
    ASSUME Base, NEW p \in Procs, JobDone(p)
    PROVE  /\ Base' /\ Others(p) /\ pc[p] = "job" /\ mem[p].phase \in DOMAIN JobOf
           /\ job[Mine(p)][JobOf[mem[p].phase]] = "complete"
           /\ job' = [job EXCEPT ![Mine(p)][JobOf[mem[p].phase]] = "absent"]
           /\ mem[p].phase = "target-deleted" => pc'[p] = "purge" /\ mem'[p] = mem[p]
           /\ mem[p].phase # "target-deleted" =>
                /\ pc'[p] = "save" /\ mem'[p].id = Mine(p) /\ mem'[p].phase = NextPhase(mem[p].phase)
                /\ mem'[p].time = IF mem[p].phase = "initialized" THEN sees[Mine(p)] ELSE mem[p].time
           /\ UNCHANGED <<cmd, file, markers, sees, target, holds, raced, faults>>
  <1> USE DEF procVars, jobVars, rdsVars, restVars
  <1>1. /\ pc[p] = "job" /\ mem[p].phase \in DOMAIN JobOf /\ mem[p] \in States /\ Mine(p) \in Drills
        /\ JobOf[mem[p].phase] \in Jobs
    BY MemFacts DEF JobDone, Base, Placed
  <1>2. /\ job[Mine(p)][JobOf[mem[p].phase]] = "complete"
        /\ job' = [job EXCEPT ![Mine(p)][JobOf[mem[p].phase]] = "absent"]
        /\ UNCHANGED <<cmd, file, markers, sees, target, holds, raced, faults>>
    BY DEF JobDone
  <1>3. /\ job' \in [Drills -> [Jobs -> JobStates]] /\ sees[Mine(p)] \in Times
        /\ target' \in [Drills -> {"absent", "creating", "available", "broken", "deleting"}]
        /\ holds' \in [Drills -> Times]
    <2>1. "absent" \in JobStates BY DEF JobStates
    <2> QED BY <1>1, <1>2, <2>1, JobTyped DEF Base, Typed
  <1>4. CASE mem[p].phase = "target-deleted"
    <2>1. Goto(p, "purge") /\ UNCHANGED mem BY <1>4, JobOfFacts DEF JobDone
    <2> QED BY <1>1, <1>2, <1>3, <1>4, <2>1, WentBase DEF Points
  <1>5. CASE mem[p].phase # "target-deleted"
    <2>1. PICK st : /\ Advance(p, st)
                    /\ st = IF mem[p].phase = "initialized"
                            THEN [mem[p] EXCEPT !.time = sees[Mine(p)]] ELSE mem[p]
      BY <1>1, <1>5, JobOfFacts DEF JobDone
    <2>2. /\ st \in States /\ st.phase = mem[p].phase /\ st.id = mem[p].id
          /\ st.time = IF mem[p].phase = "initialized" THEN sees[Mine(p)] ELSE mem[p].time
      <3>1. CASE mem[p].phase = "initialized" BY <1>1, <1>3, <2>1, <3>1 DEF States
      <3>2. CASE mem[p].phase # "initialized" BY <1>1, <2>1, <3>2 DEF States
      <3> QED BY <3>1, <3>2
    <2>3. st.phase # "cleaned" BY <1>1, <2>2, JobOfFacts
    <2>4. Advance(p, st) BY <2>1
    <2>5. /\ Base' /\ Others(p) /\ pc'[p] = "save" /\ mem'[p].id = st.id
          /\ mem'[p].time = st.time /\ mem'[p].phase = NextPhase(st.phase)
      BY <1>2, <1>3, <2>2, <2>3, <2>4, AdvancedBase
    <2> QED BY <1>1, <1>2, <1>5, <2>2, <2>5 DEF Mine
  <1> QED BY <1>4, <1>5

LEMMA PurgeBase ==
    ASSUME Base, NEW p \in Procs, PurgeJobs(p)
    PROVE  /\ Base' /\ Others(p) /\ pc[p] = "purge" /\ mem[p].phase = "target-deleted"
           /\ \/ /\ pc'[p] = "save" /\ mem'[p].id = Mine(p) /\ mem'[p].time = mem[p].time
                 /\ mem'[p].phase = "source-marker-cleaned" /\ UNCHANGED faults
                 /\ job' = [job EXCEPT ![Mine(p)] = [j \in Jobs |-> "absent"]]
              \/ pc'[p] = "fail" /\ Fault("kube") /\ mem'[p] = mem[p] /\ UNCHANGED job
           /\ UNCHANGED <<cmd, file, markers, sees, target, holds, raced>>
  <1> USE DEF procVars, jobVars, rdsVars, restVars
  <1>1. /\ pc[p] = "purge" /\ mem[p].phase = "target-deleted" /\ mem[p] \in States
        /\ Mine(p) \in Drills /\ UNCHANGED <<cmd, file, markers, sees, target, holds, raced>>
    BY MemFacts DEF PurgeJobs, Base, Placed
  <1>2. /\ target' \in [Drills -> {"absent", "creating", "available", "broken", "deleting"}]
        /\ holds' \in [Drills -> Times] /\ job \in [Drills -> [Jobs -> JobStates]]
    BY <1>1 DEF Base, Typed
  <1>3. CASE /\ job' = [job EXCEPT ![Mine(p)] = [j \in Jobs |-> "absent"]]
             /\ Advance(p, mem[p]) /\ UNCHANGED faults
    <2>1. job' \in [Drills -> [Jobs -> JobStates]]
      BY <1>1, <1>2, <1>3 DEF JobStates
    <2>2. /\ Base' /\ Others(p) /\ pc'[p] = "save" /\ mem'[p].id = mem[p].id
          /\ mem'[p].time = mem[p].time /\ mem'[p].phase = NextPhase(mem[p].phase)
      BY <1>1, <1>2, <1>3, <2>1, AdvancedBase
    <2> QED BY <1>1, <1>3, <2>2, NextFacts DEF Mine
  <1>4. CASE Fault("kube") /\ Goto(p, "fail") /\ UNCHANGED <<mem, job>>
    BY <1>1, <1>2, <1>4, WentBase DEF Points
  <1> QED BY <1>3, <1>4 DEF PurgeJobs

LEMMA RestoreBase ==
    ASSUME Base, NEW p \in Procs, RestoreCall(p)
    PROVE  /\ Base' /\ Others(p) /\ pc[p] = "restore" /\ mem[p].phase = "marker-b-written"
           /\ target[Mine(p)] = "absent" /\ target' = [target EXCEPT ![Mine(p)] = "creating"]
           /\ holds' = [holds EXCEPT ![Mine(p)] = mem[p].time]
           /\ \/ /\ pc'[p] = "save" /\ mem'[p].id = Mine(p) /\ mem'[p].time = mem[p].time
                 /\ mem'[p].phase = "restore-requested" /\ UNCHANGED faults
              \/ pc'[p] = "fail" /\ mem'[p] = mem[p] /\ Fault("aws")
           /\ UNCHANGED <<cmd, file, markers, job, sees, raced>>
  <1> USE DEF procVars, jobVars, rdsVars, restVars
  <1>1. /\ pc[p] = "restore" /\ mem[p].phase = "marker-b-written" /\ mem[p] \in States
        /\ mem[p].time \in Times
        /\ Mine(p) \in Drills /\ UNCHANGED <<cmd, file, markers, job, sees, raced>>
        /\ target[Mine(p)] = "absent" /\ target' = [target EXCEPT ![Mine(p)] = "creating"]
        /\ holds' = [holds EXCEPT ![Mine(p)] = mem[p].time]
    BY MemFacts DEF RestoreCall, Base, Placed, Status
  <1>2. /\ target' \in [Drills -> {"absent", "creating", "available", "broken", "deleting"}]
        /\ holds' \in [Drills -> Times] /\ job' \in [Drills -> [Jobs -> JobStates]]
    BY <1>1 DEF Base, Typed
  <1>3. CASE Advance(p, mem[p]) /\ UNCHANGED faults
    <2>1. /\ Base' /\ Others(p) /\ pc'[p] = "save" /\ mem'[p].id = mem[p].id
          /\ mem'[p].time = mem[p].time /\ mem'[p].phase = NextPhase(mem[p].phase)
      BY <1>1, <1>2, <1>3, AdvancedBase
    <2> QED BY <1>1, <1>3, <2>1, NextFacts DEF Mine
  <1>4. CASE Fault("aws") /\ Goto(p, "fail") /\ UNCHANGED mem
    <2>1. pc' \in [Procs -> Points] /\ pc'[p] = "fail" /\ \A q \in Procs \ {p} : pc'[q] = pc[q]
      BY <1>4, GotoIs DEF Points
    <2>2. mem' \in [Procs -> States] BY <1>4 DEF Base, Typed
    <2>3. Base' /\ Others(p) BY <1>1, <1>2, <1>4, <2>1, <2>2, Moved
    <2> QED BY <1>1, <1>4, <2>1, <2>3
  <1> QED BY <1>3, <1>4 DEF RestoreCall

\* p starts with a state of its own or with the file's.
LEMMA StartedBase ==
    ASSUME Base, NEW p \in Procs, NEW st \in States, NEW l \in {"save-new", "approve", "ready"},
           NEW c \in {"run", "cleanup"},
           cmd' = [cmd EXCEPT ![p] = c], mem' = [mem EXCEPT ![p] = st], Goto(p, l),
           UNCHANGED <<file, markers, job, sees, target, holds>>
    PROVE  Base' /\ Others(p) /\ pc'[p] = l /\ mem'[p] = st /\ cmd'[p] = c
  <1>1. pc' \in [Procs -> Points] /\ pc'[p] = l /\ \A q \in Procs \ {p} : pc'[q] = pc[q]
    BY GotoIs DEF Points
  <1>2. /\ mem' \in [Procs -> States] /\ mem'[p] = st /\ cmd' \in [Procs -> {"run", "cleanup"}]
        /\ cmd'[p] = c /\ \A q \in Procs \ {p} : mem'[q] = mem[q] /\ cmd'[q] = cmd[q]
    BY DEF Base, Typed
  <1>3. Typed' BY <1>1, <1>2 DEF Base, Typed
  <1>4. Placed' BY <1>1, <1>2 DEF Base, Placed
  <1> QED BY <1>1, <1>2, <1>3, <1>4 DEF Base, Others

LEMMA RunFirstBase ==
    ASSUME Base, NEW p \in Procs, RunFirst(p)
    PROVE  /\ Base' /\ Others(p) /\ pc[p] = "off" /\ pc'[p] = "save-new" /\ cmd'[p] = "run"
           /\ file = None
           /\ \E d \in Drills : mem'[p] = Fresh(d)
           /\ raced' = (raced \/ \E q \in Procs \ {p} : pc[q] = "save-new")
           /\ UNCHANGED <<file, markers, job, sees, target, holds, faults>>
  <1> USE DEF jobVars, rdsVars
  <1>1. PICK d \in Drills : mem' = [mem EXCEPT ![p] = Fresh(d)] BY DEF RunFirst
  <1>2. /\ pc[p] = "off" /\ file = None /\ cmd' = [cmd EXCEPT ![p] = "run"] /\ Goto(p, "save-new")
        /\ raced' = (raced \/ \E q \in Procs \ {p} : pc[q] = "save-new")
        /\ UNCHANGED <<file, markers, job, sees, target, holds, faults>>
    BY DEF RunFirst
  <1>3. Fresh(d) \in States BY FreshTyped
  <1>4. Base' /\ Others(p) /\ pc'[p] = "save-new" /\ mem'[p] = Fresh(d) /\ cmd'[p] = "run"
    BY <1>1, <1>2, <1>3, StartedBase
  <1> QED BY <1>2, <1>4

LEMMA ResumeBase ==
    ASSUME Base, NEW p \in Procs, RunResume(p) \/ CleanupStart(p)
    PROVE  /\ Base' /\ Others(p) /\ pc[p] = "off" /\ file \in States /\ mem'[p] = file
           /\ RunResume(p) => /\ pc'[p] \in {"approve", "ready"} /\ cmd'[p] = "run"
                              /\ ~CleanupStarted(file.phase)
           /\ CleanupStart(p) =>
                /\ "cleanup" \in Commands /\ cmd'[p] = "cleanup" /\ file.phase # "cleaned"
                /\ pc'[p] = IF Rank(file.phase) <= Rank("cleanup-pending") THEN "approve" ELSE "ready"
           /\ UNCHANGED <<file, markers, job, sees, target, holds, raced, faults>>
  <1> USE DEF jobVars, rdsVars, restVars
  <1>1. /\ pc[p] = "off" /\ mem' = [mem EXCEPT ![p] = file] /\ file # None
        /\ UNCHANGED <<file, markers, job, sees, target, holds, raced, faults>>
    BY DEF RunResume, CleanupStart
  <1>2. file \in States BY <1>1 DEF Base, Typed
  <1>3. CASE RunResume(p)
    <2>1. PICK l \in {"approve", "ready"} : Goto(p, l) BY <1>3 DEF RunResume
    <2>2. cmd' = [cmd EXCEPT ![p] = "run"] /\ ~CleanupStarted(file.phase) BY <1>3 DEF RunResume
    <2>3. Base' /\ Others(p) /\ pc'[p] = l /\ mem'[p] = file /\ cmd'[p] = "run"
      BY <1>1, <1>2, <2>1, <2>2, StartedBase
    <2>4. CleanupStart(p) => FALSE
      <3>1. CleanupStart(p) => cmd' = [cmd EXCEPT ![p] = "cleanup"] BY DEF CleanupStart
      <3> QED BY <2>2, <3>1 DEF Base, Typed
    <2> QED BY <1>1, <1>2, <2>1, <2>2, <2>3, <2>4
  <1>4. CASE CleanupStart(p)
    <2>1. PICK l \in {"approve", "ready"} :
            /\ Goto(p, l)
            /\ l = IF Rank(file.phase) <= Rank("cleanup-pending") THEN "approve" ELSE "ready"
      BY <1>4 DEF CleanupStart
    <2>2. /\ cmd' = [cmd EXCEPT ![p] = "cleanup"] /\ file.phase # "cleaned"
          /\ "cleanup" \in Commands
      BY <1>4 DEF CleanupStart
    <2>3. Goto(p, l) BY <2>1
    <2>4. Base' /\ Others(p) /\ pc'[p] = l /\ mem'[p] = file /\ cmd'[p] = "cleanup"
      BY <1>1, <1>2, <2>2, <2>3, StartedBase
    <2>5. RunResume(p) => FALSE
      <3>1. RunResume(p) => cmd' = [cmd EXCEPT ![p] = "run"] BY DEF RunResume
      <3> QED BY <2>2, <3>1 DEF Base, Typed
    <2> QED BY <1>1, <1>2, <2>1, <2>2, <2>4, <2>5
  <1> QED BY <1>3, <1>4

LEMMA SaveNewBase ==
    ASSUME Base, NEW p \in Procs, SaveNew(p)
    PROVE  /\ Base' /\ Others(p) /\ pc[p] = "save-new" /\ mem'[p] = mem[p]
           /\ \/ file' = mem[p] /\ pc'[p] = "approve" /\ UNCHANGED faults
              \/ file' = file /\ pc'[p] = "off" /\ Fault("disk")
           /\ UNCHANGED <<cmd, mem, markers, job, sees, target, holds, raced>>
  <1> USE DEF jobVars, rdsVars, restVars
  <1>1. pc[p] = "save-new" /\ UNCHANGED <<cmd, mem, markers, job, sees, target, holds, raced>>
    BY DEF SaveNew
  <1>2. job \in [Drills -> [Jobs -> JobStates]] /\ {"off", "approve"} \subseteq Points
    BY DEF Base, Typed, Points
  <1>3. CASE file' = mem[p] /\ Goto(p, "approve") /\ UNCHANGED faults
    BY <1>1, <1>2, <1>3, WentBase
  <1>4. CASE Fault("disk") /\ Goto(p, "off") /\ UNCHANGED file
    BY <1>1, <1>2, <1>4, WentBase
  <1> QED BY <1>3, <1>4 DEF SaveNew

LEMMA ApproveBase ==
    ASSUME Base, NEW p \in Procs, Approve(p)
    PROVE  /\ Base' /\ Others(p) /\ pc[p] = "approve"
           /\ \/ /\ cmd[p] = "cleanup" /\ mem'[p].id = Mine(p) /\ mem'[p].phase = "cleanup-pending"
                 /\ ~CleanupStarted(mem[p].phase)
                 /\ \/ file' = mem'[p] /\ pc'[p] = "ready" /\ UNCHANGED faults
                    \/ file' = file /\ pc'[p] = "off" /\ Fault("disk")
              \/ /\ ~(cmd[p] = "cleanup" /\ ~CleanupStarted(mem[p].phase))
                 /\ mem'[p] = mem[p] /\ file' = file /\ pc'[p] = "ready" /\ UNCHANGED faults
           /\ UNCHANGED <<cmd, markers, job, sees, target, holds, raced>>
  <1> USE DEF jobVars, rdsVars, restVars
  <1>1. pc[p] = "approve" /\ UNCHANGED <<cmd, markers, job, sees, target, holds, raced>>
    BY DEF Approve
  <1>2. /\ job' \in [Drills -> [Jobs -> JobStates]] /\ {"off", "ready"} \subseteq Points
        /\ target' \in [Drills -> {"absent", "creating", "available", "broken", "deleting"}]
        /\ holds' \in [Drills -> Times]
    BY <1>1 DEF Base, Typed, Points
  <1>3. CASE cmd[p] = "cleanup" /\ ~CleanupStarted(mem[p].phase)
    <2>1. /\ mem' = [mem EXCEPT ![p].phase = "cleanup-pending"]
          /\ \/ file' = mem'[p] /\ Goto(p, "ready") /\ UNCHANGED faults
             \/ Fault("disk") /\ Goto(p, "off") /\ UNCHANGED file
      BY <1>3 DEF Approve
    <2>2. /\ mem' \in [Procs -> States] /\ mem'[p].id = Mine(p)
          /\ mem'[p].phase = "cleanup-pending"
          /\ \A q \in Procs \ {p} : mem'[q] = mem[q]
      <3>1. [mem[p] EXCEPT !.phase = "cleanup-pending"] \in States
        BY PhaseFacts DEF Base, Typed, States
      <3>2. mem' = [mem EXCEPT ![p] = [mem[p] EXCEPT !.phase = "cleanup-pending"]]
        BY <2>1
      <3>3. mem' \in [Procs -> States] /\ mem'[p] = [mem[p] EXCEPT !.phase = "cleanup-pending"]
            /\ \A q \in Procs \ {p} : mem'[q] = mem[q]
        BY <3>1, <3>2 DEF Base, Typed
      <3> QED BY <3>3, MemFacts DEF Mine, States
    <2>3. CASE file' = mem'[p] /\ Goto(p, "ready") /\ UNCHANGED faults
      <3>1. pc' \in [Procs -> Points] /\ pc'[p] = "ready" /\ \A q \in Procs \ {p} : pc'[q] = pc[q]
        BY <1>2, <2>3, GotoIs
      <3>2. Base' /\ Others(p) BY <1>1, <1>2, <2>2, <2>3, <3>1, Moved
      <3> QED BY <1>1, <1>3, <2>2, <2>3, <3>1, <3>2
    <2>4. CASE Fault("disk") /\ Goto(p, "off") /\ UNCHANGED file
      <3>1. pc' \in [Procs -> Points] /\ pc'[p] = "off" /\ \A q \in Procs \ {p} : pc'[q] = pc[q]
        BY <1>2, <2>4, GotoIs
      <3>2. Base' /\ Others(p) BY <1>1, <1>2, <2>2, <2>4, <3>1, Moved
      <3> QED BY <1>1, <1>3, <2>2, <2>4, <3>1, <3>2
    <2> QED BY <2>1, <2>3, <2>4
  <1>4. CASE ~(cmd[p] = "cleanup" /\ ~CleanupStarted(mem[p].phase))
    <2>1. Goto(p, "ready") /\ UNCHANGED <<file, mem, faults>> BY <1>4 DEF Approve
    <2> QED BY <1>1, <1>2, <1>4, <2>1, WentBase
  <1> QED BY <1>3, <1>4

\* What a Job leaves of its drill's markers, if it took effect.
LEMMA EffectIs ==
    ASSUME Base, NEW d \in Drills, NEW j \in Jobs, Effect(d, j)
    PROVE  /\ markers' \in [Drills -> SUBSET Markers] /\ sees' \in [Drills -> Times]
           /\ \A e \in Drills \ {d} : markers'[e] = markers[e] /\ sees'[e] = sees[e]
           /\ j = "write-a" => markers'[d] = markers[d] \cup {"A"} /\ sees'[d] = markers'[d]
           /\ j # "write-a" => sees'[d] = sees[d]
           /\ j = "write-b" => markers'[d] = markers[d] \cup {"B"}
           /\ j = "cleanup" => markers'[d] = {}
           /\ j = "validate" => markers'[d] = markers[d]
  <1>1. markers \in [Drills -> SUBSET Markers] /\ sees \in [Drills -> Times]
    BY DEF Base, Typed
  <1> DEFINE m == CASE j = "write-a"  -> markers[d] \cup {"A"}
                    [] j = "write-b"  -> markers[d] \cup {"B"}
                    [] j = "cleanup"  -> {}
                    [] j = "validate" -> markers[d]
  <1>2. /\ markers' = [markers EXCEPT ![d] = m]
        /\ j = "write-a" => m = markers[d] \cup {"A"}
        /\ j = "write-b" => m = markers[d] \cup {"B"}
        /\ j = "cleanup" => m = {}
        /\ j = "validate" => m = markers[d]
    BY DEF Effect
  <1> HIDE DEF m
  <1>3. m \in SUBSET Markers BY <1>1, <1>2 DEF Jobs, Markers
  <1>4. /\ markers' \in [Drills -> SUBSET Markers] /\ markers'[d] = m
        /\ \A e \in Drills \ {d} : markers'[e] = markers[e]
    BY <1>1, <1>2, <1>3
  <1>5. m \in Times BY <1>3, NoneFacts
  <1>6. /\ sees' \in [Drills -> Times] /\ \A e \in Drills \ {d} : sees'[e] = sees[e]
        /\ j = "write-a" => sees'[d] = m
        /\ j # "write-a" => sees'[d] = sees[d]
    BY <1>1, <1>4, <1>5 DEF Effect
  <1> QED BY <1>2, <1>4, <1>6

\* A Job ends, and nothing else moves.
LEMMA JobEndsBase ==
    ASSUME Base, NEW d \in Drills, NEW j \in Jobs, JobSucceeds(d, j) \/ JobFails(d, j)
    PROVE  /\ Base' /\ UNCHANGED <<file, pc, cmd, mem, target, holds, raced>>
           /\ job[d][j] = "running"
           /\ Effect(d, j) \/ UNCHANGED <<markers, sees>>
           /\ \/ /\ job' = [job EXCEPT ![d][j] = "complete"] /\ Effect(d, j) /\ UNCHANGED faults
                 /\ j = "validate" => target[d] = "available" /\ holds[d] = {"A"}
              \/ job' = [job EXCEPT ![d][j] = "failed"] /\ (Fault("job") \/ UNCHANGED faults)
  <1> USE DEF procVars, rdsVars, restVars
  <1>1. /\ UNCHANGED <<file, pc, cmd, mem, target, holds, raced>>
        /\ job[d][j] = "running"
        /\ Effect(d, j) \/ UNCHANGED <<markers, sees>>
        /\ \/ /\ job' = [job EXCEPT ![d][j] = "complete"] /\ Effect(d, j) /\ UNCHANGED faults
              /\ j = "validate" => target[d] = "available" /\ holds[d] = {"A"}
           \/ job' = [job EXCEPT ![d][j] = "failed"] /\ (Fault("job") \/ UNCHANGED faults)
    <2>1. CASE JobSucceeds(d, j) BY <2>1 DEF JobSucceeds
    <2>2. CASE JobFails(d, j) BY <2>2 DEF JobFails
    <2> QED BY <2>1, <2>2
  <1>2. job' \in [Drills -> [Jobs -> JobStates]]
    <2>1. "complete" \in JobStates /\ "failed" \in JobStates BY DEF JobStates
    <2>2. /\ [job EXCEPT ![d][j] = "complete"] \in [Drills -> [Jobs -> JobStates]]
          /\ [job EXCEPT ![d][j] = "failed"] \in [Drills -> [Jobs -> JobStates]]
      BY <2>1, JobTyped
    <2> QED BY <1>1, <2>2
  <1>3. markers' \in [Drills -> SUBSET Markers] /\ sees' \in [Drills -> Times]
    BY <1>1, EffectIs DEF Base, Typed
  <1>4. Typed' BY <1>1, <1>2, <1>3 DEF Base, Typed
  <1>5. Placed' BY <1>1 DEF Base, Placed
  <1> QED BY <1>1, <1>4, <1>5 DEF Base

\* RDS and the rest of the account.
\* What else happens in the account, and a stutter.
Meanwhile ==
    OtherDrill \/ (\E d \in Drills, x \in Aspects : Drifts(d, x)) \/ UNCHANGED vars

World(d) == TargetReady(d) \/ TargetBreaks(d) \/ TargetGone(d) \/ Retag(d)

LEMMA WorldBase ==
    ASSUME Base, NEW d \in Drills, World(d)
    PROVE  /\ Base' /\ UNCHANGED <<file, pc, cmd, mem, markers, job, sees, raced>>
           /\ \/ UNCHANGED <<target, holds>>
              \/ /\ target[d] = "creating" /\ UNCHANGED holds
                 /\ \E x \in {"available", "broken"} : target' = [target EXCEPT ![d] = x]
              \/ /\ target[d] = "deleting" /\ target' = [target EXCEPT ![d] = "absent"]
                 /\ holds' = [holds EXCEPT ![d] = {}]
  <1> USE DEF procVars, jobVars, restVars
  <1>1. /\ UNCHANGED <<file, pc, cmd, mem, markers, job, sees, raced>>
        /\ \/ UNCHANGED <<target, holds>>
           \/ /\ target[d] = "creating" /\ UNCHANGED holds
              /\ \E x \in {"available", "broken"} : target' = [target EXCEPT ![d] = x]
           \/ /\ target[d] = "deleting" /\ target' = [target EXCEPT ![d] = "absent"]
              /\ holds' = [holds EXCEPT ![d] = {}]
    <2>1. CASE TargetReady(d) BY <2>1 DEF TargetReady
    <2>2. CASE TargetBreaks(d) BY <2>2 DEF TargetBreaks
    <2>3. CASE TargetGone(d) BY <2>3 DEF TargetGone
    <2>4. CASE Retag(d) BY <2>4 DEF Retag
    <2> QED BY <2>1, <2>2, <2>3, <2>4 DEF World
  <1>2. {} \in Times BY NoneFacts
  <1>3. Typed' BY <1>1, <1>2 DEF Base, Typed
  <1>4. Placed' BY <1>1 DEF Base, Placed
  <1> QED BY <1>1, <1>3, <1>4 DEF Base

\* Nothing that the invariants speak of but the faults changes.
LEMMA StillBase ==
    ASSUME Base, UNCHANGED <<file, pc, cmd, mem, markers, job, sees, target, holds>>
    PROVE  Base'
  BY DEF Base, Typed, Placed

-----------------------------------------------------------------------------
(* Any number of runs on one state file.                                   *)

\* The phases a run goes through, and those it works in.
Working == {"initialized", "marker-a-written", "restore-window-ready", "marker-b-written",
            "restore-requested", "target-available", "validated"}
Walked  == Working \cup {"cleanup-pending"}

\* No invocation is a cleanup, so none goes past the gate of one and no
\* target is deleted.
OnlyRuns ==
    /\ \A p \in Procs : /\ cmd[p] = "run" /\ mem[p].phase \in Walked /\ pc[p] # "purge"
                        /\ pc[p] \in {"save-new", "approve", "ready", "job", "restore"} =>
                             mem[p].phase \in Working
    /\ file # None => file.phase \in Walked
    /\ \A d \in Drills : target[d] # "deleting"

\* The drill's target exists and holds A alone.
Passed(d) == target[d] # "absent" /\ holds[d] = {"A"}

\* What a state says of its drill, wherever it is kept.
Truthful(st) == st.phase \in {"validated", "cleanup-pending"} => Passed(st.id)

AllTruthful ==
    /\ \A d \in Drills : job[d]["validate"] = "complete" => Passed(d)
    /\ \A p \in Procs : Truthful(mem[p])
    /\ file # None => Truthful(file)

\* Unless two first runs raced, one drill is named once, and everybody works
\* on it.
OneName ==
    /\ \A p, q \in Procs : pc[p] = "save-new" /\ pc[q] = "save-new" => p = q
    /\ file = None => \A p \in Procs : pc[p] \in {"off", "save-new"}
    /\ file # None => \A p \in Procs : pc[p] # "off" => pc[p] # "save-new" /\ Mine(p) = file.id
    /\ \A d \in Drills : target[d] # "absent" => file # None /\ file.id = d

RunInv == Base /\ OnlyRuns /\ AllTruthful /\ (raced \/ OneName)

\* An invocation that has its state goes on with it.
LEMMA RunGoesOn ==
    ASSUME RunInv, Base', NEW p \in Procs, Others(p), pc[p] \notin {"off", "save-new"},
           pc'[p] \notin {"save-new", "purge"}, mem'[p].id = Mine(p),
           UNCHANGED <<cmd, target, holds, raced>>,
           file' = file \/ (file' = mem'[p] /\ file' # None),
           \A d \in Drills : job'[d]["validate"] = "complete" => job[d]["validate"] = "complete",
           mem'[p].phase \in Walked,
           pc'[p] \in {"approve", "ready", "job", "restore"} => mem'[p].phase \in Working,
           mem'[p].phase \in {"validated", "cleanup-pending"} => Passed(Mine(p))
    PROVE  RunInv'
  <1>1. OnlyRuns' BY DEF RunInv, OnlyRuns, Others
  <1>2. \A d : Passed(d)' = Passed(d) BY DEF Passed
  <1>3. \A q \in Procs : Truthful(mem[q])'
    BY <1>2 DEF RunInv, AllTruthful, Truthful, Others
  <1>4. AllTruthful'
    BY <1>2, <1>3 DEF RunInv, AllTruthful, Truthful
  <1>5. raced' \/ OneName'
    <2>1. CASE raced BY <2>1
    <2>2. CASE OneName BY <2>2 DEF OneName, Others, Mine
    <2> QED BY <2>1, <2>2 DEF RunInv
  <1> QED BY <1>1, <1>4, <1>5 DEF RunInv

\* An invocation that ends before it has saved its first state.
LEMMA RunGivesUp ==
    ASSUME RunInv, Base', NEW p \in Procs, Others(p), pc'[p] = "off",
           UNCHANGED <<cmd, mem, file, target, holds, raced>>,
           \A d \in Drills : job'[d]["validate"] = "complete" => job[d]["validate"] = "complete"
    PROVE  RunInv'
  <1>1. OnlyRuns' BY DEF RunInv, OnlyRuns, Others
  <1>2. AllTruthful' BY DEF RunInv, AllTruthful, Truthful, Passed
  <1>3. raced' \/ OneName'
    <2>1. CASE raced BY <2>1
    <2>2. CASE OneName BY <2>2 DEF OneName, Others, Mine
    <2> QED BY <2>1, <2>2 DEF RunInv
  <1> QED BY <1>1, <1>2, <1>3 DEF RunInv

LEMMA RunGoes ==
    ASSUME RunInv, NEW p \in Procs, Goes(p)
    PROVE  RunInv'
  <1>1. /\ Base' /\ Others(p) /\ UNCHANGED <<cmd, mem, target, holds, raced>>
        /\ pc'[p] \in {"off", "ready", "job", "restore", "fail"}
        /\ pc'[p] \in {"job", "restore"} => pc[p] = "ready"
        /\ file' \in {file, mem[p]} /\ (file' # file => pc[p] \in {"save", "fail"})
        /\ pc[p] # "off" /\ (pc[p] = "save-new" => pc'[p] = "off")
        /\ \A d \in Drills, j \in Jobs : job'[d][j] \in {job[d][j], "running", "absent"}
        /\ pc'[p] = "ready" => ~(cmd[p] = "run" /\ mem[p].phase = "cleanup-pending")
    BY GoesBase DEF RunInv
  <1>2. \A d \in Drills : job'[d]["validate"] = "complete" => job[d]["validate"] = "complete"
    BY <1>1 DEF Jobs
  <1>3. mem[p] \in States /\ None \notin States BY MemFacts, NoneFacts DEF RunInv
  <1>4. CASE pc[p] = "save-new" BY <1>1, <1>2, <1>4, RunGivesUp
  <1>5. CASE pc[p] # "save-new"
    <2>1. file' = file \/ (file' = mem'[p] /\ file' # None) BY <1>1, <1>3
    <2>2. mem'[p].id = Mine(p) /\ mem'[p].phase \in Walked
          /\ (mem'[p].phase \in {"validated", "cleanup-pending"} => Passed(Mine(p)))
      BY <1>1 DEF RunInv, OnlyRuns, AllTruthful, Truthful, Mine
    <2>3. pc'[p] \in {"approve", "ready", "job", "restore"} => mem'[p].phase \in Working
      BY <1>1 DEF RunInv, OnlyRuns, Walked
    <2> QED BY <1>1, <1>2, <1>5, <2>1, <2>2, <2>3, RunGoesOn
  <1> QED BY <1>4, <1>5

LEMMA RunWorks ==
    ASSUME RunInv, NEW p \in Procs, NEW ph, Works(p, ph)
    PROVE  RunInv'
  <1>1. /\ Base' /\ Others(p) /\ pc[p] = "ready" /\ mem[p].phase = ph /\ pc'[p] = "save"
        /\ mem'[p].id = Mine(p) /\ mem'[p].phase = NextPhase(ph)
        /\ UNCHANGED <<cmd, file, job, holds, raced>>
        /\ ph # "cleanup-pending" => UNCHANGED target
    BY WorksBase DEF RunInv
  <1>2. ph \in Working /\ Truthful(mem[p]) BY <1>1 DEF RunInv, OnlyRuns, AllTruthful
  <1>3. ph \in {"marker-a-written", "marker-b-written", "restore-requested", "validated"}
    BY <1>2 DEF Works, Working
  <1>4. /\ mem'[p].phase \in Walked
        /\ mem'[p].phase \in {"validated", "cleanup-pending"} => ph = "validated"
    BY <1>1, <1>3, NextFacts DEF Walked, Working
  <1>5. mem'[p].phase \in {"validated", "cleanup-pending"} => Passed(Mine(p))
    BY <1>1, <1>2, <1>4 DEF Truthful, Mine
  <1>6. UNCHANGED target BY <1>1, <1>3
  <1> QED BY <1>1, <1>4, <1>5, <1>6, RunGoesOn

LEMMA RunJobDone ==
    ASSUME RunInv, NEW p \in Procs, JobDone(p)
    PROVE  RunInv'
  <1>1. /\ Base' /\ Others(p) /\ pc[p] = "job" /\ mem[p].phase \in DOMAIN JobOf
        /\ job[Mine(p)][JobOf[mem[p].phase]] = "complete"
        /\ job' = [job EXCEPT ![Mine(p)][JobOf[mem[p].phase]] = "absent"]
        /\ mem[p].phase # "target-deleted" =>
             pc'[p] = "save" /\ mem'[p].id = Mine(p) /\ mem'[p].phase = NextPhase(mem[p].phase)
        /\ UNCHANGED <<cmd, file, target, holds, raced>>
    BY JobDoneBase DEF RunInv
  <1>2. mem[p].phase \in {"initialized", "restore-window-ready", "target-available"}
    BY <1>1, JobOfFacts DEF RunInv, OnlyRuns, Working
  <1>3. \A d \in Drills : job'[d]["validate"] = "complete" => job[d]["validate"] = "complete"
    BY <1>1, MemFacts DEF RunInv, Base, Typed, Jobs
  <1>4. /\ mem'[p].phase \in Walked
        /\ mem'[p].phase \in {"validated", "cleanup-pending"} => mem[p].phase = "target-available"
    BY <1>1, <1>2, NextFacts DEF Walked, Working
  <1>5. mem[p].phase = "target-available" => Passed(Mine(p))
    BY <1>1, JobOfFacts, MemFacts DEF RunInv, AllTruthful
  <1> QED BY <1>1, <1>2, <1>3, <1>4, <1>5, RunGoesOn

LEMMA RunApprove ==
    ASSUME RunInv, NEW p \in Procs, Approve(p)
    PROVE  RunInv'
  <1>1. cmd[p] = "run" BY DEF RunInv, OnlyRuns
  <1>2. /\ Base' /\ Others(p) /\ pc[p] = "approve" /\ mem'[p] = mem[p] /\ file' = file
        /\ pc'[p] = "ready" /\ UNCHANGED <<cmd, job, target, holds, raced>>
    BY <1>1, ApproveBase DEF RunInv
  <1>3. /\ mem[p].phase \in Working /\ mem'[p].id = Mine(p)
        /\ mem'[p].phase \in {"validated", "cleanup-pending"} => Passed(Mine(p))
    BY <1>2 DEF RunInv, OnlyRuns, AllTruthful, Truthful, Mine
  <1> QED BY <1>2, <1>3, RunGoesOn DEF Walked

\* The first answer of RestoreRDSPointInTime, or none.
LEMMA RunRestore ==
    ASSUME RunInv, NEW p \in Procs, RestoreCall(p)
    PROVE  RunInv'
  <1>1. /\ Base' /\ Others(p) /\ pc[p] = "restore" /\ mem[p].phase = "marker-b-written"
        /\ target[Mine(p)] = "absent" /\ target' = [target EXCEPT ![Mine(p)] = "creating"]
        /\ holds' = [holds EXCEPT ![Mine(p)] = mem[p].time]
        /\ pc'[p] \in {"save", "fail"} /\ mem'[p].id = Mine(p)
        /\ mem'[p].phase \in {"marker-b-written", "restore-requested"}
        /\ UNCHANGED <<cmd, file, job, raced>>
    BY RestoreBase DEF RunInv, Mine
  <1>2. Mine(p) \in Drills BY MemFacts DEF RunInv
  <1>3. /\ \A d \in Drills \ {Mine(p)} : target'[d] = target[d] /\ holds'[d] = holds[d]
        /\ target'[Mine(p)] = "creating"
    BY <1>1, <1>2 DEF RunInv, Base, Typed
  <1>4. \A d \in Drills : Passed(d) => d # Mine(p) /\ Passed(d)'
    BY <1>1, <1>3 DEF Passed
  <1>5. OnlyRuns' BY <1>1, <1>3 DEF RunInv, OnlyRuns, Others, Walked, Working
  <1>6. \A q \in Procs : Mine(q) \in Drills BY MemFacts DEF RunInv
  <1>7. file # None => file.id \in Drills BY DEF RunInv, Base, Typed, States
  <1>8. AllTruthful'
    BY <1>1, <1>4, <1>6, <1>7 DEF RunInv, AllTruthful, Truthful, Others, Mine
  <1>9. raced' \/ OneName'
    <2>1. CASE raced BY <1>1, <2>1
    <2>2. CASE OneName
      <3>1. file # None /\ Mine(p) = file.id BY <1>1, <2>2 DEF OneName
      <3> QED BY <1>1, <1>3, <2>2, <3>1 DEF OneName, Others, Mine
    <2> QED BY <2>1, <2>2 DEF RunInv
  <1> QED BY <1>1, <1>5, <1>8, <1>9 DEF RunInv

\* A first run names a drill; another that does so now has raced it.
LEMMA RunNames ==
    ASSUME RunInv, NEW p \in Procs, RunFirst(p)
    PROVE  RunInv'
  <1>1. /\ Base' /\ Others(p) /\ pc[p] = "off" /\ pc'[p] = "save-new" /\ cmd'[p] = "run"
        /\ file = None
        /\ \E d \in Drills : mem'[p] = Fresh(d)
        /\ raced' = (raced \/ \E q \in Procs \ {p} : pc[q] = "save-new")
        /\ UNCHANGED <<file, job, target, holds>>
    BY RunFirstBase DEF RunInv
  <1>2. mem'[p].phase = "initialized" BY <1>1, FreshTyped
  <1>3. OnlyRuns' BY <1>1, <1>2 DEF RunInv, OnlyRuns, Others, Working, Walked
  <1>4. AllTruthful' BY <1>1, <1>2 DEF RunInv, AllTruthful, Truthful, Passed, Others
  <1>5. raced' \/ OneName'
    <2>1. CASE raced' BY <2>1
    <2>2. CASE ~raced'
      <3>1. OneName /\ \A q \in Procs \ {p} : pc[q] # "save-new" BY <1>1, <2>2 DEF RunInv
      <3> QED BY <1>1, <3>1 DEF OneName, Others, Mine
    <2> QED BY <2>1, <2>2
  <1> QED BY <1>1, <1>3, <1>4, <1>5 DEF RunInv

LEMMA RunResumes ==
    ASSUME RunInv, NEW p \in Procs, RunResume(p)
    PROVE  RunInv'
  <1>1. /\ Base' /\ Others(p) /\ pc[p] = "off" /\ file \in States /\ mem'[p] = file
        /\ pc'[p] \in {"approve", "ready"} /\ cmd'[p] = "run" /\ ~CleanupStarted(file.phase)
        /\ UNCHANGED <<file, job, target, holds, raced>>
    BY ResumeBase DEF RunInv
  <1>2. file.phase \in PhaseSet /\ file # None BY <1>1, NoneFacts DEF States
  <1>3. file.phase \in Working BY <1>1, <1>2, StartedFacts, PhaseFacts DEF Working
  <1>4. OnlyRuns' BY <1>1, <1>3 DEF RunInv, OnlyRuns, Others, Walked
  <1>5. AllTruthful' BY <1>1, <1>2 DEF RunInv, AllTruthful, Truthful, Passed, Others
  <1>6. raced' \/ OneName'
    <2>1. CASE raced BY <1>1, <2>1
    <2>2. CASE OneName BY <1>1, <1>2, <2>2 DEF OneName, Others, Mine
    <2> QED BY <2>1, <2>2 DEF RunInv
  <1> QED BY <1>1, <1>4, <1>5, <1>6 DEF RunInv

LEMMA RunSavesNew ==
    ASSUME RunInv, NEW p \in Procs, SaveNew(p)
    PROVE  RunInv'
  <1>1. /\ Base' /\ Others(p) /\ pc[p] = "save-new" /\ mem'[p] = mem[p]
        /\ \/ file' = mem[p] /\ pc'[p] = "approve"
           \/ file' = file /\ pc'[p] = "off"
        /\ UNCHANGED <<cmd, mem, job, target, holds, raced>>
    BY SaveNewBase DEF RunInv
  <1>2. CASE file' = file /\ pc'[p] = "off" BY <1>1, <1>2, RunGivesUp
  <1>3. CASE file' = mem[p] /\ pc'[p] = "approve"
    <2>1. mem[p] # None BY MemFacts, NoneFacts DEF RunInv
    <2>2. OnlyRuns' BY <1>1, <1>3 DEF RunInv, OnlyRuns, Others
    <2>3. AllTruthful' BY <1>1, <1>3 DEF RunInv, AllTruthful, Truthful, Passed
    <2>4. raced' \/ OneName'
      <3>1. CASE raced BY <1>1, <3>1
      <3>2. CASE OneName
        <4>1. file = None BY <1>1, <3>2 DEF OneName
        <4>2. \A q \in Procs \ {p} : pc[q] = "off" BY <1>1, <3>2, <4>1 DEF OneName
        <4>3. \A d \in Drills : target[d] = "absent" BY <3>2, <4>1 DEF OneName
        <4> QED BY <1>1, <1>3, <2>1, <4>2, <4>3 DEF OneName, Others, Mine
      <3> QED BY <3>1, <3>2 DEF RunInv
    <2> QED BY <1>1, <2>2, <2>3, <2>4 DEF RunInv
  <1> QED BY <1>1, <1>2, <1>3

\* The Jobs, RDS and the rest of the account.
LEMMA RunOutside ==
    ASSUME RunInv, \/ \E d \in Drills, j \in Jobs : JobSucceeds(d, j) \/ JobFails(d, j)
                   \/ \E d \in Drills : World(d)
                   \/ Meanwhile
    PROVE  RunInv'
  <1>1. CASE \E d \in Drills, j \in Jobs : JobSucceeds(d, j) \/ JobFails(d, j)
    <2>1. PICK d \in Drills, j \in Jobs : JobSucceeds(d, j) \/ JobFails(d, j) BY <1>1
    <2>2. /\ Base' /\ UNCHANGED <<file, pc, cmd, mem, target, holds, raced>>
          /\ \/ /\ job' = [job EXCEPT ![d][j] = "complete"]
                /\ j = "validate" => target[d] = "available" /\ holds[d] = {"A"}
             \/ job' = [job EXCEPT ![d][j] = "failed"]
      BY <2>1, JobEndsBase DEF RunInv
    <2>3. \A e \in Drills : job'[e]["validate"] = "complete" =>
                              job[e]["validate"] = "complete" \/ Passed(e)
      BY <2>2 DEF RunInv, Base, Typed, Jobs, Passed
    <2>4. OnlyRuns' BY <2>2 DEF RunInv, OnlyRuns
    <2>5. AllTruthful' BY <2>2, <2>3 DEF RunInv, AllTruthful, Truthful, Passed
    <2>6. raced' \/ OneName' BY <2>2 DEF RunInv, OneName, Mine
    <2> QED BY <2>2, <2>4, <2>5, <2>6 DEF RunInv
  <1>2. CASE \E d \in Drills : World(d)
    <2>1. PICK d \in Drills : World(d) BY <1>2
    <2>2. target[d] # "deleting" BY DEF RunInv, OnlyRuns
    <2>3. /\ Base' /\ UNCHANGED <<file, pc, cmd, mem, job, raced, holds>>
          /\ \/ UNCHANGED target
             \/ /\ target[d] = "creating"
                /\ \E x \in {"available", "broken"} : target' = [target EXCEPT ![d] = x]
      BY <2>1, <2>2, WorldBase DEF RunInv
    <2>4. \A e \in Drills : (target'[e] = "absent" <=> target[e] = "absent")
                            /\ target'[e] # "deleting"
      BY <2>3 DEF RunInv, Base, Typed, OnlyRuns
    <2>5. OnlyRuns' BY <2>3, <2>4 DEF RunInv, OnlyRuns
    <2>6. \A e \in Drills : Passed(e)' <=> Passed(e) BY <2>3, <2>4 DEF Passed
    <2>7. \A q \in Procs : Mine(q) \in Drills BY MemFacts DEF RunInv
    <2>8. file # None => file.id \in Drills BY DEF RunInv, Base, Typed, States
    <2>9. AllTruthful' BY <2>3, <2>6, <2>7, <2>8 DEF RunInv, AllTruthful, Truthful, Mine
    <2>10. raced' \/ OneName' BY <2>3, <2>4 DEF RunInv, OneName, Mine
    <2> QED BY <2>3, <2>5, <2>9, <2>10 DEF RunInv
  <1>3. CASE Meanwhile
    <2>1. UNCHANGED <<file, pc, cmd, mem, markers, job, sees, target, holds, raced>>
      BY <1>3 DEF Meanwhile, OtherDrill, Drifts, vars, procVars, jobVars, rdsVars
    <2>2. Base' BY <2>1, StillBase DEF RunInv
    <2>3. OnlyRuns' BY <2>1 DEF RunInv, OnlyRuns
    <2>4. AllTruthful' BY <2>1 DEF RunInv, AllTruthful, Truthful, Passed
    <2>5. raced' \/ OneName' BY <2>1 DEF RunInv, OneName, Mine
    <2> QED BY <2>2, <2>3, <2>4, <2>5 DEF RunInv
  <1> QED BY <1>1, <1>2, <1>3

LEMMA BaseInit == Init => Base
  <1> SUFFICES ASSUME Init PROVE Base
    OBVIOUS
  <1>1. PICK d \in Drills : mem = [p \in Procs |-> Fresh(d)] BY DEF Init
  <1>2. mem \in [Procs -> States] BY <1>1, FreshTyped
  <1>3. Typed BY <1>2, NoneFacts DEF Init, Typed, Points, JobStates
  <1>4. Placed BY DEF Init, Placed
  <1> QED BY <1>3, <1>4 DEF Base

LEMMA RunInit == Init => RunInv
  <1> SUFFICES ASSUME Init PROVE RunInv
    OBVIOUS
  <1>1. PICK d \in Drills : mem = [p \in Procs |-> Fresh(d)] BY DEF Init
  <1>2. \A p \in Procs : mem[p].phase = "initialized" BY <1>1, FreshTyped
  <1>3. OnlyRuns BY <1>2 DEF Init, OnlyRuns, Working, Walked
  <1>4. AllTruthful BY <1>2 DEF Init, AllTruthful, Truthful, Jobs
  <1>5. OneName BY DEF Init, OneName
  <1> QED BY BaseInit, <1>3, <1>4, <1>5 DEF RunInv

\* The steps of one invocation, sorted as the lemmas are.
LEMMA ProcSteps ==
    ASSUME NEW p \in Procs, Step(p) \/ Refuse(p) \/ Crash(p)
    PROVE  \/ Goes(p) \/ (\E ph \in PhaseSet : Works(p, ph)) \/ JobDone(p) \/ PurgeJobs(p)
           \/ RestoreCall(p) \/ SaveNew(p) \/ Approve(p)
  BY PhaseFacts DEF Step, Goes, Works

LEMMA RunNext ==
    ASSUME "cleanup" \notin Commands, RunInv, [Next]_vars
    PROVE  RunInv'
  <1>1. CASE \E p \in Procs : \/ RunFirst(p) \/ RunResume(p) \/ CleanupStart(p)
                              \/ Step(p) \/ Refuse(p) \/ Crash(p)
    <2>1. PICK p \in Procs : \/ RunFirst(p) \/ RunResume(p) \/ CleanupStart(p)
                             \/ Step(p) \/ Refuse(p) \/ Crash(p) BY <1>1
    <2>2. ~CleanupStart(p) BY DEF CleanupStart
    <2>3. ~PurgeJobs(p) BY DEF PurgeJobs, RunInv, OnlyRuns
    <2> QED BY <2>1, <2>2, <2>3, ProcSteps, RunNames, RunResumes, RunGoes, RunWorks, RunJobDone,
              RunRestore, RunSavesNew, RunApprove
  <1>2. CASE \/ \E d \in Drills : \/ \E j \in Jobs : JobSucceeds(d, j) \/ JobFails(d, j)
                                  \/ TargetReady(d) \/ TargetBreaks(d) \/ TargetGone(d) \/ Retag(d)
             \/ Meanwhile
    BY <1>2, RunOutside DEF World
  <1> QED BY <1>1, <1>2 DEF Next, Meanwhile

LEMMA RunsInvariance ==
    ASSUME "cleanup" \notin Commands
    PROVE  Spec => []RunInv
  <1>1. RunInv /\ [Next]_vars => RunInv' BY RunNext
  <1> QED BY <1>1, RunInit, PTL DEF Spec

\* restore_drill_engine.go, Run and save: two invocations, or any number, lose
\* a target only if two of them looked for the state file before either had
\* saved its first state.
THEOREM OnlyRacesLose ==
    ASSUME "cleanup" \notin Commands
    PROVE  Spec => []LostOnlyToRace
  <1>1. RunInv => LostOnlyToRace
    <2> SUFFICES ASSUME RunInv, ~raced, NEW d \in Drills, target[d] # "absent"
                 PROVE  Recorded(d)
      BY DEF LostOnlyToRace
    <2>1. file # None /\ file.id = d BY DEF RunInv, OneName
    <2>2. file.phase # "cleaned" BY <2>1 DEF RunInv, OnlyRuns, Walked, Working
    <2> QED BY <2>1, <2>2 DEF Recorded
  <1> QED BY <1>1, RunsInvariance, PTL

\* ValidateTarget and runJob: a state file that says validated names a target
\* whose data lies between the markers, whoever started the validate Job and
\* whichever of the invocations saved the file.
THEOREM ValidatedIsTrue ==
    ASSUME "cleanup" \notin Commands
    PROVE  Spec => []ValidatedBoundary
  <1>1. RunInv => ValidatedBoundary
    BY DEF RunInv, AllTruthful, Truthful, Passed, ValidatedBoundary
  <1> QED BY <1>1, RunsInvariance, PTL
-----------------------------------------------------------------------------
(* One operator: run, cleanup, failures, crashes and reruns.               *)

Clean == faults["crash"] = 0 /\ faults["kube"] = 0

Untouched(d) ==
    target[d] = "absent" /\ markers[d] = {} /\ \A j \in Jobs : job[d][j] = "absent"

\* Before the restore time is kept no marker B can have been written, so the
\* time that write-a reads has A before it and B after it.
Beginning(d) ==
    /\ markers[d] \subseteq {"A"} /\ job[d]["write-b"] = "absent"
    /\ job[d]["write-a"] = "complete" => sees[d] = {"A"}

\* What a state stands for, in the file or in memory.
Sound(st) ==
    /\ st.phase \in {"marker-a-written", "restore-window-ready", "marker-b-written",
                     "restore-requested", "target-available", "validated"} => st.time = {"A"}
    /\ st.phase = "cleaned" => target[st.id] = "absent"
    /\ st.phase \in {"source-marker-cleaned", "cleaned"} /\ Clean => markers[st.id] = {}

\* The state in memory is the file's, or one step ahead of it.
InStep(p) ==
    /\ pc[p] = "save-new" => file = None /\ mem[p].phase = "initialized"
    /\ pc[p] \in {"approve", "ready", "job", "restore", "purge"} => file = mem[p]
    /\ pc[p] \in {"save", "fail"} =>
         file # None /\ Mine(p) = file.id /\ (mem[p].phase = "initialized" => file = mem[p])
    /\ pc[p] # "off" => Sound(mem[p])

\* Without a crash or a kubectl failure a Job lives as long as the wait for
\* it, and what the cleanup Job emptied stays empty.
NoStray ==
    Clean =>
      /\ \A d \in Drills, j \in Jobs :
           job[d][j] # "absent" =>
             \E p \in Procs : pc[p] = "job" /\ Mine(p) = d /\ JobOf[mem[p].phase] = j
      /\ \A p \in Procs : pc[p] = "purge" => markers[Mine(p)] = {}
      /\ \A p \in Procs :
           pc[p] = "job" /\ job[Mine(p)]["cleanup"] = "complete" => markers[Mine(p)] = {}

OpInv ==
    /\ Base /\ faults \in [FaultKinds -> Nat]
    /\ \A d \in Drills : file = None \/ file.id # d => Untouched(d)
    /\ \A p \in Procs : InStep(p)
    /\ file # None => Sound(file) /\ (file.phase = "initialized" => Beginning(file.id))
    /\ RestoreBoundary /\ NoStray

LEMMA FaultCounts ==
    ASSUME faults \in [FaultKinds -> Nat], NEW f \in FaultKinds, Fault(f)
    PROVE  /\ faults' \in [FaultKinds -> Nat] /\ (Clean' => Clean)
           /\ f \in {"crash", "kube"} => ~Clean'
  <1>1. faults' = [faults EXCEPT ![f] = faults[f] + 1] BY DEF Fault
  <1>2. \A g \in FaultKinds : faults'[g] \in Nat /\ faults'[g] >= faults[g] BY <1>1
  <1>3. faults'[f] > 0 BY <1>1
  <1>4. "crash" \in FaultKinds /\ "kube" \in FaultKinds BY DEF FaultKinds
  <1>5. faults' \in [FaultKinds -> Nat] BY <1>1
  <1>6. Clean' => Clean BY <1>2, <1>4 DEF Clean
  <1>7. f \in {"crash", "kube"} => ~Clean' BY <1>3, <1>4 DEF Clean
  <1> QED BY <1>5, <1>6, <1>7

\* Nothing but faults is counted, or nothing is.
Counted == faults' \in [FaultKinds -> Nat] /\ (Clean' => Clean)

LEMMA SameFaults ==
    ASSUME OpInv, UNCHANGED faults \/ (\E f \in FaultKinds : Fault(f))
    PROVE  Counted
  <1>1. CASE UNCHANGED faults BY <1>1 DEF Counted, Clean, OpInv
  <1>2. CASE \E f \in FaultKinds : Fault(f) BY <1>2, FaultCounts DEF Counted, OpInv
  <1> QED BY <1>1, <1>2

\* A step of the invocation that does not touch the databases and leaves it
\* waiting for no Job.
LEMMA OpMoves ==
    ASSUME OpInv, Base', Counted, NEW p \in Procs, \A q \in Procs : q = p,
           UNCHANGED <<markers, sees, target, holds>>,
           \A d \in Drills, j \in Jobs : job'[d][j] \in {job[d][j], "absent"},
           Clean' => \A d \in Drills, j \in Jobs : job'[d][j] = "absent",
           pc'[p] # "job", pc'[p] = "purge" /\ Clean' => markers[mem'[p].id] = {},
           file # None => file' # None /\ file'.id = file.id,
           InStep(p)',
           file' # None => Sound(file)',
           file' # None /\ file'.phase = "initialized" => Beginning(file'.id)
    PROVE  OpInv'
  <1>1. \A d \in Drills : file' = None \/ file'.id # d => Untouched(d)'
    BY DEF OpInv, Untouched
  <1>2. \A q \in Procs : InStep(q)' OBVIOUS
  <1>3. file' # None => file'.id \in Drills BY DEF Base, Typed, States
  <1>4. file' # None /\ file'.phase = "initialized" => Beginning(file.id)'
    BY <1>3 DEF Beginning, Jobs
  <1>5. RestoreBoundary' BY DEF OpInv, RestoreBoundary
  <1>6. NoStray'
    <2>1. \A q \in Procs : pc'[q] # "job" /\ (pc'[q] = "purge" /\ Clean' => markers'[Mine(q)'] = {})
      BY DEF Mine
    <2> QED BY <2>1 DEF NoStray, Mine
  <1> QED BY <1>1, <1>2, <1>4, <1>5, <1>6 DEF OpInv, Counted

LEMMA NoJobs ==
    ASSUME OpInv, NEW p \in Procs, \A q \in Procs : q = p, Clean
    PROVE  \A d \in Drills, j \in Jobs :
             job[d][j] # "absent" => pc[p] = "job" /\ Mine(p) = d /\ JobOf[mem[p].phase] = j
  BY DEF OpInv, NoStray

\* The state of the invocation stands for what it stood for.
LEMMA StillSound ==
    ASSUME Counted, UNCHANGED <<markers, target>>, NEW st
    PROVE  Sound(st) => /\ st.phase \in {"marker-a-written", "restore-window-ready",
                              "marker-b-written", "restore-requested", "target-available",
                              "validated"} => st.time = {"A"}
                        /\ st.phase = "cleaned" => target'[st.id] = "absent"
                        /\ st.phase \in {"source-marker-cleaned", "cleaned"} /\ Clean' =>
                              markers'[st.id] = {}
  BY DEF Sound, Counted

LEMMA OpGoes ==
    ASSUME OpInv, NEW p \in Procs, \A q \in Procs : q = p, Goes(p), ~StartJob(p)
    PROVE  OpInv'
  <1> USE DEF procVars, jobVars, rdsVars, restVars
  <1>1. /\ Base' /\ UNCHANGED <<cmd, mem, markers, sees, target, holds>>
        /\ pc'[p] \in {"off", "ready", "job", "restore", "fail"}
        /\ pc'[p] = "ready" => pc[p] = "save"
        /\ pc'[p] \in {"job", "restore"} => pc[p] = "ready"
        /\ file' \in {file, mem[p]} /\ (file' # file => pc[p] \in {"save", "fail"})
        /\ pc'[p] = "ready" => file' = mem[p]
    BY GoesBase DEF OpInv
  <1>2. {"crash", "disk", "kube", "timeout", "refuse"} \subseteq FaultKinds BY DEF FaultKinds
  <1>3. Counted
    <2>1. UNCHANGED faults \/ \E f \in FaultKinds : Fault(f)
      BY <1>2 DEF Goes, StartJob, NothingToValidate, JobLost, DecideRestore, RestoreConflict,
           StepFails, Save, SaveFails, Fail, Refuse, Crash
    <2> QED BY <2>1, SameFaults
  <1>4. Goes(p) /\ ~StartJob(p) => pc'[p] # "job" /\ (pc'[p] = "fail" => pc[p] \notin {"off", "save-new", "approve", "fail"})
                     /\ (pc'[p] = "restore" => file' = file)
    BY DEF Goes, StartJob, NothingToValidate, JobLost, DecideRestore, RestoreConflict,
           StepFails, Save, SaveFails, Fail, Refuse, Crash, Goto, OpInv, Base, Typed, At
  <1>5. /\ \A d \in Drills, j \in Jobs : job'[d][j] \in {job[d][j], "absent"}
        /\ Clean' => \A d \in Drills, j \in Jobs : job'[d][j] = "absent"
    <2>1. CASE JobLost(p)
      <3>1. /\ JobOf[mem[p].phase] \in Jobs /\ Mine(p) \in Drills
            /\ job \in [Drills -> [Jobs -> JobStates]]
        BY <2>1, MemFacts DEF OpInv, Base, Typed, Placed, JobLost
      <3>2. CASE job' = [job EXCEPT ![Mine(p)][JobOf[mem[p].phase]] = "absent"]
        <4>1. /\ job'[Mine(p)][JobOf[mem[p].phase]] = "absent"
              /\ \A d \in Drills, j \in Jobs :
                   d # Mine(p) \/ j # JobOf[mem[p].phase] => job'[d][j] = job[d][j]
          BY <3>1, <3>2
        <4> QED BY <1>3, <4>1, NoJobs DEF Counted
      <3>3. CASE Fault("kube") /\ UNCHANGED job
        BY <1>2, <3>3, FaultCounts DEF OpInv
      <3> QED BY <2>1, <3>2, <3>3 DEF JobLost
    <2>2. CASE Crash(p)
      <3>1. UNCHANGED job /\ Fault("crash") BY <2>2 DEF Crash
      <3> QED BY <1>2, <3>1, FaultCounts DEF OpInv
    <2>3. CASE ~JobLost(p) /\ ~Crash(p)
      <3>1. UNCHANGED job /\ pc[p] # "job"
        BY <2>3 DEF Goes, NothingToValidate, DecideRestore, RestoreConflict,
           StepFails, Save, SaveFails, Fail, Refuse, At
      <3> QED BY <1>3, <3>1, NoJobs DEF Counted
    <2> QED BY <2>1, <2>2, <2>3
  <1>6. InStep(p) /\ mem[p] \in States /\ None \notin States BY MemFacts, NoneFacts DEF OpInv
  <1>7. pc[p] # "off" BY GoesBase DEF OpInv
  <1>8. file # None => file' # None /\ file'.id = file.id BY <1>1, <1>6 DEF InStep, Mine
  <1>9. Sound(mem[p])' BY <1>1, <1>3, <1>6, <1>7, StillSound DEF InStep, Sound
  <1>10. InStep(p)'
    <2>1. CASE pc'[p] = "off" BY <2>1 DEF InStep
    <2>2. CASE pc'[p] = "ready" BY <1>1, <1>9, <2>2 DEF InStep
    <2>3. CASE pc'[p] = "restore" BY <1>1, <1>4, <1>6, <1>9, <2>3 DEF InStep
    <2>4. CASE pc'[p] = "fail"
      <3>1. file # None /\ Mine(p) = file.id /\ (mem[p].phase = "initialized" => file = mem[p])
        BY <1>4, <1>6, <2>4 DEF InStep, Points, OpInv, Base, Typed, Mine
      <3> QED BY <1>1, <1>6, <1>9, <2>4, <3>1 DEF InStep, Mine
    <2> QED BY <1>1, <1>4, <2>1, <2>2, <2>3, <2>4
  <1>11. file' # None => Sound(file)'
    <2>1. CASE file' = file
      <3>1. file # None => Sound(file) BY DEF OpInv
      <3> QED BY <1>1, <1>3, <2>1, <3>1, StillSound DEF Sound
    <2>2. CASE file' = mem[p] BY <1>1, <1>9, <2>2 DEF Sound
    <2> QED BY <1>1, <2>1, <2>2
  <1>12. file' # None /\ file'.phase = "initialized" => Beginning(file'.id)
    BY <1>1, <1>6 DEF InStep, OpInv
  <1> QED BY <1>1, <1>3, <1>4, <1>5, <1>8, <1>10, <1>11, <1>12, OpMoves

LEMMA OpStartsJob ==
    ASSUME OpInv, NEW p \in Procs, \A q \in Procs : q = p, StartJob(p)
    PROVE  OpInv'
  <1> USE DEF procVars, jobVars, rdsVars, restVars
  <1> PICK j : j = JobOf[mem[p].phase] OBVIOUS
  <1> PICK e : e = Mine(p) OBVIOUS
  <1>1. /\ Base' /\ pc[p] = "ready" /\ mem[p].phase \in DOMAIN JobOf /\ pc'[p] = "job"
        /\ job' = [job EXCEPT ![e][j] = "running"]
        /\ UNCHANGED <<file, cmd, mem, markers, sees, target, holds, faults>>
    BY GoesBase, GotoIs DEF OpInv, Goes, StartJob, Points
  <1>2. j \in Jobs /\ e \in Drills /\ job \in [Drills -> [Jobs -> JobStates]]
    BY <1>1, MemFacts DEF OpInv, Base, Typed
  <1>3. /\ job'[e][j] = "running"
        /\ \A d \in Drills, k \in Jobs : d # e \/ k # j => job'[d][k] = job[d][k]
    BY <1>1, <1>2
  <1>4. InStep(p) /\ file = mem[p] /\ file # None /\ e = file.id
    BY <1>1, MemFacts, NoneFacts DEF OpInv, InStep, Mine
  <1>5. \A d \in Drills : file' = None \/ file'.id # d => Untouched(d)'
    BY <1>1, <1>3, <1>4 DEF OpInv, Untouched
  <1>6. Sound(mem[p]) BY <1>1, <1>4 DEF InStep
  <1>7. \A q \in Procs : InStep(q)'
    BY <1>1, <1>4, <1>6 DEF InStep, Sound, Clean
  <1>8. Sound(file)' BY <1>1, <1>4, <1>6 DEF Sound, Clean
  <1>9. file'.phase = "initialized" => Beginning(file.id)'
    <2> SUFFICES ASSUME file.phase = "initialized" PROVE Beginning(file.id)'
      BY <1>1
    <2>1. j = "write-a" /\ Beginning(file.id) BY <1>4, JobOfFacts DEF OpInv
    <2> QED BY <1>1, <1>2, <1>3, <1>4, <2>1 DEF Beginning, Jobs
  <1>10. NoStray'
    <2> SUFFICES ASSUME Clean' PROVE /\ \A d \in Drills, k \in Jobs : job'[d][k] # "absent" =>
                                          d = e /\ k = j
                                     /\ job'[e]["cleanup"] # "complete"
      BY <1>1 DEF NoStray, Mine
    <2>1. \A d \in Drills, k \in Jobs : job[d][k] = "absent"
      BY <1>1, NoJobs DEF Clean
    <2> QED BY <1>2, <1>3, <2>1 DEF Jobs
  <1>11. RestoreBoundary' /\ faults' \in [FaultKinds -> Nat] BY <1>1 DEF OpInv, RestoreBoundary
  <1> QED BY <1>1, <1>5, <1>7, <1>8, <1>9, <1>10, <1>11 DEF OpInv

LEMMA OpWorks ==
    ASSUME OpInv, NEW p \in Procs, \A q \in Procs : q = p, NEW ph, Works(p, ph)
    PROVE  OpInv'
  <1>1. /\ Base' /\ pc[p] = "ready" /\ mem[p].phase = ph /\ pc'[p] = "save"
        /\ mem'[p].id = Mine(p) /\ mem'[p].time = mem[p].time /\ mem'[p].phase = NextPhase(ph)
        /\ UNCHANGED <<cmd, file, markers, job, sees, holds, faults>>
        /\ ph # "cleanup-pending" => UNCHANGED target
    BY WorksBase DEF OpInv
  <1>2. InStep(p) /\ file = mem[p] /\ file # None /\ Mine(p) = file.id /\ Sound(mem[p])
        /\ Mine(p) \in Drills
    BY <1>1, MemFacts, NoneFacts DEF OpInv, InStep, Mine
  <1>3. /\ \A d \in Drills : target'[d] # "absent" => target[d] # "absent"
        /\ \A d \in Drills \ {Mine(p)} : target'[d] = target[d]
    <2>1. CASE ph = "cleanup-pending"
      <3>1. target' = [target EXCEPT ![Mine(p)] = IF @ = "absent" THEN "absent" ELSE "deleting"]
        BY <2>1 DEF Works, DeleteTarget
      <3> QED BY <1>2, <3>1 DEF OpInv, Base, Typed
    <2>2. CASE ph # "cleanup-pending" BY <1>1, <2>2
    <2> QED BY <2>1, <2>2
  <1>4. ph = "source-marker-cleaned" => target[Mine(p)] = "absent"
    BY DEF Works, VerifyClean, FoundClean, Status
  <1>5. Sound(mem[p])'
    <2>1. /\ ph \in {"marker-a-written", "marker-b-written", "restore-requested", "validated",
                     "cleanup-pending", "target-delete-requested", "source-marker-cleaned"}
      BY DEF Works
    <2>2. (Clean' <=> Clean) /\ mem'[p].id = mem[p].id BY <1>1 DEF Clean, Mine
    <2> QED BY <1>1, <1>2, <1>3, <1>4, <2>1, <2>2, NextFacts DEF Sound, Mine
  <1>6. InStep(p)'
    <2>1. mem'[p].phase # "initialized" BY <1>1, NextFacts DEF Works
    <2> QED BY <1>1, <1>2, <1>5, <2>1 DEF InStep, Mine
  <1>7. Sound(file)'
    <2>1. file.phase # "cleaned" BY <1>1, <1>2 DEF Works
    <2> QED BY <1>1, <1>2, <2>1 DEF Sound, Clean
  <1>8. \A d \in Drills : file' = None \/ file'.id # d => Untouched(d)'
    BY <1>1, <1>2, <1>3 DEF OpInv, Untouched
  <1>9. file'.phase = "initialized" => Beginning(file.id)'
    BY <1>1, <1>2 DEF OpInv, Beginning
  <1>10. RestoreBoundary' /\ faults' \in [FaultKinds -> Nat]
    BY <1>1, <1>3 DEF OpInv, RestoreBoundary
  <1>11. NoStray'
    <2>1. Clean' => \A d \in Drills, j \in Jobs : job'[d][j] = "absent"
      BY <1>1, NoJobs DEF Clean
    <2> QED BY <1>1, <2>1 DEF NoStray
  <1> QED BY <1>1, <1>6, <1>7, <1>8, <1>9, <1>10, <1>11 DEF OpInv

LEMMA OpJobDone ==
    ASSUME OpInv, NEW p \in Procs, \A q \in Procs : q = p, JobDone(p)
    PROVE  OpInv'
  <1> PICK j : j = JobOf[mem[p].phase] OBVIOUS
  <1> PICK e : e = Mine(p) OBVIOUS
  <1>1. /\ Base' /\ pc[p] = "job" /\ mem[p].phase \in DOMAIN JobOf
        /\ job[e][j] = "complete" /\ job' = [job EXCEPT ![e][j] = "absent"]
        /\ mem[p].phase = "target-deleted" => pc'[p] = "purge" /\ mem'[p] = mem[p]
        /\ mem[p].phase # "target-deleted" =>
             /\ pc'[p] = "save" /\ mem'[p].id = e /\ mem'[p].phase = NextPhase(mem[p].phase)
             /\ mem'[p].time = IF mem[p].phase = "initialized" THEN sees[e] ELSE mem[p].time
        /\ UNCHANGED <<cmd, file, markers, sees, target, holds, faults>>
    BY JobDoneBase DEF OpInv
  <1>2. InStep(p) /\ file = mem[p] /\ file # None /\ e = file.id /\ Sound(mem[p]) /\ e \in Drills
    BY <1>1, MemFacts, NoneFacts DEF OpInv, InStep, Mine
  <1>3. j \in Jobs /\ job \in [Drills -> [Jobs -> JobStates]]
    BY <1>1, MemFacts DEF OpInv, Base, Typed
  <1>4. /\ job'[e][j] = "absent"
        /\ \A d \in Drills, k \in Jobs : d # e \/ k # j => job'[d][k] = job[d][k]
    BY <1>1, <1>2, <1>3
  <1>5. Counted BY <1>1, SameFaults
  <1>6. Clean' => \A d \in Drills, k \in Jobs : job'[d][k] = "absent"
    BY <1>1, <1>4, NoJobs DEF Clean
  <1>7. mem[p].phase = "initialized" => sees[e] = {"A"}
    BY <1>1, <1>2, JobOfFacts DEF OpInv, Beginning
  <1>8. mem[p].phase = "target-deleted" /\ Clean => markers[e] = {}
    BY <1>1, JobOfFacts DEF OpInv, NoStray
  <1>9. Sound(mem[p])'
    BY <1>1, <1>2, <1>7, JobOfFacts, NextFacts DEF Sound, Clean
  <1>10. InStep(p)'
    <2>1. CASE mem[p].phase = "target-deleted" BY <1>1, <1>2, <1>9, <2>1 DEF InStep
    <2>2. CASE mem[p].phase # "target-deleted"
      <3>1. mem'[p].phase # "initialized" BY <1>1, <2>2, JobOfFacts, NextFacts
      <3> QED BY <1>1, <1>2, <1>9, <2>2, <3>1 DEF InStep, Mine
    <2> QED BY <2>1, <2>2
  <1>11. Sound(file)' BY <1>1, <1>2 DEF Sound, Clean
  <1>12. file'.phase = "initialized" => Beginning(file'.id) BY <1>1, <1>2 DEF OpInv
  <1>13. pc'[p] # "job" /\ (pc'[p] = "purge" /\ Clean' => markers[mem'[p].id] = {})
    BY <1>1, <1>2, <1>5, <1>8 DEF Counted
  <1> QED BY <1>1, <1>2, <1>4, <1>5, <1>6, <1>10, <1>11, <1>12, <1>13, OpMoves

LEMMA OpPurge ==
    ASSUME OpInv, NEW p \in Procs, \A q \in Procs : q = p, PurgeJobs(p)
    PROVE  OpInv'
  <1>1. /\ Base' /\ pc[p] = "purge" /\ mem[p].phase = "target-deleted"
        /\ \/ /\ pc'[p] = "save" /\ mem'[p].id = Mine(p)
              /\ mem'[p].phase = "source-marker-cleaned" /\ UNCHANGED faults
              /\ job' = [job EXCEPT ![Mine(p)] = [j \in Jobs |-> "absent"]]
           \/ pc'[p] = "fail" /\ Fault("kube") /\ mem'[p] = mem[p] /\ UNCHANGED job
        /\ UNCHANGED <<cmd, file, markers, sees, target, holds>>
    BY PurgeBase DEF OpInv
  <1>2. InStep(p) /\ file = mem[p] /\ file # None /\ Mine(p) = file.id /\ Sound(mem[p])
        /\ Mine(p) \in Drills
    BY <1>1, MemFacts, NoneFacts DEF OpInv, InStep, Mine
  <1>3. Counted BY <1>1, SameFaults DEF FaultKinds
  <1>4. \A d \in Drills, k \in Jobs : job'[d][k] \in {job[d][k], "absent"}
    BY <1>1, <1>2 DEF OpInv, Base, Typed
  <1>5. Clean' => \A d \in Drills, k \in Jobs : job'[d][k] = "absent"
    BY <1>1, <1>3, <1>4, NoJobs DEF Counted
  <1>6. Clean' => markers[Mine(p)] = {} BY <1>1, <1>3 DEF OpInv, NoStray, Counted
  <1>7. Sound(mem[p])' BY <1>1, <1>2, <1>6 DEF Sound, Mine
  <1>8. InStep(p)' BY <1>1, <1>2, <1>7 DEF InStep, Mine
  <1>9. Sound(file)' BY <1>1, <1>2 DEF Sound
  <1>10. file'.phase # "initialized" BY <1>1, <1>2
  <1> QED BY <1>1, <1>2, <1>3, <1>4, <1>5, <1>8, <1>9, <1>10, OpMoves

LEMMA OpRestore ==
    ASSUME OpInv, NEW p \in Procs, \A q \in Procs : q = p, RestoreCall(p)
    PROVE  OpInv'
  <1>1. /\ Base' /\ pc[p] = "restore" /\ mem[p].phase = "marker-b-written"
        /\ target' = [target EXCEPT ![Mine(p)] = "creating"]
        /\ holds' = [holds EXCEPT ![Mine(p)] = mem[p].time]
        /\ \/ /\ pc'[p] = "save" /\ mem'[p].id = Mine(p) /\ mem'[p].time = mem[p].time
              /\ mem'[p].phase = "restore-requested" /\ UNCHANGED faults
           \/ pc'[p] = "fail" /\ mem'[p] = mem[p] /\ Fault("aws")
        /\ UNCHANGED <<cmd, file, markers, job, sees>>
    BY RestoreBase DEF OpInv
  <1>2. InStep(p) /\ file = mem[p] /\ file # None /\ Mine(p) = file.id /\ Sound(mem[p])
        /\ Mine(p) \in Drills
    BY <1>1, MemFacts, NoneFacts DEF OpInv, InStep, Mine
  <1>3. Counted BY <1>1, SameFaults DEF FaultKinds
  <1>4. mem[p].time = {"A"} BY <1>1, <1>2 DEF Sound
  <1>5. /\ \A d \in Drills \ {Mine(p)} : target'[d] = target[d] /\ holds'[d] = holds[d]
        /\ holds'[Mine(p)] = {"A"}
    BY <1>1, <1>2, <1>4 DEF OpInv, Base, Typed
  <1>6. RestoreBoundary' BY <1>5 DEF OpInv, RestoreBoundary
  <1>7. Sound(mem[p])' BY <1>1, <1>4 DEF Sound
  <1>8. \A q \in Procs : InStep(q)' BY <1>1, <1>2, <1>7 DEF InStep, Mine
  <1>9. Sound(file)' BY <1>1, <1>2, <1>4 DEF Sound
  <1>10. file'.phase # "initialized" BY <1>1, <1>2
  <1>11. \A d \in Drills : file' = None \/ file'.id # d => Untouched(d)'
    BY <1>1, <1>2, <1>5 DEF OpInv, Untouched
  <1>12. NoStray'
    <2>1. Clean' => \A d \in Drills, j \in Jobs : job'[d][j] = "absent"
      BY <1>1, <1>3, NoJobs DEF Counted
    <2> QED BY <1>1, <2>1 DEF NoStray
  <1> QED BY <1>1, <1>3, <1>6, <1>8, <1>9, <1>10, <1>11, <1>12 DEF OpInv, Counted

LEMMA OpStarts ==
    ASSUME OpInv, NEW p \in Procs, \A q \in Procs : q = p,
           RunFirst(p) \/ RunResume(p) \/ CleanupStart(p)
    PROVE  OpInv'
  <1>1. /\ Base' /\ pc[p] = "off" /\ UNCHANGED <<file, markers, job, sees, target, holds, faults>>
        /\ \/ /\ pc'[p] = "save-new" /\ file = None /\ \E d \in Drills : mem'[p] = Fresh(d)
           \/ pc'[p] \in {"approve", "ready"} /\ file \in States /\ mem'[p] = file
    <2>1. CASE RunFirst(p) BY <2>1, RunFirstBase DEF OpInv
    <2>2. CASE RunResume(p) \/ CleanupStart(p) BY <2>2, ResumeBase DEF OpInv
    <2> QED BY <2>1, <2>2
  <1>2. Counted BY <1>1, SameFaults
  <1>3. Clean' => \A d \in Drills, j \in Jobs : job'[d][j] = "absent"
    BY <1>1, <1>2, NoJobs DEF Counted
  <1>4. file # None => Sound(file)'
    <2>1. file # None => Sound(file) BY DEF OpInv
    <2> QED BY <1>1, <2>1 DEF Sound, Clean
  <1>5. InStep(p)'
    <2>1. CASE pc'[p] = "save-new"
      <3>1. mem'[p].phase = "initialized" /\ file' = None BY <1>1, <2>1, FreshTyped
      <3> QED BY <2>1, <3>1 DEF InStep, Sound
    <2>2. CASE pc'[p] \in {"approve", "ready"}
      <3>1. file # None /\ mem'[p] = file BY <1>1, <2>2, NoneFacts
      <3> QED BY <1>1, <1>4, <2>2, <3>1 DEF InStep, Sound
    <2> QED BY <1>1, <2>1, <2>2
  <1>6. file' # None /\ file'.phase = "initialized" => Beginning(file'.id) BY <1>1 DEF OpInv
  <1> QED BY <1>1, <1>2, <1>3, <1>4, <1>5, <1>6, OpMoves

LEMMA OpSavesNew ==
    ASSUME OpInv, NEW p \in Procs, \A q \in Procs : q = p, SaveNew(p)
    PROVE  OpInv'
  <1>1. /\ Base' /\ pc[p] = "save-new" /\ mem'[p] = mem[p]
        /\ \/ file' = mem[p] /\ pc'[p] = "approve" /\ UNCHANGED faults
           \/ file' = file /\ pc'[p] = "off" /\ Fault("disk")
        /\ UNCHANGED <<cmd, mem, markers, job, sees, target, holds>>
    BY SaveNewBase DEF OpInv
  <1>2. Counted BY <1>1, SameFaults DEF FaultKinds
  <1>3. Clean' => \A d \in Drills, j \in Jobs : job'[d][j] = "absent"
    BY <1>1, <1>2, NoJobs DEF Counted
  <1>4. file = None /\ mem[p].phase = "initialized" /\ mem[p] # None /\ mem[p].id \in Drills
    BY <1>1, MemFacts, NoneFacts DEF OpInv, InStep, Mine
  <1>5. \A d \in Drills : Untouched(d) BY <1>4 DEF OpInv
  <1>6. Beginning(mem[p].id) BY <1>4, <1>5 DEF Untouched, Beginning, Jobs
  <1>7. Sound(mem[p])' BY <1>1, <1>4 DEF Sound
  <1>8. InStep(p)' BY <1>1, <1>7 DEF InStep
  <1>9. file' # None => file' = mem'[p] BY <1>1, <1>4
  <1>10. file' # None => Sound(file)' BY <1>4, <1>7, <1>9 DEF Sound
  <1> QED BY <1>1, <1>2, <1>3, <1>4, <1>6, <1>8, <1>9, <1>10, OpMoves

LEMMA OpApprove ==
    ASSUME OpInv, NEW p \in Procs, \A q \in Procs : q = p, Approve(p)
    PROVE  OpInv'
  <1>1. /\ Base' /\ pc[p] = "approve"
        /\ \/ /\ mem'[p].id = Mine(p) /\ mem'[p].phase = "cleanup-pending"
              /\ \/ file' = mem'[p] /\ pc'[p] = "ready" /\ UNCHANGED faults
                 \/ file' = file /\ pc'[p] = "off" /\ Fault("disk")
           \/ mem'[p] = mem[p] /\ file' = file /\ pc'[p] = "ready" /\ UNCHANGED faults
        /\ UNCHANGED <<cmd, markers, job, sees, target, holds>>
    BY ApproveBase DEF OpInv
  <1>2. Counted BY <1>1, SameFaults DEF FaultKinds
  <1>3. Clean' => \A d \in Drills, j \in Jobs : job'[d][j] = "absent"
    BY <1>1, <1>2, NoJobs DEF Counted
  <1>4. InStep(p) /\ file = mem[p] /\ file # None /\ Mine(p) = file.id /\ Sound(mem[p])
    BY <1>1, MemFacts, NoneFacts DEF OpInv, InStep, Mine
  <1>5. mem'[p] \in States /\ None \notin States BY <1>1, NoneFacts DEF Base, Typed
  <1>6. /\ mem'[p].phase = "cleanup-pending" \/ mem'[p] = mem[p]
        /\ file' \in {file, mem'[p]}
    BY <1>1
  <1>7. Sound(mem[p])' BY <1>1, <1>2, <1>4, <1>6 DEF Sound, Counted
  <1>8. Sound(file)'
    <2>1. CASE file' = mem'[p] BY <1>7, <2>1 DEF Sound
    <2>2. CASE file' = file BY <1>1, <1>2, <1>4, <2>2 DEF Sound, Counted
    <2> QED BY <1>6, <2>1, <2>2
  <1>9. InStep(p)' BY <1>1, <1>4, <1>7 DEF InStep
  <1>10. file' # None /\ file'.id = file.id BY <1>1, <1>4, <1>5 DEF Mine
  <1>11. file'.phase = "initialized" => Beginning(file'.id) BY <1>1, <1>4 DEF OpInv
  <1> QED BY <1>1, <1>2, <1>3, <1>8, <1>9, <1>10, <1>11, OpMoves

\* A Job ends: it is the drill's that the file names, and without a fault the
\* invocation is waiting for it.
LEMMA OpJobEnds ==
    ASSUME OpInv, NEW p \in Procs, \A q \in Procs : q = p, NEW d \in Drills, NEW j \in Jobs,
           JobSucceeds(d, j) \/ JobFails(d, j)
    PROVE  OpInv'
  <1>1. /\ Base' /\ UNCHANGED <<file, pc, cmd, mem, target, holds>> /\ job[d][j] = "running"
        /\ Effect(d, j) \/ UNCHANGED <<markers, sees>>
        /\ \/ job' = [job EXCEPT ![d][j] = "complete"] /\ Effect(d, j) /\ UNCHANGED faults
           \/ job' = [job EXCEPT ![d][j] = "failed"] /\ (Fault("job") \/ UNCHANGED faults)
    BY JobEndsBase DEF OpInv
  <1>2. Counted BY <1>1, SameFaults DEF FaultKinds
  <1>3. file # None /\ file.id = d BY <1>1 DEF OpInv, Untouched
  <1>4. /\ \A e \in Drills \ {d} : markers'[e] = markers[e] /\ sees'[e] = sees[e]
        /\ markers'[d] \in {markers[d], markers[d] \cup {"A"}, markers[d] \cup {"B"}, {}}
        /\ j = "write-a" /\ Effect(d, j) => sees'[d] = markers[d] \cup {"A"}
        /\ j # "write-a" => sees'[d] = sees[d]
        /\ j # "write-b" => markers'[d] \subseteq markers[d] \cup {"A"}
        /\ j = "cleanup" /\ Effect(d, j) => markers'[d] = {}
    <2>1. CASE Effect(d, j) BY <2>1, EffectIs DEF OpInv, Jobs
    <2>2. CASE UNCHANGED <<markers, sees>> /\ ~Effect(d, j) BY <2>2
    <2> QED BY <1>1, <2>1, <2>2
  <1>5. /\ \A e \in Drills, k \in Jobs : e # d \/ k # j => job'[e][k] = job[e][k]
        /\ job'[d][j] \in {"complete", "failed"}
        /\ job'[d][j] = "complete" => Effect(d, j)
    BY <1>1 DEF OpInv, Base, Typed
  <1>6. Clean' => /\ pc[p] = "job" /\ Mine(p) = d /\ JobOf[mem[p].phase] = j
                  /\ mem[p].phase \in DOMAIN JobOf /\ file = mem[p]
    BY <1>1, <1>2, NoJobs DEF OpInv, Counted, InStep, Base, Placed
  <1>7. Clean' => mem[p].phase \notin {"source-marker-cleaned", "cleaned"} /\ file = mem[p]
    BY <1>6, JobOfFacts
  <1>8. \A q \in Procs : InStep(q)'
    <2>1. InStep(p) BY DEF OpInv
    <2>2. pc[p] # "off" => Sound(mem[p])' BY <1>1, <1>7, <2>1 DEF InStep, Sound
    <2> QED BY <1>1, <2>1, <2>2 DEF InStep, Mine
  <1>9. Sound(file)' BY <1>1, <1>3, <1>7 DEF OpInv, Sound
  <1>10. \A e \in Drills : file' = None \/ file'.id # e => Untouched(e)'
    BY <1>1, <1>3, <1>4, <1>5 DEF OpInv, Untouched
  <1>11. file'.phase = "initialized" => Beginning(file.id)'
    <2> SUFFICES ASSUME file.phase = "initialized" PROVE Beginning(file.id)'
      BY <1>1
    <2>1. Beginning(d) BY <1>3 DEF OpInv
    <2>2. j # "write-b" /\ markers[d] \cup {"A"} = {"A"} BY <1>1, <2>1 DEF Beginning
    <2>3. markers'[d] \subseteq {"A"} BY <1>4, <2>2
    <2>4. job'[d]["write-b"] = "absent" BY <1>5, <2>1, <2>2 DEF Beginning, Jobs
    <2>5. job'[d]["write-a"] = "complete" => sees'[d] = {"A"}
      BY <1>4, <1>5, <2>1, <2>2 DEF Beginning, Jobs
    <2> QED BY <1>1, <1>3, <2>3, <2>4, <2>5 DEF Beginning
  <1>12. NoStray'
    <2> SUFFICES ASSUME Clean' PROVE NoStray'
      BY DEF NoStray
    <2>1. \A e \in Drills, k \in Jobs : job'[e][k] # "absent" => e = d /\ k = j
      BY <1>2, <1>5, <1>6, NoJobs DEF Counted
    <2>2. \A q \in Procs : pc'[q] = "job" /\ Mine(q)' = d /\ JobOf[mem'[q].phase] = j
      BY <1>1, <1>6 DEF Mine
    <2>3. job'[d]["cleanup"] = "complete" => markers'[d] = {}
      BY <1>4, <1>5, <2>1 DEF Jobs
    <2> QED BY <2>1, <2>2, <2>3 DEF NoStray
  <1>13. RestoreBoundary' BY <1>1 DEF OpInv, RestoreBoundary
  <1> QED BY <1>1, <1>2, <1>8, <1>9, <1>10, <1>11, <1>12, <1>13 DEF OpInv, Counted

\* RDS and the rest of the account.
LEMMA OpWorld ==
    ASSUME OpInv, (\E d \in Drills : World(d)) \/ Meanwhile
    PROVE  OpInv'
  <1> USE DEF procVars, jobVars, rdsVars, restVars
  <1>1. /\ UNCHANGED <<file, pc, cmd, mem, markers, job, sees>> /\ Base'
        /\ \A e \in Drills : target'[e] # "absent" => target[e] # "absent" /\ holds'[e] = holds[e]
    <2>1. CASE \E d \in Drills : World(d)
      <3>1. PICK d \in Drills : World(d) BY <2>1
      <3>2. /\ Base' /\ UNCHANGED <<file, pc, cmd, mem, markers, job, sees>>
            /\ \/ UNCHANGED <<target, holds>>
               \/ /\ target[d] = "creating" /\ UNCHANGED holds
                  /\ \E x \in {"available", "broken"} : target' = [target EXCEPT ![d] = x]
               \/ /\ target[d] = "deleting" /\ target' = [target EXCEPT ![d] = "absent"]
                  /\ holds' = [holds EXCEPT ![d] = {}]
        BY <3>1, WorldBase DEF OpInv
      <3> QED BY <3>2 DEF OpInv, Base, Typed
    <2>2. CASE Meanwhile
      <3>1. UNCHANGED <<file, pc, cmd, mem, markers, job, sees, target, holds>>
        BY <2>2 DEF Meanwhile, OtherDrill, Drifts, vars
      <3> QED BY <3>1, StillBase DEF OpInv
    <2> QED BY <2>1, <2>2
  <1>2. UNCHANGED faults \/ \E f \in FaultKinds : Fault(f)
    BY DEF World, TargetReady, TargetBreaks, TargetGone, Retag, Meanwhile, OtherDrill, Drifts, vars, FaultKinds
  <1>3. Counted BY <1>2, SameFaults
  <1>4. target \in [Drills -> {"absent", "creating", "available", "broken", "deleting"}]
        /\ target' \in [Drills -> {"absent", "creating", "available", "broken", "deleting"}]
    BY <1>1 DEF OpInv, Base, Typed
  <1>5. \A st \in States : Sound(st) => /\ st.phase = "cleaned" => target'[st.id] = "absent"
                                        /\ st.phase \in {"source-marker-cleaned", "cleaned"}
                                             /\ Clean' => markers[st.id] = {}
    BY <1>1, <1>3 DEF Sound, States, Counted
  <1>6. \A q \in Procs : InStep(q)'
    <2>1. \A q \in Procs : mem[q] \in States /\ InStep(q) BY MemFacts DEF OpInv
    <2>2. \A q \in Procs : pc[q] # "off" => Sound(mem[q])'
      BY <1>1, <1>5, <2>1 DEF InStep, Sound
    <2> QED BY <1>1, <2>1, <2>2 DEF InStep, Mine
  <1>7. file # None => Sound(file)'
    <2>1. file # None => file \in States /\ Sound(file) BY DEF OpInv, Base, Typed
    <2> QED BY <1>1, <1>5, <2>1 DEF Sound
  <1>8. \A e \in Drills : file' = None \/ file'.id # e => Untouched(e)'
    BY <1>1 DEF OpInv, Untouched
  <1>9. file # None /\ file.phase = "initialized" => Beginning(file.id)'
    BY <1>1 DEF OpInv, Beginning
  <1>10. RestoreBoundary' BY <1>1 DEF OpInv, RestoreBoundary
  <1>11. NoStray' BY <1>1, <1>3 DEF OpInv, NoStray, Counted, Mine
  <1> QED BY <1>1, <1>3, <1>6, <1>7, <1>8, <1>9, <1>10, <1>11 DEF OpInv, Counted

LEMMA OpInit == Init => OpInv
  <1> SUFFICES ASSUME Init PROVE OpInv
    OBVIOUS
  <1>1. \A d \in Drills : Untouched(d) BY DEF Init, Untouched
  <1>2. \A p \in Procs : InStep(p) BY DEF Init, InStep
  <1>3. RestoreBoundary BY DEF Init, RestoreBoundary
  <1>4. NoStray BY DEF Init, NoStray
  <1>5. faults \in [FaultKinds -> Nat] /\ file = None BY DEF Init
  <1> QED BY BaseInit, <1>1, <1>2, <1>3, <1>4, <1>5 DEF OpInv

LEMMA OpNext ==
    ASSUME NEW o, Procs = {o}, OpInv, [Next]_vars
    PROVE  OpInv'
  <1> o \in Procs /\ \A q \in Procs : q = o OBVIOUS
  <1>1. CASE \E p \in Procs : \/ RunFirst(p) \/ RunResume(p) \/ CleanupStart(p)
                              \/ Step(p) \/ Refuse(p) \/ Crash(p)
    <2>1. \/ RunFirst(o) \/ RunResume(o) \/ CleanupStart(o) \/ Step(o) \/ Refuse(o) \/ Crash(o)
      BY <1>1
    <2> QED BY <2>1, ProcSteps, OpGoes, OpStartsJob, OpWorks, OpJobDone, OpPurge,
              OpRestore, OpStarts, OpSavesNew, OpApprove
  <1>2. CASE \E d \in Drills, j \in Jobs : JobSucceeds(d, j) \/ JobFails(d, j)
    BY <1>2, OpJobEnds
  <1>3. CASE (\E d \in Drills : World(d)) \/ Meanwhile
    BY <1>3, OpWorld
  <1> QED BY <1>1, <1>2, <1>3 DEF Next, World, Meanwhile

LEMMA OpInvariance ==
    ASSUME NEW CONSTANT o, Procs = {o}
    PROVE  Spec => []OpInv
  <1>1. OpInv /\ [Next]_vars => OpInv' BY OpNext
  <1> QED BY <1>1, OpInit, PTL DEF Spec

\* restore_drill_engine.go, Run, and runJob: the target holds marker A and not
\* B, however often the operator's invocations crash, fail, lose the answer of
\* RestoreRDSPointInTime or a Job, and start again from the state file.
THEOREM DataBetweenMarkers ==
    ASSUME NEW CONSTANT o, Procs = {o}
    PROVE  Spec => []RestoreBoundary
  <1>1. OpInv => RestoreBoundary BY DEF OpInv
  <1> QED BY <1>1, OpInvariance, PTL

\* restore_drill_engine.go, save, Run and Cleanup: a target that exists is that
\* of the state file, whose cleanup is not over: an operator who runs cleanup
\* again will find it.
THEOREM TargetNeverForgotten ==
    ASSUME NEW CONSTANT o, Procs = {o}
    PROVE  Spec => []TargetIsRecorded
  <1>1. OpInv => TargetIsRecorded
    BY DEF OpInv, TargetIsRecorded, Recorded, Untouched, Sound
  <1> QED BY <1>1, OpInvariance, PTL

\* CleanupSourceMarker and VerifyClean: a drill that is cleaned has left no
\* marker in the source database, unless a crash or a failed kubectl let a Job
\* outlive the wait for it.
THEOREM SourceLeftClean ==
    ASSUME NEW CONSTANT o, Procs = {o}
    PROVE  Spec => []CleanedLeavesNoMarker
  <1>1. OpInv => CleanedLeavesNoMarker
    <2> SUFFICES ASSUME OpInv, file # None, file.phase = "cleaned", markers[file.id] # {}
                 PROVE  faults["crash"] + faults["kube"] > 0
      BY DEF CleanedLeavesNoMarker
    <2>1. ~Clean BY DEF OpInv, Sound
    <2>2. faults["crash"] \in Nat /\ faults["kube"] \in Nat BY DEF OpInv, FaultKinds
    <2> QED BY <2>1, <2>2 DEF Clean
  <1> QED BY <1>1, OpInvariance, PTL
=============================================================================
