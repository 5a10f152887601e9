----------------------- MODULE ProdLifecycle_proofs ------------------------
(***************************************************************************)
(* Proofs about the PROD lifecycle, with or without the canary and for any *)
(* number of commands, failed calls, crashes and cancellations.            *)
(***************************************************************************)
EXTENDS ProdLifecycle, TLAPS

-----------------------------------------------------------------------------
(* The inductive invariant.                                                *)

Core == {"vpc", "cluster", "rds", "secret"}

\* The points of a command: a teardown's removal before its apply, setup's
\* work in the cluster, the failure tests, and the steps between.
Removing == {"outputs", "hostname", "remove", "await", "remove ingress", "await ingress",
             "alb", "uninstall"}
Configuring == {"load", "seed", "install", "digests", "manifest", "wait", "slo", "converge"}
Fixing == {"create", "delete", "cleanup"}
Points == {"idle", "preflight", "bootstrap", "bootApprove", "bootApply", "bootPush",
           "plan", "approve", "apply", "verify", "heal"} \cup Removing \cup Configuring \cup Fixing

WorldTyped ==
    /\ infra \in SUBSET Full /\ alb \in BOOLEAN /\ drill \in BOOLEAN /\ seed \in BOOLEAN
    /\ apps \in [Components -> {"absent", "present", "deleting"}]

RunTyped ==
    /\ proc \in [cmd : Commands \cup {"none"}, pc : Points, arn : {"none", "live", "gone"},
                 planned : BOOLEAN, converge : BOOLEAN, x : Components, n : Nat,
                 err : BOOLEAN, ctx : {"live", "done"}]
    /\ plan \in [shown : SUBSET Full, file : SUBSET Full, approved : BOOLEAN]

\* Nothing runs without the cluster.
NoCluster ==
    ~Reachable => /\ ctl = {} /\ \A x \in Components : apps[x] = "absent"
                  /\ ingress = "none" /\ broker = "down" /\ volume = "none"

\* What lives in the VPC: instances, a drill's target too.
InVPC ==
    /\ infra \cap {"cluster", "rds"} # {} => "vpc" \in infra
    /\ drill => "vpc" \in infra

\* What an Application made does not outlive it, and the ALB lives as long as
\* the Ingress, if the teardown saw both.
OwnedByApps ==
    /\ apps["platform"] = "absent" => broker = "down" /\ volume # "bound"
    /\ apps["app"] = "absent" => ingress = "none"
    /\ alb => ingress # "none" \/ "app" \in misread

\* The broker's password comes from the secret.
Seeded ==
    /\ broker = "current" => seed
    /\ seed => "secret" \in infra

\* A mutate's plan leads to nothing in a teardown, and to all but the canary
\* otherwise; the removal before an apply is a teardown's.
Planned ==
    /\ proc.pc = "preflight" => proc.cmd \in Commands
    /\ proc.pc \in Removing => proc.cmd = "teardown"
    /\ proc.pc \in {"approve", "apply"} \cup Removing =>
         IF proc.cmd = "teardown" THEN plan.shown = {} ELSE Core \subseteq plan.shown

\* Setup configures a cluster that is there.
Configured  == proc.pc \in Configuring => Core \subseteq infra

\* How far a teardown has removed the Applications.
Applying == proc.pc = "apply" /\ proc.cmd = "teardown"
Gone ==
    /\ proc.pc \in {"remove ingress", "await ingress"} => proc.x = "app"
    /\ \/ proc.pc \in {"remove ingress", "await ingress", "alb", "uninstall"} \/ Applying
       \/ proc.pc \in {"remove", "await"} /\ proc.x = "platform"
       => apps["app"] = "absent" \/ "app" \in misread
    /\ proc.pc \in {"alb", "uninstall"} \/ Applying =>
         apps["platform"] = "absent" \/ "platform" \in misread

\* Everything the Applications stand for is there, but for a pod or two.
Whole ==
    /\ \A x \in Components : apps[x] = "present"
    /\ broker # "down" /\ ingress = "up" /\ alb

\* While setup or reconcile waits for its web pods, the rest is complete.
Healing ==
    proc.pc = "heal" =>
        /\ proc.cmd \in {"setup", "reconcile"}
        /\ NoDrift /\ Whole /\ "peer" \notin down /\ "networkpolicy" \notin fixtures

\* A fixture exists while resilience runs, or somebody has to know of it.
Fixed ==
    IF proc.pc \in Fixing THEN proc.cmd = "resilience" ELSE fixtures = {} \/ dirty

\* A report is the last thing a command does.
Reported ==
    /\ report # Silent => proc.pc = "idle"
    /\ ReportIsTrue

Sane == /\ WorldTyped /\ NoCluster /\ InVPC /\ OwnedByApps /\ Seeded
        /\ ClusterGoesLast /\ CredentialsAgree

OnCourse == RunTyped /\ Planned /\ Configured /\ Gone /\ Healing

Inv == Sane /\ OnCourse /\ Fixed /\ Reported

-----------------------------------------------------------------------------
(* What a step keeps: the world, the course of the run, the report.        *)

\* A step that leaves the world alone, and at most misreads a query, keeps it
\* sane.
LEMMA SaneStays ==
    ASSUME Sane, UNCHANGED World, misread \subseteq misread'
    PROVE  Sane'
<1> USE DEF World, awsVars, kubeVars, podVars
<1>1. WorldTyped' /\ InVPC' /\ Seeded'
    BY DEF Sane, WorldTyped, InVPC, Seeded
<1>2. NoCluster' /\ OwnedByApps'
    BY DEF Sane, NoCluster, OwnedByApps, Reachable
<1>3. ClusterGoesLast' /\ CredentialsAgree'
    BY DEF Sane, ClusterGoesLast, CredentialsAgree, Reachable
<1> QED BY <1>1, <1>2, <1>3 DEF Sane

\* The parts that a step in the cluster leaves alone.
LEMMA RestStays ==
    ASSUME Sane, UNCHANGED <<infra, drill, seed, broker>>
    PROVE  InVPC' /\ Seeded'
    BY DEF Sane, InVPC, Seeded

\* A process that has ended is on course.
LEMMA IdleOnCourse ==
    ASSUME proc' = Idle, plan' = Unplanned
    PROVE  OnCourse'
<1>1. proc'.pc = "idle"
    BY DEF Idle
<1>2. RunTyped'
    BY DEF Idle, Unplanned, RunTyped, Components, Points
<1> QED BY <1>1, <1>2 DEF OnCourse, Planned, Configured, Gone, Removing, Configuring, Applying, Healing

\* A report of no success is true when no fixture is left, or somebody knows.
LEMMA FailureReported ==
    ASSUME proc' = Idle, fixtures' = {} \/ dirty',
           report'.result \notin {"passed", "cleanup failed"}
    PROVE  Fixed' /\ Reported'
<1>1. proc'.pc = "idle"
    BY DEF Idle
<1> QED BY <1>1 DEF Fixed, Fixing, Reported, ReportIsTrue

\* A command that ends with a failure, from anywhere but the failure tests.
LEMMA FailedEnd ==
    ASSUME Inv, End("failed"), Sane', proc.pc \notin Fixing,
           fixtures' \subseteq fixtures, dirty' = dirty
    PROVE  Inv'
<1>1. OnCourse'
    BY IdleOnCourse DEF End
<1>2. proc' = Idle /\ report'.result \notin {"passed", "cleanup failed"}
    BY DEF End
<1>3. fixtures' = {} \/ dirty'
    BY DEF Inv, Fixed
<1> QED BY <1>1, <1>2, <1>3, FailureReported DEF Inv

\* Until a command ends, it says nothing.
LEMMA SilentMeanwhile ==
    ASSUME Inv, proc.pc # "idle", report' = report
    PROVE  Reported'
<1>1. report' = Silent
    BY DEF Inv, Reported
<1> QED BY <1>1 DEF Reported, ReportIsTrue, Silent

\* A step from one point of a command to another.
LEMMA MovesOn ==
    ASSUME Inv, proc.pc # "idle", report' = report, Sane', OnCourse',
           proc.pc \notin Fixing, proc'.pc \notin Fixing,
           fixtures' \subseteq fixtures, dirty' = dirty
    PROVE  Inv'
<1>1. Fixed'
    BY DEF Inv, Fixed
<1> QED BY <1>1, SilentMeanwhile DEF Inv

\* Queries: at most one more is misread.
LEMMA FoundMisreads ==
    ASSUME NEW q, NEW truth, NEW seen, Found(q, truth, seen)
    PROVE  /\ misread \subseteq misread' /\ dirty' = dirty
           /\ seen = truth \/ (truth /\ ~seen /\ q \in misread')
    BY DEF Found, Calm, histVars, Misread, Trouble

LEMMA GotoTyped ==
    ASSUME RunTyped, NEW p \in Points, Goto(p)
    PROVE  /\ RunTyped' /\ plan' = plan /\ report' = report
           /\ proc'.pc = p /\ proc'.cmd = proc.cmd /\ proc'.x = proc.x
    BY DEF RunTyped, Goto

LEMMA GotoForTyped ==
    ASSUME RunTyped, NEW p \in Points, NEW x \in Components, GotoFor(p, x)
    PROVE  /\ RunTyped' /\ plan' = plan /\ report' = report
           /\ proc'.pc = p /\ proc'.cmd = proc.cmd /\ proc'.x = x
    BY DEF RunTyped, GotoFor

\* Points at which nothing is remembered of what went before.
Plain == {"bootstrap", "bootApprove", "bootApply", "bootPush", "plan", "verify"}

LEMMA PlainOnCourse ==
    ASSUME RunTyped', proc'.pc \in Plain
    PROVE  OnCourse' /\ proc'.pc \notin Fixing
    BY DEF OnCourse, Planned, Configured, Gone, Removing, Configuring, Applying, Healing, Plain, Fixing

\* A step to such a point.
LEMMA PlainMove ==
    ASSUME Inv, NEW p \in Plain, Goto(p), proc.pc # "idle", proc.pc \notin Fixing,
           Sane', fixtures' \subseteq fixtures, dirty' = dirty
    PROVE  Inv'
<1>1. p \in Points /\ RunTyped
    BY DEF Plain, Points, Inv, OnCourse
<1>2. RunTyped' /\ report' = report /\ proc'.pc = p
    BY <1>1, GotoTyped
<1> QED BY <1>2, PlainOnCourse, MovesOn

-----------------------------------------------------------------------------
(* Steps that leave the world alone.                                       *)

LEMMA StartKeeps ==
    ASSUME Inv, NEW c \in Commands, Start(c)
    PROVE  Inv'
<1> USE DEF Start
<1>1. Sane'
  <2>1. UNCHANGED World /\ misread' = misread
      BY DEF World
  <2> QED BY <2>1, SaneStays DEF Inv
<1>2. proc'.pc = "preflight" /\ proc'.cmd = c
    BY DEF Idle
<1>3. RunTyped'
    BY DEF Idle, RunTyped, Components, Points, Inv, OnCourse
<1>4. OnCourse'
    BY <1>2, <1>3 DEF OnCourse, Planned, Configured, Gone, Removing, Configuring, Applying, Healing
<1>5. Fixed'
    BY <1>2 DEF Inv, Fixed, Fixing, At
<1>6. Reported'
    BY DEF Reported, ReportIsTrue, Silent
<1> QED BY <1>1, <1>4, <1>5, <1>6 DEF Inv

LEMMA PreflightKeeps ==
    ASSUME Inv, Preflight
    PROVE  Inv'
<1> USE DEF Preflight, At
<1>1. Sane' /\ dirty' = dirty /\ fixtures' = fixtures
    BY SaneStays DEF Inv, Calm, histVars, World
<1>2. proc.pc \notin Fixing
    BY DEF Fixing
<1>3. CASE End("failed")
    BY <1>1, <1>2, <1>3, FailedEnd
<1>4. CASE Goto(FirstStep[proc.cmd])
  <2>1. proc.cmd \in Commands
      BY DEF Inv, OnCourse, Planned
  <2>2. FirstStep[proc.cmd] \in Plain
      BY <2>1 DEF FirstStep, Commands, Plain
  <2> QED BY <1>1, <1>2, <1>4, <2>2, PlainMove
<1> QED BY <1>3, <1>4

LEMMA BootstrapKeeps ==
    ASSUME Inv, Bootstrap
    PROVE  Inv'
<1> USE DEF Bootstrap, At
<1>1. misread \subseteq misread' /\ dirty' = dirty
    BY DEF Found, Calm, histVars, Misread, Trouble
<1>2. Sane' /\ fixtures' = fixtures
    BY <1>1, SaneStays DEF Inv, World
<1>3. proc.pc \notin Fixing
    BY DEF Fixing
<1>4. End("failed") \/ \E p \in Plain : Goto(p)
    BY DEF Plain
<1> QED BY <1>1, <1>2, <1>3, <1>4, FailedEnd, PlainMove

LEMMA BootApproveKeeps ==
    ASSUME Inv, BootApprove
    PROVE  Inv'
<1>1. Sane' /\ dirty' = dirty /\ fixtures' = fixtures
    BY SaneStays DEF Inv, Calm, histVars, World, BootApprove
<1> QED BY <1>1, PlainMove DEF BootApprove, At, Plain, Fixing

\* The bucket of the Terraform state holds nothing of the environment.
LEMMA BackendKeepsSane ==
    ASSUME Sane, UNCHANGED <<infra, recovery, tainted, promoted, alb, seed, kubeVars, fixtures, drill>>,
           misread' = misread
    PROVE  Sane'
<1> USE DEF kubeVars, podVars
<1>1. WorldTyped' /\ InVPC' /\ Seeded'
    BY DEF Sane, WorldTyped, InVPC, Seeded
<1>2. NoCluster' /\ OwnedByApps'
    BY DEF Sane, NoCluster, OwnedByApps, Reachable
<1>3. ClusterGoesLast' /\ CredentialsAgree'
    BY DEF Sane, ClusterGoesLast, CredentialsAgree, Reachable
<1> QED BY <1>1, <1>2, <1>3 DEF Sane

LEMMA BootApplyKeeps ==
    ASSUME Inv, BootApply \/ BootApplyFails \/ BootPush
    PROVE  Inv'
<1> USE DEF BootApply, BootApplyFails, BootPush, At
<1>1. Sane' /\ dirty' = dirty /\ fixtures' = fixtures
    BY BackendKeepsSane DEF Inv, Calm, histVars, Trouble
<1>2. proc.pc \notin Fixing /\ proc.pc # "idle"
    BY DEF Fixing
<1>3. End("failed") \/ \E p \in Plain : Goto(p)
    BY DEF Plain
<1> QED BY <1>1, <1>2, <1>3, FailedEnd, PlainMove

LEMMA FailsKeeps ==
    ASSUME Inv, Fails \/ WaitFor
    PROVE  Inv'
<1>1. Sane' /\ dirty' = dirty /\ fixtures' = fixtures
    BY SaneStays DEF Inv, Calm, histVars, World, Trouble, Fails, WaitFor
<1>2. End("failed")
    BY DEF Fails, WaitFor
<1>3. proc.pc \notin Fixing
    BY DEF Fails, WaitFor, Awaited, Fixing, At
<1> QED BY <1>1, <1>2, <1>3, FailedEnd

LEMMA CrashKeeps ==
    ASSUME Inv, Crash
    PROVE  Inv'
<1> USE DEF Crash
<1>1. Sane'
    BY SaneStays DEF Inv
<1>2. fixtures' = {} \/ dirty'
    BY DEF World
<1>3. Fixed' /\ Reported'
    BY <1>2, FailureReported DEF Silent
<1> QED BY <1>1, <1>3, IdleOnCourse DEF Inv

-----------------------------------------------------------------------------
(* Plan and approve.                                                       *)

LEMMA WantedIsCore ==
    /\ Wanted \in SUBSET Full
    /\ IF proc.cmd = "teardown" THEN Wanted = {} ELSE Core \subseteq Wanted
    BY DEF Wanted, Full, Core

\* After a mutate, setup goes on with a cluster that is there.
LEMMA MutatedKeeps ==
    ASSUME Inv, Mutated, proc.pc \in {"plan", "apply"}, Sane',
           proc.cmd = "setup" => Core \subseteq infra',
           fixtures' \subseteq fixtures, dirty' = dirty
    PROVE  Inv'
<1> USE DEF Mutated
<1>1. RunTyped
    BY DEF Inv, OnCourse
<1>2. RunTyped' /\ report' = report
    BY <1>1 DEF RunTyped, Points, Configuring, Unplanned
<1>3. CASE proc.cmd = "setup" /\ ~proc.converge
  <2>1. proc'.pc = "load"
      BY <1>1, <1>3 DEF RunTyped
  <2>2. OnCourse'
      BY <1>2, <1>3, <2>1
      DEF OnCourse, Planned, Configured, Gone, Removing, Configuring, Applying, Healing
  <2> QED BY <1>2, <2>1, <2>2, MovesOn DEF Fixing
<1>4. CASE ~(proc.cmd = "setup" /\ ~proc.converge)
  <2>1. proc'.pc = "verify"
      BY <1>1, <1>4 DEF RunTyped
  <2> QED BY <1>2, <2>1, PlainOnCourse, MovesOn DEF Fixing, Plain
<1> QED BY <1>3, <1>4

LEMMA PlanKeeps ==
    ASSUME Inv, Plan
    PROVE  Inv'
<1> USE DEF Plan, At
<1>1. Sane' /\ dirty' = dirty /\ fixtures' = fixtures /\ infra' = infra
    BY SaneStays DEF Inv, Calm, histVars, World, awsVars
<1>2. CASE End("failed")
    BY <1>1, <1>2, FailedEnd DEF Fixing
<1>3. CASE Wanted = infra /\ tainted = {} /\ Mutated
  <2>1. proc.cmd = "setup" => Core \subseteq infra'
      BY <1>1, <1>3, WantedIsCore
  <2> QED BY <1>1, <1>3, <2>1, MutatedKeeps
<1>4. CASE /\ proc' = [proc EXCEPT !.planned = TRUE, !.pc = "approve"]
           /\ plan' = [shown |-> Wanted, file |-> Wanted, approved |-> FALSE]
           /\ UNCHANGED report
  <2>1. RunTyped
      BY DEF Inv, OnCourse
  <2>2. RunTyped' /\ proc'.pc = "approve" /\ proc'.cmd = proc.cmd /\ plan'.shown = Wanted
      BY <1>4, <2>1, WantedIsCore DEF RunTyped, Points
  <2>3. OnCourse'
      BY <2>2, WantedIsCore
      DEF OnCourse, Planned, Configured, Gone, Removing, Configuring, Applying, Healing
  <2> QED BY <1>1, <1>4, <2>2, <2>3, MovesOn DEF Fixing
<1> QED BY <1>2, <1>3, <1>4

LEMMA ApproveKeeps ==
    ASSUME Inv, Approve
    PROVE  Inv'
<1> USE DEF Approve, At
<1>1. Sane' /\ dirty' = dirty /\ fixtures' = fixtures
    BY SaneStays DEF Inv, Calm, histVars, World
<1>2. RunTyped
    BY DEF Inv, OnCourse
<1>3. /\ RunTyped' /\ proc'.cmd = proc.cmd /\ plan'.shown = plan.shown
      /\ proc'.pc = IF proc.cmd = "teardown" THEN "outputs" ELSE "apply"
    BY <1>2 DEF RunTyped, Points, Removing
<1>4. IF proc.cmd = "teardown" THEN plan.shown = {} ELSE Core \subseteq plan.shown
    BY DEF Inv, OnCourse, Planned
<1>5. OnCourse'
    BY <1>3, <1>4 DEF OnCourse, Planned, Configured, Gone, Removing, Configuring, Applying, Healing
<1> QED BY <1>1, <1>3, <1>5, MovesOn DEF Fixing

LEMMA TamperKeeps ==
    ASSUME Inv, Tamper
    PROVE  Inv'
<1> USE DEF Tamper
<1>1. /\ Sane' /\ UNCHANGED <<proc, report, dirty, misread, fixtures, infra, alb, drill, apps,
                              ingress, broker, tainted, down>>
    BY SaneStays DEF Inv, World, awsVars, kubeVars, podVars, Trouble
<1>2. RunTyped' /\ plan'.shown = plan.shown
    BY DEF RunTyped, Inv, OnCourse
<1>3. OnCourse'
    BY <1>1, <1>2
    DEF Inv, OnCourse, Planned, Configured, Gone, Applying, Healing, Whole, NoDrift
<1>4. Fixed'
    BY <1>1 DEF Inv, Fixed
<1>5. Reported'
    BY <1>1 DEF Inv, Reported, ReportIsTrue, AllHealthy, Healthy, Complete, NoDrift, Serves
<1> QED BY <1>1, <1>3, <1>4, <1>5 DEF Inv

-----------------------------------------------------------------------------
(* Apply: what a plan, or part of one, does to the world.                  *)

\* What an apply may end with: resources that can exist, what the plan keeps
\* among them, and the VPC while a restore target lives in it.
Reached(r) ==
    /\ r \in SUBSET Full /\ infra \cap plan.shown \subseteq r
    /\ r \cap {"cluster", "rds"} # {} => "vpc" \in r
    /\ drill => "vpc" \in r

\* The resources of the core that a setup or a reconcile finds stay; a
\* teardown has removed the Applications, unless it could not see them.
LEMMA CoreStays ==
    ASSUME Inv, proc.pc = "apply", NEW r, Reached(r), NEW k \in Core, k \in infra, k \notin r
    PROVE  /\ apps["app"] = "absent" \/ "app" \in misread
           /\ apps["platform"] = "absent" \/ "platform" \in misread
<1>1. proc.cmd = "teardown"
    BY DEF Inv, OnCourse, Planned, Reached
<1> QED BY <1>1 DEF Inv, OnCourse, Gone, Applying

LEMMA BecomesSane ==
    ASSUME Inv, proc.pc = "apply", NEW r, NEW broken, Reached(r), Becomes(r, broken),
           drill' = drill, misread' = misread
    PROVE  Sane' /\ fixtures' \subseteq fixtures
<1> USE DEF Becomes, podVars
<1>1. WorldTyped'
    BY DEF Inv, Sane, WorldTyped, Reached
<1>2. InVPC'
    BY DEF InVPC, Reached
<1>3. Seeded'
    BY DEF Inv, Sane, Seeded
<1>4. NoCluster'
    BY DEF NoCluster, Reachable, Inv, Sane
<1>5. OwnedByApps'
  <2>1. CASE "cluster" \in r
    <3>1. UNCHANGED <<apps, ingress, volume, alb, misread>>
        BY <2>1
    <3>2. broker = "down" => broker' = "down"
        BY <2>1
    <3> QED BY <3>1, <3>2 DEF Inv, Sane, OwnedByApps
  <2>2. CASE "cluster" \notin r
    <3>1. broker' = "down" /\ volume' = "none" /\ ingress' = "none"
        BY <2>2
    <3>2. alb => "app" \in misread
      <4>1. CASE ~Reachable
          BY <4>1 DEF Inv, Sane, ClusterGoesLast
      <4>2. CASE Reachable
        <5>1. apps["app"] = "absent" \/ "app" \in misread
            BY <2>2, <4>2, CoreStays DEF Core, Reachable
        <5> QED BY <5>1 DEF Inv, Sane, OwnedByApps
      <4> QED BY <4>1, <4>2
    <3> QED BY <3>1, <3>2 DEF OwnedByApps
  <2> QED BY <2>1, <2>2
<1>6. ClusterGoesLast'
  <2>1. CASE "cluster" \in r
      BY <2>1 DEF Inv, Sane, ClusterGoesLast, Reachable
  <2>2. CASE "cluster" \notin r /\ ~Reachable
      BY <2>2 DEF Inv, Sane, ClusterGoesLast, Reachable, NoCluster
  <2>3. CASE "cluster" \notin r /\ Reachable
    <3>1. /\ apps["app"] = "absent" \/ "app" \in misread
          /\ apps["platform"] = "absent" \/ "platform" \in misread
        BY <2>3, CoreStays DEF Core, Reachable
    <3>2. alb => "app" \in misread
        BY <3>1 DEF Inv, Sane, OwnedByApps
    <3>3. volume = "bound" => "platform" \in misread
        BY <3>1 DEF Inv, Sane, OwnedByApps
    <3> QED BY <2>3, <3>2, <3>3 DEF Inv, Sane, ClusterGoesLast
  <2> QED BY <2>1, <2>2, <2>3
<1>7. CredentialsAgree'
  <2>1. CASE broker' = broker \/ broker' = "down"
      BY <2>1 DEF Inv, Sane, CredentialsAgree
  <2>2. CASE broker = "current" /\ "secret" \notin r
    <3>1. "secret" \in infra
        BY <2>2 DEF Inv, Sane, Seeded
    <3>2. apps["platform"] = "absent" \/ "platform" \in misread
        BY <2>2, <3>1, CoreStays DEF Core
    <3> QED BY <2>2, <3>2 DEF Inv, Sane, OwnedByApps, CredentialsAgree
  <2> QED BY <2>1, <2>2
<1> QED BY <1>1, <1>2, <1>3, <1>4, <1>5, <1>6, <1>7 DEF Sane

LEMMA ApplyKeeps ==
    ASSUME Inv, Apply
    PROVE  Inv'
<1> USE DEF Apply, At
<1>1. dirty' = dirty /\ misread' = misread
    BY DEF Calm, histVars
<1>2. RunTyped /\ InVPC /\ WorldTyped
    BY DEF Inv, OnCourse, Sane
<1>3. IF proc.cmd = "teardown" THEN plan.shown = {} ELSE Core \subseteq plan.shown
    BY DEF Inv, OnCourse, Planned
<1>4. CASE plan.file # plan.shown
  <2>1. Sane' /\ fixtures' = fixtures
      BY <1>1, <1>4, SaneStays DEF Inv, World
  <2> QED BY <1>1, <1>4, <2>1, FailedEnd DEF Fixing
<1>5. CASE plan.file = plan.shown /\ Blocked(plan.file)
  <2>1. plan.shown = {}
      BY <1>3, <1>5 DEF Blocked, Core
  <2>2. Reached({"vpc"})
      BY <2>1 DEF Reached, Full
  <2>3. Sane' /\ fixtures' \subseteq fixtures
      BY <1>1, <1>5, <2>2, BecomesSane
  <2> QED BY <1>1, <1>5, <2>3, FailedEnd DEF Fixing
<1>6. CASE plan.file = plan.shown /\ ~Blocked(plan.file)
  <2>1. plan.file \in SUBSET Full
      BY <1>2 DEF RunTyped
  <2>2. drill => "vpc" \in plan.file
      BY <1>2, <1>6 DEF Blocked, InVPC
  <2>3. plan.file \cap {"cluster", "rds"} # {} => "vpc" \in plan.file
      BY <1>3, <1>6 DEF Core
  <2>4. Reached(plan.file)
      BY <1>6, <2>1, <2>2, <2>3 DEF Reached
  <2>5. Sane' /\ fixtures' \subseteq fixtures
      BY <1>1, <1>6, <2>4, BecomesSane
  <2>6. infra' = plan.shown
      BY <1>6 DEF Becomes
  <2> QED BY <1>1, <1>3, <1>6, <2>5, <2>6, MutatedKeeps
<1> QED BY <1>4, <1>5, <1>6

LEMMA ApplyFailsKeeps ==
    ASSUME Inv, ApplyFails
    PROVE  Inv'
<1> USE DEF ApplyFails, At
<1>1. dirty' = dirty /\ misread' = misread /\ drill' = drill
    BY DEF Trouble
<1>2. PICK r \in Between(infra, plan.file) :
         /\ Blocked(plan.file) => "vpc" \in r
         /\ \E broken : Becomes(r, broken)
    OBVIOUS
<1>3. IF proc.cmd = "teardown" THEN plan.shown = {} ELSE Core \subseteq plan.shown
    BY DEF Inv, OnCourse, Planned
<1>4. drill => "vpc" \in r
  <2>1. CASE "vpc" \in plan.shown
      BY <1>2, <2>1 DEF Between, Inv, Sane, InVPC
  <2>2. CASE "vpc" \notin plan.shown
      BY <1>2, <2>2 DEF Blocked, Inv, Sane, InVPC
  <2> QED BY <2>1, <2>2
<1>5. Reached(r)
    BY <1>2, <1>4 DEF Reached, Between
<1>6. Sane' /\ fixtures' \subseteq fixtures
    BY <1>1, <1>2, <1>5, BecomesSane
<1> QED BY <1>1, <1>6, FailedEnd DEF Fixing

-----------------------------------------------------------------------------
(* The removal before a teardown's apply.                                  *)

\* The Application is gone, as far as the teardown could see.
Missing(x) == apps[x] = "absent" \/ x \in misread

\* Every point of the removal keeps what the plan says.
LEMMA RemovalOnCourse ==
    ASSUME Inv, proc.pc \in Removing, RunTyped', plan' = plan, proc'.cmd = proc.cmd,
           proc'.pc \in Removing \/ proc'.pc = "apply",
           proc'.pc \in {"remove ingress", "await ingress"} => proc'.x = "app",
           proc'.pc \in {"alb", "uninstall", "apply"} => Missing("app")' /\ Missing("platform")',
           proc'.pc \in {"remove ingress", "await ingress"} => Missing("app")',
           proc'.pc \in {"remove", "await"} /\ proc'.x = "platform" => Missing("app")'
    PROVE  OnCourse'
<1>1. proc.cmd = "teardown" /\ plan.shown = {}
    BY DEF Inv, OnCourse, Planned
<1>2. Planned'
    BY <1>1 DEF Planned, Removing
<1>3. Configured'
    BY DEF Configured, Removing, Configuring
<1>4. Gone'
    BY <1>1 DEF Gone, Applying, Missing
<1>5. Healing'
    BY DEF Healing, Removing
<1> QED BY <1>2, <1>3, <1>4, <1>5 DEF OnCourse

LEMMA AfterRemovalKeeps ==
    ASSUME Inv, proc.pc \in Removing, AfterRemoval, Sane',
           dirty' = dirty, fixtures' = fixtures,
           proc.x \in {"app", "platform"} => Missing("app")',
           proc.x = "platform" => Missing("platform")'
    PROVE  Inv'
<1> USE DEF AfterRemoval
<1>1. RunTyped /\ proc.x \in Components
    BY DEF Inv, OnCourse, RunTyped
<1>2. proc.pc # "idle" /\ proc.pc \notin Fixing
    BY DEF Removing, Fixing
<1>3. CASE proc.x = "guard"
  <2>1. GotoFor("remove", "app")
      BY <1>3
  <2>2. /\ RunTyped' /\ plan' = plan /\ report' = report
        /\ proc'.pc = "remove" /\ proc'.cmd = proc.cmd /\ proc'.x = "app"
      BY <1>1, <2>1, GotoForTyped DEF Points, Removing, Components
  <2>3. OnCourse'
      BY <2>2, RemovalOnCourse DEF Removing
  <2> QED BY <1>2, <2>2, <2>3, MovesOn DEF Fixing
<1>4. CASE proc.x = "app"
  <2>1. GotoFor("remove", "platform")
      BY <1>4
  <2>2. /\ RunTyped' /\ plan' = plan /\ report' = report
        /\ proc'.pc = "remove" /\ proc'.cmd = proc.cmd /\ proc'.x = "platform"
      BY <1>1, <2>1, GotoForTyped DEF Points, Removing, Components
  <2>3. OnCourse'
      BY <1>4, <2>2, RemovalOnCourse DEF Removing
  <2> QED BY <1>2, <2>2, <2>3, MovesOn DEF Fixing
<1>5. CASE proc.x = "platform"
  <2>1. Goto("alb")
      BY <1>5
  <2>2. /\ RunTyped' /\ plan' = plan /\ report' = report
        /\ proc'.pc = "alb" /\ proc'.cmd = proc.cmd /\ proc'.x = "platform"
      BY <1>1, <1>5, <2>1, GotoTyped DEF Points, Removing
  <2>3. OnCourse'
      BY <1>5, <2>2, RemovalOnCourse DEF Removing
  <2> QED BY <1>2, <2>2, <2>3, MovesOn DEF Fixing
<1> QED BY <1>1, <1>3, <1>4, <1>5 DEF Components

LEMMA OutputsKeeps ==
    ASSUME Inv, Outputs
    PROVE  Inv'
<1> USE DEF Outputs, At
<1>1. Sane' /\ dirty' = dirty /\ fixtures' = fixtures
    BY SaneStays DEF Inv, Calm, histVars, World
<1>2. CASE End("failed")
    BY <1>1, <1>2, FailedEnd DEF Fixing
<1>3. CASE Goto("hostname")
  <2>1. RunTyped
      BY DEF Inv, OnCourse
  <2>2. /\ RunTyped' /\ plan' = plan /\ report' = report
        /\ proc'.pc = "hostname" /\ proc'.cmd = proc.cmd
      BY <1>3, <2>1, GotoTyped DEF Points, Removing
  <2>3. OnCourse'
      BY <2>2, RemovalOnCourse DEF Removing
  <2> QED BY <1>1, <2>2, <2>3, MovesOn DEF Fixing
<1> QED BY <1>2, <1>3

LEMMA HostnameKeeps ==
    ASSUME Inv, Hostname
    PROVE  Inv'
<1> USE DEF Hostname, At
<1>1. misread \subseteq misread' /\ dirty' = dirty
    BY FoundMisreads
<1>2. Sane' /\ fixtures' = fixtures
    BY <1>1, SaneStays DEF Inv, World
<1>3. RunTyped
    BY DEF Inv, OnCourse
<1>4. /\ RunTyped' /\ plan' = plan /\ report' = report
      /\ proc'.pc = "remove" /\ proc'.cmd = proc.cmd /\ proc'.x = "guard"
    BY <1>3 DEF RunTyped, Points, Removing, Components
<1>5. OnCourse'
    BY <1>4, RemovalOnCourse DEF Removing
<1> QED BY <1>1, <1>2, <1>4, <1>5, MovesOn DEF Fixing

\* get and delete of an Application: one that is there is being deleted.
LEMMA RemoveKeeps ==
    ASSUME Inv, Remove
    PROVE  Inv'
<1> USE DEF Remove, At
<1>1. PICK seen \in BOOLEAN :
         /\ Found(proc.x, apps[proc.x] # "absent", seen)
         /\ apps' = IF seen THEN [apps EXCEPT ![proc.x] = "deleting"] ELSE apps
         /\ CASE seen -> Goto("await")
              [] ~seen /\ proc.x = "app" -> Goto("remove ingress")
              [] OTHER -> AfterRemoval
    OBVIOUS
<1>2. /\ misread \subseteq misread' /\ dirty' = dirty
      /\ seen => apps[proc.x] # "absent"
      /\ ~seen => apps[proc.x] = "absent" \/ proc.x \in misread'
    BY <1>1 DEF Found, Calm, histVars, Misread, Trouble
<1>3. RunTyped /\ WorldTyped /\ proc.x \in Components
    BY DEF Inv, Sane, OnCourse, RunTyped
<1>4. \A x \in Components : apps'[x] = "absent" <=> apps[x] = "absent"
  <2>1. CASE seen
      BY <1>1, <1>2, <1>3, <2>1 DEF WorldTyped
  <2>2. CASE ~seen
      BY <1>1, <2>2
  <2> QED BY <2>1, <2>2
<1>5. UNCHANGED <<infra, alb, drill, seed, ctl, ingress, broker, volume, lost, fixtures>>
    BY DEF awsVars, podVars
<1>6. Sane'
  <2>1. WorldTyped'
      BY <1>1, <1>3, <1>5 DEF WorldTyped
  <2>2. InVPC' /\ Seeded'
      BY <1>5, RestStays DEF Inv
  <2>3. NoCluster'
      BY <1>4, <1>5 DEF Inv, Sane, NoCluster, Reachable
  <2>5. OwnedByApps'
      BY <1>2, <1>4, <1>5 DEF Inv, Sane, OwnedByApps, Components
  <2>4. ClusterGoesLast' /\ CredentialsAgree'
      BY <1>2, <1>5 DEF Inv, Sane, ClusterGoesLast, CredentialsAgree, Reachable
  <2> QED BY <2>1, <2>2, <2>3, <2>4, <2>5 DEF Sane
<1>7. proc.x = "platform" => Missing("app")'
    BY <1>2, <1>4 DEF Inv, OnCourse, Gone, Missing, Components
<1>8. CASE seen
  <2>1. /\ RunTyped' /\ plan' = plan /\ report' = report
        /\ proc'.pc = "await" /\ proc'.cmd = proc.cmd /\ proc'.x = proc.x
      BY <1>1, <1>3, <1>8, GotoTyped DEF Points, Removing
  <2>2. OnCourse'
      BY <1>7, <2>1, RemovalOnCourse DEF Removing
  <2> QED BY <1>2, <1>5, <1>6, <2>1, <2>2, MovesOn DEF Fixing
<1>9. CASE ~seen /\ proc.x = "app"
  <2>1. /\ RunTyped' /\ plan' = plan /\ report' = report
        /\ proc'.pc = "remove ingress" /\ proc'.cmd = proc.cmd /\ proc'.x = proc.x
      BY <1>1, <1>3, <1>9, GotoTyped DEF Points, Removing
  <2>2. Missing("app")'
      BY <1>2, <1>3, <1>4, <1>9 DEF Missing
  <2>3. OnCourse'
      BY <1>9, <2>1, <2>2, RemovalOnCourse DEF Removing
  <2> QED BY <1>2, <1>5, <1>6, <2>1, <2>3, MovesOn DEF Fixing
<1>10. CASE ~seen /\ proc.x # "app"
  <2>1. AfterRemoval
      BY <1>1, <1>10
  <2>2. proc.x = "platform" => Missing("platform")'
      BY <1>2, <1>3, <1>4, <1>10 DEF Missing
  <2> QED BY <1>2, <1>5, <1>6, <1>7, <1>10, <2>1, <2>2, AfterRemovalKeeps DEF Removing
<1> QED BY <1>8, <1>9, <1>10

LEMMA RemovedKeeps ==
    ASSUME Inv, Removed
    PROVE  Inv'
<1> USE DEF Removed, At
<1>1. /\ Sane' /\ dirty' = dirty /\ misread' = misread /\ fixtures' = fixtures /\ apps' = apps
    BY SaneStays DEF Inv, Calm, histVars, World, kubeVars
<1>2. /\ proc.x \in {"app", "platform"} => Missing("app")'
      /\ proc.x = "platform" => Missing("platform")'
    BY <1>1 DEF Inv, OnCourse, Gone, Missing
<1> QED BY <1>1, <1>2, AfterRemovalKeeps DEF Removing

LEMMA IngressRemovedKeeps ==
    ASSUME Inv, IngressRemoved
    PROVE  Inv'
<1> USE DEF IngressRemoved, At
<1>1. /\ Sane' /\ dirty' = dirty /\ misread' = misread /\ fixtures' = fixtures /\ apps' = apps
    BY SaneStays DEF Inv, Calm, histVars, World, kubeVars
<1>2. proc.x = "app" /\ Missing("app")'
    BY <1>1 DEF Inv, OnCourse, Gone, Missing
<1> QED BY <1>1, <1>2, AfterRemovalKeeps DEF Removing

\* An Ingress without its Application is one whose Application was misread.
LEMMA RemoveIngressKeeps ==
    ASSUME Inv, RemoveIngress
    PROVE  Inv'
<1> USE DEF RemoveIngress, At
<1>1. PICK seen \in BOOLEAN :
         /\ Found("ingress", ingress # "none", seen)
         /\ ingress' = IF seen THEN "terminating" ELSE ingress
         /\ IF seen THEN Goto("await ingress") ELSE AfterRemoval
    OBVIOUS
<1>2. /\ misread \subseteq misread' /\ dirty' = dirty
      /\ ingress' = "none" <=> ingress = "none"
    BY <1>1, FoundMisreads
<1>3. UNCHANGED <<infra, alb, drill, seed, ctl, apps, broker, volume, lost, fixtures>>
    BY DEF awsVars, podVars
<1>4. Sane'
  <2>1. WorldTyped' /\ InVPC' /\ Seeded'
      BY <1>3, RestStays DEF Inv, Sane, WorldTyped
  <2>2. NoCluster'
      BY <1>2, <1>3 DEF Inv, Sane, NoCluster, Reachable
  <2>3. OwnedByApps'
      BY <1>2, <1>3 DEF Inv, Sane, OwnedByApps
  <2>4. ClusterGoesLast' /\ CredentialsAgree'
      BY <1>2, <1>3 DEF Inv, Sane, ClusterGoesLast, CredentialsAgree, Reachable
  <2> QED BY <2>1, <2>2, <2>3, <2>4 DEF Sane
<1>5. proc.x = "app" /\ Missing("app")'
    BY <1>2, <1>3 DEF Inv, OnCourse, Gone, Missing
<1>6. CASE seen
  <2>1. RunTyped
      BY DEF Inv, OnCourse
  <2>2. /\ RunTyped' /\ plan' = plan /\ report' = report
        /\ proc'.pc = "await ingress" /\ proc'.cmd = proc.cmd /\ proc'.x = proc.x
      BY <1>1, <1>6, <2>1, GotoTyped DEF Points, Removing
  <2>3. OnCourse'
      BY <1>5, <2>2, RemovalOnCourse DEF Removing
  <2> QED BY <1>2, <1>3, <1>4, <2>2, <2>3, MovesOn DEF Fixing
<1>7. CASE ~seen
    BY <1>1, <1>2, <1>3, <1>4, <1>5, <1>7, AfterRemovalKeeps DEF Removing
<1> QED BY <1>6, <1>7

LEMMA AwaitALBKeeps ==
    ASSUME Inv, AwaitALB
    PROVE  Inv'
<1> USE DEF AwaitALB, At
<1>1. misread \subseteq misread' /\ dirty' = dirty
    BY DEF Calm, histVars, Misread, Trouble
<1>2. Sane' /\ fixtures' = fixtures /\ apps' = apps
    BY <1>1, SaneStays DEF Inv, World, kubeVars
<1>3. RunTyped
    BY DEF Inv, OnCourse
<1>4. /\ RunTyped' /\ plan' = plan /\ report' = report
      /\ proc'.pc = "uninstall" /\ proc'.cmd = proc.cmd
    BY <1>3, GotoTyped DEF Points, Removing
<1>5. Missing("app")' /\ Missing("platform")'
    BY <1>1, <1>2 DEF Inv, OnCourse, Gone, Missing
<1>6. OnCourse'
    BY <1>4, <1>5, RemovalOnCourse DEF Removing
<1> QED BY <1>1, <1>2, <1>4, <1>6, MovesOn DEF Fixing

\* Helm releases come and go with the cluster.
LEMMA ReleasesKeepSane ==
    ASSUME Sane, UNCHANGED <<awsVars, apps, ingress, broker, podVars, fixtures, drill>>,
           misread \subseteq misread', Reachable \/ ctl' = {}
    PROVE  Sane'
<1>1. UNCHANGED <<infra, alb, seed, drill, apps, ingress, broker, volume, lost>>
    BY DEF awsVars, podVars
<1>2. WorldTyped' /\ InVPC' /\ Seeded'
    BY <1>1, RestStays DEF Sane, WorldTyped
<1>3. NoCluster' /\ OwnedByApps'
    BY <1>1 DEF Sane, NoCluster, OwnedByApps, Reachable
<1>4. ClusterGoesLast' /\ CredentialsAgree'
    BY <1>1 DEF Sane, ClusterGoesLast, CredentialsAgree, Reachable
<1> QED BY <1>2, <1>3, <1>4 DEF Sane

LEMMA UninstallKeeps ==
    ASSUME Inv, Uninstall
    PROVE  Inv'
<1> USE DEF Uninstall, At
<1>1. misread \subseteq misread' /\ dirty' = dirty
    BY DEF Calm, histVars, Misread, Trouble
<1>2. Reachable \/ ctl' = {}
    BY DEF Inv, Sane, NoCluster
<1>3. Sane' /\ fixtures' = fixtures /\ apps' = apps
    BY <1>1, <1>2, ReleasesKeepSane DEF Inv
<1>4. RunTyped
    BY DEF Inv, OnCourse
<1>5. /\ RunTyped' /\ plan' = plan /\ report' = report
      /\ proc'.pc = "apply" /\ proc'.cmd = proc.cmd
    BY <1>4, GotoTyped DEF Points
<1>6. Missing("app")' /\ Missing("platform")'
    BY <1>1, <1>3 DEF Inv, OnCourse, Gone, Missing
<1>7. OnCourse'
    BY <1>5, <1>6, RemovalOnCourse DEF Removing
<1> QED BY <1>1, <1>3, <1>5, <1>7, MovesOn DEF Fixing

LEMMA HelmFailsKeeps ==
    ASSUME Inv, HelmFails
    PROVE  Inv'
<1> USE DEF HelmFails, At
<1>1. misread' = misread /\ dirty' = dirty
    BY DEF Trouble
<1>2. Reachable \/ ctl' = {}
  <2>1. CASE proc.pc = "install"
      BY <2>1 DEF Inv, OnCourse, Configured, Configuring, Core, Reachable
  <2>2. CASE ctl' = ctl \ {"argocd"}
      BY <2>2 DEF Inv, Sane, NoCluster
  <2> QED BY <2>1, <2>2
<1>3. Sane' /\ fixtures' = fixtures
    BY <1>1, <1>2, ReleasesKeepSane DEF Inv
<1>4. proc.pc \notin Fixing
    BY DEF Fixing
<1> QED BY <1>1, <1>3, <1>4, FailedEnd

-----------------------------------------------------------------------------
(* Configure.                                                              *)

LEMMA ConfiguringMove ==
    ASSUME Inv, proc.pc \in Configuring,
           RunTyped', proc'.pc \in Configuring, report' = report,
           infra' = infra, Sane', fixtures' = fixtures, dirty' = dirty
    PROVE  Inv'
<1>1. Core \subseteq infra'
    BY DEF Inv, OnCourse, Configured, Configuring
<1>2. OnCourse'
    BY <1>1 DEF OnCourse, Planned, Configured, Gone, Removing, Configuring, Applying, Healing
<1> QED BY <1>2, MovesOn DEF Configuring, Fixing

LEMMA LoadKeeps ==
    ASSUME Inv, Load
    PROVE  Inv'
<1> USE DEF Load, At
<1>1. Sane' /\ dirty' = dirty /\ fixtures' = fixtures /\ infra' = infra
    BY SaneStays DEF Inv, Calm, histVars, World, awsVars
<1>2. CASE End("failed")
    BY <1>1, <1>2, FailedEnd DEF Fixing
<1>3. CASE Goto("seed")
  <2>1. RunTyped' /\ report' = report /\ proc'.pc = "seed"
      BY <1>3, GotoTyped DEF Inv, OnCourse, Points, Configuring
  <2> QED BY <1>1, <2>1, ConfiguringMove DEF Configuring
<1> QED BY <1>2, <1>3

\* A secret that cannot be read is replaced: the broker's password is stale.
LEMMA SeedKeeps ==
    ASSUME Inv, Seed
    PROVE  Inv'
<1> USE DEF Seed, At
<1>1. PICK seen \in BOOLEAN :
         /\ Found("secret", seed, seen)
         /\ seed' = TRUE
         /\ broker' = IF ~seen /\ broker = "current" THEN "stale" ELSE broker
    OBVIOUS
<1>2. /\ misread \subseteq misread' /\ dirty' = dirty
      /\ ~seen => ~seed \/ "secret" \in misread'
    BY <1>1 DEF Found, Calm, histVars, Misread, Trouble
<1>3. UNCHANGED <<infra, alb, drill, ctl, apps, ingress, volume, lost, fixtures>>
    BY DEF podVars
<1>4. Core \subseteq infra
    BY DEF Inv, OnCourse, Configured, Configuring
<1>5. broker' = "down" <=> broker = "down"
    BY <1>1
<1>6. Sane'
  <2>1. WorldTyped'
      BY <1>1, <1>3 DEF Inv, Sane, WorldTyped
  <2>2. InVPC'
      BY <1>3 DEF Inv, Sane, InVPC
  <2>3. Seeded'
      BY <1>1, <1>3, <1>4 DEF Seeded, Core
  <2>4. NoCluster'
      BY <1>3, <1>4 DEF NoCluster, Reachable, Core
  <2>5. OwnedByApps'
      BY <1>2, <1>3, <1>5 DEF Inv, Sane, OwnedByApps
  <2>6. ClusterGoesLast'
      BY <1>2, <1>3 DEF Inv, Sane, ClusterGoesLast, Reachable
  <2>7. CredentialsAgree'
    <3>1. CASE broker' = broker
        BY <1>2, <3>1 DEF Inv, Sane, CredentialsAgree
    <3>2. CASE ~seen /\ broker = "current"
      <4>1. seed
          BY <3>2 DEF Inv, Sane, Seeded
      <4> QED BY <1>2, <3>2, <4>1 DEF CredentialsAgree
    <3> QED BY <1>1, <3>1, <3>2
  <2> QED BY <2>1, <2>2, <2>3, <2>4, <2>5, <2>6, <2>7 DEF Sane
<1>7. RunTyped' /\ report' = report /\ proc'.pc = "install"
    BY GotoTyped DEF Inv, OnCourse, Points, Configuring
<1> QED BY <1>2, <1>3, <1>6, <1>7, ConfiguringMove DEF Configuring

LEMMA InstallKeeps ==
    ASSUME Inv, Install
    PROVE  Inv'
<1> USE DEF Install, At
<1>1. misread' = misread /\ dirty' = dirty /\ infra' = infra
    BY DEF Calm, histVars, awsVars
<1>2. Reachable
    BY DEF Inv, OnCourse, Configured, Configuring, Core, Reachable
<1>3. Sane' /\ fixtures' = fixtures
    BY <1>1, <1>2, ReleasesKeepSane DEF Inv
<1>4. RunTyped' /\ report' = report /\ proc'.pc = "digests"
    BY GotoTyped DEF Inv, OnCourse, Points, Configuring
<1> QED BY <1>1, <1>3, <1>4, ConfiguringMove DEF Configuring

LEMMA WaitsKeep ==
    ASSUME Inv, Digests \/ WaitArgo \/ WaitSLO
    PROVE  Inv'
<1> USE DEF Digests, WaitArgo, WaitSLO, At
<1>1. Sane' /\ dirty' = dirty /\ fixtures' = fixtures /\ infra' = infra
    BY SaneStays DEF Inv, Calm, histVars, World, awsVars
<1>2. RunTyped /\ proc.x \in Components
    BY DEF Inv, OnCourse, RunTyped
<1>3. \/ \E x \in Components : GotoFor("manifest", x)
      \/ Goto("slo") \/ Goto("converge")
    BY <1>2 DEF Components
<1>4. RunTyped' /\ report' = report /\ proc'.pc \in Configuring
    BY <1>2, <1>3, GotoTyped, GotoForTyped DEF Points, Configuring
<1> QED BY <1>1, <1>4, ConfiguringMove DEF Configuring

LEMMA ApplyManifestKeeps ==
    ASSUME Inv, ApplyManifest
    PROVE  Inv'
<1> USE DEF ApplyManifest, At
<1>1. misread' = misread /\ dirty' = dirty
    BY DEF Calm, histVars
<1>2. UNCHANGED <<infra, alb, drill, seed, ctl, ingress, broker, volume, lost, fixtures>>
    BY DEF awsVars, podVars
<1>3. RunTyped /\ WorldTyped /\ proc.x \in Components
    BY DEF Inv, Sane, OnCourse, RunTyped
<1>4. /\ apps' \in [Components -> {"absent", "present", "deleting"}]
      /\ \A x \in Components : apps'[x] = "absent" => apps[x] = "absent"
    BY <1>3 DEF WorldTyped
<1>5. Reachable
    BY DEF Inv, OnCourse, Configured, Configuring, Core, Reachable
<1>6. Sane'
  <2>1. WorldTyped'
      BY <1>2, <1>3, <1>4 DEF WorldTyped
  <2>2. InVPC' /\ Seeded'
      BY <1>2, RestStays DEF Inv
  <2>3. NoCluster'
      BY <1>2, <1>5 DEF NoCluster, Reachable
  <2>4. OwnedByApps'
      BY <1>1, <1>2, <1>4 DEF Inv, Sane, OwnedByApps, Components
  <2>5. ClusterGoesLast' /\ CredentialsAgree'
      BY <1>1, <1>2 DEF Inv, Sane, ClusterGoesLast, CredentialsAgree, Reachable
  <2> QED BY <2>1, <2>2, <2>3, <2>4, <2>5 DEF Sane
<1>7. RunTyped' /\ report' = report /\ proc'.pc = "wait"
    BY <1>3, GotoTyped DEF Points, Configuring
<1> QED BY <1>1, <1>2, <1>6, <1>7, ConfiguringMove DEF Configuring

LEMMA ConvergeKeeps ==
    ASSUME Inv, Converge
    PROVE  Inv'
<1> USE DEF Converge, At
<1>1. Sane' /\ dirty' = dirty /\ fixtures' = fixtures
    BY SaneStays DEF Inv, Calm, histVars, World
<1>2. RunTyped
    BY DEF Inv, OnCourse
<1>3. RunTyped' /\ report' = report /\ proc'.pc = "plan"
    BY <1>2 DEF RunTyped, Points
<1> QED BY <1>1, <1>3, PlainOnCourse, MovesOn DEF Plain, Fixing

-----------------------------------------------------------------------------
(* Verify and the failure tests.                                           *)

\* A probe's pods are nothing that the environment is made of, and neither is
\* a fixture.
LEMMA ProbesKeepSane ==
    ASSUME Sane, UNCHANGED <<awsVars, ctl, apps, ingress, broker, volume, lost, drill>>,
           misread' = misread
    PROVE  Sane'
<1>1. UNCHANGED <<infra, alb, seed, drill, ctl, apps, ingress, broker, volume, lost>>
    BY DEF awsVars
<1>2. WorldTyped' /\ InVPC' /\ Seeded'
    BY <1>1, RestStays DEF Sane, WorldTyped
<1>3. NoCluster' /\ OwnedByApps'
    BY <1>1 DEF Sane, NoCluster, OwnedByApps, Reachable
<1>4. ClusterGoesLast' /\ CredentialsAgree'
    BY <1>1 DEF Sane, ClusterGoesLast, CredentialsAgree, Reachable
<1> QED BY <1>2, <1>3, <1>4 DEF Sane

LEMMA VerifyKeeps ==
    ASSUME Inv, Verify
    PROVE  Inv'
<1> USE DEF Verify, At
<1>1. /\ dirty' = dirty /\ misread' = misread
      /\ UNCHANGED <<infra, tainted, alb, drill, apps, ingress, broker, fixtures>>
    BY DEF Calm, histVars, awsVars
<1>2. Sane'
    BY <1>1, ProbesKeepSane DEF Inv
<1>3. fixtures = {} \/ dirty
    BY DEF Inv, Fixed, Fixing
<1>4. PICK ok \in Answers(Verifies(proc.cmd)) :
         IF ok /\ proc.cmd \in {"setup", "reconcile"}
         THEN Goto("heal") /\ down' = down \cup {"web"}
         ELSE End(IF ok THEN "passed" ELSE "failed") /\ UNCHANGED down
    OBVIOUS
<1>5. ok \in BOOLEAN /\ (ok => Verifies(proc.cmd))
    BY <1>4 DEF Answers, Verifies, TornDown, Reachable, NoDrift, AllHealthy, Healthy, Serves
<1>6. CASE ~ok
    BY <1>1, <1>2, <1>4, <1>5, <1>6, FailedEnd DEF Fixing
<1>7. CASE ok /\ proc.cmd \in {"setup", "reconcile"}
  <2>1. NoDrift /\ AllHealthy /\ Serves(TRUE)
      BY <1>5, <1>7 DEF Verifies
  <2>2. Whole /\ "peer" \notin down
      BY <2>1 DEF AllHealthy, Healthy, Serves, Whole, Components
  <2>3. /\ RunTyped' /\ report' = report
        /\ proc'.pc = "heal" /\ proc'.cmd = proc.cmd
      BY <1>4, <1>7, GotoTyped DEF Inv, OnCourse, Points
  <2>4. NoDrift' /\ Whole' /\ "peer" \notin down' /\ "networkpolicy" \notin fixtures'
      BY <1>1, <1>4, <1>7, <2>1, <2>2 DEF NoDrift, Whole, Serves
  <2>5. OnCourse'
      BY <1>7, <2>3, <2>4
      DEF OnCourse, Planned, Configured, Gone, Removing, Configuring, Applying, Healing
  <2> QED BY <1>1, <1>2, <2>3, <2>5, MovesOn DEF Fixing
<1>8. CASE ok /\ proc.cmd \notin {"setup", "reconcile"}
  <2>1. /\ proc' = Idle /\ proc'.pc = "idle" /\ plan' = Unplanned /\ down' = down
        /\ report'.cmd = proc.cmd /\ report'.result = "passed"
      BY <1>4, <1>8 DEF End, Idle
  <2>2. proc.cmd \in {"teardown", "status", "none"}
      BY <1>8 DEF Inv, OnCourse, RunTyped, Commands
  <2>3. ReportIsTrue'
    <3>1. CASE proc.cmd = "teardown"
      <4>1. infra = {} /\ ~alb /\ ~drill
          BY <1>5, <1>8, <3>1 DEF Verifies, TornDown, Inv, Sane, InVPC
      <4> QED BY <1>1, <2>1, <3>1, <4>1 DEF ReportIsTrue
    <3>2. CASE proc.cmd = "status"
      <4>1. AllHealthy
          BY <1>5, <1>8, <3>2 DEF Verifies
      <4>2. AllHealthy'
          BY <1>1, <2>1, <4>1 DEF AllHealthy, Healthy
      <4> QED BY <2>1, <3>2, <4>2 DEF ReportIsTrue
    <3>3. CASE proc.cmd = "none"
      <4>1. NoDrift /\ AllHealthy /\ Serves(TRUE)
          BY <1>5, <1>8, <3>3 DEF Verifies
      <4>2. AllHealthy'
          BY <1>1, <2>1, <4>1 DEF AllHealthy, Healthy
      <4>3. NoDrift' /\ Serves(FALSE)' /\ "networkpolicy" \notin fixtures'
          BY <1>1, <4>1 DEF NoDrift, Serves
      <4> QED BY <2>1, <3>3, <4>2, <4>3 DEF ReportIsTrue, Complete
    <3> QED BY <2>2, <3>1, <3>2, <3>3
  <2>4. Fixed' /\ Reported'
      BY <1>1, <1>3, <2>1, <2>3 DEF Fixed, Fixing, Reported
  <2> QED BY <1>2, <2>1, <2>4, IdleOnCourse DEF Inv
<1> QED BY <1>5, <1>6, <1>7, <1>8

\* Argo CD has scaled web back: what the probe took away was all that missed.
LEMMA HealedKeeps ==
    ASSUME Inv, Healed
    PROVE  Inv'
<1> USE DEF Healed, At
<1>1. /\ Sane' /\ dirty' = dirty
      /\ UNCHANGED <<infra, tainted, alb, apps, ingress, broker, down, fixtures>>
    BY SaneStays DEF Inv, Calm, histVars, World, awsVars, kubeVars, podVars
<1>2. /\ proc' = Idle /\ proc'.pc = "idle" /\ plan' = Unplanned
      /\ report'.cmd = proc.cmd /\ report'.result = "passed"
    BY DEF End, Idle
<1>3. /\ proc.cmd \in {"setup", "reconcile"} /\ NoDrift /\ Whole
      /\ down \cap {"web", "peer"} = {} /\ "networkpolicy" \notin fixtures
    BY DEF Inv, OnCourse, Healing
<1>4. AllHealthy' /\ Serves(FALSE)'
    BY <1>1, <1>3 DEF Whole, AllHealthy, Healthy, Serves, Components
<1>5. NoDrift' /\ "networkpolicy" \notin fixtures'
    BY <1>1, <1>3 DEF NoDrift
<1>6. fixtures' = {} \/ dirty'
    BY <1>1 DEF Inv, Fixed, Fixing
<1>7. ReportIsTrue'
    BY <1>2, <1>3, <1>4, <1>5 DEF ReportIsTrue, Complete
<1>8. Fixed' /\ Reported'
    BY <1>2, <1>6, <1>7 DEF Fixed, Fixing, Reported
<1> QED BY <1>1, <1>2, <1>8, IdleOnCourse DEF Inv

\* A step to a point of the failure tests.
LEMMA FixingMove ==
    ASSUME Inv, proc.pc # "idle", RunTyped', proc'.pc \in Fixing, proc'.cmd = "resilience",
           report' = report, Sane'
    PROVE  Inv'
<1>1. OnCourse'
    BY DEF OnCourse, Planned, Configured, Gone, Removing, Configuring, Applying, Healing, Fixing
<1>2. Fixed'
    BY DEF Fixed
<1> QED BY <1>1, <1>2, SilentMeanwhile DEF Inv

LEMMA ResilienceKeeps ==
    ASSUME Inv, Resilience
    PROVE  Inv'
<1> USE DEF Resilience, At
<1>1. Sane' /\ dirty' = dirty /\ fixtures' = fixtures
    BY SaneStays DEF Inv, Calm, histVars, World
<1>2. RunTyped
    BY DEF Inv, OnCourse
<1>3. CASE End("failed")
    BY <1>1, <1>3, FailedEnd DEF Fixing
<1>4. CASE Goto("create")
  <2>1. /\ RunTyped' /\ report' = report
        /\ proc'.pc = "create" /\ proc'.cmd = proc.cmd
      BY <1>2, <1>4, GotoTyped DEF Points, Fixing
  <2> QED BY <1>1, <2>1, FixingMove DEF Fixing
<1>5. CASE /\ proc' = [proc EXCEPT !.pc = "cleanup", !.err = TRUE]
           /\ UNCHANGED <<plan, report>>
  <2>1. /\ RunTyped' /\ report' = report
        /\ proc'.pc = "cleanup" /\ proc'.cmd = proc.cmd
      BY <1>2, <1>5 DEF RunTyped, Points, Fixing
  <2> QED BY <1>1, <2>1, FixingMove DEF Fixing
<1> QED BY <1>3, <1>4, <1>5

LEMMA FixtureStepsKeep ==
    ASSUME Inv, Create \/ Delete \/ FixtureFails
    PROVE  Inv'
<1> USE DEF Create, Delete, FixtureFails, At
<1>1. Sane'
    BY ProbesKeepSane DEF Inv, Calm, histVars, Trouble, kubeVars, podVars
<1>2. RunTyped /\ proc.pc \in {"create", "delete"}
    BY DEF Inv, OnCourse
<1>3. proc.cmd = "resilience"
    BY <1>2 DEF Inv, Fixed, Fixing
<1>4. RunTyped' /\ proc'.pc \in Fixing /\ proc'.cmd = proc.cmd
  <2>1. CASE Goto("delete")
      BY <1>2, <2>1, GotoTyped DEF Points, Fixing
  <2>2. CASE proc' = [proc EXCEPT !.n = @ + 1, !.pc = "create"] /\ plan' = plan
    <3> HIDE DEF Create, Delete, FixtureFails
    <3>1. proc.n \in Nat
        BY <1>2 DEF RunTyped
    <3>2. PICK m \in Nat : m = proc.n + 1
        BY <3>1
    <3>3. proc' = [proc EXCEPT !.n = m, !.pc = "create"]
        BY <2>2, <3>2
    <3> QED BY <1>2, <2>2, <3>3 DEF RunTyped, Points, Fixing
  <2>3. ASSUME NEW e \in BOOLEAN, plan' = plan,
               proc' = [proc EXCEPT !.pc = "cleanup", !.err = e]
        PROVE  RunTyped' /\ proc'.pc \in Fixing /\ proc'.cmd = proc.cmd
      BY <1>2, <2>3 DEF RunTyped, Points, Fixing
  <2>4. ASSUME NEW c \in {"live", "done"}, plan' = plan,
               proc' = [proc EXCEPT !.pc = "cleanup", !.err = TRUE, !.ctx = c]
        PROVE  RunTyped' /\ proc'.pc \in Fixing /\ proc'.cmd = proc.cmd
      BY <1>2, <2>4 DEF RunTyped, Points, Fixing
  <2>5. CASE Delete
    <3>1. PICK ok \in Answers(AllHealthy) :
             proc' = IF proc.n < Len(Fixtures)
                     THEN [proc EXCEPT !.n = @ + 1, !.pc = "create"]
                     ELSE [proc EXCEPT !.pc = "cleanup", !.err = ~ok]
        BY <2>5
    <3>2. PICK e \in BOOLEAN : e = ~ok
        OBVIOUS
    <3>3. plan' = plan
        BY <2>5
    <3>4. CASE proc.n < Len(Fixtures)
        BY <2>2, <3>1, <3>3, <3>4
    <3>5. CASE ~(proc.n < Len(Fixtures))
      <4>1. proc' = [proc EXCEPT !.pc = "cleanup", !.err = e]
          BY <3>1, <3>2, <3>5
      <4> QED BY <2>3, <3>3, <4>1
    <3> QED BY <3>4, <3>5
  <2> QED BY <2>1, <2>4, <2>5
<1>5. report' = report
    BY DEF Goto
<1> QED BY <1>1, <1>2, <1>3, <1>4, <1>5, FixingMove

LEMMA CleanupKeeps ==
    ASSUME Inv, Cleanup \/ CleanupFails
    PROVE  Inv'
<1> USE DEF Cleanup, CleanupFails, At
<1>1. Sane'
    BY ProbesKeepSane DEF Inv, Calm, histVars, kubeVars, podVars
<1>2. proc.cmd = "resilience"
    BY DEF Inv, Fixed, Fixing
<1>3. PICK result \in {"passed", "failed", "cleanup failed"} :
         End(result) /\ (result = "passed" => Cleanup)
    OBVIOUS
<1>4. /\ proc' = Idle /\ plan' = Unplanned /\ proc'.pc = "idle"
      /\ report'.cmd = "resilience" /\ report'.result = result
    BY <1>2, <1>3 DEF End, Idle
<1>5. (fixtures' = {} \/ dirty') /\ (result = "passed" => fixtures' = {})
    BY <1>3
<1>6. Fixed' /\ Reported'
    BY <1>4, <1>5 DEF Fixed, Fixing, Reported, ReportIsTrue
<1> QED BY <1>1, <1>4, <1>6, IdleOnCourse DEF Inv

-----------------------------------------------------------------------------
(* The world outside.                                                      *)

\* What an outside step may not do to a run: a report that was true stays so.
LEMMA OutsideKeeps ==
    ASSUME Inv, Sane', UNCHANGED <<plan, report, infra, fixtures, dirty, misread>>,
           RunTyped', proc'.pc = proc.pc, proc'.cmd = proc.cmd, proc'.x = proc.x,
           \A x \in Components : apps[x] = "absent" => apps'[x] = "absent",
           tainted' = tainted, Whole => Whole', down' \subseteq down,
           infra = {} /\ ~alb /\ ~drill => ~alb' /\ ~drill'
    PROVE  Inv'
<1>1. OnCourse'
  <2>1. Planned' /\ Configured'
      BY DEF Inv, OnCourse, Planned, Configured
  <2>2. Gone'
      BY DEF Inv, OnCourse, Gone, Applying, Components
  <2>3. Healing'
      BY DEF Inv, OnCourse, Healing, NoDrift, Whole
  <2> QED BY <2>1, <2>2, <2>3 DEF OnCourse
<1>2. Fixed'
    BY DEF Inv, Fixed
<1>3. Reported'
  <2>0. AllHealthy => AllHealthy' /\ Whole'
      BY DEF AllHealthy, Healthy, Whole, Components
  <2>1. Complete => Complete'
    <3>1. ASSUME Complete PROVE Complete'
      <4>1. ingress' = "up" /\ alb' /\ AllHealthy'
          BY <2>0, <3>1 DEF Complete, Whole
      <4>2. NoDrift' /\ Serves(FALSE)'
          BY <3>1, <4>1 DEF Complete, NoDrift, Serves
      <4> QED BY <4>1, <4>2 DEF Complete
    <3> QED BY <3>1
  <2>2. ReportIsTrue
      BY DEF Inv, Reported
  <2>3. ReportIsTrue'
    <3>1. report.cmd = "resilience" => fixtures = {} \/ dirty
        BY <2>2 DEF ReportIsTrue
    <3>2. CASE report.result # "passed"
        BY <2>2, <3>1, <3>2 DEF ReportIsTrue
    <3>3. CASE report.result = "passed" /\ report.cmd = "teardown"
        BY <2>2, <3>3 DEF ReportIsTrue
    <3>4. CASE report.result = "passed" /\ report.cmd = "resilience"
        BY <2>2, <3>1, <3>4 DEF ReportIsTrue
    <3>5. CASE report.result = "passed" /\ report.cmd = "status"
        BY <2>0, <2>2, <3>5 DEF ReportIsTrue
    <3>6. CASE report.result = "passed" /\ report.cmd \notin {"teardown", "resilience", "status"}
        BY <2>1, <2>2, <3>6 DEF ReportIsTrue
    <3> QED BY <3>2, <3>3, <3>4, <3>5, <3>6
  <2> QED BY <2>3 DEF Inv, Reported
<1> QED BY <1>1, <1>2, <1>3 DEF Inv

\* Nothing runs where no release is installed, and releases need the cluster.
LEMMA ReleasesNeedCluster ==
    ASSUME Sane, Argo \/ Lbc
    PROVE  Reachable /\ infra # {}
    BY DEF Sane, NoCluster, Argo, Lbc, Reachable

LEMMA BootKeeps ==
    ASSUME Inv, Boot
    PROVE  Inv'
<1> USE DEF Boot, CanBoot
<1>1. /\ UNCHANGED <<proc, plan, report, infra, tainted, down, alb, seed, ctl, apps, ingress,
                     lost, fixtures, drill, misread, dirty>>
      /\ broker' = "current" /\ volume' = "bound" /\ broker = "down" /\ seed
      /\ apps["platform"] = "present"
    BY DEF Calm, histVars, runVars, awsVars
<1>2. Reachable /\ infra # {}
    BY ReleasesNeedCluster DEF Inv
<1>3. Sane'
  <2>1. WorldTyped' /\ InVPC'
      BY <1>1 DEF Inv, Sane, WorldTyped, InVPC
  <2>2. Seeded' /\ NoCluster'
      BY <1>1, <1>2 DEF Inv, Sane, Seeded, NoCluster, Reachable
  <2>3. OwnedByApps'
      BY <1>1 DEF Inv, Sane, OwnedByApps
  <2>4. ClusterGoesLast' /\ CredentialsAgree'
      BY <1>1 DEF Inv, Sane, ClusterGoesLast, CredentialsAgree, Reachable
  <2> QED BY <2>1, <2>2, <2>3, <2>4 DEF Sane
<1>4. RunTyped'
    BY <1>1 DEF Inv, OnCourse, RunTyped
<1>5. Whole => Whole'
    BY <1>1 DEF Whole
<1> QED BY <1>1, <1>3, <1>4, <1>5, OutsideKeeps

LEMMA SyncKeeps ==
    ASSUME Inv, Sync
    PROVE  Inv'
<1> USE DEF Sync, CanSync
<1>1. /\ UNCHANGED <<proc, plan, report, infra, tainted, down, alb, seed, ctl, apps, broker,
                     volume, lost, fixtures, drill, misread, dirty>>
      /\ ingress' = "up" /\ apps["app"] = "present"
    BY DEF Calm, histVars, runVars, awsVars, podVars
<1>2. Reachable /\ infra # {}
    BY ReleasesNeedCluster DEF Inv
<1>3. Sane'
  <2>1. WorldTyped' /\ InVPC' /\ Seeded'
      BY <1>1, RestStays DEF Inv, Sane, WorldTyped
  <2>2. NoCluster' /\ OwnedByApps'
      BY <1>1, <1>2 DEF Inv, Sane, OwnedByApps, NoCluster, Reachable
  <2>3. ClusterGoesLast' /\ CredentialsAgree'
      BY <1>1 DEF Inv, Sane, ClusterGoesLast, CredentialsAgree, Reachable
  <2> QED BY <2>1, <2>2, <2>3 DEF Sane
<1>4. RunTyped'
    BY <1>1 DEF Inv, OnCourse, RunTyped
<1>5. Whole => Whole'
    BY <1>1 DEF Whole
<1> QED BY <1>1, <1>3, <1>4, <1>5, OutsideKeeps

LEMMA PruneKeeps ==
    ASSUME Inv, Prune
    PROVE  Inv'
<1> USE DEF Prune, CanPrune
<1>1. /\ UNCHANGED <<proc, plan, report, infra, tainted, down, alb, seed, ctl, apps, broker,
                     volume, lost, fixtures, drill, misread, dirty>>
      /\ ingress' = "terminating" /\ apps["app"] = "deleting"
    BY DEF Calm, histVars, runVars, awsVars, podVars
<1>2. Reachable /\ infra # {}
    BY ReleasesNeedCluster DEF Inv
<1>3. Sane'
  <2>1. WorldTyped' /\ InVPC' /\ Seeded'
      BY <1>1, RestStays DEF Inv, Sane, WorldTyped
  <2>2. NoCluster' /\ OwnedByApps'
      BY <1>1, <1>2 DEF Inv, Sane, OwnedByApps, NoCluster, Reachable
  <2>3. ClusterGoesLast' /\ CredentialsAgree'
      BY <1>1 DEF Inv, Sane, ClusterGoesLast, CredentialsAgree, Reachable
  <2> QED BY <2>1, <2>2, <2>3 DEF Sane
<1>4. RunTyped'
    BY <1>1 DEF Inv, OnCourse, RunTyped
<1>5. ~Whole
    BY <1>1 DEF Whole, Components
<1> QED BY <1>1, <1>3, <1>4, <1>5, OutsideKeeps

LEMMA FinishKeeps ==
    ASSUME Inv, NEW x \in Components, Finish(x)
    PROVE  Inv'
<1> USE DEF Finish, CanFinish
<1>1. /\ UNCHANGED <<proc, plan, report, infra, tainted, alb, seed, ctl, ingress, lost,
                     fixtures, drill, misread, dirty>>
      /\ apps' = [apps EXCEPT ![x] = "absent"] /\ apps[x] = "deleting"
      /\ x = "app" => ingress = "none"
      /\ broker' = broker \/ broker' = "down"
      /\ down' \subseteq down
      /\ volume = "none" => volume' = "none"
      /\ volume' = "bound" => volume = "bound"
      /\ x = "platform" => broker' = "down" /\ volume' # "bound"
    BY DEF Calm, histVars, runVars, awsVars
<1>2. Reachable /\ infra # {}
    BY ReleasesNeedCluster DEF Inv
<1>3. /\ apps' \in [Components -> {"absent", "present", "deleting"}]
      /\ \A y \in Components : apps[y] = "absent" => apps'[y] = "absent"
      /\ \A y \in Components : apps'[y] = "absent" => apps[y] = "absent" \/ y = x
    BY <1>1 DEF Inv, Sane, WorldTyped
<1>4. Sane'
  <2>1. WorldTyped' /\ InVPC'
      BY <1>1, <1>3 DEF Inv, Sane, WorldTyped, InVPC
  <2>2. Seeded'
      BY <1>1 DEF Inv, Sane, Seeded
  <2>3. NoCluster'
      BY <1>1, <1>2 DEF NoCluster, Reachable
  <2>4. OwnedByApps'
      BY <1>1, <1>3 DEF Inv, Sane, OwnedByApps, Components
  <2>5. ClusterGoesLast' /\ CredentialsAgree'
      BY <1>1 DEF Inv, Sane, ClusterGoesLast, CredentialsAgree, Reachable
  <2> QED BY <2>1, <2>2, <2>3, <2>4, <2>5 DEF Sane
<1>5. RunTyped'
    BY <1>1 DEF Inv, OnCourse, RunTyped
<1>6. ~Whole
    BY <1>1 DEF Whole
<1> QED BY <1>1, <1>3, <1>4, <1>5, <1>6, OutsideKeeps

LEMMA ReclaimKeeps ==
    ASSUME Inv, Reclaim
    PROVE  Inv'
<1> USE DEF Reclaim
<1>1. /\ UNCHANGED <<proc, plan, report, infra, tainted, down, alb, seed, ctl, apps, ingress,
                     broker, lost, fixtures, drill, misread, dirty>>
      /\ volume' = "none"
    BY DEF Calm, histVars, runVars, awsVars
<1>2. Sane'
  <2>1. WorldTyped' /\ InVPC' /\ Seeded'
      BY <1>1, RestStays DEF Inv, Sane, WorldTyped
  <2>2. NoCluster' /\ OwnedByApps'
      BY <1>1 DEF Inv, Sane, OwnedByApps, NoCluster, Reachable
  <2>3. ClusterGoesLast' /\ CredentialsAgree'
      BY <1>1 DEF Inv, Sane, ClusterGoesLast, CredentialsAgree, Reachable
  <2> QED BY <2>1, <2>2, <2>3 DEF Sane
<1>3. RunTyped'
    BY <1>1 DEF Inv, OnCourse, RunTyped
<1>4. Whole => Whole'
    BY <1>1 DEF Whole
<1> QED BY <1>1, <1>2, <1>3, <1>4, OutsideKeeps

\* A pod that comes back takes nothing away.
LEMMA RestoreKeeps ==
    ASSUME Inv, NEW pod, Restore(pod)
    PROVE  Inv'
<1> USE DEF Restore
<1>1. /\ UNCHANGED <<proc, plan, report, infra, tainted, alb, seed, ctl, apps, ingress, broker,
                     volume, lost, fixtures, drill, misread, dirty>>
      /\ down' \subseteq down
    BY DEF Calm, histVars, runVars, awsVars
<1>2. Sane'
    BY <1>1, ProbesKeepSane DEF Inv
<1>3. RunTyped'
    BY <1>1 DEF Inv, OnCourse, RunTyped
<1>4. Whole => Whole'
    BY <1>1 DEF Whole
<1> QED BY <1>1, <1>2, <1>3, <1>4, OutsideKeeps

LEMMA BalanceKeeps ==
    ASSUME Inv, Balance
    PROVE  Inv'
<1> USE DEF Balance, CanBalance
<1>1. /\ UNCHANGED <<proc, plan, report, infra, tainted, down, seed, ctl, apps, ingress,
                     broker, volume, lost, fixtures, drill, misread, dirty>>
      /\ alb' = TRUE /\ ingress = "up"
    BY DEF Calm, histVars, runVars, kubeVars, podVars
<1>2. Reachable /\ infra # {}
    BY ReleasesNeedCluster DEF Inv
<1>3. Sane'
  <2>1. WorldTyped' /\ InVPC' /\ Seeded'
      BY <1>1, RestStays DEF Inv, Sane, WorldTyped
  <2>2. NoCluster' /\ OwnedByApps'
      BY <1>1 DEF Inv, Sane, OwnedByApps, NoCluster, Reachable
  <2>3. ClusterGoesLast' /\ CredentialsAgree'
      BY <1>1, <1>2 DEF Inv, Sane, ClusterGoesLast, CredentialsAgree, Reachable
  <2> QED BY <2>1, <2>2, <2>3 DEF Sane
<1>4. RunTyped'
    BY <1>1 DEF Inv, OnCourse, RunTyped
<1>5. Whole => Whole'
    BY <1>1 DEF Whole
<1> QED BY <1>1, <1>2, <1>3, <1>4, <1>5, OutsideKeeps

\* The ALB goes with the Ingress: an environment whose Ingress is terminating
\* was not healthy.
LEMMA UnbalanceKeeps ==
    ASSUME Inv, Unbalance
    PROVE  Inv'
<1> USE DEF Unbalance, CanUnbalance
<1>1. /\ UNCHANGED <<plan, report, infra, tainted, down, seed, ctl, apps, broker, volume, lost,
                     fixtures, drill, misread, dirty>>
      /\ alb' = FALSE /\ ingress' = "none" /\ ingress = "terminating"
    BY DEF Calm, histVars, podVars
<1>2. Sane'
  <2>1. WorldTyped' /\ InVPC' /\ Seeded'
      BY <1>1, RestStays DEF Inv, Sane, WorldTyped
  <2>2. NoCluster' /\ OwnedByApps'
      BY <1>1 DEF Inv, Sane, OwnedByApps, NoCluster, Reachable
  <2>3. ClusterGoesLast' /\ CredentialsAgree'
      BY <1>1 DEF Inv, Sane, ClusterGoesLast, CredentialsAgree, Reachable
  <2> QED BY <2>1, <2>2, <2>3 DEF Sane
<1>3. RunTyped
    BY DEF Inv, OnCourse
<1>4. RunTyped' /\ proc'.pc = proc.pc /\ proc'.cmd = proc.cmd /\ proc'.x = proc.x
    BY <1>1, <1>3 DEF RunTyped
<1>5. ~Whole
    BY <1>1 DEF Whole, Components
<1> QED BY <1>1, <1>2, <1>4, <1>5, OutsideKeeps

LEMMA OthersKeep ==
    ASSUME Inv, Promote \/ SelectRecovery
    PROVE  Inv'
<1>1. UNCHANGED <<proc, plan, report, infra, tainted, down, alb, seed, ctl, apps, ingress,
                  broker, volume, lost, fixtures, drill, misread, dirty>>
    BY DEF Promote, SelectRecovery, Calm, histVars, runVars, kubeVars, podVars
<1>2. Sane'
  <2>1. WorldTyped' /\ InVPC' /\ Seeded'
      BY <1>1, RestStays DEF Inv, Sane, WorldTyped
  <2>2. NoCluster' /\ OwnedByApps'
      BY <1>1 DEF Inv, Sane, OwnedByApps, NoCluster, Reachable
  <2>3. ClusterGoesLast' /\ CredentialsAgree'
      BY <1>1 DEF Inv, Sane, ClusterGoesLast, CredentialsAgree, Reachable
  <2> QED BY <2>1, <2>2, <2>3 DEF Sane
<1>3. RunTyped'
    BY <1>1 DEF Inv, OnCourse, RunTyped
<1>4. Whole => Whole'
    BY <1>1 DEF Whole
<1> QED BY <1>1, <1>2, <1>3, <1>4, OutsideKeeps

\* A drill's target lives in the VPC of the database it restores.
LEMMA DrillKeeps ==
    ASSUME Inv, DrillStarts \/ DrillEnds
    PROVE  Inv'
<1>1. /\ UNCHANGED <<proc, plan, report, infra, tainted, down, alb, seed, ctl, apps, ingress,
                     broker, volume, lost, fixtures, misread, dirty>>
      /\ drill' \in BOOLEAN /\ (drill' => "rds" \in infra)
    BY DEF DrillStarts, DrillEnds, Calm, histVars, runVars, awsVars, kubeVars, podVars
<1>2. Sane'
  <2>1. WorldTyped' /\ InVPC' /\ Seeded'
      BY <1>1 DEF Inv, Sane, WorldTyped, InVPC, Seeded
  <2>2. NoCluster' /\ OwnedByApps'
      BY <1>1 DEF Inv, Sane, OwnedByApps, NoCluster, Reachable
  <2>3. ClusterGoesLast' /\ CredentialsAgree'
      BY <1>1 DEF Inv, Sane, ClusterGoesLast, CredentialsAgree, Reachable
  <2> QED BY <2>1, <2>2, <2>3 DEF Sane
<1>3. RunTyped'
    BY <1>1 DEF Inv, OnCourse, RunTyped
<1>4. Whole => Whole'
    BY <1>1 DEF Whole
<1> QED BY <1>1, <1>2, <1>3, <1>4, OutsideKeeps

-----------------------------------------------------------------------------
(* The theorems.                                                           *)

LEMMA InitInv == Init => Inv
<1> SUFFICES ASSUME Init PROVE Inv
    OBVIOUS
<1> USE DEF Init
<1>1. Sane
  <2>1. WorldTyped /\ InVPC /\ Seeded
      BY DEF WorldTyped, InVPC, Seeded
  <2>2. NoCluster /\ OwnedByApps
      BY DEF NoCluster, OwnedByApps, Components
  <2>3. ClusterGoesLast /\ CredentialsAgree
      BY DEF ClusterGoesLast, CredentialsAgree
  <2> QED BY <2>1, <2>2, <2>3 DEF Sane
<1>2. proc.pc = "idle"
    BY DEF Idle
<1>3. RunTyped
    BY DEF Idle, Unplanned, RunTyped, Components, Points
<1>4. OnCourse
    BY <1>2, <1>3
    DEF OnCourse, Planned, Configured, Gone, Removing, Configuring, Applying, Healing
<1>5. Fixed /\ Reported
    BY <1>2 DEF Fixed, Fixing, Reported, ReportIsTrue, Silent
<1> QED BY <1>1, <1>4, <1>5 DEF Inv

LEMMA NextInv == Inv /\ [Next]_vars => Inv'
<1> SUFFICES ASSUME Inv, [Next]_vars PROVE Inv'
    OBVIOUS
<1>1. ASSUME NEW c \in Commands, Start(c) PROVE Inv'
    BY <1>1, StartKeeps
<1>2. CASE EngineStep
    BY <1>2, PreflightKeeps, BootstrapKeeps, BootApproveKeeps, BootApplyKeeps, PlanKeeps,
       ApproveKeeps, ApplyKeeps, OutputsKeeps, HostnameKeeps, RemoveIngressKeeps,
       IngressRemovedKeeps, AwaitALBKeeps, UninstallKeeps, LoadKeeps, SeedKeeps, InstallKeeps,
       WaitsKeep, ConvergeKeeps, FailsKeeps, RemoveKeeps, RemovedKeeps, ApplyManifestKeeps,
       VerifyKeeps, HealedKeeps, ResilienceKeeps, FixtureStepsKeep, CleanupKeeps
    DEF EngineStep
<1>3. CASE Failure
    BY <1>3, BootApplyKeeps, ApplyFailsKeeps, FixtureStepsKeep, CleanupKeeps, FailsKeeps,
       HelmFailsKeeps, CrashKeeps, TamperKeeps
    DEF Failure
<1>4. CASE Controllers
    BY <1>4, BootKeeps, SyncKeeps, PruneKeeps, BalanceKeeps, UnbalanceKeeps, ReclaimKeeps,
       FinishKeeps, RestoreKeeps
    DEF Controllers
<1>5. CASE Promote \/ SelectRecovery \/ DrillStarts \/ DrillEnds
    BY <1>5, OthersKeep, DrillKeeps
<1>6. CASE UNCHANGED vars
  <2>1. /\ UNCHANGED <<proc, plan, report, infra, tainted, alb, seed, ctl, apps, ingress, broker,
                       volume, lost, down, fixtures, drill, misread, dirty>>
        /\ UNCHANGED World
      BY <1>6 DEF vars, World, awsVars, kubeVars, podVars
  <2>2. Sane'
      BY <2>1, SaneStays DEF Inv
  <2>3. RunTyped'
      BY <2>1 DEF Inv, OnCourse, RunTyped
  <2>4. Whole => Whole'
      BY <2>1 DEF Whole
  <2> QED BY <2>1, <2>2, <2>3, <2>4, OutsideKeeps
<1> QED BY <1>1, <1>2, <1>3, <1>4, <1>5, <1>6 DEF Next

\* The inductive invariant: the world is sane, the command on its course, its
\* fixtures known of and its report true.
THEOREM Invariance == Spec => []Inv
    BY InitInv, NextInv, PTL DEF Spec

\* prod teardown removes the Applications, waits until they are gone and only
\* then destroys the cluster: an ALB that outlives it, or the volume of a
\* running broker, is one whose Application a failed kubectl get had hidden.
THEOREM ClusterIsLast == Spec => []ClusterGoesLast
<1>1. Inv => ClusterGoesLast
    BY DEF Inv, Sane
<1> QED BY <1>1, Invariance, PTL

\* seedApplicationSecret never replaces a password that RabbitMQ booted with,
\* unless its read of the secret failed or the broker's volume survived a
\* teardown that could not see the Application.
THEOREM PasswordKept == Spec => []CredentialsAgree
<1>1. Inv => CredentialsAgree
    BY DEF Inv, Sane
<1> QED BY <1>1, Invariance, PTL

\* A command of the engine that returns without an error has done what it is
\* for, and the failure tests leave no fixture behind that nobody knows of.
THEOREM SuccessIsTrue == Spec => []ReportIsTrue
<1>1. Inv => ReportIsTrue
    BY DEF Inv, Reported
<1> QED BY <1>1, Invariance, PTL
=============================================================================
