---------------------------- MODULE Environments ----------------------------
(***************************************************************************)
(* platformctl dev | ci | github: three engines of one shape (preflight,   *)
(* plan, approve, apply, configure, verify) run by one operator against    *)
(* Terraform states of their own, and the state they share with PROD: the  *)
(* retained backend boundary, which ci setup applies and prod setup only   *)
(* checks.                                                                 *)
(*                                                                         *)
(* A plan is the set of resources it leads to.  A resource whose creation  *)
(* failed is recorded as tainted, and the next plan replaces it.  The      *)
(* runner kills Terraform when a command times out or is interrupted: what *)
(* was done stays done, a resource being created may never be recorded,    *)
(* and the lock of the state stays taken.                                  *)
(***************************************************************************)
EXTENDS Naturals

CONSTANTS
    Required,    \* RequiredRepositorySecrets
    Local,       \* the secrets with a file on the operator's machine
    MaxFaults,   \* bound: failed calls, refused approvals, killed processes
    MaxOthers    \* bound: everything but the commands that are run for ever

ASSUME EnvironmentsAssumption ==
    Local \subseteq Required /\ MaxFaults \in Nat /\ MaxOthers \in Nat

Actions == [dev |-> {"setup", "status", "teardown"}, ci |-> {"setup", "status", "teardown"},
            github |-> {"bootstrap", "doctor"}]

\* What each Terraform state holds when its configuration is fully applied.
\* retained: the backup bucket, repositories, network and delivery role;
\* grant: the policy of the CI backend role and its attachment.
All == [dev |-> {"retained", "nodes", "disks"}, boot |-> {"role", "grant"},
        ci |-> {"net", "roles", "host"}, gov |-> {"rules"}]
States  == DOMAIN All
Parts   == UNION {All[f] : f \in States}
Runtime == {"nodes", "disks"}

\* Created under a fixed name: a second creation is refused.
Named   == {"retained", "role", "grant", "roles", "rules"}
Revisable == {"nodes", "disks", "host", "rules"}

VARIABLES
    run,        \* the running command, its point and what is left of its plan
    said,       \* what the command that just ended said
    have,       \* what each Terraform state records; all of it exists
    stray,      \* resources that exist and no state records
    lock,       \* states whose lock a killed Terraform left taken
    tainted,    \* recorded parts whose creation failed
    revised,    \* parts whose configuration now asks for a replacement
    conf,       \* environments whose hosts Ansible has configured
    backup,     \* the backup bucket holds a base backup, of this or an earlier database
    want,       \* what the operator runs on dev and ci again and again: setup, teardown
    candidates, \* the candidate repositories, made by prod setup
    secrets,    \* repository secrets that are set
    faults, others

runVars  == <<run, said>>
tfVars   == <<have, stray, lock, tainted>>
devVars  == <<conf, backup>>
restVars == <<want, revised, candidates, secrets>>
vars == <<run, said, have, stray, lock, tainted, revised, conf, backup, want, candidates,
          secrets, faults, others>>

Idle   == [env |-> "none", act |-> "none", pc |-> "idle", todo |-> {}, swap |-> {}, set |-> {}]
Silent == [env |-> "none", act |-> "none", result |-> "none", empty |-> FALSE]

\* PROD's state bucket exists, with a boundary from before or after the CI
\* role became part of it.
Init ==
    /\ run = Idle /\ said = Silent
    /\ \E boundary \in {{}, All.boot} :
         have = [f \in States |-> IF f = "boot" THEN boundary ELSE {}]
    /\ stray = {} /\ lock = {} /\ tainted = {} /\ revised = {}
    /\ conf = {} /\ backup = FALSE
    /\ want \in {"setup", "teardown"}
    /\ candidates \in BOOLEAN
    /\ secrets \in {{}, Required \ Local}
    /\ faults = 0 /\ others = 0

-----------------------------------------------------------------------------
At(pc)   == run.pc = pc
Goto(pc) == run' = [run EXCEPT !.pc = pc] /\ UNCHANGED said

\* Run returns; empty: what it passed was the inventory of a teardown.
EndAs(result, empty) ==
    /\ run' = Idle
    /\ said' = [env |-> run.env, act |-> run.act, result |-> result, empty |-> empty]
End(result) == EndAs(result, FALSE)

Budget == UNCHANGED <<faults, others>>
Fault  == faults < MaxFaults /\ faults' = faults + 1 /\ UNCHANGED others
Other  == others < MaxOthers /\ others' = others + 1 /\ UNCHANGED faults

\* What AWS shows, recorded or not.
Exists(p) == p \in stray \/ \E f \in States : p \in have[f]
Granted   == "grant" \in have["boot"]

\* The command the operator runs on env again and again.
Lasting(env) == IF env = "github" THEN "bootstrap" ELSE want

Start(env, act) ==
    /\ At("idle")
    /\ IF act = Lasting(env) THEN Budget ELSE Other
    /\ run' = [Idle EXCEPT !.env = env, !.act = act,
                           !.pc = IF env = "github" THEN "plan" ELSE "preflight"]
    /\ said' = Silent
    /\ UNCHANGED <<tfVars, devVars, restVars>>

\* verifyRetainedBackup asks for a base backup, of whatever database;
\* validateCandidateRepositories for repositories that prod setup makes.
PreflightPasses ==
    /\ run.env = "dev" /\ run.act = "teardown" => backup
    /\ run.env = "ci" /\ run.act = "setup" => candidates

Preflight ==
    /\ At("preflight")
    /\ IF PreflightPasses
       THEN Goto(IF run.act = "status" THEN "verify" ELSE "plan")
       ELSE End("failed")
    /\ Budget /\ UNCHANGED <<tfVars, devVars, restVars>>

-----------------------------------------------------------------------------
(* Plan: the lock of every planned state, then the policy. *)

\* Mutant: the volumes do not depend on dev_runtime_enabled.
Target_KeepsVolumes(f) ==
    CASE run.act = "teardown" /\ f = "ci"  -> {}
      [] run.act = "teardown" /\ f = "dev" -> All.dev \ {"nodes"}
      [] OTHER -> All[f]

Target(f) ==
    CASE run.act = "teardown" /\ f = "ci"  -> {}
      [] run.act = "teardown" /\ f = "dev" -> All.dev \ Runtime
      [] OTHER -> All[f]

Planned == CASE run.env = "dev" -> {"dev"}
             [] run.env = "ci" -> IF run.act = "setup" THEN {"boot", "ci"} ELSE {"ci"}
             [] run.env = "github" -> {"gov"}

\* Parts the plan replaces: those it keeps that are tainted or whose
\* configuration changed.
Replaced(f) == (revised \cup tainted) \cap have[f] \cap Target(f)

\* dev_reconcile lets the runtime be replaced; dev_teardown only deletes;
\* reconcile (for the boundary), ci_reconcile and the engine of github refuse
\* every replacement.
PolicyAllows ==
    CASE run.env = "dev" /\ run.act = "setup" -> "retained" \notin Replaced("dev")
      [] run.env = "dev" /\ run.act = "teardown" ->
           Target("dev") \subseteq have["dev"] /\ Replaced("dev") = {}
      [] OTHER -> \A f \in Planned : Replaced(f) = {}

\* initRemote: the foundation's state is read with the scoped role as soon as
\* a role of that name exists, and the role is of use once it has its policy.
BackendOpens ==
    run.env = "ci" => IF Exists("role") THEN Granted ELSE run.act = "setup"

Changed == {f \in Planned : have[f] # Target(f) \/ Replaced(f) # {}}

\* Mutant: hosts are configured only after a change of the infrastructure.
AfterApply_OnlyChanged ==
    IF run.act = "setup" /\ At("apply") THEN "configure" ELSE "verify"

\* A setup configures the hosts, also when there was nothing to apply.
AfterApply ==
    IF run.act = "setup" THEN "configure" ELSE "verify"

Refused == Planned \cap lock # {} \/ ~BackendOpens \/ ~PolicyAllows

\* The plan of dev and ci; an empty one needs no approval.
PlanRuntime ==
    /\ At("plan") /\ run.env # "github"
    /\ IF Refused
       THEN End("failed")
       ELSE /\ run' = [run EXCEPT !.pc = IF Changed = {} THEN AfterApply ELSE "approve",
                                  !.todo = Changed,
                                  !.swap = UNION {Replaced(f) : f \in Planned}]
            /\ UNCHANGED said
    /\ Budget /\ UNCHANGED <<tfVars, devVars, restVars>>

\* Bootstrap: a required secret is set already or has a local file.
PlanBootstrap ==
    /\ At("plan") /\ run.act = "bootstrap"
    /\ IF Refused \/ ~(Required \subseteq Local \cup secrets)
       THEN End("failed")
       ELSE /\ run' = [run EXCEPT !.pc = "approve", !.todo = {"gov"}, !.set = Local]
            /\ UNCHANGED said
    /\ Budget /\ UNCHANGED <<tfVars, devVars, restVars>>

\* Doctor: any change of the plan is drift.
PlanDoctor ==
    /\ At("plan") /\ run.act = "doctor"
    /\ IF Refused \/ Changed # {} THEN End("failed") ELSE Goto("verify")
    /\ Budget /\ UNCHANGED <<tfVars, devVars, restVars>>

Approve ==
    /\ At("approve")
    /\ Goto("apply")
    /\ Budget /\ UNCHANGED <<tfVars, devVars, restVars>>

-----------------------------------------------------------------------------
(* Apply: the boundary before the foundation. *)

\* Mutant: the foundation goes first.
Turn_Reversed(f) ==
    f \in run.todo /\ (f = "boot" => "ci" \notin run.todo)

Turn(f) ==
    f \in run.todo /\ (f = "ci" => "boot" \notin run.todo)

\* Terraform creates what others need first, and destroys it last.
Ordered(s) == /\ "grant" \in s => "role" \in s
              /\ "host" \in s => {"net", "roles"} \subseteq s

Clash(f) == (Target(f) \ have[f]) \cap stray \cap Named # {}

\* The state of f after an apply that destroyed gone and created made, of
\* which the parts in broken are not complete.
Applied(f, gone, made, broken) ==
    /\ have' = [have EXCEPT ![f] = (@ \ gone) \cup made]
    /\ tainted' = (tainted \ gone) \cup broken
    /\ revised' = revised \ gone
    /\ conf' = {e \in conf : gone \cap (IF e = "dev" THEN Runtime ELSE {"host"}) = {}}
    /\ UNCHANGED <<want, backup, candidates, secrets>>

Gone(f) == (have[f] \ Target(f)) \cup (run.swap \cap have[f])
Made(f) == (Target(f) \ have[f]) \cup (run.swap \cap have[f])

Apply ==
    /\ At("apply")
    /\ \E f \in run.todo :
         /\ Turn(f) /\ ~Clash(f)
         /\ Applied(f, Gone(f), Made(f), {})
         /\ run' = [run EXCEPT !.todo = @ \ {f},
                               !.pc = IF run.todo # {f} THEN "apply"
                                      ELSE IF run.env = "github" THEN "secrets"
                                      ELSE AfterApply]
    /\ UNCHANGED <<said, stray, lock>> /\ Budget

\* A part of the changes is made, nothing on top of a broken part: destroyed
\* parts may not have come back.
Halfway(f, broken) ==
    \E gone \in SUBSET Gone(f), made \in SUBSET Made(f) :
      /\ made \cap have[f] \subseteq gone /\ broken \subseteq made
      /\ made \cap stray \cap Named = {}
      /\ Ordered((have[f] \ gone) \cup made) /\ Ordered(((have[f] \ gone) \cup made) \ broken)
      /\ Applied(f, gone, made, broken)

\* Something of that name exists already: everything else may be applied.
ApplyRefused ==
    /\ At("apply")
    /\ \E f \in run.todo : Turn(f) /\ Clash(f) /\ Halfway(f, {})
    /\ End("failed")
    /\ UNCHANGED <<stray, lock>> /\ Budget

\* Terraform reports an error, and records what it did: a resource whose
\* creation failed after AWS had made it is tainted.
ApplyFails ==
    /\ At("apply")
    /\ \E f \in run.todo : Turn(f) /\ (Halfway(f, {}) \/ \E p \in Made(f) : Halfway(f, {p}))
    /\ End("failed") /\ Fault
    /\ UNCHANGED <<stray, lock>>

\* The timeout or the interrupt kills Terraform.
ApplyKilled ==
    /\ At("apply")
    /\ \E f \in run.todo :
         /\ Turn(f) /\ Halfway(f, {})
         /\ lock' = lock \cup {f}
         /\ \E unrecorded \in {{}} \cup {{p} : p \in Made(f) \ stray} :
              /\ unrecorded \cap have'[f] = {}
              /\ Ordered(have'[f] \cup unrecorded)
              /\ stray' = stray \cup unrecorded
    /\ End("failed") /\ Fault

PlanKilled ==
    /\ At("plan") /\ Planned \cap lock = {} /\ BackendOpens
    /\ \E f \in Planned : lock' = lock \cup {f}
    /\ End("failed") /\ Fault
    /\ UNCHANGED <<have, stray, tainted, devVars, restVars>>

-----------------------------------------------------------------------------
(* Configure, the secrets, verify. *)

\* The playbooks find hosts by their tags: a stray one is configured too,
\* or stops the play.
PlayStops(host) ==
    /\ host \in stray
    /\ End("failed") /\ UNCHANGED conf

\* site.yml and gitops_cicd.yml.
ConfigureDev ==
    /\ At("configure") /\ run.env = "dev"
    /\ \/ conf' = conf \cup {"dev"} /\ Goto("verify")
       \/ PlayStops("nodes")
    /\ Budget /\ UNCHANGED <<tfVars, restVars, backup>>

ConfigureCI ==
    /\ At("configure") /\ run.env = "ci"
    /\ \/ conf' = conf \cup {"ci"} /\ Goto("verify")
       \/ PlayStops("host")
    /\ Budget /\ UNCHANGED <<tfVars, restVars, backup>>

\* One call for each secret with a local file.
SetSecret ==
    /\ At("secrets")
    /\ \/ \E s \in run.set : /\ secrets' = secrets \cup {s}
                             /\ run' = [run EXCEPT !.set = @ \ {s}]
       \/ run.set = {} /\ run' = [run EXCEPT !.pc = "verify"] /\ UNCHANGED secrets
    /\ UNCHANGED said
    /\ Budget /\ UNCHANGED <<tfVars, devVars, want, revised, candidates>>

\* Mutant: the inventory counts instances only.
DevInventoryEmpty_NoVolumes ==
    ~Exists("nodes") /\ "retained" \in have["dev"] \cup stray /\ backup

\* verifyTeardown: nothing billable by tag, everything retained still there.
DevInventoryEmpty ==
    /\ \A p \in Runtime : ~Exists(p)
    /\ "retained" \in have["dev"] \cup stray /\ backup

DevRuntimeHealthy == Runtime \subseteq have["dev"] /\ "dev" \in conf

\* A status with no instance becomes the inventory of a teardown.
VerifyDev ==
    /\ At("verify") /\ run.env = "dev"
    /\ IF run.act = "teardown" \/ (run.act = "status" /\ ~Exists("nodes"))
       THEN EndAs(IF DevInventoryEmpty THEN "passed" ELSE "failed", TRUE)
       ELSE End(IF DevRuntimeHealthy THEN "passed" ELSE "failed")
    /\ Budget /\ UNCHANGED <<tfVars, devVars, restVars>>

CIHealthy == Granted /\ "host" \in have["ci"] /\ "ci" \in conf

VerifyCI ==
    /\ At("verify") /\ run.env = "ci"
    /\ IF run.act = "teardown"
       THEN EndAs(IF \A p \in All.ci : ~Exists(p) THEN "passed" ELSE "failed", TRUE)
       ELSE End(IF CIHealthy THEN "passed" ELSE "failed")
    /\ Budget /\ UNCHANGED <<tfVars, devVars, restVars>>

VerifyGitHub ==
    /\ At("verify") /\ run.env = "github"
    /\ End(IF Required \subseteq secrets /\ Exists("rules") THEN "passed" ELSE "failed")
    /\ Budget /\ UNCHANGED <<tfVars, devVars, restVars>>

\* Any call fails, or the operator does not approve.
Fails ==
    /\ run.pc \notin {"idle", "apply"}
    /\ End("failed") /\ Fault
    /\ UNCHANGED <<tfVars, devVars, restVars>>

-----------------------------------------------------------------------------
(* The rest of the world. *)

\* prod setup stops at verifyBootstrapClean unless the boundary is complete;
\* its foundation then makes the candidate repositories.
ProdSetup ==
    /\ ~candidates /\ have["boot"] = All.boot /\ tainted \cap All.boot = {} /\ "boot" \notin lock
    /\ candidates' = TRUE
    /\ Budget /\ UNCHANGED <<runVars, tfVars, devVars, want, revised, secrets>>

\* CloudNativePG's base backup, scheduled for midnight; no retention policy
\* is set in its ObjectStore, so none is removed.
Backup ==
    /\ DevRuntimeHealthy /\ "retained" \in have["dev"] /\ ~backup
    /\ backup' = TRUE
    /\ Budget /\ UNCHANGED <<runVars, tfVars, restVars, conf>>

\* The operator edits the configuration, or takes the edit back.
Revise(p) ==
    /\ At("idle") /\ Exists(p)
    /\ revised' = IF p \in revised THEN revised \ {p} ELSE revised \cup {p}
    /\ Other /\ UNCHANGED <<runVars, tfVars, devVars, want, candidates, secrets>>

\* terraform force-unlock, by hand.
Unlock ==
    /\ At("idle") /\ lock # {}
    /\ lock' = {}
    /\ Other /\ UNCHANGED <<runVars, have, stray, tainted, devVars, restVars>>

Step == \/ Preflight \/ PlanRuntime \/ PlanBootstrap \/ PlanDoctor \/ Approve
        \/ Apply \/ ApplyRefused \/ ConfigureDev \/ ConfigureCI \/ SetSecret \/ VerifyDev \/ VerifyCI \/ VerifyGitHub
Next ==
    \/ \E env \in DOMAIN Actions : \E act \in Actions[env] : Start(env, act)
    \/ Step
    \/ Fails \/ PlanKilled \/ ApplyFails \/ ApplyKilled
    \/ ProdSetup \/ Backup \/ Unlock
    \/ \E p \in Revisable : Revise(p)

\* A command that runs comes to its end, the scheduled backup is made, and
\* the operator runs the lasting commands again and again.
Fairness ==
    /\ WF_vars(Step) /\ WF_vars(ProdSetup) /\ WF_vars(Backup)
    /\ \A env \in DOMAIN Actions : SF_vars(Start(env, Lasting(env)))

Spec == Init /\ [][Next]_vars /\ Fairness

-----------------------------------------------------------------------------
\* What a command that passed stands for: a setup or bootstrap has everything
\* of its configuration, nothing of it half-made, and configured hosts; a
\* teardown (or the status that stands in for it) leaves nothing that is
\* billed, not even a resource that a killed Terraform never recorded, and
\* keeps what is retained.
PassedIsDone ==
    said.result = "passed" =>
      CASE said.empty /\ said.env = "dev" ->
             (\A p \in Runtime : ~Exists(p)) /\ Exists("retained") /\ backup
        [] said.empty /\ said.env = "ci" -> \A p \in All.ci : ~Exists(p)
        [] ~said.empty /\ said.act = "setup" ->
             have[said.env] = All[said.env] /\ said.env \in conf /\ tainted \cap All[said.env] = {}
        [] ~said.empty /\ said.act = "status" ->
             said.env \in conf /\ (IF said.env = "dev" THEN Runtime ELSE All.ci) \subseteq have[said.env]
        [] said.env = "github" -> have["gov"] = All.gov /\ Required \subseteq secrets

\* The CI foundation never exists without its complete boundary: whatever
\* failed or was killed on the way, its state can be opened with the scoped
\* role again.
BoundaryFirst == have["ci"] # {} => have["boot"] = All.boot /\ tainted \cap All.boot = {}

\* The states that setup, run again and again, does not leave: a lock that a
\* killed Terraform left, a resource it did not record, a tainted resource or
\* a reviewed change that no policy lets be replaced, a secret nobody has, a
\* role without its policy (ci setup opens the state with it, prod setup
\* refuses the drift), and a boundary without the role where there are no
\* candidate repositories (ci setup waits for prod setup, prod setup for ci
\* setup).
Stuck(env) ==
    CASE env = "dev" -> \/ "dev" \in lock
                        \/ {"retained", "nodes"} \cap stray # {}
                        \/ "retained" \in tainted
      [] env = "ci" ->
           \/ {"boot", "ci"} \cap lock # {}
           \/ {"role", "grant", "roles", "host"} \cap stray # {}
           \/ tainted \cap (All.boot \cup All.ci) # {}
           \/ "host" \in revised
           \/ Exists("role") /\ ~Granted
           \/ ~Exists("role") /\ ~candidates
      [] env = "github" ->
           \/ "gov" \in lock \/ "rules" \in stray \cup revised \cup tainted
           \/ ~(Required \subseteq Local \cup secrets)

Done(env) ==
    CASE env = "dev" -> have["dev"] = All.dev /\ "dev" \in conf
      [] env = "ci" -> have["ci"] = All.ci /\ "ci" \in conf
      [] env = "github" -> have["gov"] = All.gov /\ Required \subseteq secrets

\* From every failure, half-done apply, teardown or edit, running the setups
\* again ends with each environment complete, or stuck for a reason named
\* above.
SetupsConverge ==
    want = "setup" => <>[](\A env \in DOMAIN Actions : Done(env) \/ Stuck(env))

\* The states that a teardown, run again and again, does not leave: a left
\* lock, a resource no state records, and for DEV retained parts that are
\* missing or half-made (its plan would not only delete) and a runtime that
\* never got healthy before the first base backup (the preflight asks for a
\* backup that nothing will make).
StuckDown(env) ==
    \/ env \in lock
    \/ stray \cap (IF env = "dev" THEN Runtime ELSE All.ci) # {}
    \/ env = "dev" /\ \/ "retained" \notin have["dev"] \/ "retained" \in tainted
                      \/ ~backup /\ ~DevRuntimeHealthy

\* From every half-done setup or teardown, tearing down again ends with
\* nothing billable recorded, or stuck for a reason named above.  The CI state
\* in particular always opens.
TeardownsConverge ==
    want = "teardown" =>
        <>[](/\ have["dev"] \cap Runtime = {} \/ StuckDown("dev")
             /\ have["ci"] = {} \/ StuckDown("ci"))
=============================================================================
