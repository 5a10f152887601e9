--------------------------- MODULE ProdLifecycle ---------------------------
(***************************************************************************)
(* platformctl prod setup | reconcile | status | resilience | teardown:    *)
(* the engine that plans, asks for approval, applies and verifies, against *)
(* what it does not control: Terraform's partial applies, Argo CD and the  *)
(* load balancer controller, a restore drill, failing calls and a process  *)
(* that dies.                                                              *)
(*                                                                         *)
(* One operator runs one command at a time.  Terraform's state and what    *)
(* AWS holds are one variable, infra, and a plan is the set of resources   *)
(* it leads to.  A Terraform that is killed while it applies is a partial  *)
(* apply here: the operator releases the lock it leaves (Environments      *)
(* models a lock that stays).                                              *)
(***************************************************************************)
EXTENDS Naturals, Sequences

CONSTANTS
    SLOEnabled,   \* slo_runtime_enabled: the Synthetics canary is wanted
    MaxTrouble,   \* bound: failed calls, cancellations, crashes, tampering
    MaxOthers     \* bound: commands other than setup; setup is run for ever

ASSUME ProdAssumption ==
    SLOEnabled \in BOOLEAN /\ MaxTrouble \in Nat /\ MaxOthers \in Nat

Commands   == {"setup", "reconcile", "status", "resilience", "teardown"}
Components == {"platform", "app", "guard"}
Fixtures   == <<"externalsecret", "job", "networkpolicy", "peer", "alarm">>
Full       == {"vpc", "cluster", "rds", "secret"} \cup (IF SLOEnabled THEN {"canary"} ELSE {})

VARIABLES
    proc,      \* the running command: its point and what it remembers
    plan,      \* the saved plan: as shown, as the file is now, as approved
    report,    \* what the command that just ended said
    infra,     \* resources Terraform has created
    tainted,   \* those of them whose creation failed: to be replaced
    backend,   \* the state bucket: none, partial (key without bucket), half (bucket without
               \* the rest), bucket (without its state), drifted (half, with it), managed
    recovery,  \* PROD_BOOTSTRAP_RECOVERY_STATE is set
    promoted,  \* the delivery workflow has promoted image digests
    ctl,       \* Helm releases running in the cluster: argocd, lbc
    apps,      \* Argo CD Applications
    ingress,   \* the Ingress of coffeeshop-prod
    alb,       \* an ALB with the tags of that Ingress exists
    seed,      \* the application secret has a value
    broker,    \* RabbitMQ: down, or the password it first booted with is current or stale
    fixtures,  \* failure fixtures that exist
    volume,    \* the broker's EBS volume: none, bound, or being deleted with its claim
    lost,      \* what such volumes were when their cluster went away
    down,      \* pods that a probe took away: web, a peer of the broker
    drill,     \* a restore drill target exists
    misread,   \* history: queries whose failure was taken as an answer
    dirty,     \* history: a crash or a failed cleanup left fixtures
    trouble, others

podVars  == <<volume, lost, down>>
runVars  == <<proc, plan, report>>
awsVars  == <<infra, backend, recovery, tainted, promoted, alb, seed>>
kubeVars == <<ctl, apps, ingress, broker, podVars>>
histVars == <<misread, dirty, trouble, others>>
vars == <<proc, plan, report, infra, tainted, backend, recovery, promoted, ctl, apps, ingress,
          alb, seed, broker, fixtures, volume, lost, down, drill, misread, dirty, trouble, others>>

\* NewRealOperations: what a process knows when it starts.
Idle   == [cmd |-> "none", pc |-> "idle", arn |-> "none", planned |-> FALSE,
           converge |-> FALSE, x |-> "guard", n |-> 1, err |-> FALSE, ctx |-> "live"]
Unplanned == [shown |-> {}, file |-> {}, approved |-> FALSE]
Silent == [cmd |-> "none", result |-> "none"]

Init ==
    /\ proc = Idle /\ plan = Unplanned /\ report = Silent
    /\ infra = {} /\ tainted = {} /\ backend = "none" /\ recovery = FALSE /\ promoted = FALSE
    /\ ctl = {} /\ apps = [x \in Components |-> "absent"] /\ ingress = "none"
    /\ alb = FALSE /\ seed = FALSE /\ broker = "down" /\ fixtures = {}
    /\ volume = "none" /\ lost = {} /\ down = {} /\ drill = FALSE
    /\ misread = {} /\ dirty = FALSE /\ trouble = 0 /\ others = 0

-----------------------------------------------------------------------------
At(pc)      == proc.pc = pc
Goto(pc)    == proc' = [proc EXCEPT !.pc = pc] /\ UNCHANGED <<plan, report>>

\* The same, for one of the Applications.
GotoFor(pc, x) ==
    /\ proc' = [proc EXCEPT !.pc = pc, !.x = x]
    /\ UNCHANGED <<plan, report>>

\* Run returns: the recorder is finished, the plan directory removed.
End(result) ==
    /\ proc' = Idle /\ plan' = Unplanned
    /\ report' = [cmd |-> proc.cmd, result |-> result]

Trouble == trouble < MaxTrouble /\ trouble' = trouble + 1 /\ UNCHANGED <<dirty, others>>

\* A query failed and the code goes on as if it had answered.
Misread(q) == Trouble /\ misread' = misread \cup {q}

Calm  == UNCHANGED histVars
World == <<awsVars, kubeVars, fixtures, drill>>

\* awsSucceeds, kubeSucceeds, helmSucceeds: the truth, or FALSE when the
\* call itself fails.
Found(q, truth, seen) ==
    \/ seen = truth /\ Calm
    \/ truth /\ ~seen /\ Misread(q)

Reachable == "cluster" \in infra
HasBucket == backend \notin {"none", "partial"}
Healthy(x) ==
    /\ apps[x] = "present"
    /\ x = "platform" => broker # "down" /\ "peer" \notin down
    /\ x = "app" => ingress = "up" /\ alb /\ "web" \notin down

AllHealthy == \A x \in Components : Healthy(x)

\* What is seen of a condition on the application: a service that was
\* restarted since the broker's password changed is refused by the broker,
\* one that was not still has its connection.
Answers(ok) == IF ok /\ broker = "stale" THEN BOOLEAN ELSE {ok}

\* verifyIngress; the write probe needs the counter to reach its database.
Serves(write) ==
    /\ ingress = "up" /\ alb
    /\ write => "networkpolicy" \notin fixtures

\* DetailedPlan: a plan with the configured values is empty.
NoDrift == infra = Full /\ tainted = {} /\ (SLOEnabled => alb)

\* An environment with everything setup is for.
Complete == NoDrift /\ AllHealthy /\ Serves(FALSE)

-----------------------------------------------------------------------------
\* The operator starts a command; preflight is its first step.
Start(c) ==
    /\ At("idle")
    /\ \/ c = "setup" /\ UNCHANGED others
       \/ c # "setup" /\ others < MaxOthers /\ others' = others + 1
    /\ proc' = [Idle EXCEPT !.cmd = c, !.pc = "preflight"]
    /\ report' = Silent
    /\ UNCHANGED <<plan, awsVars, kubeVars, fixtures, drill, misread, dirty, trouble>>

FirstStep == [c \in Commands |->
    CASE c = "setup" -> "bootstrap"
      [] c \in {"reconcile", "teardown"} -> "plan"
      [] c \in {"status", "resilience"} -> "verify"]

\* Tools, caller, policy and prices; a teardown stops at a restore target.
Preflight ==
    /\ At("preflight")
    /\ IF proc.cmd = "teardown" /\ drill THEN End("failed") ELSE Goto(FirstStep[proc.cmd])
    /\ Calm /\ UNCHANGED World

-----------------------------------------------------------------------------
(* Bootstrap: the retained state bucket and its own state. *)

HasState == backend \in {"drifted", "managed"}

\* verifyBootstrapClean: a plan of the backend's own configuration is empty.
BootstrapClean == backend \notin {"half", "drifted"}

Bootstrap ==
    /\ At("bootstrap")
    /\ \E bucket, state \in BOOLEAN :
         /\ \/ /\ Found("bucket", HasBucket, bucket)
               /\ state = (bucket /\ HasState)
            \/ /\ bucket /\ HasState
               /\ Found("state", TRUE, state)
         /\ CASE ~bucket -> Goto("bootApprove")
              [] bucket /\ state /\ BootstrapClean -> Goto("plan")
              [] bucket /\ ~state /\ recovery -> Goto("bootPush")
              [] OTHER -> End("failed")
    /\ UNCHANGED World

BootApprove ==
    /\ At("bootApprove")
    /\ Goto("bootApply")
    /\ Calm /\ UNCHANGED World

\* From an empty local state: what exists already cannot be created again.
BootApply ==
    /\ At("bootApply")
    /\ IF backend = "none"
       THEN backend' = "bucket" /\ Goto("bootPush")
       ELSE End("failed") /\ UNCHANGED backend
    /\ Calm
    /\ UNCHANGED <<infra, recovery, tainted, promoted, alb, seed, kubeVars, fixtures, drill>>

BootApplyFails ==
    /\ At("bootApply") /\ backend = "none"
    /\ Trouble /\ UNCHANGED misread
    /\ backend' \in {"partial", "half", "bucket"}
    /\ End("failed")
    /\ UNCHANGED <<infra, recovery, tainted, promoted, alb, seed, kubeVars, fixtures, drill>>

\* terraform state push, of the new or of the reviewed recovery state; what is
\* missing of the backend itself, its role first, setup does not create.
BootPush ==
    /\ At("bootPush")
    /\ IF BootstrapClean
       THEN backend' = "managed" /\ Goto("plan")
       ELSE backend' \in {backend, "drifted"} /\ End("failed")
    /\ Calm
    /\ UNCHANGED <<infra, recovery, tainted, promoted, alb, seed, kubeVars, fixtures, drill>>

-----------------------------------------------------------------------------
(* mutate: plan, approve, before-apply, apply. *)

\* Mutant: the canary is never left to the second plan.
Wanted_NoDefer ==
    IF proc.cmd = "teardown" THEN {} ELSE Full

\* The first plan of a setup leaves the canary out while there is no ALB.
Wanted ==
    CASE proc.cmd = "teardown" -> {}
      [] proc.cmd = "setup" /\ ~proc.planned /\ ~alb -> Full \ {"canary"}
      [] OTHER -> Full

\* A mutate that applied, or had nothing to apply: the plan's files are
\* removed, and setup configures the cluster before it plans again.
Mutated ==
    /\ proc' = [proc EXCEPT !.planned = TRUE,
                            !.pc = IF proc.cmd = "setup" /\ ~proc.converge THEN "load" ELSE "verify"]
    /\ plan' = Unplanned
    /\ UNCHANGED report

\* The policy gate: only a teardown may delete or replace more than the canary.
Permitted == proc.cmd = "teardown" \/ (infra \ Wanted) \cup tainted \subseteq {"canary"}

\* The remote state, the plan (which looks the ALB up for the canary) and the
\* policy; an empty plan ends the mutate.
Plan ==
    /\ At("plan")
    /\ IF \/ ~HasBucket \/ ~Permitted
          \/ "canary" \in Wanted /\ ~alb
       THEN End("failed")
       ELSE IF Wanted = infra /\ tainted = {} THEN Mutated
       ELSE /\ proc' = [proc EXCEPT !.planned = TRUE, !.pc = "approve"]
            /\ plan' = [shown |-> Wanted, file |-> Wanted, approved |-> FALSE]
            /\ UNCHANGED report
    /\ Calm /\ UNCHANGED World

\* The operator types the word, or the command runs with -auto-approve.
Approve ==
    /\ At("approve")
    /\ plan' = [plan EXCEPT !.approved = TRUE]
    /\ proc' = [proc EXCEPT !.pc = IF proc.cmd = "teardown" THEN "outputs" ELSE "apply"]
    /\ UNCHANGED report
    /\ Calm /\ UNCHANGED World

\* Something else writes the plan file before it is applied.
Tamper ==
    /\ At("approve") \/ plan.approved
    /\ plan.file = plan.shown
    /\ Trouble /\ UNCHANGED misread
    /\ plan' = [plan EXCEPT !.file = IF plan.shown = {} THEN Full ELSE {}]
    /\ UNCHANGED <<proc, report, World>>

\* What Terraform may have reached when an apply stops: it creates the VPC
\* before what lives in it, and destroys it after.
Between(from, to) ==
    {r \in SUBSET Full :
        /\ from \cap to \subseteq r /\ r \subseteq from \cup to
        /\ r \cap {"cluster", "rds"} # {} => "vpc" \in r}

\* AWS keeps a VPC that a load balancer or a restored instance lives in.
Blocked(to) == "vpc" \in infra \ to /\ (alb \/ drill)

\* The resources become r, and what lived in them is gone.
Becomes(r, broken) ==
    /\ infra' = r /\ tainted' = broken
    /\ seed' = (seed /\ "secret" \in r)
    /\ broker' = IF "cluster" \notin r THEN "down"
                 ELSE IF broker = "current" /\ "secret" \notin r THEN "stale" ELSE broker
    /\ IF "cluster" \in r
       THEN UNCHANGED <<ctl, apps, ingress, fixtures, podVars>>
       ELSE /\ volume' = "none" /\ down' = {} /\ lost' = lost \cup ({volume} \ {"none"})
            /\ ctl' = {} /\ apps' = [x \in Components |-> "absent"]
            /\ ingress' = "none" /\ fixtures' = fixtures \cap {"alarm"}
    /\ UNCHANGED <<backend, recovery, promoted, alb>>

\* Apply: the fingerprint is compared, then terraform apply.
Apply ==
    /\ At("apply")
    /\ IF plan.file # plan.shown
       THEN End("failed") /\ UNCHANGED <<awsVars, kubeVars, fixtures>>
       ELSE IF Blocked(plan.file)
       THEN Becomes({"vpc"}, tainted \cap {"vpc"}) /\ End("failed")
       ELSE Becomes(plan.file, {}) /\ Mutated
    /\ Calm /\ UNCHANGED drill

\* What was tainted and is still there stays so; of what is created, one
\* creation may have failed.
ApplyFails ==
    /\ At("apply") /\ plan.file = plan.shown
    /\ Trouble /\ UNCHANGED misread
    /\ \E r \in Between(infra, plan.file) :
         /\ Blocked(plan.file) => "vpc" \in r
         /\ \E new \in {{}} \cup {{x} : x \in r \ infra} : Becomes(r, (tainted \cap r) \cup new)
    /\ End("failed")
    /\ UNCHANGED drill

-----------------------------------------------------------------------------
(* BeforeApply of a teardown: remove what Terraform does not know of. *)

\* loadRuntimeOutputs and updateKubeconfig, without which it goes no further.
Outputs ==
    /\ At("outputs")
    /\ IF Reachable /\ "cluster" \notin tainted THEN Goto("hostname") ELSE End("failed")
    /\ Calm /\ UNCHANGED World

\* The ALB's ARN, by the Ingress's hostname; both errors are ignored.
Hostname ==
    /\ At("hostname")
    /\ \E seen \in BOOLEAN :
         /\ Found("alb", ingress # "none" /\ alb, seen)
         /\ proc' = [proc EXCEPT !.pc = "remove", !.x = "guard",
                                 !.arn = IF seen THEN "live" ELSE "none"]
    /\ UNCHANGED <<plan, report, World>>

\* guard, app, platform, then the ALB.
AfterRemoval ==
    CASE proc.x = "guard" -> GotoFor("remove", "app")
      [] proc.x = "app" -> GotoFor("remove", "platform")
      [] proc.x = "platform" -> Goto("alb")

\* get application; delete application when it is there.
Remove ==
    /\ At("remove")
    /\ \E seen \in BOOLEAN :
         /\ Found(proc.x, apps[proc.x] # "absent", seen)
         /\ apps' = IF seen THEN [apps EXCEPT ![proc.x] = "deleting"] ELSE apps
         /\ CASE seen -> Goto("await")
              [] ~seen /\ proc.x = "app" -> Goto("remove ingress")
              [] OTHER -> AfterRemoval
    /\ UNCHANGED <<awsVars, ctl, ingress, broker, podVars, fixtures, drill>>

\* Mutant: kubectl delete --wait=false for the application.
Removed_NoWait ==
    /\ At("await") /\ (proc.x = "app" \/ apps[proc.x] = "absent")
    /\ AfterRemoval
    /\ Calm /\ UNCHANGED World

\* --wait=true.
Removed ==
    /\ At("await") /\ apps[proc.x] = "absent"
    /\ AfterRemoval
    /\ Calm /\ UNCHANGED World

\* The Application was not there: the Ingress is deleted by itself.
RemoveIngress ==
    /\ At("remove ingress")
    /\ \E seen \in BOOLEAN :
         /\ Found("ingress", ingress # "none", seen)
         /\ ingress' = IF seen THEN "terminating" ELSE ingress
         /\ IF seen THEN Goto("await ingress") ELSE AfterRemoval
    /\ UNCHANGED <<awsVars, ctl, apps, broker, podVars, fixtures, drill>>

IngressRemoved ==
    /\ At("await ingress") /\ ingress # "terminating"
    /\ AfterRemoval
    /\ Calm /\ UNCHANGED World

\* The wait for the remembered ALB: any error of the query ends it.
AwaitALB ==
    /\ At("alb")
    /\ \/ proc.arn # "live" /\ Calm
       \/ proc.arn = "live" /\ Misread("alb")
    /\ Goto("uninstall")
    /\ UNCHANGED World

\* helm uninstall argocd, then the load balancer controller and the rest;
\* a release whose status cannot be read is left.
Uninstall ==
    /\ At("uninstall")
    /\ \/ ctl' = {} /\ Calm
       \/ \E r \in ctl : ctl' = {r} /\ Misread(r)
    /\ Goto("apply")
    /\ UNCHANGED <<awsVars, apps, ingress, broker, podVars, fixtures, drill>>

-----------------------------------------------------------------------------
(* Configure: what setup does in the cluster. *)

Load ==
    /\ At("load")
    /\ IF Reachable THEN Goto("seed") ELSE End("failed")
    /\ Calm /\ UNCHANGED World

\* Mutant: new passwords on every setup.
Seed_Always ==
    /\ At("seed")
    /\ seed' = TRUE
    /\ broker' = IF broker = "current" THEN "stale" ELSE broker
    /\ Goto("install") /\ Calm
    /\ UNCHANGED <<infra, backend, recovery, tainted, promoted, alb, ctl, apps, ingress, podVars, fixtures, drill>>

\* seedApplicationSecret keeps a readable secret and replaces any other.
Seed ==
    /\ At("seed")
    /\ \E seen \in BOOLEAN :
         /\ Found("secret", seed, seen)
         /\ seed' = TRUE
         /\ broker' = IF ~seen /\ broker = "current" THEN "stale" ELSE broker
    /\ Goto("install")
    /\ UNCHANGED <<infra, backend, recovery, tainted, promoted, alb, ctl, apps, ingress, podVars, fixtures, drill>>

\* helm upgrade --install, one after the other.
Install ==
    /\ At("install")
    /\ ctl' = {"lbc", "argocd"}
    /\ Goto("digests")
    /\ Calm /\ UNCHANGED <<awsVars, apps, ingress, broker, podVars, fixtures, drill>>

Digests ==
    /\ At("digests") /\ promoted
    /\ GotoFor("manifest", "platform")
    /\ Calm /\ UNCHANGED World

\* applyBootstrapManifest; an Application that is being deleted stays so.
ApplyManifest ==
    /\ At("manifest")
    /\ apps' = [apps EXCEPT ![proc.x] = IF @ = "absent" THEN "present" ELSE @]
    /\ Goto("wait")
    /\ Calm /\ UNCHANGED <<awsVars, ctl, ingress, broker, podVars, fixtures, drill>>

\* waitArgo: platform, app, guard, then the target of the canary.
WaitArgo ==
    /\ At("wait") /\ Healthy(proc.x)
    /\ CASE proc.x = "platform" -> GotoFor("manifest", "app")
         [] proc.x = "app" -> GotoFor("manifest", "guard")
         [] proc.x = "guard" -> Goto(IF SLOEnabled THEN "slo" ELSE "converge")
    /\ Calm /\ UNCHANGED World

WaitSLO ==
    /\ At("slo") /\ ingress = "up" /\ alb
    /\ Goto("converge")
    /\ Calm /\ UNCHANGED World

Converge ==
    /\ At("converge")
    /\ proc' = [proc EXCEPT !.pc = "plan", !.converge = TRUE]
    /\ UNCHANGED <<plan, report, World>>
    /\ Calm

\* What a wait waits for, and whether the cluster is still on its way there.
Awaited(pc) ==
    CASE pc = "digests" -> promoted
      [] pc = "slo" -> ingress = "up" /\ alb
      [] pc = "alb" -> proc.arn # "live"
      [] pc = "await ingress" -> ingress # "terminating"
      [] pc = "wait" -> Healthy(proc.x)
      [] pc = "await" -> apps[proc.x] = "absent"
      [] pc = "heal" -> "web" \notin down
      [] OTHER -> TRUE

Argo == "argocd" \in ctl
Lbc  == "lbc" \in ctl

CanBoot      == Argo /\ apps["platform"] = "present" /\ broker = "down" /\ seed /\ volume = "none"
CanSync      == Argo /\ apps["app"] = "present" /\ ingress = "none"
CanFinish(x) == Argo /\ apps[x] = "deleting" /\ (x = "app" => ingress = "none")
CanPrune     == Argo /\ apps["app"] = "deleting" /\ ingress = "up"
CanBalance   == Lbc /\ ingress = "up" /\ ~alb
CanReclaim   == Reachable /\ volume = "releasing"
CanPromote   == ~promoted /\ infra # {}
CanUnbalance == Lbc /\ ingress = "terminating"
CanRestore(pod) ==
    /\ pod \in down
    /\ IF pod = "web" THEN Argo /\ apps["app"] = "present" ELSE broker # "down"
Moving ==
    \/ CanBoot \/ CanSync \/ CanPrune \/ CanBalance \/ CanUnbalance \/ CanReclaim
    \/ CanPromote
    \/ \E x \in Components : CanFinish(x)
    \/ \E pod \in down : CanRestore(pod)

\* WaitFor runs out of attempts once nothing moves any more; one that runs
\* out earlier is a failed call.
WaitFor ==
    /\ \/ ~Awaited(proc.pc)
       \/ At("wait") /\ proc.x = "app" /\ FALSE \in Answers(TRUE)
    /\ ~Moving
    /\ End("failed")
    /\ Calm /\ UNCHANGED World

-----------------------------------------------------------------------------
(* Verify. *)

\* verifyTeardown: nothing billable is found, the retained backend is.
TornDown == infra = {} /\ ~alb /\ HasBucket

Verifies(c) ==
    CASE c = "teardown" -> TornDown
      [] c = "status" -> Reachable /\ AllHealthy /\ Serves(FALSE)
      [] OTHER -> Reachable /\ NoDrift /\ AllHealthy /\ Serves(TRUE)

\* The last probe of a setup or reconcile scales web to zero.
Verify ==
    /\ At("verify") /\ proc.cmd # "resilience"
    /\ \E ok \in Answers(Verifies(proc.cmd)) :
         IF ok /\ proc.cmd \in {"setup", "reconcile"}
         THEN Goto("heal") /\ down' = down \cup {"web"}
         ELSE End(IF ok THEN "passed" ELSE "failed") /\ UNCHANGED down
    /\ Calm
    /\ UNCHANGED <<awsVars, ctl, apps, ingress, broker, volume, lost, fixtures, drill>>

\* verifyArgoSelfHeal: Argo CD has scaled it back.
Healed ==
    /\ At("heal") /\ "web" \notin down
    /\ End("passed")
    /\ Calm /\ UNCHANGED World

\* runResilience: nothing to clean up before the outputs are loaded.
Resilience ==
    /\ At("verify") /\ proc.cmd = "resilience"
    /\ IF HasBucket /\ Reachable /\ "cluster" \notin tainted
       THEN \E ok \in Answers(AllHealthy) :
              IF ok THEN Goto("create")
              ELSE /\ proc' = [proc EXCEPT !.pc = "cleanup", !.err = TRUE]
                   /\ UNCHANGED <<plan, report>>
       ELSE End("failed")
    /\ Calm /\ UNCHANGED World

\* A fixture is created, its evidence awaited, and deleted before the next;
\* the pod of the broker that is deleted comes back by itself.
Create ==
    /\ At("create")
    /\ fixtures' = fixtures \cup ({Fixtures[proc.n]} \ {"peer"})
    /\ down' = down \cup ({Fixtures[proc.n]} \cap {"peer"})
    /\ Goto("delete")
    /\ Calm /\ UNCHANGED <<awsVars, ctl, apps, ingress, broker, volume, lost, drill>>

Delete ==
    /\ At("delete") /\ Fixtures[proc.n] \notin down
    /\ fixtures' = fixtures \ {Fixtures[proc.n]}
    /\ \E ok \in Answers(AllHealthy) :
         proc' = IF proc.n < Len(Fixtures)
                 THEN [proc EXCEPT !.n = @ + 1, !.pc = "create"]
                 ELSE [proc EXCEPT !.pc = "cleanup", !.err = ~ok]
    /\ UNCHANGED <<plan, report>>
    /\ Calm /\ UNCHANGED <<awsVars, kubeVars, drill>>

\* A call of a fixture fails, with or without effect; or the operation's
\* context is cancelled.  The deferred cleanup runs.
FixtureFails ==
    /\ proc.pc \in {"create", "delete"}
    /\ Trouble /\ UNCHANGED misread
    /\ \/ UNCHANGED fixtures
       \/ At("create") /\ fixtures' = fixtures \cup ({Fixtures[proc.n]} \ {"peer"})
       \/ At("delete") /\ fixtures' = fixtures \ {Fixtures[proc.n]}
    /\ \E c \in {"live", "done"} :
         proc' = [proc EXCEPT !.pc = "cleanup", !.err = TRUE, !.ctx = c]
    /\ down' \in {down, down \cup ({Fixtures[proc.n]} \cap {"peer"})}
    /\ UNCHANGED <<plan, report, awsVars, ctl, apps, ingress, broker, volume, lost, drill>>

\* Mutant: cleanup uses the operation's context.
Cleanup_SameContext ==
    /\ At("cleanup")
    /\ fixtures' = IF proc.ctx = "live" THEN {} ELSE fixtures
    /\ End(IF proc.err THEN "failed" ELSE "passed")
    /\ Calm /\ UNCHANGED <<awsVars, kubeVars, drill>>

\* cleanupResilience, with a context of its own.
Cleanup ==
    /\ At("cleanup")
    /\ fixtures' = {}
    /\ End(IF proc.err THEN "failed" ELSE "passed")
    /\ Calm /\ UNCHANGED <<awsVars, kubeVars, drill>>

\* Some of its calls fail, the others are made all the same; the report says
\* so unless it has an earlier error to tell.
CleanupFails ==
    /\ At("cleanup")
    /\ trouble < MaxTrouble /\ trouble' = trouble + 1
    /\ fixtures' \in SUBSET fixtures
    /\ dirty' = TRUE
    /\ End(IF proc.err THEN "failed" ELSE "cleanup failed")
    /\ UNCHANGED <<awsVars, kubeVars, drill, misread, others>>

-----------------------------------------------------------------------------
(* Failures that any step may meet. *)

\* A call fails or is cancelled, an approval is declined, a wait runs out.
Fails ==
    /\ proc.pc \notin {"idle", "apply", "bootApply", "create", "delete", "cleanup"}
    /\ Trouble /\ UNCHANGED misread
    /\ End("failed")
    /\ UNCHANGED World

\* Helm installs some of the releases, or uninstalls some, and then fails.
HelmFails ==
    /\ Trouble /\ UNCHANGED misread
    /\ \/ At("install") /\ ctl' = ctl \cup {"lbc"}
       \/ At("uninstall") /\ ctl' = ctl \ {"argocd"}
    /\ End("failed")
    /\ UNCHANGED <<awsVars, apps, ingress, broker, podVars, fixtures, drill>>

\* The process dies: no deferred call runs, nothing is reported.
Crash ==
    /\ ~At("idle")
    /\ trouble < MaxTrouble /\ trouble' = trouble + 1
    /\ proc' = Idle /\ plan' = Unplanned /\ report' = Silent
    /\ dirty' = (dirty \/ fixtures # {})
    /\ UNCHANGED <<World, misread, others>>

-----------------------------------------------------------------------------
(* The world outside. *)

\* RabbitMQ starts on a new volume, once the claim of the one before is gone.
Boot ==
    /\ CanBoot
    /\ broker' = "current" /\ volume' = "bound"
    /\ Calm /\ UNCHANGED <<runVars, awsVars, ctl, apps, ingress, lost, down, fixtures, drill>>

\* selfHeal: the Ingress comes back whoever deleted it.
Sync ==
    /\ CanSync
    /\ ingress' = "up"
    /\ Calm /\ UNCHANGED <<runVars, awsVars, ctl, apps, broker, podVars, fixtures, drill>>

\* The finalizer of a deleted Application removes its resources first.
Prune ==
    /\ CanPrune
    /\ ingress' = "terminating"
    /\ Calm /\ UNCHANGED <<runVars, awsVars, ctl, apps, broker, podVars, fixtures, drill>>

\* The platform's Application is gone with its RabbitmqCluster; the claims
\* and the volume follow in their own time.
Finish(x) ==
    /\ CanFinish(x)
    /\ apps' = [apps EXCEPT ![x] = "absent"]
    /\ down' = down \ (CASE x = "app" -> {"web"} [] x = "platform" -> {"peer"} [] OTHER -> {})
    /\ IF x = "platform"
       THEN /\ broker' = "down"
            /\ volume' = IF volume = "bound" THEN "releasing" ELSE volume
       ELSE UNCHANGED <<broker, volume>>
    /\ Calm /\ UNCHANGED <<runVars, awsVars, ctl, ingress, lost, fixtures, drill>>

\* The CSI driver deletes the volume of a deleted claim.
Reclaim ==
    /\ CanReclaim
    /\ volume' = "none"
    /\ Calm
    /\ UNCHANGED <<runVars, awsVars, ctl, apps, ingress, broker, lost, down, fixtures, drill>>

\* selfHeal scales web back; the StatefulSet makes its pod again.
Restore(pod) ==
    /\ CanRestore(pod)
    /\ down' = down \ {pod}
    /\ Calm
    /\ UNCHANGED <<runVars, awsVars, ctl, apps, ingress, broker, volume, lost, fixtures, drill>>

Balance ==
    /\ CanBalance
    /\ alb' = TRUE
    /\ Calm
    /\ UNCHANGED <<runVars, infra, backend, recovery, tainted, promoted, seed, kubeVars, fixtures, drill>>

\* The controller deletes the ALB, then lets the Ingress go.
Unbalance ==
    /\ CanUnbalance
    /\ alb' = FALSE /\ ingress' = "none"
    /\ proc' = [proc EXCEPT !.arn = IF @ = "live" THEN "gone" ELSE @]
    /\ Calm
    /\ UNCHANGED <<plan, report, infra, backend, recovery, tainted, promoted, seed, ctl, apps, broker,
                   podVars, fixtures, drill>>

\* The delivery workflow needs the registries that the first apply creates.
Promote ==
    /\ CanPromote
    /\ promoted' = TRUE
    /\ Calm
    /\ UNCHANGED <<runVars, infra, tainted, backend, recovery, alb, seed, kubeVars, fixtures, drill>>

SelectRecovery ==
    /\ At("idle") /\ backend \in {"half", "bucket"} /\ ~recovery
    /\ recovery' = TRUE
    /\ Calm
    /\ UNCHANGED <<runVars, infra, tainted, backend, promoted, alb, seed, kubeVars, fixtures, drill>>

\* platformctl prod restore-drill, in another terminal.
DrillStarts ==
    /\ ~drill /\ "rds" \in infra
    /\ drill' = TRUE
    /\ Calm /\ UNCHANGED <<runVars, awsVars, kubeVars, fixtures>>

DrillEnds ==
    /\ drill
    /\ drill' = FALSE
    /\ Calm /\ UNCHANGED <<runVars, awsVars, kubeVars, fixtures>>

-----------------------------------------------------------------------------
EngineStep ==
    \/ Preflight \/ Bootstrap \/ BootApprove \/ BootApply \/ BootPush
    \/ Plan \/ Approve \/ Apply
    \/ Outputs \/ Hostname \/ RemoveIngress \/ IngressRemoved \/ AwaitALB \/ Uninstall
    \/ Load \/ Seed \/ Install \/ Digests \/ WaitSLO \/ Converge \/ WaitFor
    \/ Remove \/ Removed \/ ApplyManifest \/ WaitArgo
    \/ Verify \/ Healed \/ Resilience \/ Create \/ Delete \/ Cleanup

Failure ==
    \/ BootApplyFails \/ ApplyFails \/ FixtureFails \/ CleanupFails
    \/ Fails \/ HelmFails \/ Crash \/ Tamper

Controllers ==
    \/ Boot \/ Sync \/ Prune \/ Balance \/ Unbalance \/ Reclaim
    \/ \E x \in Components : Finish(x)
    \/ \E pod \in down : Restore(pod)

Next ==
    \/ \E c \in Commands : Start(c)
    \/ EngineStep \/ Failure \/ Controllers
    \/ Promote \/ SelectRecovery \/ DrillStarts \/ DrillEnds

Spec == Init /\ [][Next]_vars

\* Commands run, the controllers reconcile, and the operator keeps running
\* setup, selects the recovery state when asked for one and finishes drills.
Fairness ==
    /\ WF_vars(EngineStep) /\ WF_vars(Controllers)
    /\ WF_vars(Start("setup")) /\ SF_vars(SelectRecovery)
    /\ WF_vars(Promote) /\ WF_vars(DrillEnds)

FairSpec == Spec /\ Fairness

-----------------------------------------------------------------------------
(* Properties.                                                             *)

\* The cluster outlives what its controllers made: an ALB is orphaned only
\* when a teardown took a failed query for the answer that the Application
\* which owns its Ingress is not there; the volume of a running RabbitMQ
\* only when it could not see the broker's Application.  (A volume that was
\* already being deleted may be: no step waits for it, and the inventory at
\* the end looks for tags it does not carry.)
ClusterGoesLast ==
    /\ alb /\ ~Reachable => "app" \in misread
    /\ "bound" \in lost => "platform" \in misread

\* The password RabbitMQ first booted with stays the one in the secret,
\* through any number of setups, unless a setup could not read the secret or
\* a teardown could not see the broker's Application.
CredentialsAgree == broker = "stale" => misread \cap {"secret", "platform"} # {}

\* A command that reports success did what it is for: the environment is
\* complete, what its own probes took away is back and its counter can reach
\* its database, or it is gone with every restore target.  After resilience no
\* fixture is left, whatever failed or was cancelled, unless the cleanup
\* failed too (which the report says only if nothing had failed before).
ReportIsTrue ==
    /\ report.result = "passed" =>
        CASE report.cmd = "teardown" -> infra = {} /\ ~alb /\ ~drill
          [] report.cmd = "resilience" -> fixtures = {}
          [] report.cmd = "status" -> AllHealthy
          [] OTHER -> Complete /\ "networkpolicy" \notin fixtures
    /\ report.cmd = "resilience" => fixtures = {} \/ dirty
    /\ report.result = "cleanup failed" => report.cmd = "resilience"

\* SetupRecovers: from a failure, a crash or a half-done teardown, running
\* setup again ends in a complete environment (the web pods aside while its
\* last probe waits for Argo CD), but for what setup cannot repair: a first
\* bootstrap that stopped before the backend was whole; a resource whose
\* creation failed, which the policy does not let it replace; a broker that
\* kept a password nobody knows; the policy that cuts the counter off, left
\* by a resilience run that died.
Irreparable ==
    \/ backend \in {"partial", "half", "drifted"}
    \/ tainted \ {"canary"} # {}
    \/ broker = "stale"
    \/ "networkpolicy" \in fixtures
SetupRecovers == <>[](Complete \/ At("heal") \/ Irreparable)
=============================================================================
