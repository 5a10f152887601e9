----------------------------- MODULE Delivery -----------------------------
(***************************************************************************)
(* The release workflows: an image is built once from a commit of main,    *)
(* copied to DEV, judged by QA, copied to PROD and made the desired image  *)
(* there; a rollback returns to a released one, a hotfix goes straight to  *)
(* PROD.  Every workflow reads records on main, works on a registry and    *)
(* proposes its result as a pull request that GitHub merges later, so what *)
(* was read may have changed by then.                                      *)
(*                                                                         *)
(* One component.  A digest is <<c, n>>: the n-th build of commit c, for   *)
(* builds are not reproducible.  Two pull requests with the same content   *)
(* are one: after the first merge the other can only conflict.  A run that *)
(* waits for its concurrency group is one that is dispatched later, except *)
(* for the candidate workflow, whose group every push of the repository    *)
(* joins, the branch of every pull request the workflows open included,    *)
(* and where a newer run cancels the waiting one.                          *)
(***************************************************************************)
EXTENDS Naturals, FiniteSets

CONSTANTS
    MaxCommits,   \* bound: source commits pushed to main
    Hotfixes,     \* commits of hotfix branches
    MaxBuilds,    \* bound: builds of one commit
    Troubled,     \* bound: the commits that meet a disturbance other than a failure
    Budget,       \* bound: how often each disturbance happens
    MaxFaults     \* bound: how many of them happen in all

FaultKinds == {"fail", "expire", "rerun", "dispatch", "push", "qa", "rollback", "hotfix"}
Commits    == 1..MaxCommits
Sources    == Commits \cup Hotfixes

ASSUME DeliveryAssumption ==
    /\ MaxCommits \in Nat /\ MaxBuilds \in Nat /\ MaxFaults \in Nat
    /\ 0 \notin Hotfixes /\ Hotfixes \cap Commits = {}
    /\ Troubled \subseteq Sources
    /\ Budget \in [FaultKinds -> Nat]

VARIABLES
    pushed,    \* source commits on main: 1..pushed
    running,   \* the candidate workflow's running run
    pending,   \* the one waiting for it
    tags,      \* registries: the build each immutable tag names, 0 for none
    builds,    \* builds of each commit so far
    rec,       \* records on main: the build each names, 0 for none
    verdict,   \* the decision in each commit's QA record
    image,     \* desired image of DEV and PROD on main
    prs,       \* open pull requests
    jobs,      \* runs of the delivery, promotion and hotfix workflows
    lost,      \* commits whose candidate run was cancelled and not run again
    failed,    \* runs that failed by themselves and were not started again
    expired,   \* history: registries in which a commit's tag has expired
    seen,      \* history: digests DEV was given, QA approved, the hotfix lane released
    faults     \* disturbances so far: of each kind and in all

vars == <<pushed, running, pending, tags, builds, rec, verdict, image, prs, jobs, lost, failed, expired, seen, faults>>
queueVars    == <<pushed, running, pending, lost>>
registryVars == <<tags, builds, expired>>
mainVars     == <<rec, verdict, image>>

Registries == {"candidate", "dev", "release", "emergency"}
Records    == {"candidate", "dev", "qa", "standard", "emergency", "reconcile"}
Lanes      == {"standard", "rollback", "emergency"}
Digests    == Sources \X (1..MaxBuilds)
Base       == <<0, 0>>       \* what DEV and PROD ran before
NoRun      == [kind |-> "none", c |-> 0, n |-> 0]
OtherRun   == [kind |-> "other", c |-> 0, n |-> 0]
SourceRun(c) == [kind |-> "source", c |-> c, n |-> 0]

Count(f) ==
    /\ faults[f] < Budget[f] /\ faults["all"] < MaxFaults
    /\ faults' = [faults EXCEPT ![f] = @ + 1, !["all"] = @ + 1]

Init ==
    /\ pushed = 0
    /\ running = NoRun /\ pending = NoRun
    /\ tags = [r \in Registries |-> [c \in Sources |-> 0]]
    /\ builds = [c \in Sources |-> 0]
    /\ rec = [r \in Records |-> [c \in Sources |-> 0]]
    /\ verdict = [c \in Commits |-> "none"]
    /\ image = [e \in {"dev", "prod"} |-> Base]
    /\ prs = {} /\ jobs = {} /\ lost = {} /\ failed = {}
    /\ expired = [c \in Sources |-> {}]
    /\ seen = [dev |-> {}, approved |-> {}, hotfix |-> {}]
    /\ faults = [f \in FaultKinds \cup {"all"} |-> 0]

-----------------------------------------------------------------------------
(* The candidate workflow.                                                 *)

\* The source run that a newcomer cancels: only one waits.
Evicted == IF running # NoRun /\ pending.kind = "source" THEN {pending.c} ELSE {}

\* A new run starts, or waits in place of the one that was waiting.
Enter(run) ==
    IF running = NoRun THEN running' = run /\ UNCHANGED pending
                       ELSE pending' = run /\ UNCHANGED running

\* A push joins the concurrency group.
Join(run) == Enter(run) /\ lost' = lost \cup Evicted

\* The running run is over; the waiting one starts.
Leave == running' = pending /\ pending' = NoRun

\* A source change is merged, or the workflow is dispatched for the head of
\* main: either way a commit of its own.
PushSource ==
    /\ pushed < MaxCommits
    /\ pushed' = pushed + 1
    /\ Join(SourceRun(pushed + 1))
    /\ UNCHANGED <<registryVars, mainVars, prs, jobs, failed, seen, faults>>

\* The workflow is triggered by pushes to every branch; the jobs of a run
\* that is not for main, or builds nothing, are skipped.
PushOther ==
    /\ Count("push")
    /\ Join(OtherRun)
    /\ UNCHANGED <<pushed, registryVars, mainVars, prs, jobs, failed, seen>>

\* An operator re-runs the workflow run of a commit when it is over.
Rerun(c) ==
    /\ c <= pushed
    /\ \A run \in {running, pending} : ~(run.kind = "source" /\ run.c = c)
    /\ Count("rerun")
    /\ Enter(SourceRun(c))
    /\ lost' = (lost \ {c}) \cup Evicted
    /\ failed' = failed \ {<<"candidate", c>>}
    /\ UNCHANGED <<pushed, registryVars, mainVars, prs, jobs, seen>>

SkipRun ==
    /\ running.kind = "other"
    /\ Leave
    /\ UNCHANGED <<pushed, registryVars, mainVars, prs, jobs, lost, failed, seen, faults>>

\* The candidate of the commit is reused when its tag exists, else built and
\* pushed under it.
BuildCandidate ==
    /\ running.kind = "source" /\ running.n = 0
    /\ LET old == tags["candidate"][running.c]
           n   == IF old # 0 THEN old ELSE builds[running.c] + 1
       IN  /\ n <= MaxBuilds
           /\ builds' = [builds EXCEPT ![running.c] = IF old # 0 THEN @ ELSE n]
           /\ tags' = [tags EXCEPT !["candidate"][running.c] = n]
           /\ running' = [running EXCEPT !.n = n]
    /\ UNCHANGED <<pushed, pending, expired, mainVars, prs, jobs, lost, failed, seen, faults>>

\* A pull request rewrites one record and, outside the evidence lanes, one
\* image line; base is that line where its branch left main, clean says no
\* other merge has written the record since.
PR(kind, c, n, says) ==
    [kind |-> kind, c |-> c, n |-> n, says |-> says, clean |-> TRUE,
     base |-> CASE kind = "dev" -> image["dev"] [] kind \in Lanes -> image["prod"] [] OTHER -> Base]

\* The branch is pushed while its own run is the running one: the push takes
\* the place of the run that waits, and is next.
SubmitCandidates ==
    /\ running.kind = "source" /\ running.n # 0
    /\ prs' = prs \cup {PR("candidate", running.c, running.n, "none")}
    /\ running' = OtherRun /\ pending' = NoRun
    /\ lost' = lost \cup Evicted
    /\ UNCHANGED <<pushed, registryVars, mainVars, jobs, failed, seen, faults>>

CandidateFails ==
    /\ running.kind = "source"
    /\ Count("fail")
    /\ failed' = failed \cup {<<"candidate", running.c>>}
    /\ Leave
    /\ UNCHANGED <<pushed, registryVars, mainVars, prs, jobs, lost, seen>>

-----------------------------------------------------------------------------
(* Pull requests.                                                          *)

Environment(kind) == IF kind = "dev" THEN "dev" ELSE "prod"
Carries(p) == p.kind \in Lanes \cup {"dev"}

\* A merge compares three states: the image line must still be the one the
\* branch left, or already be the one it wants.
Mergeable(p) ==
    /\ p.clean
    /\ Carries(p) => image[Environment(p.kind)] \in {p.base, <<p.c, p.n>>}

Job(wf, c, step) == [wf |-> wf, c |-> c, step |-> step, n |-> 0]

\* The runs a merge triggers.
Triggered(p) ==
    CASE p.kind = "candidate" -> {Job("dev", p.c, "copy")}
      [] p.kind = "qa" -> {Job("promote", p.c, "copy")}
      [] OTHER -> {}

Merge(p) ==
    /\ Mergeable(p)
    /\ prs' = {[q EXCEPT !.clean = @ /\ ~(q.kind = p.kind /\ q.c = p.c)] : q \in prs \ {p}}
    /\ jobs' = jobs \cup Triggered(p)
    /\ rec' = IF p.kind \in Records THEN [rec EXCEPT ![p.kind][p.c] = p.n] ELSE rec
    /\ verdict' = IF p.kind = "qa" THEN [verdict EXCEPT ![p.c] = p.says] ELSE verdict
    /\ image' = IF Carries(p) THEN [image EXCEPT ![Environment(p.kind)] = <<p.c, p.n>>] ELSE image
    /\ seen' = [dev |-> seen.dev \cup (IF p.kind = "dev" THEN {<<p.c, p.n>>} ELSE {}),
                approved |-> seen.approved
                    \cup (IF p.kind = "qa" /\ p.says = "approved" THEN {<<p.c, p.n>>} ELSE {}),
                hotfix |-> seen.hotfix \cup (IF p.kind = "emergency" THEN {<<p.c, p.n>>} ELSE {})]
    /\ Join(OtherRun)
    /\ UNCHANGED <<pushed, registryVars, failed, faults>>

-----------------------------------------------------------------------------
(* DEV delivery and the QA decision.                                       *)

\* Mutant: a copy that is there already is an error.
CopyImmutable_Fresh(registry, c, n) == tags[registry][c] = 0 /\ tags["candidate"][c] = n

\* Mutant: the copy trusts a tag that exists.
CopyImmutable_Trusting(registry, c, n) ==
    \/ tags[registry][c] # 0
    \/ tags["candidate"][c] = n

\* copy-immutable-artifact: a tag that exists must name the source digest;
\* else the source image, which must still be there, is copied.
CopyImmutable(registry, c, n) ==
    \/ tags[registry][c] = n
    \/ tags[registry][c] = 0 /\ tags["candidate"][c] = n

Copied(registry, c, n) == [tags EXCEPT ![registry][c] = IF @ = 0 THEN n ELSE @]

\* An operator starts a workflow for a commit, for the first time or again.
Dispatch(wf, c) ==
    /\ c <= pushed
    /\ Count("dispatch")
    /\ jobs' = jobs \cup {Job(wf, c, "copy")}
    /\ failed' = failed \ {<<wf, c>>}
    /\ UNCHANGED <<queueVars, registryVars, mainVars, prs, seen>>

\* copy: the candidate record names the source.
DevCopy(j) ==
    /\ j.wf = "dev" /\ j.step = "copy"
    /\ LET n == rec["candidate"][j.c] IN
       IF n # 0 /\ CopyImmutable("dev", j.c, n)
       THEN /\ tags' = Copied("dev", j.c, n)
            /\ jobs' = (jobs \ {j}) \cup {[j EXCEPT !.step = "submit", !.n = n]}
       ELSE jobs' = jobs \ {j} /\ UNCHANGED tags
    /\ UNCHANGED <<queueVars, builds, expired, mainVars, prs, failed, seen, faults>>

DevSubmit(j) ==
    /\ j.wf = "dev" /\ j.step = "submit"
    /\ prs' = prs \cup {PR("dev", j.c, j.n, "none")}
    /\ jobs' = jobs \ {j}
    /\ Join(OtherRun)
    /\ UNCHANGED <<pushed, registryVars, mainVars, failed, seen, faults>>

\* Mutant: a DEV record of the commit will do.
ValidateDevRelease_AnyDigest(c) == rec["candidate"][c] # 0 /\ rec["dev"][c] # 0

\* The DEV record must name the digest the candidate record names now.
ValidateDevRelease(c) == rec["candidate"][c] # 0 /\ rec["dev"][c] = rec["candidate"][c]

\* QA's first decision on a commit is part of the flow, a later one is a
\* disturbance.
QaDecide(c, decision) ==
    /\ ValidateDevRelease(c)
    /\ IF verdict[c] = "none" /\ ~\E p \in prs : p.kind = "qa" /\ p.c = c
       THEN UNCHANGED faults ELSE c \in Troubled /\ Count("qa")
    /\ prs' = prs \cup {PR("qa", c, rec["candidate"][c], decision)}
    /\ Join(OtherRun)
    /\ UNCHANGED <<pushed, registryVars, mainVars, jobs, failed, seen>>

-----------------------------------------------------------------------------
(* Promotion, rollback and hotfix.                                         *)

\* The QA record approves the digest the candidate record names now.
ValidateStandard(c) ==
    /\ rec["candidate"][c] # 0
    /\ verdict[c] = "approved"
    /\ rec["qa"][c] = rec["candidate"][c]

\* copy-reviewed: validated on the records of the moment; the source image
\* is verified and scanned even when the release tag exists.
PromoteCopy(j) ==
    /\ j.wf = "promote" /\ j.step = "copy"
    /\ LET n == rec["candidate"][j.c] IN
       IF ValidateStandard(j.c) /\ tags["candidate"][j.c] = n /\ CopyImmutable("release", j.c, n)
       THEN /\ tags' = Copied("release", j.c, n)
            /\ jobs' = (jobs \ {j}) \cup {[j EXCEPT !.step = "submit", !.n = n]}
       ELSE jobs' = jobs \ {j} /\ UNCHANGED tags
    /\ UNCHANGED <<queueVars, builds, expired, mainVars, prs, failed, seen, faults>>

\* submit-reviewed: a fresh checkout, but the records are not read again.
PromoteSubmit(j) ==
    /\ j.wf = "promote" /\ j.step = "submit"
    /\ prs' = prs \cup {PR("standard", j.c, j.n, "none")}
    /\ jobs' = jobs \ {j}
    /\ Join(OtherRun)
    /\ UNCHANGED <<pushed, registryVars, mainVars, failed, seen, faults>>

\* Mutant: an image in PROD's registry counts as released.
History_Registry(c) ==
    IF tags["release"][c] # 0 THEN tags["release"][c] ELSE tags["emergency"][c]

\* The digest of the commit's release: the standard lane's record first.
History(c) == IF rec["standard"][c] # 0 THEN rec["standard"][c] ELSE rec["emergency"][c]

\* A rollback needs a release record and its digest in PROD's registry.
Rollback(c) ==
    /\ History(c) # 0
    /\ History(c) \in {tags["release"][c], tags["emergency"][c]}
    /\ Count("rollback")
    /\ prs' = prs \cup {PR("rollback", c, History(c), "none")}
    /\ Join(OtherRun)
    /\ UNCHANGED <<pushed, registryVars, mainVars, jobs, failed, seen>>

\* The hotfix lane reuses or builds the emergency image and proposes it; its
\* sources go back to main in a pull request of their own, unless they are
\* there already.
Hotfix(h) ==
    /\ Count("hotfix")
    /\ LET old == tags["emergency"][h]
           n   == IF old # 0 THEN old ELSE builds[h] + 1
       IN  /\ n <= MaxBuilds
           /\ builds' = [builds EXCEPT ![h] = IF old # 0 THEN @ ELSE n]
           /\ tags' = [tags EXCEPT !["emergency"][h] = n]
           /\ prs' = prs \cup {PR("emergency", h, n, "none")}
    /\ jobs' = jobs \cup (IF rec["reconcile"][h] = 0 THEN {Job("hotfix", h, "reconcile")} ELSE {})
    /\ Join(OtherRun)
    /\ UNCHANGED <<pushed, expired, mainVars, failed, seen>>

Reconcile(j) ==
    /\ j.wf = "hotfix"
    /\ prs' = prs \cup {PR("reconcile", j.c, 1, "none")}
    /\ jobs' = jobs \ {j}
    /\ Join(OtherRun)
    /\ UNCHANGED <<pushed, registryVars, mainVars, failed, seen, faults>>

\* A job fails for a reason of its own: a runner, an API, a scan.
JobFails(j) ==
    /\ Count("fail")
    /\ jobs' = jobs \ {j}
    /\ failed' = failed \cup {<<j.wf, j.c>>}
    /\ UNCHANGED <<queueVars, registryVars, mainVars, prs, seen>>

\* The registries keep the newest images only.
Expire(registry, c) ==
    /\ tags[registry][c] # 0
    /\ Count("expire")
    /\ tags' = [tags EXCEPT ![registry][c] = 0]
    /\ expired' = [expired EXCEPT ![c] = @ \cup {registry}]
    /\ UNCHANGED <<queueVars, builds, mainVars, prs, jobs, failed, seen>>

-----------------------------------------------------------------------------
Next ==
    \/ PushSource \/ PushOther \/ SkipRun
    \/ BuildCandidate \/ SubmitCandidates \/ CandidateFails
    \/ \E c \in Troubled \cap Commits : Rerun(c) \/ \E wf \in {"dev", "promote"} : Dispatch(wf, c)
    \/ \E c \in Commits, decision \in {"approved", "rejected"} : QaDecide(c, decision)
    \/ \E p \in prs : Merge(p)
    \/ \E j \in jobs :
          DevCopy(j) \/ DevSubmit(j) \/ PromoteCopy(j) \/ PromoteSubmit(j) \/ Reconcile(j) \/ JobFails(j)
    \/ \E c \in Troubled : Rollback(c)
    \/ \E h \in Hotfixes : Hotfix(h)
    \/ \E registry \in Registries, c \in Troubled : Expire(registry, c)

Spec == Init /\ [][Next]_vars

\* GitHub runs what is queued and merges what can be merged.  Pushes, QA's
\* decisions, dispatches and re-runs are people's and promised by nobody.
RunStep == SkipRun \/ BuildCandidate \/ SubmitCandidates
JobStep ==
    \E j \in jobs : DevCopy(j) \/ DevSubmit(j) \/ PromoteCopy(j) \/ PromoteSubmit(j) \/ Reconcile(j)
MergeStep == \E p \in prs : Merge(p)

FairSpec == Spec /\ WF_vars(RunStep) /\ WF_vars(JobStep) /\ WF_vars(MergeStep)

-----------------------------------------------------------------------------
(* Properties.                                                             *)

\* OneArtifact: what DEV runs, what QA judges and what PROD is given of one
\* commit is one digest, although the candidate may expire, be built again
\* and recorded again meanwhile; DEV's own tag is what keeps the second
\* build out, so only where that tag has expired may there be two.
Evidence(c) == ({rec[r][c] : r \in {"dev", "qa", "standard"}} \ {0})
                 \cup {d[2] : d \in {e \in {image["dev"], image["prod"]} : e[1] = c}}
OneArtifact ==
    \A c \in Commits : "dev" \in expired[c] \/ Cardinality(Evidence(c)) <= 1

\* ProdWasTested: whether the standard, the rollback or the hotfix lane made
\* it PROD's image, a digest that is not a hotfix was DEV's desired image and
\* QA approved it; a hotfix that PROD is rolled back to was released before,
\* although its record may name a later build by now.
ProdWasTested ==
    \/ image["prod"] = Base
    \/ image["prod"][1] \in Hotfixes /\ image["prod"] \in seen.hotfix
    \/ image["prod"] \in seen.dev \cap seen.approved

\* DesiredCanBePulled: the digest an environment is told to run is in the
\* registry it pulls from, although the pull request that says so was opened
\* long before it merged and the commit may have been built again since: only
\* an image that the registry's own retention removed is missing.
Registry(env) == IF env = "dev" THEN {"dev"} ELSE {"release", "emergency"}
DesiredCanBePulled ==
    \A env \in {"dev", "prod"} :
        LET c == image[env][1] IN
        \/ image[env] = Base
        \/ \E r \in Registry(env) : tags[r][c] = image[env][2] \/ r \in expired[c]

\* EveryChangeSettles: a source commit pushed to main ends as DEV's release
\* record, and an approval as a release record of the approved digest.  What
\* keeps it from that is one of: its candidate run was cancelled while it
\* waited, or a run failed by itself, and nobody ran it again; its candidate
\* has expired; QA took the approval back; another commit's pull request,
\* opened from the same desired image, merged first.  A second attempt after
\* a failure, at whatever step the first one stopped, is as good as a first.
Overtaken(kind, c) ==
    \E p \in prs : /\ p.kind = kind /\ p.c = c
                   /\ image[Environment(kind)] # p.base /\ image[Environment(kind)][1] # c
SettledInDev(c) ==
    \/ rec["dev"][c] # 0
    \/ c \in lost \/ failed \cap {<<"candidate", c>>, <<"dev", c>>} # {}
    \/ "candidate" \in expired[c]
    \/ Overtaken("dev", c)
SettledInProd(c) ==
    \/ verdict[c] # "approved"
    \/ rec["standard"][c] = rec["qa"][c]
    \/ <<"promote", c>> \in failed
    \/ "candidate" \in expired[c]
    \/ Overtaken("standard", c)
EveryChangeSettles ==
    []<>(\A c \in Commits : c <= pushed => SettledInDev(c) /\ SettledInProd(c))
=============================================================================
