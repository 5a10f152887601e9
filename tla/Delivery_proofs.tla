-------------------------- MODULE Delivery_proofs --------------------------
(***************************************************************************)
(* Proofs about the release workflows, for every number of commits,        *)
(* builds, hotfix branches, expiries, re-runs and failures.                *)
(***************************************************************************)
EXTENDS Delivery, FiniteSetTheorems, TLAPS

-----------------------------------------------------------------------------
(* The inductive invariant.                                                *)

Images == (Sources \cup {0}) \X Nat
Kinds  == {"candidate", "dev", "qa", "standard", "rollback", "emergency", "reconcile"}
Says   == {"none", "approved", "rejected"}
PullRequests == [kind : Kinds, c : Sources, n : Nat, says : Says, clean : BOOLEAN,
                 base : Images]
Jobs   == [wf : {"dev", "promote", "hotfix"}, c : Sources,
           step : {"copy", "submit", "reconcile"}, n : Nat]
Runs   == [kind : {"none", "other", "source"}, c : Nat, n : Nat]

Typed ==
    /\ pushed \in 0..MaxCommits
    /\ running \in Runs /\ (running.kind = "source" => running.c \in Commits)
    /\ pending \in Runs /\ (pending.kind = "source" => pending.c \in Commits)
    /\ tags \in [Registries -> [Sources -> Nat]]
    /\ builds \in [Sources -> Nat]
    /\ rec \in [Records -> [Sources -> Nat]]
    /\ verdict \in [Commits -> Says]
    /\ image \in [{"dev", "prod"} -> Images]
    /\ prs \subseteq PullRequests /\ jobs \subseteq Jobs
    /\ expired \in [Sources -> SUBSET Registries]

\* The build that DEV's tag of the commit names, as long as DEV's registry
\* keeps that tag.
Same(c, n) == n # 0 /\ ("dev" \in expired[c] \/ n = tags["dev"][c])

\* A registry that the environment pulls from holds the digest, or held it
\* and let it go.
Stored(env, c, n) == n # 0 /\ \E r \in Registry(env) : tags[r][c] = n \/ r \in expired[c]

Promotes(j) == j.wf = "promote" /\ j.step = "submit"
Tested(d)   == d \in seen.dev /\ d \in seen.approved
Released(d) == Tested(d) \/ (d[1] \in Hotfixes /\ d \in seen.hotfix)

\* What a pull request may claim, lane by lane.
GoodPR(p) ==
    /\ p.kind \in {"candidate", "dev", "qa", "standard"} => p.c \in Commits
    /\ p.kind = "emergency" => p.c \in Hotfixes
    /\ p.kind \in {"dev", "qa", "standard", "rollback"} /\ p.c \in Commits => Same(p.c, p.n)
    /\ p.kind = "qa" => p.says \in {"approved", "rejected"} /\ <<p.c, p.n>> \in seen.dev
    /\ p.kind = "standard" => Tested(<<p.c, p.n>>)
    /\ p.kind = "rollback" => Released(<<p.c, p.n>>)
    /\ Carries(p) => Stored(Environment(p.kind), p.c, p.n)

GoodJob(j) ==
    /\ j.wf \in {"dev", "promote"} => j.c \in Commits
    /\ j.wf = "hotfix" => j.c \in Hotfixes
    /\ j.wf \in {"dev", "promote"} /\ j.step = "submit" => Same(j.c, j.n)
    /\ Promotes(j) => Tested(<<j.c, j.n>>)
    /\ j.wf = "dev" /\ j.step = "submit" => Stored("dev", j.c, j.n)
    /\ Promotes(j) => Stored("prod", j.c, j.n)

\* What the records on main stand for.
GoodRecords ==
    \A c \in Sources :
        /\ \A r \in {"dev", "qa", "standard"} : rec[r][c] # 0 => c \in Commits /\ Same(c, rec[r][c])
        /\ rec["dev"][c] # 0 => <<c, rec["dev"][c]>> \in seen.dev
        /\ rec["qa"][c] # 0 => <<c, rec["qa"][c]>> \in seen.dev
        /\ c \in Commits /\ verdict[c] = "approved" => <<c, rec["qa"][c]>> \in seen.approved
        /\ rec["standard"][c] # 0 => Tested(<<c, rec["standard"][c]>>)
        /\ rec["emergency"][c] # 0 => <<c, rec["emergency"][c]>> \in seen.hotfix /\ c \in Hotfixes

GoodImages ==
    /\ \A e \in {"dev", "prod"} : image[e][1] \in Commits => Same(image[e][1], image[e][2])
    /\ image["prod"] = Base \/ Released(image["prod"])
    /\ \A e \in {"dev", "prod"} : image[e] = Base \/ Stored(e, image[e][1], image[e][2])
    /\ \A e \in {"dev", "prod"} : image[e] = Base \/ image[e][1] \in Sources

Inv ==
    /\ Typed /\ GoodRecords /\ GoodImages
    /\ \A p \in prs : GoodPR(p)
    /\ \A j \in jobs : GoodJob(j)

-----------------------------------------------------------------------------
(* Helpers.                                                                *)

LEMMA Constants ==
    /\ Commits \subseteq Nat /\ 0 \notin Commits /\ Commits \subseteq Sources
    /\ Hotfixes \subseteq Sources /\ Hotfixes \cap Commits = {} /\ 0 \notin Hotfixes
  BY DeliveryAssumption DEF Commits, Sources

LEMMA PRFields ==
    ASSUME Typed, NEW kind \in Kinds, NEW c \in Sources, NEW n \in Nat, NEW says \in Says
    PROVE  /\ PR(kind, c, n, says) \in PullRequests
           /\ PR(kind, c, n, says).kind = kind /\ PR(kind, c, n, says).c = c
           /\ PR(kind, c, n, says).n = n /\ PR(kind, c, n, says).says = says
  <1> DEFINE base == CASE kind = "dev" -> image["dev"] [] kind \in Lanes -> image["prod"]
                       [] OTHER -> Base
  <1>1. base \in Images
    <2>1. Base \in Images BY DEF Base, Images
    <2>2. image["dev"] \in Images /\ image["prod"] \in Images BY DEF Typed
    <2> QED BY <2>1, <2>2 DEF Lanes
  <1>2. PR(kind, c, n, says) = [kind |-> kind, c |-> c, n |-> n, says |-> says, clean |-> TRUE,
                                base |-> base]
    BY DEF PR
  <1> HIDE DEF base
  <1> QED BY <1>1, <1>2 DEF PullRequests

LEMMA EnterTyped ==
    ASSUME Typed, NEW run \in Runs, run.kind = "source" => run.c \in Commits, Enter(run)
    PROVE  /\ running' \in Runs /\ (running'.kind = "source" => running'.c \in Commits)
           /\ pending' \in Runs /\ (pending'.kind = "source" => pending'.c \in Commits)
  BY DEF Enter, Typed

LEMMA JoinTyped ==
    ASSUME Typed, NEW run \in Runs, run.kind = "source" => run.c \in Commits, Join(run)
    PROVE  /\ running' \in Runs /\ (running'.kind = "source" => running'.c \in Commits)
           /\ pending' \in Runs /\ (pending'.kind = "source" => pending'.c \in Commits)
  BY EnterTyped DEF Join

LEMMA LeaveTyped ==
    ASSUME Typed, Leave
    PROVE  /\ running' \in Runs /\ (running'.kind = "source" => running'.c \in Commits)
           /\ pending' \in Runs /\ (pending'.kind = "source" => pending'.c \in Commits)
  <1>1. NoRun \in Runs /\ NoRun.kind = "none" BY DEF NoRun, Runs
  <1> QED BY <1>1 DEF Leave, Typed

LEMMA RunFacts ==
    /\ OtherRun \in Runs /\ OtherRun.kind # "source"
    /\ \A c \in Commits : SourceRun(c) \in Runs /\ SourceRun(c).c = c
  BY Constants DEF OtherRun, SourceRun, Runs

\* The workflows never take a tag of DEV away but by expiry, and change the
\* records only by merging: what was true of a digest stays true, so only
\* new pull requests and jobs need a look.
LEMMA Grows ==
    ASSUME Inv, UNCHANGED <<rec, verdict, image, seen>>,
           pushed' \in 0..MaxCommits,
           running' \in Runs, running'.kind = "source" => running'.c \in Commits,
           pending' \in Runs, pending'.kind = "source" => pending'.c \in Commits,
           tags' \in [Registries -> [Sources -> Nat]], builds' \in [Sources -> Nat],
           expired' \in [Sources -> SUBSET Registries],
           \A c \in Sources : expired[c] \subseteq expired'[c],
           \A r \in {"dev", "release", "emergency"}, c \in Sources :
               \/ tags'[r][c] = tags[r][c] \/ tags[r][c] = 0 \/ r \in expired'[c],
           \A p \in prs' : p \in prs \/ (p \in PullRequests /\ GoodPR(p)'),
           \A j \in jobs' : j \in jobs \/ (j \in Jobs /\ GoodJob(j)')
    PROVE  Inv'
  <1>1. \A c \in Sources : \A n : Same(c, n) => Same(c, n)'
    BY DEF Same
  <1>2. \A d : (Tested(d) => Tested(d)') /\ (Released(d) => Released(d)')
    BY DEF Tested, Released
  <1>3. \A e \in {"dev", "prod"}, c \in Sources : \A n : Stored(e, c, n) => Stored(e, c, n)'
    BY DEF Stored, Registry
  <1>4. Typed' BY DEF Inv, Typed
  <1>5. GoodRecords' BY <1>1, <1>2 DEF Inv, GoodRecords
  <1>6. GoodImages' BY <1>1, <1>2, <1>3, Constants DEF Inv, GoodImages
  <1>7. ASSUME NEW p \in prs PROVE GoodPR(p)'
    <2>1. p.c \in Sources /\ Environment(p.kind) \in {"dev", "prod"} /\ GoodPR(p)
      BY DEF Inv, Typed, PullRequests, Environment
    <2> QED BY <1>1, <1>2, <1>3, <2>1, Constants DEF GoodPR
  <1>8. ASSUME NEW j \in jobs PROVE GoodJob(j)'
    <2>1. j.c \in Sources /\ GoodJob(j) BY DEF Inv, Typed, Jobs
    <2> QED BY <1>1, <1>2, <1>3, <2>1, Constants DEF GoodJob, Promotes
  <1> QED BY <1>4, <1>5, <1>6, <1>7, <1>8 DEF Inv

-----------------------------------------------------------------------------
(* The candidate workflow.                                                 *)

LEMMA QueueStep ==
    ASSUME Inv, \/ PushSource \/ PushOther \/ SkipRun \/ CandidateFails
                \/ \E c \in Commits : Rerun(c)
    PROVE  Inv'
  <1>1. /\ pushed' \in 0..MaxCommits
        /\ running' \in Runs /\ (running'.kind = "source" => running'.c \in Commits)
        /\ pending' \in Runs /\ (pending'.kind = "source" => pending'.c \in Commits)
    <2>1. CASE PushSource
      <3>1. pushed + 1 \in Commits /\ pushed' \in 0..MaxCommits
        BY <2>1, DeliveryAssumption DEF PushSource, Inv, Typed, Commits
      <3> QED BY <2>1, <3>1, RunFacts, JoinTyped DEF PushSource, Inv
    <2>2. CASE PushOther BY <2>2, RunFacts, JoinTyped DEF PushOther, Inv, Typed
    <2>3. CASE \E c \in Commits : Rerun(c)
      <3>1. PICK c \in Commits : Rerun(c) BY <2>3
      <3> QED BY <3>1, RunFacts, EnterTyped DEF Rerun, Inv, Typed
    <2>4. CASE SkipRun BY <2>4, LeaveTyped DEF SkipRun, Inv, Typed
    <2>5. CASE CandidateFails BY <2>5, LeaveTyped DEF CandidateFails, Inv, Typed
    <2> QED BY <2>1, <2>2, <2>3, <2>4, <2>5
  <1>2. UNCHANGED <<registryVars, mainVars, prs, jobs, seen>>
    BY DEF PushSource, PushOther, SkipRun, CandidateFails, Rerun
  <1>3. UNCHANGED <<tags, builds, expired, rec, verdict, image, prs, jobs, seen>>
    BY <1>2 DEF registryVars, mainVars
  <1> QED BY <1>1, <1>3, Grows DEF Inv, Typed

LEMMA BuildStep ==
    ASSUME Inv, BuildCandidate
    PROVE  Inv'
  <1>1. running.c \in Commits /\ running.c \in Sources /\ running \in Runs
    BY Constants DEF BuildCandidate, Inv, Typed
  <1> DEFINE old == tags["candidate"][running.c]
             n == IF old # 0 THEN old ELSE builds[running.c] + 1
  <1>2. n \in Nat /\ old \in Nat
    BY <1>1 DEF Inv, Typed, Registries
  <1>3. /\ builds' = [builds EXCEPT ![running.c] = IF old # 0 THEN @ ELSE n]
        /\ tags' = [tags EXCEPT !["candidate"][running.c] = n]
        /\ running' = [running EXCEPT !.n = n]
        /\ UNCHANGED <<pushed, pending, expired, rec, verdict, image, prs, jobs, seen>>
    BY DEF BuildCandidate, mainVars
  <1> HIDE DEF n, old
  <1>4. running' \in Runs /\ running'.c = running.c /\ running'.kind = running.kind
    BY <1>1, <1>2, <1>3 DEF Runs
  <1>5. builds' \in [Sources -> Nat] BY <1>2, <1>3 DEF Inv, Typed
  <1>6. /\ tags' \in [Registries -> [Sources -> Nat]]
        /\ \A r \in {"dev", "release", "emergency"} : tags'[r] = tags[r]
    BY <1>2, <1>3 DEF Inv, Typed, Registries
  <1> QED BY <1>1, <1>3, <1>4, <1>5, <1>6, Grows DEF Inv, Typed

LEMMA SubmitStep ==
    ASSUME Inv, SubmitCandidates
    PROVE  Inv'
  <1> PICK p : p = PR("candidate", running.c, running.n, "none")
    OBVIOUS
  <1>1. /\ running.c \in Commits /\ running.c \in Sources /\ running.n \in Nat /\ prs' = prs \cup {p}
        /\ running' = OtherRun /\ pending' = NoRun
        /\ UNCHANGED <<pushed, tags, builds, expired, rec, verdict, image, jobs, seen>>
    BY Constants DEF SubmitCandidates, Inv, Typed, Runs, registryVars, mainVars
  <1>2. p \in PullRequests /\ p.kind = "candidate" /\ p.c = running.c
    BY <1>1, PRFields DEF Inv, Kinds, Says
  <1>3. GoodPR(p)' BY <1>1, <1>2 DEF GoodPR, Carries, Lanes
  <1>4. /\ running' \in Runs /\ (running'.kind = "source" => running'.c \in Commits)
        /\ pending' \in Runs /\ (pending'.kind = "source" => pending'.c \in Commits)
    BY <1>1, RunFacts DEF NoRun, Runs
  <1> QED BY <1>1, <1>2, <1>3, <1>4, Grows DEF Inv, Typed, Registries

-----------------------------------------------------------------------------
(* The jobs.                                                               *)

\* A job that stops or is dispatched.
LEMMA JobStarts ==
    ASSUME Inv, \/ \E c \in Commits, wf \in {"dev", "promote"} : Dispatch(wf, c)
                \/ \E j \in jobs : JobFails(j)
    PROVE  Inv'
  <1>1. /\ UNCHANGED <<queueVars, registryVars, mainVars, prs, seen>>
        /\ \A j \in jobs' : \/ j \in jobs
                            \/ \E c \in Commits, wf \in {"dev", "promote"} :
                                 j = Job(wf, c, "copy")
    BY DEF Dispatch, JobFails
  <1>2. UNCHANGED <<pushed, running, pending, tags, builds, expired, rec, verdict, image, prs, seen>>
    BY <1>1 DEF queueVars, registryVars, mainVars
  <1>3. ASSUME NEW j \in jobs', j \notin jobs PROVE j \in Jobs /\ GoodJob(j)'
    <2>1. PICK c \in Commits, wf \in {"dev", "promote"} :
            j = Job(wf, c, "copy")
      BY <1>1, <1>3
    <2>2. j \in Jobs BY <2>1, Constants DEF Jobs, Job
    <2> QED BY <2>1, <2>2 DEF GoodJob, Promotes, Job
  <1> QED BY <1>1, <1>2, <1>3, Grows DEF Inv, Typed

\* The copy puts a digest under a tag that was free or names it already.
LEMMA CopyTyped ==
    ASSUME Inv, NEW registry \in Registries, NEW c \in Sources, NEW n \in Nat, n # 0,
           CopyImmutable(registry, c, n), tags' = Copied(registry, c, n)
    PROVE  /\ tags' \in [Registries -> [Sources -> Nat]]
           /\ \A r \in Registries, s \in Sources : tags'[r][s] = tags[r][s] \/ tags[r][s] = 0
           /\ tags'[registry][c] = n
  BY DEF CopyImmutable, Copied, Inv, Typed, Registries

LEMMA DevCopyStep ==
    ASSUME Inv, NEW j \in jobs, DevCopy(j)
    PROVE  Inv'
  <1> PICK n : n = rec["candidate"][j.c] OBVIOUS
  <1> DEFINE k == [j EXCEPT !.step = "submit", !.n = n]
  <1>1. j \in Jobs /\ j.wf = "dev" /\ j.c \in Commits /\ j.c \in Sources
    BY Constants DEF DevCopy, Inv, GoodJob, Typed
  <1>2. n \in Nat BY <1>1 DEF Inv, Typed, Records
  <1>3. UNCHANGED <<pushed, running, pending, builds, expired, rec, verdict, image, prs, seen>>
    BY DEF DevCopy, queueVars, mainVars
  <1>4. CASE jobs' = jobs \ {j} /\ UNCHANGED tags
    BY <1>3, <1>4, Grows DEF Inv, Typed
  <1>5. CASE /\ n # 0 /\ CopyImmutable("dev", j.c, n) /\ tags' = Copied("dev", j.c, n)
             /\ jobs' = (jobs \ {j}) \cup {k}
    <2>1. /\ tags' \in [Registries -> [Sources -> Nat]]
          /\ \A r \in Registries, s \in Sources : tags'[r][s] = tags[r][s] \/ tags[r][s] = 0
          /\ tags'["dev"][j.c] = n
      BY <1>1, <1>2, <1>5, CopyTyped DEF Registries
    <2>2. k \in Jobs /\ k.wf = "dev" /\ k.c = j.c /\ k.n = n
      BY <1>1, <1>2 DEF Jobs
    <2> HIDE DEF k
    <2>3. GoodJob(k)'
      BY <1>1, <1>5, <2>1, <2>2 DEF GoodJob, Promotes, Same, Stored, Registry
    <2> QED BY <1>3, <1>5, <2>1, <2>2, <2>3, Grows DEF Inv, Typed, Registries
  <1> QED BY <1>4, <1>5 DEF DevCopy

LEMMA PromoteCopyStep ==
    ASSUME Inv, NEW j \in jobs, PromoteCopy(j)
    PROVE  Inv'
  <1> PICK n : n = rec["candidate"][j.c] OBVIOUS
  <1> DEFINE k == [j EXCEPT !.step = "submit", !.n = n]
  <1>1. j \in Jobs /\ j.wf = "promote" /\ j.c \in Commits /\ j.c \in Sources
    BY Constants DEF PromoteCopy, Inv, GoodJob, Typed
  <1>2. n \in Nat BY <1>1 DEF Inv, Typed, Records
  <1>3. UNCHANGED <<pushed, running, pending, builds, expired, rec, verdict, image, prs, seen>>
    BY DEF PromoteCopy, queueVars, mainVars
  <1>4. CASE jobs' = jobs \ {j} /\ UNCHANGED tags
    BY <1>3, <1>4, Grows DEF Inv, Typed
  <1>5. CASE /\ ValidateStandard(j.c) /\ CopyImmutable("release", j.c, n)
             /\ tags' = Copied("release", j.c, n) /\ jobs' = (jobs \ {j}) \cup {k}
    <2>1. n # 0 /\ verdict[j.c] = "approved" /\ rec["qa"][j.c] = n
      BY <1>5 DEF ValidateStandard
    <2>2. /\ tags' \in [Registries -> [Sources -> Nat]]
          /\ \A r \in Registries, s \in Sources : tags'[r][s] = tags[r][s] \/ tags[r][s] = 0
          /\ tags'["release"][j.c] = n
      BY <1>1, <1>2, <1>5, <2>1, CopyTyped DEF Registries
    <2>6. tags'["dev"] = tags["dev"]
      BY <1>1, <1>5 DEF Copied, Inv, Typed, Registries
    <2>3. k \in Jobs /\ k.wf = "promote" /\ k.c = j.c /\ k.n = n
      BY <1>1, <1>2 DEF Jobs
    <2> HIDE DEF k
    <2>4. Same(j.c, n) /\ Tested(<<j.c, n>>)
      BY <1>1, <2>1 DEF Inv, GoodRecords, Tested
    <2>5. GoodJob(k)'
      BY <1>1, <1>3, <2>1, <2>2, <2>3, <2>4, <2>6
         DEF GoodJob, Promotes, Same, Tested, Stored, Registry
    <2> QED BY <1>3, <1>5, <2>2, <2>3, <2>5, Grows DEF Inv, Typed, Registries
  <1> QED BY <1>4, <1>5 DEF PromoteCopy

\* A job that proposes what it has worked on.
LEMMA JobSubmits ==
    ASSUME Inv, NEW j \in jobs, DevSubmit(j) \/ PromoteSubmit(j) \/ Reconcile(j)
    PROVE  Inv'
  <1>1. /\ j \in Jobs /\ j.c \in Sources /\ j.n \in Nat /\ GoodJob(j)
        /\ UNCHANGED <<pushed, tags, builds, expired, rec, verdict, image, seen>>
        /\ jobs' = jobs \ {j} /\ Join(OtherRun)
    BY DEF DevSubmit, PromoteSubmit, Reconcile, Inv, Typed, Jobs, registryVars, mainVars
  <1>2. \E p \in PullRequests : prs' = prs \cup {p} /\ GoodPR(p)'
    <2>1. CASE DevSubmit(j)
      <3> PICK p : p = PR("dev", j.c, j.n, "none") OBVIOUS
      <3>1. /\ p \in PullRequests /\ p.kind = "dev" /\ p.c = j.c /\ p.n = j.n
            /\ prs' = prs \cup {p}
        BY <1>1, <2>1, PRFields DEF Inv, Kinds, Says, DevSubmit
      <3>2. GoodPR(p)'
        BY <1>1, <2>1, <3>1 DEF DevSubmit, GoodPR, GoodJob, Same, Stored, Environment
      <3> QED BY <3>1, <3>2
    <2>2. CASE PromoteSubmit(j)
      <3> PICK p : p = PR("standard", j.c, j.n, "none") OBVIOUS
      <3>1. /\ p \in PullRequests /\ p.kind = "standard" /\ p.c = j.c /\ p.n = j.n
            /\ prs' = prs \cup {p}
        BY <1>1, <2>2, PRFields DEF Inv, Kinds, Says, PromoteSubmit
      <3>2. Promotes(j) BY <2>2 DEF PromoteSubmit, Promotes
      <3>3. /\ j.c \in Commits /\ Same(j.c, j.n) /\ Tested(<<j.c, j.n>>)
            /\ Stored("prod", j.c, j.n)
        BY <1>1, <3>2 DEF GoodJob, Promotes
      <3>4. GoodPR(p)'
        BY <1>1, <3>1, <3>3 DEF GoodPR, Same, Tested, Stored, Environment
      <3> QED BY <3>1, <3>4
    <2>3. CASE Reconcile(j)
      <3> PICK p : p = PR("reconcile", j.c, 1, "none") OBVIOUS
      <3>1. p \in PullRequests /\ p.kind = "reconcile" /\ prs' = prs \cup {p}
        BY <1>1, <2>3, PRFields DEF Inv, Kinds, Says, Reconcile
      <3>2. GoodPR(p)' BY <3>1 DEF GoodPR, Carries, Lanes
      <3> QED BY <3>1, <3>2
    <2> QED BY <2>1, <2>2, <2>3
  <1>3. /\ running' \in Runs /\ (running'.kind = "source" => running'.c \in Commits)
        /\ pending' \in Runs /\ (pending'.kind = "source" => pending'.c \in Commits)
    BY <1>1, RunFacts, JoinTyped DEF Inv
  <1> QED BY <1>1, <1>2, <1>3, Grows DEF Inv, Typed

-----------------------------------------------------------------------------
(* People and registries.                                                  *)

LEMMA QaStep ==
    ASSUME Inv, NEW c \in Commits, NEW decision \in {"approved", "rejected"},
           QaDecide(c, decision)
    PROVE  Inv'
  <1> PICK n : n = rec["candidate"][c] OBVIOUS
  <1> PICK p : p = PR("qa", c, n, decision) OBVIOUS
  <1>1. /\ c \in Sources /\ n \in Nat /\ n # 0 /\ n = rec["dev"][c] /\ prs' = prs \cup {p}
        /\ UNCHANGED <<pushed, tags, builds, expired, rec, verdict, image, jobs, seen>>
        /\ Join(OtherRun)
    BY Constants DEF QaDecide, ValidateDevRelease, Inv, Typed, Records, registryVars, mainVars
  <1>2. p \in PullRequests /\ p.kind = "qa" /\ p.c = c /\ p.n = n /\ p.says = decision
    BY <1>1, PRFields DEF Inv, Kinds, Says
  <1>3. Same(c, n) /\ <<c, n>> \in seen.dev
    BY <1>1 DEF Inv, GoodRecords
  <1>4. GoodPR(p)' BY <1>1, <1>2, <1>3 DEF GoodPR, Same, Carries, Lanes
  <1>5. /\ running' \in Runs /\ (running'.kind = "source" => running'.c \in Commits)
        /\ pending' \in Runs /\ (pending'.kind = "source" => pending'.c \in Commits)
    BY <1>1, RunFacts, JoinTyped DEF Inv
  <1> QED BY <1>1, <1>2, <1>4, <1>5, Grows DEF Inv, Typed

LEMMA RollbackStep ==
    ASSUME Inv, NEW c \in Sources, Rollback(c)
    PROVE  Inv'
  <1> PICK n : n = History(c) OBVIOUS
  <1> PICK p : p = PR("rollback", c, n, "none") OBVIOUS
  <1>1. /\ n \in Nat /\ n # 0 /\ prs' = prs \cup {p}
        /\ n \in {tags["release"][c], tags["emergency"][c]}
        /\ UNCHANGED <<pushed, tags, builds, expired, rec, verdict, image, jobs, seen>>
        /\ Join(OtherRun)
    BY DEF Rollback, History, Inv, Typed, Records, registryVars, mainVars
  <1>2. p \in PullRequests /\ p.kind = "rollback" /\ p.c = c /\ p.n = n
    BY <1>1, PRFields DEF Inv, Kinds, Says
  <1>3. Released(<<c, n>>) /\ (c \in Commits => Same(c, n))
    <2>1. CASE rec["standard"][c] # 0
      BY <2>1 DEF History, Inv, GoodRecords, Released
    <2>2. CASE rec["standard"][c] = 0
      BY <1>1, <2>2, Constants DEF History, Inv, GoodRecords, Released
    <2> QED BY <2>1, <2>2
  <1>4. Stored("prod", c, n) BY <1>1 DEF Stored, Registry
  <1>5. GoodPR(p)'
    BY <1>1, <1>2, <1>3, <1>4 DEF GoodPR, Same, Released, Tested, Stored, Environment
  <1>6. /\ running' \in Runs /\ (running'.kind = "source" => running'.c \in Commits)
        /\ pending' \in Runs /\ (pending'.kind = "source" => pending'.c \in Commits)
    BY <1>1, RunFacts, JoinTyped DEF Inv
  <1> QED BY <1>1, <1>2, <1>5, <1>6, Grows DEF Inv, Typed

LEMMA HotfixStep ==
    ASSUME Inv, NEW h \in Hotfixes, Hotfix(h)
    PROVE  Inv'
  <1> PICK old : old = tags["emergency"][h] OBVIOUS
  <1> PICK n : n = IF old # 0 THEN old ELSE builds[h] + 1 OBVIOUS
  <1> PICK p : p = PR("emergency", h, n, "none") OBVIOUS
  <1> PICK j : j = Job("hotfix", h, "reconcile") OBVIOUS
  <1>1. h \in Sources /\ h \notin Commits BY Constants
  <1>2. n \in Nat /\ n # 0 BY <1>1 DEF Inv, Typed, Registries
  <1>3. /\ builds' = [builds EXCEPT ![h] = IF old # 0 THEN @ ELSE n]
        /\ tags' = [tags EXCEPT !["emergency"][h] = n]
        /\ prs' = prs \cup {p} /\ jobs' \subseteq jobs \cup {j}
        /\ UNCHANGED <<pushed, expired, rec, verdict, image, seen>>
        /\ Join(OtherRun)
    BY DEF Hotfix, mainVars
  <1>4. builds' \in [Sources -> Nat] BY <1>2, <1>3 DEF Inv, Typed
  <1>5. /\ tags' \in [Registries -> [Sources -> Nat]] /\ tags'["emergency"][h] = n
        /\ \A r \in Registries, s \in Sources : tags'[r][s] = tags[r][s] \/ tags[r][s] = 0
    BY <1>1, <1>2, <1>3 DEF Inv, Typed, Registries
  <1>6. p \in PullRequests /\ p.kind = "emergency" /\ p.c = h /\ p.n = n
    BY <1>1, <1>2, PRFields DEF Inv, Kinds, Says
  <1>7. GoodPR(p)' BY <1>1, <1>2, <1>5, <1>6 DEF GoodPR, Stored, Registry, Environment
  <1>8. j \in Jobs /\ GoodJob(j)' BY <1>1 DEF Jobs, Job, GoodJob, Promotes
  <1>9. /\ running' \in Runs /\ (running'.kind = "source" => running'.c \in Commits)
        /\ pending' \in Runs /\ (pending'.kind = "source" => pending'.c \in Commits)
    BY <1>3, RunFacts, JoinTyped DEF Inv
  <1> QED BY <1>3, <1>4, <1>5, <1>6, <1>7, <1>8, <1>9, Grows DEF Inv, Typed, Registries

LEMMA ExpireStep ==
    ASSUME Inv, NEW registry \in Registries, NEW c \in Sources, Expire(registry, c)
    PROVE  Inv'
  <1>1. /\ tags' = [tags EXCEPT ![registry][c] = 0]
        /\ expired' = [expired EXCEPT ![c] = @ \cup {registry}]
        /\ UNCHANGED <<pushed, running, pending, builds, rec, verdict, image, prs, jobs, seen>>
    BY DEF Expire, queueVars, mainVars
  <1>2. tags' \in [Registries -> [Sources -> Nat]] /\ expired' \in [Sources -> SUBSET Registries]
    BY <1>1 DEF Inv, Typed
  <1>3. \A s \in Sources : expired[s] \subseteq expired'[s]
    BY <1>1 DEF Inv, Typed
  <1>4. \A r \in Registries, s \in Sources : tags'[r][s] = tags[r][s] \/ r \in expired'[s]
    BY <1>1 DEF Inv, Typed, Registries
  <1> QED BY <1>1, <1>2, <1>3, <1>4, Grows DEF Inv, Typed, Registries

-----------------------------------------------------------------------------
(* Merging.                                                                *)

\* What a merge leaves of the other pull requests and of the jobs.
LEMMA MergeKeeps ==
    ASSUME Inv, NEW p \in prs, Merge(p)
    PROVE  /\ \A x \in prs' : \E q \in prs :
                /\ x \in PullRequests /\ x.kind = q.kind /\ x.c = q.c /\ x.n = q.n
                /\ x.says = q.says
           /\ jobs' = jobs \cup Triggered(p)
  <1>1. ASSUME NEW x \in prs'
        PROVE  \E q \in prs :
                /\ x \in PullRequests /\ x.kind = q.kind /\ x.c = q.c /\ x.n = q.n
                /\ x.says = q.says
    <2>1. PICK q \in prs : x = [q EXCEPT !.clean = @ /\ ~(q.kind = p.kind /\ q.c = p.c)]
      BY DEF Merge
    <2>2. q \in PullRequests BY DEF Inv, Typed
    <2>3. PICK clean \in BOOLEAN : x = [q EXCEPT !.clean = clean]
      BY <2>1, <2>2 DEF PullRequests
    <2>4. x \in PullRequests /\ x.kind = q.kind /\ x.c = q.c /\ x.n = q.n /\ x.says = q.says
      BY <2>2, <2>3 DEF PullRequests
    <2> QED BY <2>4
  <1> QED BY <1>1 DEF Merge

LEMMA TriggeredGood ==
    ASSUME NEW p \in PullRequests, GoodPR(p), NEW x \in Triggered(p)
    PROVE  /\ x \in Jobs /\ x.wf \in {"dev", "promote"} /\ x.c \in Commits
           /\ x.step = "copy"
  <1>1. CASE p.kind = "candidate"
    <2>1. x = Job("dev", p.c, "copy")
      BY <1>1 DEF Triggered
    <2>2. p.c \in Commits /\ p.c \in Sources BY <1>1, Constants DEF GoodPR
    <2> QED BY <2>1, <2>2 DEF Jobs, Job
  <1>2. CASE p.kind = "qa"
    <2>1. x = Job("promote", p.c, "copy")
      BY <1>2 DEF Triggered
    <2>2. p.c \in Commits /\ p.c \in Sources BY <1>2, Constants DEF GoodPR
    <2> QED BY <2>1, <2>2 DEF Jobs, Job
  <1>3. CASE p.kind \notin {"candidate", "qa"}
    BY <1>3 DEF Triggered
  <1> QED BY <1>1, <1>2, <1>3

LEMMA MergeInv ==
    ASSUME Inv, NEW p \in prs, Merge(p)
    PROVE  Inv'
  <1> PICK d : d = <<p.c, p.n>> OBVIOUS
  <1>1. /\ p \in PullRequests /\ GoodPR(p) /\ p.c \in Sources /\ p.n \in Nat /\ p.kind \in Kinds
        /\ p.says \in Says
        /\ UNCHANGED <<pushed, tags, builds, expired>>
    BY DEF Merge, Inv, Typed, PullRequests, registryVars
  <1>2. /\ seen'.dev = seen.dev \cup (IF p.kind = "dev" THEN {d} ELSE {})
        /\ seen'.approved = seen.approved
             \cup (IF p.kind = "qa" /\ p.says = "approved" THEN {d} ELSE {})
        /\ seen'.hotfix = seen.hotfix \cup (IF p.kind = "emergency" THEN {d} ELSE {})
    BY DEF Merge
  <1>3. /\ seen.dev \subseteq seen'.dev /\ seen.approved \subseteq seen'.approved
        /\ seen.hotfix \subseteq seen'.hotfix
    BY <1>2
  <1>4. /\ rec' \in [Records -> [Sources -> Nat]]
        /\ \A r \in Records, c \in Sources :
             rec'[r][c] = IF r = p.kind /\ c = p.c THEN p.n ELSE rec[r][c]
    BY <1>1 DEF Merge, Inv, Typed
  <1>5. /\ verdict' \in [Commits -> Says]
        /\ \A c \in Commits :
             verdict'[c] = IF p.kind = "qa" /\ c = p.c THEN p.says ELSE verdict[c]
    BY <1>1 DEF Merge, Inv, Typed
  <1>6. /\ image' \in [{"dev", "prod"} -> Images]
        /\ \A e \in {"dev", "prod"} :
             image'[e] = IF Carries(p) /\ e = Environment(p.kind) THEN d ELSE image[e]
    <2>1. d \in Images BY <1>1 DEF Images
    <2> QED BY <1>1, <2>1 DEF Merge, Inv, Typed, Environment
  <1>7. /\ running' \in Runs /\ (running'.kind = "source" => running'.c \in Commits)
        /\ pending' \in Runs /\ (pending'.kind = "source" => pending'.c \in Commits)
    BY RunFacts, JoinTyped DEF Merge, Inv
  <1>8. Typed'
    <2>1. prs' \subseteq PullRequests BY MergeKeeps
    <2>2. jobs' \subseteq Jobs BY <1>1, MergeKeeps, TriggeredGood DEF Inv, Typed
    <2> QED BY <1>1, <1>4, <1>5, <1>6, <1>7, <2>1, <2>2 DEF Inv, Typed
  <1>9. GoodRecords'
    <2> SUFFICES ASSUME NEW c \in Sources
                 PROVE  /\ \A r \in {"dev", "qa", "standard"} :
                             rec'[r][c] # 0 => c \in Commits /\ Same(c, rec'[r][c])
                        /\ rec'["dev"][c] # 0 => <<c, rec'["dev"][c]>> \in seen'.dev
                        /\ rec'["qa"][c] # 0 => <<c, rec'["qa"][c]>> \in seen'.dev
                        /\ c \in Commits /\ verdict'[c] = "approved" =>
                             <<c, rec'["qa"][c]>> \in seen'.approved
                        /\ rec'["standard"][c] # 0 =>
                             <<c, rec'["standard"][c]>> \in seen'.dev \cap seen'.approved
                        /\ rec'["emergency"][c] # 0 =>
                             <<c, rec'["emergency"][c]>> \in seen'.hotfix /\ c \in Hotfixes
      BY <1>1 DEF GoodRecords, Same, Tested, Released
    <2>1. {"dev", "qa", "standard", "emergency"} \subseteq Records BY DEF Records
    <2>2. CASE c # p.c
      <3>1. \A r \in Records : rec'[r][c] = rec[r][c] BY <1>4, <2>2
      <3>2. c \in Commits => verdict'[c] = verdict[c] BY <1>5, <2>2
      <3> QED BY <1>3, <2>1, <3>1, <3>2 DEF Inv, GoodRecords, Tested
    <2>3. CASE c = p.c
      <3>1. \A r \in Records : rec'[r][c] = IF r = p.kind THEN p.n ELSE rec[r][c] BY <1>4, <2>3
      <3>2. c \in Commits => verdict'[c] = IF p.kind = "qa" THEN p.says ELSE verdict[c]
        BY <1>5, <2>3
      <3>8. /\ p.kind \in {"dev", "qa", "standard"} => c \in Commits /\ Same(c, p.n)
            /\ p.kind = "qa" => <<c, p.n>> \in seen.dev
            /\ p.kind = "standard" => Tested(<<c, p.n>>)
            /\ p.kind = "emergency" => c \in Hotfixes
            /\ d = <<c, p.n>>
        BY <1>1, <2>3 DEF GoodPR
      <3>9. /\ \A r \in {"dev", "qa", "standard"} : rec[r][c] # 0 => c \in Commits /\ Same(c, rec[r][c])
            /\ rec["dev"][c] # 0 => <<c, rec["dev"][c]>> \in seen.dev
            /\ rec["qa"][c] # 0 => <<c, rec["qa"][c]>> \in seen.dev
            /\ c \in Commits /\ verdict[c] = "approved" => <<c, rec["qa"][c]>> \in seen.approved
            /\ rec["standard"][c] # 0 => Tested(<<c, rec["standard"][c]>>)
            /\ rec["emergency"][c] # 0 => <<c, rec["emergency"][c]>> \in seen.hotfix /\ c \in Hotfixes
        BY DEF Inv, GoodRecords
      <3>3. CASE p.kind = "dev"
        BY <1>2, <1>3, <2>1, <2>3, <3>1, <3>2, <3>8, <3>9, <3>3 DEF Tested
      <3>4. CASE p.kind = "qa"
        BY <1>2, <1>3, <2>1, <2>3, <3>1, <3>2, <3>8, <3>9, <3>4 DEF Tested
      <3>5. CASE p.kind = "standard"
        BY <1>2, <1>3, <2>1, <2>3, <3>1, <3>2, <3>8, <3>9, <3>5 DEF Tested
      <3>6. CASE p.kind = "emergency"
        BY <1>2, <1>3, <2>1, <2>3, <3>1, <3>2, <3>8, <3>9, <3>6 DEF Tested
      <3>7. CASE p.kind \notin {"dev", "qa", "standard", "emergency"}
        BY <1>3, <2>1, <3>1, <3>2, <3>7 DEF Inv, GoodRecords, Tested
      <3> QED BY <3>3, <3>4, <3>5, <3>6, <3>7
    <2> QED BY <2>2, <2>3
  <1>10. GoodImages'
    <2>1. ASSUME NEW e \in {"dev", "prod"}, image'[e][1] \in Commits
          PROVE  Same(image'[e][1], image'[e][2])
      <3>1. d[1] = p.c /\ d[2] = p.n OBVIOUS
      <3>2. Carries(p) /\ p.c \in Commits => Same(p.c, p.n)
        BY <1>1, Constants DEF Carries, Lanes, GoodPR
      <3> QED BY <1>6, <2>1, <3>1, <3>2 DEF Inv, GoodImages
    <2>2. \/ image'["prod"] = Base
          \/ image'["prod"] \in seen'.dev \cap seen'.approved
          \/ image'["prod"][1] \in Hotfixes /\ image'["prod"] \in seen'.hotfix
      <3>1. CASE Carries(p) /\ Environment(p.kind) = "prod"
        <4>1. image'["prod"] = d BY <1>6, <3>1
        <4> QED
          BY <1>1, <1>2, <1>3, <3>1, <4>1 DEF Carries, Lanes, Environment, GoodPR, Released, Tested
      <3>2. CASE ~(Carries(p) /\ Environment(p.kind) = "prod")
        <4>1. image'["prod"] = image["prod"] BY <1>6, <3>2
        <4> QED BY <1>3, <4>1 DEF Inv, GoodImages, Released, Tested
      <3> QED BY <3>1, <3>2
    <2>3. ASSUME NEW e \in {"dev", "prod"}, image'[e] # Base
          PROVE  image'[e][1] \in Sources /\ Stored(e, image'[e][1], image'[e][2])
      <3>1. CASE Carries(p) /\ e = Environment(p.kind)
        <4>1. image'[e] = d /\ d[1] = p.c /\ d[2] = p.n BY <1>6, <3>1
        <4> QED BY <1>1, <3>1, <4>1 DEF GoodPR
      <3>2. CASE ~(Carries(p) /\ e = Environment(p.kind))
        <4>1. image'[e] = image[e] BY <1>6, <3>2
        <4> QED BY <2>3, <4>1 DEF Inv, GoodImages
      <3> QED BY <3>1, <3>2
    <2> QED BY <1>1, <2>1, <2>2, <2>3 DEF GoodImages, Same, Released, Tested, Stored
  <1>11. ASSUME NEW x \in prs' PROVE GoodPR(x)'
    <2>1. PICK q \in prs :
            /\ x \in PullRequests /\ x.kind = q.kind /\ x.c = q.c /\ x.n = q.n /\ x.says = q.says
      BY MergeKeeps
    <2>2. GoodPR(q) BY DEF Inv
    <2> QED BY <1>1, <1>3, <2>1, <2>2 DEF GoodPR, Same, Released, Tested, Stored, Carries
  <1>12. ASSUME NEW x \in jobs' PROVE GoodJob(x)'
    <2>1. CASE x \in Triggered(p)
      BY <1>1, <2>1, TriggeredGood DEF GoodJob, Promotes
    <2>2. CASE x \in jobs
      <3>1. GoodJob(x) BY <2>2 DEF Inv
      <3> QED BY <1>1, <1>3, <3>1 DEF GoodJob, Promotes, Same, Tested, Stored
    <2> QED BY <2>1, <2>2, MergeKeeps
  <1> QED BY <1>8, <1>9, <1>10, <1>11, <1>12 DEF Inv

-----------------------------------------------------------------------------
(* The theorems.                                                           *)

LEMMA InitInv == Init => Inv
  <1> SUFFICES ASSUME Init PROVE Inv
    OBVIOUS
  <1>1. Typed
    <2>1. NoRun \in Runs /\ NoRun.kind = "none" BY DEF NoRun, Runs
    <2>2. image \in [{"dev", "prod"} -> Images]
      <3>1. Base \in Images BY DEF Base, Images
      <3> QED BY <3>1 DEF Init
    <2>3. pushed \in 0..MaxCommits BY DeliveryAssumption DEF Init
    <2> QED BY <2>1, <2>2, <2>3 DEF Init, Typed, Says
  <1>2. GoodRecords
    <2>1. \A r \in Records, c \in Sources : rec[r][c] = 0 BY DEF Init
    <2>2. \A c \in Commits : verdict[c] = "none" BY DEF Init
    <2> QED BY <2>1, <2>2 DEF GoodRecords, Records
  <1>3. GoodImages BY Constants DEF Init, GoodImages, Base
  <1> QED BY <1>1, <1>2, <1>3 DEF Init, Inv

LEMMA NextInv == Inv /\ [Next]_vars => Inv'
  <1> SUFFICES ASSUME Inv, [Next]_vars PROVE Inv'
    OBVIOUS
  <1>1. CASE PushSource \/ PushOther \/ SkipRun \/ CandidateFails BY <1>1, QueueStep
  <1>2. CASE BuildCandidate BY <1>2, BuildStep
  <1>3. CASE SubmitCandidates BY <1>3, SubmitStep
  <1>4. CASE \E c \in Troubled \cap Commits :
               Rerun(c) \/ \E wf \in {"dev", "promote"} : Dispatch(wf, c)
    BY <1>4, QueueStep, JobStarts
  <1>5. CASE \E c \in Commits, decision \in {"approved", "rejected"} : QaDecide(c, decision)
    BY <1>5, QaStep
  <1>6. CASE \E p \in prs : Merge(p) BY <1>6, MergeInv
  <1>7. CASE \E j \in jobs : \/ DevCopy(j) \/ DevSubmit(j) \/ PromoteCopy(j)
                             \/ PromoteSubmit(j) \/ Reconcile(j) \/ JobFails(j)
    BY <1>7, DevCopyStep, PromoteCopyStep, JobSubmits, JobStarts
  <1>8. CASE \E c \in Troubled : Rollback(c)
    BY <1>8, RollbackStep, DeliveryAssumption
  <1>9. CASE \E h \in Hotfixes : Hotfix(h) BY <1>9, HotfixStep
  <1>10. CASE \E registry \in Registries, c \in Troubled : Expire(registry, c)
    BY <1>10, ExpireStep, DeliveryAssumption
  <1>11. CASE UNCHANGED vars
    BY <1>11, Grows DEF vars, Inv, Typed
  <1> QED
    BY <1>1, <1>2, <1>3, <1>4, <1>5, <1>6, <1>7, <1>8, <1>9, <1>10, <1>11 DEF Next

LEMMA Invariance == Spec => []Inv
  BY InitInv, NextInv, PTL DEF Spec

\* prod-promote.yml, prod-rollback.yml and prod-hotfix.yml: whichever of these lanes made it
\* PROD's image and however late its pull request was merged, the digest had been
\* DEV's image and approved by QA, or is a hotfix that had been released.
THEOREM OnlyTestedInProd == Spec => []ProdWasTested
  <1>1. Inv => ProdWasTested
    BY DEF Inv, GoodImages, ProdWasTested, Released, Tested
  <1> QED BY <1>1, Invariance, PTL

\* copy-immutable-artifact and the validation of the records: as long as
\* DEV's tag of a commit has not expired, all that is recorded, judged and
\* desired of the commit is the build which that tag names.
THEOREM BuiltOnce == Spec => []OneArtifact
  <1>1. Inv => OneArtifact
    <2> SUFFICES ASSUME Inv, NEW c \in Commits, "dev" \notin expired[c]
                 PROVE  Cardinality(Evidence(c)) <= 1
      BY DEF OneArtifact
    <2>1. c \in Sources BY Constants
    <2>2. Evidence(c) \subseteq {tags["dev"][c]}
      <3>1. \A r \in {"dev", "qa", "standard"} : rec[r][c] # 0 => rec[r][c] = tags["dev"][c]
        BY <2>1 DEF Inv, GoodRecords, Same
      <3>2. \A e \in {"dev", "prod"} : image[e][1] = c => image[e][2] = tags["dev"][c]
        BY DEF Inv, GoodImages, Same
      <3> QED BY <3>1, <3>2 DEF Evidence
    <2>3. IsFiniteSet({tags["dev"][c]}) /\ Cardinality({tags["dev"][c]}) = 1 BY FS_Singleton
    <2> QED BY <2>2, <2>3, FS_Subset
  <1> QED BY <1>1, Invariance, PTL

\* copy-immutable-artifact before submit-gitops-pr, and the rollback's look at
\* the registry: what DEV and PROD are told to run is in their registry unless
\* its retention removed it, however long the pull request was open.
THEOREM NothingMissing == Spec => []DesiredCanBePulled
  <1>1. Inv => DesiredCanBePulled
    BY DEF Inv, GoodImages, Stored, DesiredCanBePulled
  <1> QED BY <1>1, Invariance, PTL
=============================================================================
