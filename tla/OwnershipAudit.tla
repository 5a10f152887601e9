-------------------------- MODULE OwnershipAudit --------------------------
(***************************************************************************)
(* PlatformOwnershipGuard: the controller that scans a cluster for one     *)
(* OwnershipAudit, keeps the findings in the audit's status and announces  *)
(* what changed as Events and transition metrics.  A scan reads the audit, *)
(* the Argo Application, the target list and every owner in separate calls *)
(* while the cluster moves on; the leader may die at any point and the     *)
(* other replica starts over from the stored status.                       *)
(*                                                                         *)
(* One audit with one Application that tracks Resources.  A finding is its *)
(* identity <<class, resource>> with a confidence; the severity follows    *)
(* from the identity.  Texts, reasons and timestamps are left out, and so  *)
(* is the heartbeat patch, which carries nothing else.                     *)
(***************************************************************************)
EXTENDS Naturals, FiniteSets, Functions

CONSTANTS
    Resources,     \* what the Application tracks
    Candidates,    \* bound: those Argo may want to prune
    Targets,       \* those matched by a target rule: listed, annotations readable
    High,          \* Deployments, Secrets, PersistentVolumeClaims
    OwnerRef,      \* per target, the UID in its ownerReference, or None
    Unregistered,  \* targets whose owner's kind is not in supportedRegistry
    UIDs,          \* UIDs an owner may have
    Order,         \* the order of the resources' target keys
    MaxFindings,   \* findings kept in the status (100 in the code)
    Budget,        \* bound: how often each kind of fault or change happens
    MaxFaults,     \* bound: how many of them happen in all
    None           \* no owner

FaultKinds == {"evidence", "untrusted", "spec", "lag", "stale", "patch", "crash", "change"}
Owned      == {r \in Targets : OwnerRef[r] # None}

\* What a lookup that found no UID leaves.
OwnerStates == {"unread", "missed", "absent", "failed", "unregistered"}

ASSUME AuditAssumption ==
    /\ Candidates \subseteq Resources /\ Targets \subseteq Resources /\ High \subseteq Resources
    /\ Unregistered \subseteq Targets
    /\ None \notin UIDs /\ UIDs \cap OwnerStates = {}
    /\ OwnerRef \in [Targets -> UIDs \cup {None}]
    /\ Order \in [Resources -> Nat]
    /\ \A r, s \in Resources : Order[r] = Order[s] => r = s
    /\ MaxFindings \in Nat \ {0}
    /\ Budget \in [FaultKinds -> Nat] /\ MaxFaults \in Nat
    /\ IsFiniteSet(Resources)

VARIABLES
    app,       \* the Application: its state, prune candidates, automated prune
    prot,      \* targets annotated with Prune=false
    owner,     \* UID of each target's owner, None while there is none
    ownerLag,  \* the same before its last change: what a cache may still say
    spec,      \* the audit's spec: enabled detectors, target rules supported or not
    live,      \* the audit's stored status
    prev,      \* the status before the last write: what a cache may still say
    pc,        \* how far the scan is
    base,      \* the status the scan started from
    ev,        \* the scan's NormalizedSnapshot
    events,    \* transitions announced by the last scan
    gone,      \* history: prune risks absent at some moment of this scan
    been,      \* history: missing owners and prunable targets of some moment of this scan
    torn,      \* history: what changed between this scan's reads of Application and targets
    said,      \* history: findings announced since they entered the stored status
    repeated,  \* history: one of them was announced as detected again
    faults     \* faults and changes of each kind so far

worldVars   == <<app, prot, owner, ownerLag, spec>>
statusVars  == <<live, prev>>
scanVars    == <<pc, base, ev>>
historyVars == <<gone, been, torn, said, repeated>>
vars == <<app, prot, owner, ownerLag, spec, live, prev, pc, base, ev, events,
          gone, been, torn, said, repeated, faults>>

-----------------------------------------------------------------------------
(* Findings.                                                               *)

Finding(class, r, conf) == [id |-> <<class, r>>, conf |-> conf]
IdsOf(findings) == {f.id : f \in findings}

Unread == [state |-> "unread", prune |-> {}, auto |-> FALSE]
Detectors == {"ArgoPruneRisk", "StaleOwnerReference"}
Both  == [valid |-> TRUE, detectors |-> Detectors]
Specs == {[Both EXCEPT !.detectors = d] : d \in (SUBSET Detectors) \ {{}}}
           \cup {[Both EXCEPT !.valid = FALSE]}
NoEvidence == [spec |-> Both, failed |-> FALSE, app |-> Unread, list |-> "unread",
               prot |-> {}, owner |-> [r \in Owned |-> "unread"]]

\* The target's annotations were read.
Readable(e, r) == e.list = "read" /\ r \in Targets

\* The risks of a trustworthy Application: a candidate without a readable
\* Prune=false, confirmed when it is readable and automated prune is on.
RisksOf(e) ==
    {Finding("PruneRisk", r,
             IF Readable(e, r) /\ e.app.auto THEN "Confirmed" ELSE "Suspected") :
        r \in {s \in e.app.prune : ~(Readable(e, s) /\ s \in e.prot)}}

\* An Application that could not be read has no resources to report on; a
\* stale one yields no conclusion on any resource, one with unknown
\* freshness or a blocking condition none on its prune candidates.
EvaluateArgoPruneRisk(e) ==
    CASE e.app.state = "fresh" -> RisksOf(e)
      [] e.app.state = "stale" ->
            {Finding("ApplicationEvidenceUnavailable", r, "InsufficientEvidence") : r \in Resources}
      [] e.app.state = "untrusted" ->
            {Finding("ApplicationEvidenceUnavailable", r, "InsufficientEvidence") : r \in e.app.prune}
      [] OTHER -> {}

\* A resolved owner with the referenced UID is clean; one with another UID
\* or one authoritatively missing is confirmed; the rest is insufficient.
OwnerFinding(e, r) ==
    CASE e.owner[r] = OwnerRef[r] -> {}
      [] e.owner[r] \in UIDs \ {OwnerRef[r]} -> {Finding("OwnerUIDMismatch", r, "Confirmed")}
      [] e.owner[r] = "absent" -> {Finding("OwnerMissing", r, "Confirmed")}
      [] e.owner[r] \in {"failed", "unregistered"} ->
            {Finding("OwnerEvidenceUnavailable", r, "InsufficientEvidence")}
      [] OTHER -> {}

EvaluateStaleOwnerReference(e) == UNION {OwnerFinding(e, r) : r \in Owned}

Evaluate(e) ==
    UNION {CASE d = "ArgoPruneRisk" -> EvaluateArgoPruneRisk(e)
             [] d = "StaleOwnerReference" -> EvaluateStaleOwnerReference(e) :
           d \in e.spec.detectors}

\* The sort order of the status: severity, detector, target.
Severity(id) ==
    CASE id[1] = "PruneRisk" -> IF id[2] \in High THEN 3 ELSE 2
      [] id[1] \in {"OwnerUIDMismatch", "OwnerMissing"} -> 2
      [] OTHER -> 1
Detector(id) == IF id[1] \in {"PruneRisk", "ApplicationEvidenceUnavailable"} THEN 1 ELSE 2
Precedes(x, y) ==
    \/ Severity(x) > Severity(y)
    \/ Severity(x) = Severity(y) /\ Detector(x) < Detector(y)
    \/ Severity(x) = Severity(y) /\ Detector(x) = Detector(y) /\ Order[x[2]] < Order[y[2]]

BoundFindings(findings) ==
    {f \in findings : Cardinality({g \in findings : Precedes(g.id, f.id)}) < MaxFindings}

\* Mutant: a failed discovery counts as a cluster without Argo.
InventoryReady_IgnoresDiscovery(e) ==
    /\ e.app.state \notin {"error", "stale"}
    /\ e.list # "error"
    /\ \A r \in Owned : e.owner[r] # "failed"

\* No error in any part of the snapshot (the untrusted Application and the
\* unregistered owner are none).
InventoryReady(e) ==
    /\ ~e.failed
    /\ e.app.state \notin {"error", "stale"}
    /\ e.list # "error"
    /\ \A r \in Owned : e.owner[r] # "failed"

\* Conditions, findings, and what summary and truncatedFindings count.
BuildStatus(e) ==
    [ready |-> IF InventoryReady(e) THEN "True" ELSE "False",
     findings |-> BoundFindings(Evaluate(e)),
     total |-> Cardinality(Evaluate(e))]

EmptyStatus == [ready |-> "Unset", findings |-> {}, total |-> 0]

\* Mutant: every finding of the new status counts as added.
ComputeFindingTransitions_AllAdded(old, new, ready) ==
    IF ~ready THEN {}
    ELSE {[type |-> "added", f |-> f] : f \in new}
           \cup {[type |-> "resolved", f |-> f] : f \in {g \in old : g.id \notin IdsOf(new)}}

ComputeFindingTransitions(old, new, ready) ==
    IF ~ready THEN {}
    ELSE {[type |-> "added", f |-> f] : f \in {g \in new : g.id \notin IdsOf(old)}}
           \cup {[type |-> "changed", f |-> f] : f \in {g \in new \ old : g.id \in IdsOf(old)}}
           \cup {[type |-> "resolved", f |-> f] : f \in {g \in old : g.id \notin IdsOf(new)}}

\* What the scan announces once its status is stored.
Announcement ==
    ComputeFindingTransitions(base.findings, BuildStatus(ev).findings, InventoryReady(ev))

-----------------------------------------------------------------------------
(* The risks that are really there.                                        *)

Risks(a, p, o) ==
    {<<"PruneRisk", r>> : r \in {s \in a.prune : s \notin Targets \cap p}}
      \cup {<<"OwnerMissing", r>> : r \in {s \in Owned \ Unregistered : o[s] = None}}
PruneIds   == {"PruneRisk"} \X Resources

\* What a scan may confirm: automated prune is on and the target, which can
\* be read, is not protected; or its owner is missing.
Confirmable(a, p, o) ==
    {id \in Risks(a, p, o) : id[1] = "PruneRisk" => a.auto /\ id[2] \in Targets}

Init ==
    /\ app \in [state : {"fresh"}, prune : SUBSET Candidates, auto : {TRUE}]
    /\ prot \in SUBSET (Targets \cap Candidates)
    /\ \E missing \in SUBSET (Owned \ Unregistered) :
         owner = [r \in Owned |-> IF r \in missing THEN None ELSE OwnerRef[r]]
    /\ ownerLag = owner
    /\ spec = Both
    /\ live = EmptyStatus /\ prev = EmptyStatus
    /\ pc = "idle" /\ base = EmptyStatus /\ ev = NoEvidence /\ events = {}
    /\ gone = {} /\ been = {} /\ torn = {} /\ said = {} /\ repeated = FALSE
    /\ faults = [f \in FaultKinds |-> 0]

Fault(f) ==
    /\ faults[f] < Budget[f]
    /\ FoldFunction(+, 0, faults) < MaxFaults
    /\ faults' = [faults EXCEPT ![f] = @ + 1]

-----------------------------------------------------------------------------
(* The cluster.                                                            *)

\* What the histories record when the cluster becomes a, p, o by a change
\* of the given kind.
Observe(kind, a, p, o) ==
    /\ gone' = IF pc = "idle" THEN {} ELSE gone \cup (PruneIds \ Risks(a, p, o))
    /\ been' = IF pc = "idle" THEN {} ELSE been \cup Confirmable(a, p, o)
    /\ torn' = IF pc = "list" THEN torn \cup {kind} ELSE torn
    /\ UNCHANGED <<said, repeated>>

\* Argo compares again: another set of prune candidates, another sync policy.
ArgoChanges ==
    /\ Fault("change")
    /\ \E s \in SUBSET Candidates, a \in BOOLEAN :
         /\ app' = [state |-> "fresh", prune |-> s, auto |-> a]
         /\ app' # app
    /\ Observe("application", app', prot, owner)
    /\ UNCHANGED <<prot, owner, ownerLag, spec, statusVars, scanVars, events>>

\* Argo stops comparing and reconciledAt passes the resync interval.
ArgoStalls ==
    /\ app.state = "fresh"
    /\ Fault("evidence")
    /\ app' = [app EXCEPT !.state = "stale"]
    /\ UNCHANGED <<prot, owner, ownerLag, spec, statusVars, scanVars, events, historyVars>>

\* Argo reports a comparison error, or no reconciledAt.
ArgoReportsError ==
    /\ app.state = "fresh"
    /\ Fault("untrusted")
    /\ app' = [app EXCEPT !.state = "untrusted"]
    /\ UNCHANGED <<prot, owner, ownerLag, spec, statusVars, scanVars, events, historyVars>>

ArgoRecovers ==
    /\ app.state # "fresh"
    /\ app' = [app EXCEPT !.state = "fresh"]
    /\ UNCHANGED <<prot, owner, ownerLag, spec, statusVars, scanVars, events, historyVars,
                   faults>>

\* Someone sets or removes Prune=false on a target.
AnnotationChanges(r) ==
    /\ Fault("change")
    /\ prot' = IF r \in prot THEN prot \ {r} ELSE prot \cup {r}
    /\ Observe("annotation", app, prot', owner)
    /\ UNCHANGED <<app, owner, ownerLag, spec, statusVars, scanVars, events>>

\* An owner is deleted or recreated.
OwnerChanges(r) ==
    /\ Fault("change")
    /\ \E u \in (UIDs \cup {None}) \ {owner[r]} : owner' = [owner EXCEPT ![r] = u]
    /\ ownerLag' = owner
    /\ Observe("owner", app, prot, owner')
    /\ UNCHANGED <<app, prot, spec, statusVars, scanVars, events>>

\* Someone edits the audit.
SpecChanges ==
    /\ Fault("spec")
    /\ \E s \in Specs \ {spec} : spec' = s
    /\ UNCHANGED <<app, prot, owner, ownerLag, statusVars, scanVars, events, historyVars>>

-----------------------------------------------------------------------------
(* The scan: Reconcile and Collect, one step per call to the API server.   *)

\* Reader.Get of the audit: the manager's cache, which may lag one write
\* behind; a failed Get is tried again and leaves no trace.  Collect refuses
\* a spec whose target rules it does not support, and leaves Argo alone when
\* its detector is off.
StartScan(status) ==
    /\ pc = "idle"
    /\ base' = status
    /\ ev' = [NoEvidence EXCEPT !.spec = spec, !.failed = ~spec.valid]
    /\ pc' = IF ~spec.valid THEN "evaluate"
             ELSE IF "ArgoPruneRisk" \in spec.detectors THEN "discover" ELSE "list"
    /\ events' = {}
    /\ gone' = PruneIds \ Risks(app, prot, owner)
    /\ been' = Confirmable(app, prot, owner) /\ torn' = {}
    /\ UNCHANGED <<worldVars, statusVars, said, repeated>>

GetAudit == StartScan(live) /\ UNCHANGED faults

GetStaleAudit == prev # live /\ Fault("stale") /\ StartScan(prev)

\* One more piece of the snapshot.
Collect(evidence, phase) ==
    /\ ev' = evidence
    /\ pc' = phase
    /\ UNCHANGED <<worldVars, statusVars, base, events, historyVars>>

\* Discovery finds no Application API, is refused, or fails: Collect returns
\* what it has, which is nothing.
DiscoveryFails ==
    /\ pc = "discover"
    /\ Fault("evidence")
    /\ Collect([ev EXCEPT !.failed = TRUE], "evaluate")

Discover == pc = "discover" /\ Collect(ev, "application") /\ UNCHANGED faults

ReadApplication ==
    /\ pc = "application"
    /\ Collect([ev EXCEPT !.app = app], "list")
    /\ UNCHANGED faults

\* Get fails or the Application does not parse: recorded without resources,
\* and the collection goes on.
ReadApplicationFails ==
    /\ pc = "application"
    /\ Fault("evidence")
    /\ Collect([ev EXCEPT !.app.state = "error"], "list")

\* The annotations of all targets; an owner whose kind is not registered is
\* unknown without a lookup, and without an error.
ListTargets ==
    /\ pc = "list"
    /\ Collect([ev EXCEPT !.list = "read", !.prot = prot,
                          !.owner = [r \in Owned |-> IF r \in Unregistered
                                                     THEN "unregistered" ELSE "unread"]],
               "owners")
    /\ UNCHANGED faults

ListTargetsFails ==
    /\ pc = "list"
    /\ Fault("evidence")
    /\ Collect([ev EXCEPT !.list = "error"], "evaluate")

Pending(r) == ev.owner[r] \in {"unread", "missed"}

\* The lookup finds a UID or misses.  A Reader with a cache may answer with
\* an earlier state.
LookupOwner(r) ==
    /\ pc = "owners" /\ ev.owner[r] = "unread"
    /\ \E o \in {owner, ownerLag} :
         /\ IF o = owner THEN UNCHANGED faults ELSE Fault("lag")
         /\ Collect([ev EXCEPT !.owner[r] = IF o[r] = None THEN "missed" ELSE o[r]], pc)

\* Mutant: a miss of the first lookup is believed.
ConfirmOwner_Trusts(r) ==
    /\ pc = "owners" /\ ev.owner[r] = "missed"
    /\ Collect([ev EXCEPT !.owner[r] = "absent"], pc)
    /\ UNCHANGED faults

\* A miss is confirmed by an authoritative read.
ConfirmOwner(r) ==
    /\ pc = "owners" /\ ev.owner[r] = "missed"
    /\ Collect([ev EXCEPT !.owner[r] = IF owner[r] = None THEN "absent" ELSE owner[r]], pc)
    /\ UNCHANGED faults

\* Either lookup is refused or fails.
LookupFails(r) ==
    /\ pc = "owners" /\ Pending(r)
    /\ Fault("evidence")
    /\ Collect([ev EXCEPT !.owner[r] = "failed"], pc)

Evaluated ==
    \/ pc = "evaluate"
    \/ pc = "owners" /\ \A r \in Owned : ~Pending(r)

\* The merge patch carries the fields that differ from the scan's base and
\* no resourceVersion, so it applies to whatever is stored by now.
Merged ==
    LET status == BuildStatus(ev)
    IN  [k \in DOMAIN live |-> IF status[k] = base[k] THEN live[k] ELSE status[k]]

Store ==
    /\ live' = Merged /\ prev' = live
    /\ said' = said \cap IdsOf(live'.findings)

\* The status differs from the base: it is patched before anything is said.
PatchStatus ==
    /\ Evaluated /\ BuildStatus(ev) # base
    /\ Store
    /\ pc' = "publish"
    /\ UNCHANGED <<worldVars, base, ev, events, gone, been, torn, repeated, faults>>

\* Mutant: the comparison looks at the findings' identities only.
StatusUnchanged_IdsOnly ==
    /\ Evaluated /\ IdsOf(BuildStatus(ev).findings) = IdsOf(base.findings)
    /\ pc' = "publish"
    /\ UNCHANGED <<worldVars, statusVars, base, ev, events, historyVars, faults>>

\* Nothing to write (a heartbeat would write its time).
StatusUnchanged ==
    /\ Evaluated /\ BuildStatus(ev) = base
    /\ pc' = "publish"
    /\ UNCHANGED <<worldVars, statusVars, base, ev, events, historyVars, faults>>

\* The scan is over: what it held is garbage.
EndScan ==
    /\ pc' = "idle" /\ base' = EmptyStatus /\ ev' = NoEvidence
    /\ gone' = {} /\ been' = {} /\ torn' = {}

\* Mutant: a failed patch is logged and the transitions go out.
PatchFails_Publishes ==
    /\ Evaluated /\ BuildStatus(ev) # base
    /\ Fault("patch")
    /\ pc' = "publish"
    /\ UNCHANGED <<worldVars, statusVars, base, ev, events, historyVars>>

\* The patch fails, or only its answer is lost: the error is returned,
\* nothing is announced, and the workqueue tries again.
PatchFails ==
    /\ Evaluated /\ BuildStatus(ev) # base
    /\ Fault("patch")
    /\ Store \/ UNCHANGED <<statusVars, said>>
    /\ EndScan
    /\ UNCHANGED <<worldVars, events, repeated>>

\* publishEventsAndMetrics, and the requeue of the audit.
Publish ==
    /\ pc = "publish"
    /\ events' = Announcement
    /\ LET added == {t.f.id : t \in {u \in events' : u.type = "added"}}
       IN  /\ said' = said \cup added
           /\ repeated' = (repeated \/ said \cap added # {})
    /\ EndScan
    /\ UNCHANGED <<worldVars, statusVars, faults>>

\* The leader dies; the other replica starts with a fresh cache.
Crash ==
    /\ Fault("crash")
    /\ prev' = live
    /\ EndScan
    /\ events' = {}
    /\ UNCHANGED <<worldVars, live, said, repeated>>

-----------------------------------------------------------------------------
Scan ==
    \/ GetAudit \/ GetStaleAudit
    \/ Discover \/ DiscoveryFails \/ ReadApplication \/ ReadApplicationFails
    \/ ListTargets \/ ListTargetsFails
    \/ \E r \in Owned : LookupOwner(r) \/ ConfirmOwner(r) \/ LookupFails(r)
    \/ PatchStatus \/ StatusUnchanged \/ PatchFails \/ Publish

Cluster ==
    \/ ArgoChanges \/ ArgoStalls \/ ArgoReportsError \/ ArgoRecovers
    \/ \E r \in Targets \cap Candidates : AnnotationChanges(r)
    \/ \E r \in Owned \ Unregistered : OwnerChanges(r)
    \/ SpecChanges

Next == Scan \/ Crash \/ Cluster

Spec == Init /\ [][Next]_vars

\* The workqueue hands the audit out again after every scan, at once after
\* an error and at the resync interval otherwise.
FairSpec == Spec /\ WF_vars(Scan)

-----------------------------------------------------------------------------
(* Properties.                                                             *)

\* Status first: when a transition is announced the stored status already
\* says so.  A detected or changed finding is in it, a resolved one is not,
\* whatever patch failed, was answered late or started from a stale read.
StatusFirst ==
    [][events' # events =>
          \A t \in events' :
             IF t.type = "resolved" THEN t.f.id \notin IdsOf(live.findings)
             ELSE t.f \in live.findings]_vars

\* A prune risk that is there during the whole scan is not announced as
\* resolved because evidence could not be collected.  It may be when the
\* Application reports a blocking condition, when the status has no room
\* for it, or when its detector was switched off.
RecoveryIsReal ==
    [][events' # events =>
          \A t \in events' : t.type = "resolved" /\ t.f.id \in PruneIds =>
             \/ t.f.id \in gone
             \/ ev.app.state = "untrusted"
             \/ BuildStatus(ev).total > MaxFindings
             \/ "ArgoPruneRisk" \notin ev.spec.detectors]_vars

\* What a scan confirms was so at some moment of the scan: a missing owner
\* even when the first lookup answered from an outdated cache, a prune risk
\* although the Application and the targets are read in different calls.
\* Only when both changed between the two reads may it confirm a risk that
\* never was.
ConfirmedWasReal ==
    Evaluated =>
        \A f \in Evaluate(ev) : f.conf = "Confirmed" /\ f.id[1] # "OwnerUIDMismatch" =>
            \/ f.id \in been
            \/ f.id \in PruneIds /\ {"application", "annotation"} \subseteq torn

\* Restarts, failed patches, lost answers and evidence that comes and goes
\* never announce a finding twice while it stays in the stored status; only
\* a stale read of that status does.
DetectedOnce == repeated => faults["stale"] > 0

\* The status a complete scan of the cluster as it is now would build.
Expected ==
    BuildStatus([spec |-> spec, failed |-> ~spec.valid,
                 app |-> IF spec.valid /\ "ArgoPruneRisk" \in spec.detectors THEN app ELSE Unread,
                 list |-> "read", prot |-> prot,
                 owner |-> [r \in Owned |->
                    IF ~spec.valid THEN "unread"
                    ELSE IF r \in Unregistered THEN "unregistered"
                    ELSE IF owner[r] = None THEN "absent" ELSE owner[r]]])

\* Whatever faults happened, once they stop and the cluster rests the status
\* comes to say what the cluster is like, and stays so.
Converges == <>[](live = Expected)
=============================================================================
