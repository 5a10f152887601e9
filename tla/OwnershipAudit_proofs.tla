----------------------- MODULE OwnershipAudit_proofs -----------------------
(***************************************************************************)
(* Proofs about PlatformOwnershipGuard, for every set of resources,        *)
(* targets and owners, every size of the status and any number of faults   *)
(* and changes of the cluster.                                             *)
(***************************************************************************)
EXTENDS OwnershipAudit, FiniteSetTheorems, TLAPS

-----------------------------------------------------------------------------
(* The inductive invariant.                                                *)

Points    == {"idle", "discover", "application", "list", "owners", "evaluate", "publish"}
AppStates == {"fresh", "stale", "untrusted"}
Evidence  == [spec : [valid : BOOLEAN, detectors : SUBSET Detectors], failed : BOOLEAN,
              app : [state : AppStates \cup {"unread", "error"}, prune : SUBSET Candidates,
                     auto : BOOLEAN],
              list : {"unread", "read", "error"}, prot : SUBSET Resources,
              owner : [Owned -> UIDs \cup OwnerStates]]

Typed ==
    /\ app \in [state : AppStates, prune : SUBSET Candidates, auto : BOOLEAN]
    /\ prot \in SUBSET Resources
    /\ owner \in [Owned -> UIDs \cup {None}] /\ ownerLag \in [Owned -> UIDs \cup {None}]
    /\ spec \in [valid : BOOLEAN, detectors : SUBSET Detectors]
    /\ pc \in Points /\ ev \in Evidence
    /\ DOMAIN live = {"ready", "findings", "total"}
    /\ faults \in [FaultKinds -> Nat]

\* Once the scan may speak, the stored findings are its own, or it has
\* nothing to say.
Stored ==
    pc = "publish" => \/ BuildStatus(ev).findings = base.findings
                      \/ live.findings = BuildStatus(ev).findings

\* What has been said is in the stored status; without a stale read it was
\* there when the scan began.
Said ==
    /\ said \subseteq IdsOf(live.findings)
    /\ faults["stale"] = 0 =>
         /\ ~repeated
         /\ pc # "idle" => said \subseteq IdsOf(base.findings)
         /\ pc \notin {"idle", "publish"} => base = live

\* The histories hold the present.
Present ==
    pc # "idle" => /\ Confirmable(app, prot, owner) \subseteq been
                   /\ PruneIds \ Risks(app, prot, owner) \subseteq gone

\* Evidence of the Application and of the targets, read at different moments
\* of the scan.
AppSeen ==
    /\ pc # "idle" /\ ev.app.state \in AppStates =>
         \A r \in Resources \ ev.app.prune : <<"PruneRisk", r>> \in gone
    /\ pc \in {"list", "owners", "evaluate", "publish"} /\ ~ev.failed
         /\ "ArgoPruneRisk" \in ev.spec.detectors => ev.app.state # "unread"
    /\ pc = "list" /\ ev.app.state \in AppStates =>
         /\ "application" \notin torn => ev.app.prune = app.prune /\ ev.app.auto = app.auto
         /\ "annotation" \notin torn /\ ev.app.auto =>
              \A r \in (ev.app.prune \cap Targets) \ prot : <<"PruneRisk", r>> \in been

ListSeen ==
    /\ pc \in {"discover", "application", "list", "evaluate"} => ev.list # "read"
    /\ pc # "idle" /\ ev.list = "read" =>
         \A r \in ev.prot \cap Targets : <<"PruneRisk", r>> \in gone
    /\ pc # "idle" /\ ev.list = "read" /\ ev.app.state \in AppStates /\ ev.app.auto =>
         \A r \in (ev.app.prune \cap Targets) \ ev.prot :
           <<"PruneRisk", r>> \in been \/ {"application", "annotation"} \subseteq torn

OwnersSeen ==
    pc # "idle" => \A r \in Owned :
       /\ ev.owner[r] = "absent" => <<"OwnerMissing", r>> \in been
       /\ ev.owner[r] = "missed" => pc \in {"owners", "publish"} /\ r \notin Unregistered
       /\ pc = "owners" /\ r \in Unregistered => ev.owner[r] = "unregistered"

Inv == Typed /\ Stored /\ Said /\ Present /\ AppSeen /\ ListSeen /\ OwnersSeen

-----------------------------------------------------------------------------
(* The operators of the model.                                             *)

\* A candidate is at risk unless a target's annotation protects it.
LEMMA PruneRiskIs ==
    ASSUME NEW a, NEW p, NEW o, NEW r
    PROVE  /\ <<"PruneRisk", r>> \in Risks(a, p, o) <=> r \in a.prune /\ r \notin Targets \cap p
           /\ <<"PruneRisk", r>> \in Confirmable(a, p, o) <=>
                r \in a.prune /\ r \notin Targets \cap p /\ a.auto /\ r \in Targets
  <1>1. <<"PruneRisk", r>> \in Risks(a, p, o) <=> r \in a.prune /\ r \notin Targets \cap p
    BY DEF Risks
  <1> QED BY <1>1 DEF Confirmable

LEMMA OwnerRiskIs ==
    ASSUME NEW a, NEW p, NEW o, NEW r \in Owned \ Unregistered, o[r] = None
    PROVE  <<"OwnerMissing", r>> \in Confirmable(a, p, o)
  BY DEF Confirmable, Risks

\* Only the candidates and the sync policy of an Application count.
LEMMA SameRisks ==
    ASSUME NEW a, NEW b, NEW p, NEW o, a.prune = b.prune, a.auto = b.auto
    PROVE  Risks(a, p, o) = Risks(b, p, o) /\ Confirmable(a, p, o) = Confirmable(b, p, o)
  BY DEF Risks, Confirmable

LEMMA FaultCounts ==
    ASSUME Typed, NEW f \in FaultKinds, Fault(f)
    PROVE  /\ faults' \in [FaultKinds -> Nat]
           /\ faults'["stale"] = 0 => faults["stale"] = 0 /\ f # "stale"
  <1>1. faults' = [faults EXCEPT ![f] = faults[f] + 1] BY DEF Fault
  <1>2. faults \in [FaultKinds -> Nat] /\ "stale" \in FaultKinds BY DEF Typed, FaultKinds
  <1> QED BY <1>1, <1>2

Counted == /\ faults' \in [FaultKinds -> Nat]
           /\ faults'["stale"] = 0 => faults["stale"] = 0

LEMMA Counts ==
    ASSUME Typed, UNCHANGED faults \/ \E f \in FaultKinds : Fault(f)
    PROVE  Counted
  BY FaultCounts DEF Counted, Typed

LEMMA Kinds == /\ {"evidence", "untrusted", "spec", "lag", "stale", "patch", "crash", "change"}
                    \subseteq FaultKinds
  BY DEF FaultKinds

LEMMA NothingTyped == NoEvidence \in Evidence
  <1>1. Both \in [valid : BOOLEAN, detectors : SUBSET Detectors] BY DEF Both, Detectors
  <1>2. Unread \in [state : AppStates \cup {"unread", "error"}, prune : SUBSET Candidates,
                    auto : BOOLEAN]
    BY DEF Unread
  <1>3. [r \in Owned |-> "unread"] \in [Owned -> UIDs \cup OwnerStates] BY DEF OwnerStates
  <1> QED BY <1>1, <1>2, <1>3 DEF NoEvidence, Evidence

LEMMA InvInit == Init => Inv
  <1> SUFFICES ASSUME Init PROVE Inv
    OBVIOUS
  <1>1. \A r \in Owned : OwnerRef[r] \in UIDs BY AuditAssumption DEF Owned
  <1>2. owner \in [Owned -> UIDs \cup {None}]
    <2>1. PICK missing \in SUBSET (Owned \ Unregistered) :
            owner = [r \in Owned |-> IF r \in missing THEN None ELSE OwnerRef[r]]
      BY DEF Init
    <2> QED BY <1>1, <2>1
  <1>3. /\ app \in [state : AppStates, prune : SUBSET Candidates, auto : BOOLEAN]
        /\ prot \in SUBSET Resources
    BY AuditAssumption DEF Init, AppStates
  <1>4. spec \in [valid : BOOLEAN, detectors : SUBSET Detectors] BY DEF Init, Both, Detectors
  <1>5. DOMAIN live = {"ready", "findings", "total"} BY DEF Init, EmptyStatus
  <1>6. Typed BY <1>2, <1>3, <1>4, <1>5, NothingTyped DEF Init, Typed, Points
  <1>7. Stored /\ Present /\ AppSeen /\ ListSeen /\ OwnersSeen
    BY DEF Init, Stored, Present, AppSeen, ListSeen, OwnersSeen
  <1>8. Said BY DEF Init, Said
  <1> QED BY <1>6, <1>7, <1>8 DEF Inv

-----------------------------------------------------------------------------
(* The cluster moves on.                                                   *)

\* Nothing of the scan or of the status moves.
Elsewhere == UNCHANGED <<live, prev, pc, base, ev, said, repeated>>

LEMMA ElsewhereKeeps ==
    ASSUME Inv, Elsewhere, Counted
    PROVE  Stored' /\ Said'
  <1>1. Stored' BY DEF Inv, Elsewhere, Stored, BuildStatus
  <1>2. Said' BY DEF Inv, Elsewhere, Said, Counted
  <1> QED BY <1>1, <1>2

\* A change that the histories record.
LEMMA Observed ==
    ASSUME Inv, Typed', Elsewhere, Counted, NEW kind, Observe(kind, app', prot', owner'),
           app' # app => kind = "application", prot' # prot => kind = "annotation"
    PROVE  Inv'
  <1>1. Stored' /\ Said' BY ElsewhereKeeps
  <1>2. /\ pc # "idle" => /\ gone' = gone \cup (PruneIds \ Risks(app', prot', owner'))
                          /\ been' = been \cup Confirmable(app', prot', owner')
        /\ torn' = IF pc = "list" THEN torn \cup {kind} ELSE torn
    BY DEF Observe
  <1>3. UNCHANGED <<pc, ev>> BY DEF Elsewhere
  <1>4. torn \subseteq torn' /\ (pc = "list" => kind \in torn') BY <1>2
  <1>5. Present' BY <1>2, <1>3 DEF Inv, Present
  <1>6. AppSeen' BY <1>2, <1>3, <1>4 DEF Inv, AppSeen
  <1>7. ListSeen' BY <1>2, <1>3, <1>4 DEF Inv, ListSeen
  <1>8. OwnersSeen' BY <1>2, <1>3 DEF Inv, OwnersSeen
  <1> QED BY <1>1, <1>5, <1>6, <1>7, <1>8 DEF Inv

\* A change that is none to the risks.
LEMMA Unseen ==
    ASSUME Inv, Typed', Elsewhere, Counted, UNCHANGED <<gone, been, torn, prot, owner>>,
           app'.prune = app.prune, app'.auto = app.auto
    PROVE  Inv'
  <1>1. Stored' /\ Said' BY ElsewhereKeeps
  <1>2. UNCHANGED <<pc, ev>> BY DEF Elsewhere
  <1>3. /\ Risks(app', prot, owner) = Risks(app, prot, owner)
        /\ Confirmable(app', prot, owner) = Confirmable(app, prot, owner)
    BY SameRisks
  <1>4. Present' BY <1>2, <1>3 DEF Inv, Present
  <1>5. AppSeen' BY <1>2 DEF Inv, AppSeen
  <1>6. ListSeen' BY <1>2 DEF Inv, ListSeen
  <1>7. OwnersSeen' BY <1>2 DEF Inv, OwnersSeen
  <1> QED BY <1>1, <1>4, <1>5, <1>6, <1>7 DEF Inv

LEMMA ClusterMoves ==
    ASSUME Inv, Cluster
    PROVE  Inv'
  <1> USE DEF statusVars, scanVars, historyVars
  <1>0. Typed BY DEF Inv
  <1>1. CASE ArgoChanges
    <2>1. Counted BY <1>0, <1>1, Counts, Kinds DEF ArgoChanges
    <2>2. PICK s \in SUBSET Candidates, a \in BOOLEAN :
            app' = [state |-> "fresh", prune |-> s, auto |-> a]
      BY <1>1 DEF ArgoChanges
    <2>3. app' \in [state : AppStates, prune : SUBSET Candidates, auto : BOOLEAN]
      BY <2>2 DEF AppStates
    <2>4. UNCHANGED <<prot, owner, ownerLag, spec, live, prev, pc, base, ev, said, repeated>>
          /\ Observe("application", app', prot', owner')
      BY <1>1 DEF ArgoChanges, Observe
    <2>5. Typed' BY <1>0, <2>1, <2>3, <2>4 DEF Typed, Counted
    <2> QED BY <2>1, <2>4, <2>5, Observed DEF Elsewhere
  <1>2. CASE ArgoStalls \/ ArgoReportsError \/ ArgoRecovers
    <2>1. Counted BY <1>0, <1>2, Counts, Kinds DEF ArgoStalls, ArgoReportsError, ArgoRecovers
    <2>2. /\ \E x \in AppStates : app' = [app EXCEPT !.state = x]
          /\ UNCHANGED <<prot, owner, ownerLag, spec, live, prev, pc, base, ev, said, repeated,
                         gone, been, torn>>
      BY <1>2 DEF ArgoStalls, ArgoReportsError, ArgoRecovers, AppStates
    <2>3. /\ app' \in [state : AppStates, prune : SUBSET Candidates, auto : BOOLEAN]
          /\ app'.prune = app.prune /\ app'.auto = app.auto
      BY <1>0, <2>2 DEF Typed
    <2>4. Typed' BY <1>0, <2>1, <2>2, <2>3 DEF Typed, Counted
    <2> QED BY <2>1, <2>2, <2>3, <2>4, Unseen DEF Elsewhere
  <1>3. CASE \E r \in Targets \cap Candidates : AnnotationChanges(r)
    <2>1. PICK r \in Targets \cap Candidates : AnnotationChanges(r) BY <1>3
    <2>2. Counted BY <1>0, <2>1, Counts, Kinds DEF AnnotationChanges
    <2>3. UNCHANGED <<app, owner, ownerLag, spec, live, prev, pc, base, ev, said, repeated>>
          /\ Observe("annotation", app', prot', owner')
      BY <2>1 DEF AnnotationChanges, Observe
    <2>4. prot' \in SUBSET Resources
      BY <1>0, <2>1, AuditAssumption DEF AnnotationChanges, Typed
    <2>5. Typed' BY <1>0, <2>2, <2>3, <2>4 DEF Typed, Counted
    <2> QED BY <2>2, <2>3, <2>5, Observed DEF Elsewhere
  <1>4. CASE \E r \in Owned \ Unregistered : OwnerChanges(r)
    <2>1. PICK r \in Owned \ Unregistered : OwnerChanges(r) BY <1>4
    <2>2. Counted BY <1>0, <2>1, Counts, Kinds DEF OwnerChanges
    <2>3. UNCHANGED <<app, prot, spec, live, prev, pc, base, ev, said, repeated>>
          /\ Observe("owner", app', prot', owner') /\ ownerLag' = owner
          /\ \E u \in UIDs \cup {None} : owner' = [owner EXCEPT ![r] = u]
      BY <2>1 DEF OwnerChanges, Observe
    <2>4. owner' \in [Owned -> UIDs \cup {None}] BY <1>0, <2>3 DEF Typed
    <2>5. Typed' BY <1>0, <2>2, <2>3, <2>4 DEF Typed, Counted
    <2> QED BY <2>2, <2>3, <2>5, Observed DEF Elsewhere
  <1>5. CASE SpecChanges
    <2>1. Counted BY <1>0, <1>5, Counts, Kinds DEF SpecChanges
    <2>2. Specs \subseteq [valid : BOOLEAN, detectors : SUBSET Detectors]
      BY DEF Specs, Both
    <2>3. /\ spec' \in Specs
          /\ UNCHANGED <<app, prot, owner, ownerLag, live, prev, pc, base, ev, said, repeated,
                         gone, been, torn>>
      BY <1>5 DEF SpecChanges
    <2>4. Typed' BY <1>0, <2>1, <2>2, <2>3 DEF Typed, Counted
    <2> QED BY <2>1, <2>3, <2>4, Unseen DEF Elsewhere
  <1> QED BY <1>1, <1>2, <1>3, <1>4, <1>5 DEF Cluster

-----------------------------------------------------------------------------
(* The scan collects.                                                      *)

\* A piece of evidence disturbs nothing but what is known of the evidence.
LEMMA Collected ==
    ASSUME Inv, Counted, NEW e \in Evidence, NEW ph \in Points, Collect(e, ph),
           pc \notin {"idle", "publish"}, ph \notin {"idle", "publish"}
    PROVE  /\ Typed' /\ Stored' /\ Said' /\ Present'
           /\ ev' = e /\ pc' = ph /\ UNCHANGED <<app, prot, owner, ownerLag, gone, been, torn>>
  <1> USE DEF worldVars, statusVars, historyVars
  <1>1. /\ ev' = e /\ pc' = ph
        /\ UNCHANGED <<app, prot, owner, ownerLag, spec, live, prev, base, events,
                       gone, been, torn, said, repeated>>
    BY DEF Collect
  <1>2. Typed' BY <1>1 DEF Inv, Typed, Counted
  <1>3. Stored' BY <1>1 DEF Stored
  <1>4. Said' BY <1>1 DEF Inv, Said, Counted
  <1>5. Present' BY <1>1 DEF Inv, Present
  <1> QED BY <1>1, <1>2, <1>3, <1>4, <1>5

LEMMA DiscoverStep ==
    ASSUME Inv, Discover \/ DiscoveryFails
    PROVE  Inv'
  <1>1. Typed /\ ev \in Evidence BY DEF Inv, Typed
  <1>2. Counted BY <1>1, Counts, Kinds DEF Discover, DiscoveryFails
  <1>3. PICK e, ph : /\ Collect(e, ph) /\ pc = "discover"
                     /\ \/ e = ev /\ ph = "application"
                        \/ e = [ev EXCEPT !.failed = TRUE] /\ ph = "evaluate"
    BY DEF Discover, DiscoveryFails
  <1>4. e \in Evidence /\ e.app = ev.app /\ e.list = ev.list /\ e.owner = ev.owner
        /\ e.prot = ev.prot /\ e.spec = ev.spec /\ (ph = "evaluate" => e.failed)
    BY <1>1, <1>3 DEF Evidence
  <1>5. ph \in Points \ {"idle", "publish"} BY <1>3 DEF Points
  <1>6. Collect(e, ph) /\ pc = "discover" /\ ph \in {"application", "evaluate"} BY <1>3
  <1>7. /\ Typed' /\ Stored' /\ Said' /\ Present'
        /\ ev' = e /\ pc' = ph /\ UNCHANGED <<app, prot, owner, gone, been, torn>>
    BY <1>2, <1>4, <1>5, <1>6, Collected
  <1>8. AppSeen' BY <1>4, <1>6, <1>7 DEF Inv, AppSeen
  <1>9. ListSeen' BY <1>4, <1>6, <1>7 DEF Inv, ListSeen
  <1>10. OwnersSeen' BY <1>4, <1>6, <1>7 DEF Inv, OwnersSeen
  <1> QED BY <1>7, <1>8, <1>9, <1>10 DEF Inv

LEMMA ApplicationStep ==
    ASSUME Inv, ReadApplication \/ ReadApplicationFails
    PROVE  Inv'
  <1>1. Typed /\ ev \in Evidence BY DEF Inv, Typed
  <1>2. Counted BY <1>1, Counts, Kinds DEF ReadApplication, ReadApplicationFails
  <1>3. PICK e : /\ Collect(e, "list") /\ pc = "application"
                 /\ \/ e = [ev EXCEPT !.app = app]
                    \/ e = [ev EXCEPT !.app.state = "error"]
    BY DEF ReadApplication, ReadApplicationFails
  <1>4. /\ e \in Evidence /\ e.list = ev.list /\ e.owner = ev.owner /\ e.prot = ev.prot
        /\ e.app = app \/ e.app.state = "error"
    <2>1. CASE e = [ev EXCEPT !.app = app]
      <3>1. app \in [state : AppStates \cup {"unread", "error"}, prune : SUBSET Candidates,
                     auto : BOOLEAN]
        BY <1>1 DEF Typed
      <3> QED BY <1>1, <2>1, <3>1 DEF Evidence
    <2>2. CASE e = [ev EXCEPT !.app.state = "error"] BY <1>1, <2>2 DEF Evidence
    <2> QED BY <1>3, <2>1, <2>2
  <1>5. Collect(e, "list") /\ pc = "application" /\ "list" \in Points BY <1>3 DEF Points
  <1>6. /\ Typed' /\ Stored' /\ Said' /\ Present'
        /\ ev' = e /\ pc' = "list" /\ UNCHANGED <<app, prot, owner, gone, been, torn>>
    BY <1>2, <1>4, <1>5, Collected
  <1>7. /\ Confirmable(app, prot, owner) \subseteq been
        /\ PruneIds \ Risks(app, prot, owner) \subseteq gone
    BY <1>5 DEF Inv, Present
  <1>8. AppSeen'
    <2>1. CASE e.app.state = "error" BY <1>6, <2>1 DEF AppSeen, AppStates
    <2>2. CASE e.app = app
      <3>1. \A r \in Resources \ app.prune : <<"PruneRisk", r>> \in gone
        BY <1>7, PruneRiskIs DEF PruneIds
      <3>2. app.auto => \A r \in (app.prune \cap Targets) \ prot : <<"PruneRisk", r>> \in been
        BY <1>7, PruneRiskIs
      <3>3. app.state # "unread" BY <1>1 DEF Typed, AppStates
      <3> QED BY <1>6, <2>2, <3>1, <3>2, <3>3 DEF AppSeen
    <2> QED BY <1>4, <2>1, <2>2
  <1>9. ListSeen'
    <2>1. ev.list # "read" BY <1>5 DEF Inv, ListSeen
    <2> QED BY <1>4, <1>6, <2>1 DEF ListSeen
  <1>10. OwnersSeen' BY <1>4, <1>5, <1>6 DEF Inv, OwnersSeen
  <1> QED BY <1>6, <1>8, <1>9, <1>10 DEF Inv

LEMMA ListStep ==
    ASSUME Inv, ListTargets
    PROVE  Inv'
  <1>1. Typed /\ ev \in Evidence BY DEF Inv, Typed
  <1> DEFINE owners == [r \in Owned |-> IF r \in Unregistered THEN "unregistered" ELSE "unread"]
  <1>2. PICK e : /\ Collect(e, "owners") /\ pc = "list"
                 /\ e = [ev EXCEPT !.list = "read", !.prot = prot, !.owner = owners]
    BY DEF ListTargets
  <1>3. owners \in [Owned -> UIDs \cup OwnerStates] BY DEF OwnerStates
  <1>4. /\ e \in Evidence /\ e.app = ev.app /\ e.spec = ev.spec /\ e.failed = ev.failed
        /\ e.list = "read" /\ e.prot = prot /\ e.owner = owners
    BY <1>1, <1>2, <1>3 DEF Evidence, Typed
  <1>5. \A r \in Owned : e.owner[r] = IF r \in Unregistered THEN "unregistered" ELSE "unread"
    BY <1>4
  <1>6. Collect(e, "owners") /\ pc = "list" /\ "owners" \in Points BY <1>2 DEF Points
  <1>7. Counted BY <1>1, Counts DEF ListTargets
  <1>8. /\ Typed' /\ Stored' /\ Said' /\ Present'
        /\ ev' = e /\ pc' = "owners" /\ UNCHANGED <<app, prot, owner, gone, been, torn>>
    BY <1>4, <1>6, <1>7, Collected
  <1>9. /\ Confirmable(app, prot, owner) \subseteq been
        /\ PruneIds \ Risks(app, prot, owner) \subseteq gone
    BY <1>6 DEF Inv, Present
  <1>10. AppSeen' BY <1>4, <1>6, <1>8 DEF Inv, AppSeen
  <1>11. ListSeen'
    <2>1. \A r \in prot \cap Targets : <<"PruneRisk", r>> \in gone
      BY <1>9, PruneRiskIs, AuditAssumption DEF PruneIds
    <2>2. ASSUME ev.app.state \in AppStates, ev.app.auto, NEW r \in (ev.app.prune \cap Targets) \ prot
          PROVE  <<"PruneRisk", r>> \in been \/ {"application", "annotation"} \subseteq torn
      <3>1. CASE "application" \notin torn
        <4>1. r \in app.prune /\ app.auto BY <1>6, <2>2, <3>1 DEF Inv, AppSeen
        <4> QED BY <1>9, <2>2, <4>1, PruneRiskIs
      <3>2. CASE "annotation" \notin torn BY <1>6, <2>2, <3>2 DEF Inv, AppSeen
      <3> QED BY <3>1, <3>2
    <2> QED BY <1>4, <1>8, <2>1, <2>2 DEF ListSeen
  <1>12. OwnersSeen' BY <1>5, <1>8 DEF OwnersSeen
  <1> QED BY <1>8, <1>10, <1>11, <1>12 DEF Inv

LEMMA ListFailsStep ==
    ASSUME Inv, ListTargetsFails
    PROVE  Inv'
  <1>1. Typed /\ ev \in Evidence BY DEF Inv, Typed
  <1>2. Counted BY <1>1, Counts, Kinds DEF ListTargetsFails
  <1>3. PICK e : Collect(e, "evaluate") /\ pc = "list" /\ e = [ev EXCEPT !.list = "error"]
    BY DEF ListTargetsFails
  <1>4. /\ e \in Evidence /\ e.app = ev.app /\ e.list = "error" /\ e.owner = ev.owner
        /\ e.spec = ev.spec /\ e.failed = ev.failed
    BY <1>1, <1>3 DEF Evidence
  <1>5. Collect(e, "evaluate") /\ pc = "list" /\ "evaluate" \in Points BY <1>3 DEF Points
  <1>6. /\ Typed' /\ Stored' /\ Said' /\ Present'
        /\ ev' = e /\ pc' = "evaluate" /\ UNCHANGED <<app, prot, owner, gone, been, torn>>
    BY <1>2, <1>4, <1>5, Collected
  <1>7. AppSeen' BY <1>4, <1>5, <1>6 DEF Inv, AppSeen
  <1>8. ListSeen' BY <1>4, <1>6 DEF ListSeen
  <1>9. OwnersSeen' BY <1>4, <1>5, <1>6 DEF Inv, OwnersSeen
  <1> QED BY <1>6, <1>7, <1>8, <1>9 DEF Inv

\* One owner is looked up, confirmed, or not found out about.
LEMMA OwnerStep ==
    ASSUME Inv, NEW r \in Owned, LookupOwner(r) \/ ConfirmOwner(r) \/ LookupFails(r)
    PROVE  Inv'
  <1>1. Typed /\ ev \in Evidence /\ owner \in [Owned -> UIDs \cup {None}]
        /\ ownerLag \in [Owned -> UIDs \cup {None}]
    BY DEF Inv, Typed
  <1>2. Counted BY <1>1, Counts, Kinds DEF LookupOwner, ConfirmOwner, LookupFails
  <1>3. PICK u \in UIDs \cup OwnerStates :
          /\ Collect([ev EXCEPT !.owner[r] = u], "owners")
          /\ u = "absent" => owner[r] = None
          /\ u # "unregistered"
    <2>1. CASE LookupOwner(r)
      <3>1. PICK o \in {owner, ownerLag} :
              Collect([ev EXCEPT !.owner[r] = IF o[r] = None THEN "missed" ELSE o[r]], "owners")
        BY <2>1 DEF LookupOwner
      <3>2. o[r] \in UIDs \cup {None} BY <1>1, <3>1
      <3>3. CASE o[r] = None
        <4>1. Collect([ev EXCEPT !.owner[r] = "missed"], "owners") BY <3>1, <3>3
        <4>2. "missed" \in OwnerStates /\ "missed" # "absent" /\ "missed" # "unregistered"
          BY DEF OwnerStates
        <4> QED BY <4>1, <4>2
      <3>4. CASE o[r] # None
        <4>1. Collect([ev EXCEPT !.owner[r] = o[r]], "owners") BY <3>1, <3>4
        <4> QED BY <3>2, <3>4, <4>1, AuditAssumption DEF OwnerStates
      <3> QED BY <3>3, <3>4
    <2>2. CASE ConfirmOwner(r)
      <3>1. Collect([ev EXCEPT !.owner[r] = IF owner[r] = None THEN "absent" ELSE owner[r]], "owners")
        BY <2>2 DEF ConfirmOwner
      <3>2. owner[r] \in UIDs \cup {None} BY <1>1
      <3>3. CASE owner[r] = None
        <4>1. Collect([ev EXCEPT !.owner[r] = "absent"], "owners") BY <3>1, <3>3
        <4> QED BY <3>3, <4>1 DEF OwnerStates
      <3>4. CASE owner[r] # None
        <4>1. Collect([ev EXCEPT !.owner[r] = owner[r]], "owners") BY <3>1, <3>4
        <4> QED BY <3>2, <3>4, <4>1, AuditAssumption DEF OwnerStates
      <3> QED BY <3>3, <3>4
    <2>3. CASE LookupFails(r) BY <2>3 DEF LookupFails, OwnerStates
    <2> QED BY <2>1, <2>2, <2>3
  <1>4. pc = "owners" /\ ev.owner[r] \in {"unread", "missed"}
    BY DEF LookupOwner, ConfirmOwner, LookupFails, Pending
  <1>5. PICK e : e = [ev EXCEPT !.owner[r] = u] OBVIOUS
  <1>6. /\ e \in Evidence /\ e.app = ev.app /\ e.list = ev.list /\ e.prot = ev.prot
        /\ e.spec = ev.spec /\ e.failed = ev.failed
        /\ e.owner[r] = u /\ \A s \in Owned \ {r} : e.owner[s] = ev.owner[s]
    BY <1>1, <1>5 DEF Evidence
  <1>7. Collect(e, "owners") /\ "owners" \in Points BY <1>3, <1>5 DEF Points
  <1>8. /\ Typed' /\ Stored' /\ Said' /\ Present'
        /\ ev' = e /\ pc' = "owners" /\ UNCHANGED <<app, prot, owner, gone, been, torn>>
    BY <1>2, <1>4, <1>6, <1>7, Collected
  <1>9. AppSeen' BY <1>4, <1>6, <1>8 DEF Inv, AppSeen
  <1>10. ListSeen' BY <1>4, <1>6, <1>8 DEF Inv, ListSeen
  <1>11. r \notin Unregistered BY <1>4 DEF Inv, OwnersSeen
  <1>12. owner[r] = None => <<"OwnerMissing", r>> \in been
    BY <1>4, <1>11, OwnerRiskIs DEF Inv, Present
  <1>13. OwnersSeen' BY <1>3, <1>4, <1>6, <1>8, <1>11, <1>12 DEF Inv, OwnersSeen
  <1> QED BY <1>8, <1>9, <1>10, <1>13 DEF Inv

-----------------------------------------------------------------------------
(* The scan starts, stores its status and speaks.                          *)

\* What an announced transition says of the status before and after.
LEMMA TransitionIs ==
    ASSUME NEW old, NEW new, NEW ready, NEW t \in ComputeFindingTransitions(old, new, ready)
    PROVE  /\ ready /\ old # new
           /\ t.type = "resolved" => t.f \in old /\ t.f.id \notin IdsOf(new)
           /\ t.type # "resolved" => t.f \in new
           /\ t.type = "added" => t.f.id \notin IdsOf(old)
  <1>1. ready /\ t \in {[type |-> "added", f |-> f] : f \in {g \in new : g.id \notin IdsOf(old)}}
                   \cup {[type |-> "changed", f |-> f] : f \in {g \in new \ old : g.id \in IdsOf(old)}}
                   \cup {[type |-> "resolved", f |-> f] : f \in {g \in old : g.id \notin IdsOf(new)}}
    BY DEF ComputeFindingTransitions
  <1>2. CASE t \in {[type |-> "added", f |-> f] : f \in {g \in new : g.id \notin IdsOf(old)}}
    <2>1. PICK f \in new : f.id \notin IdsOf(old) /\ t = [type |-> "added", f |-> f] BY <1>2
    <2>2. f \notin old BY <2>1 DEF IdsOf
    <2> QED BY <1>1, <2>1, <2>2
  <1>3. CASE t \in {[type |-> "changed", f |-> f] : f \in {g \in new \ old : g.id \in IdsOf(old)}}
    BY <1>1, <1>3
  <1>4. CASE t \in {[type |-> "resolved", f |-> f] : f \in {g \in old : g.id \notin IdsOf(new)}}
    <2>1. PICK f \in old : f.id \notin IdsOf(new) /\ t = [type |-> "resolved", f |-> f] BY <1>4
    <2>2. f \notin new BY <2>1 DEF IdsOf
    <2> QED BY <1>1, <2>1, <2>2
  <1> QED BY <1>1, <1>2, <1>3, <1>4

LEMMA StartStep ==
    ASSUME Inv, GetAudit \/ GetStaleAudit
    PROVE  Inv'
  <1> USE DEF worldVars, statusVars
  <1>1. Typed BY DEF Inv
  <1>2. Counted /\ (GetStaleAudit => faults'["stale"] # 0)
    BY <1>1, Counts, FaultCounts, Kinds DEF GetAudit, GetStaleAudit
  <1>3. PICK status : StartScan(status) /\ (GetAudit => status = live)
    BY DEF GetAudit, GetStaleAudit
  <1>4. PICK e : e = [NoEvidence EXCEPT !.spec = spec, !.failed = ~spec.valid] OBVIOUS
  <1>5. /\ ev' = e /\ base' = status
        /\ pc' \in {"evaluate", "discover", "list"}
        /\ pc' = "evaluate" => ~spec.valid
        /\ pc' = "list" => "ArgoPruneRisk" \notin spec.detectors
        /\ gone' = PruneIds \ Risks(app, prot, owner) /\ been' = Confirmable(app, prot, owner)
        /\ UNCHANGED <<app, prot, owner, ownerLag, spec, live, prev, said, repeated>>
    BY <1>3, <1>4 DEF StartScan
  <1>6. /\ e \in Evidence /\ e.app.state = "unread" /\ e.list = "unread"
        /\ e.spec = spec /\ e.failed = ~spec.valid
        /\ \A r \in Owned : e.owner[r] = "unread"
    BY <1>1, <1>4, NothingTyped DEF NoEvidence, Unread, Evidence, Typed
  <1>7. Typed' BY <1>1, <1>2, <1>5, <1>6 DEF Typed, Counted, Points
  <1>8. Stored' BY <1>5 DEF Stored
  <1>9. Said' BY <1>2, <1>3, <1>5 DEF Inv, Said, Counted
  <1>10. Present' BY <1>5 DEF Present
  <1>11. AppSeen' BY <1>1, <1>5, <1>6 DEF AppSeen, AppStates, Typed
  <1>12. ListSeen' BY <1>5, <1>6 DEF ListSeen
  <1>13. OwnersSeen' BY <1>5, <1>6 DEF OwnersSeen
  <1> QED BY <1>7, <1>8, <1>9, <1>10, <1>11, <1>12, <1>13 DEF Inv

\* The patch makes the findings the scan's, if they differ from its base.
LEMMA StoreIs ==
    ASSUME Typed, Store
    PROVE  /\ DOMAIN live' = {"ready", "findings", "total"} /\ said' \subseteq said
           /\ said' \subseteq IdsOf(live'.findings)
           /\ BuildStatus(ev).findings = base.findings \/ live'.findings = BuildStatus(ev).findings
  <1>1. live' = Merged /\ said' = said \cap IdsOf(live'.findings) BY DEF Store
  <1>2. PICK status : status = BuildStatus(ev) OBVIOUS
  <1>3. live' = [k \in {"ready", "findings", "total"} |->
                   IF status[k] = base[k] THEN live[k] ELSE status[k]]
    BY <1>1, <1>2 DEF Merged, Typed
  <1>4. status["findings"] = status.findings /\ base["findings"] = base.findings OBVIOUS
  <1>5. live'.findings = IF status["findings"] = base["findings"]
                         THEN live["findings"] ELSE status["findings"]
    BY <1>3
  <1> QED BY <1>1, <1>2, <1>3, <1>4, <1>5

\* Evaluation is over, or the scan goes on to speak with the evidence it has.
LEMMA GoesToPublish ==
    ASSUME Inv, Evaluated, pc' = "publish",
           UNCHANGED <<app, prot, owner, ev, gone, been, torn>>
    PROVE  Present' /\ AppSeen' /\ ListSeen' /\ OwnersSeen'
  <1>1. pc \in {"evaluate", "owners"} BY DEF Evaluated
  <1>2. Present' BY <1>1 DEF Inv, Present
  <1>3. AppSeen' BY <1>1 DEF Inv, AppSeen
  <1>4. ListSeen' BY <1>1 DEF Inv, ListSeen
  <1>5. OwnersSeen' BY <1>1 DEF Inv, OwnersSeen
  <1> QED BY <1>2, <1>3, <1>4, <1>5

LEMMA PatchStep ==
    ASSUME Inv, PatchStatus \/ StatusUnchanged
    PROVE  Inv'
  <1> USE DEF worldVars, statusVars, historyVars
  <1>1. /\ Evaluated /\ pc' = "publish" /\ pc \in {"evaluate", "owners"} /\ Typed
        /\ UNCHANGED <<app, prot, owner, ownerLag, spec, base, ev, gone, been, torn, repeated, faults>>
    BY DEF PatchStatus, StatusUnchanged, Evaluated, Inv
  <1>2. /\ DOMAIN live' = {"ready", "findings", "total"} /\ said' \subseteq said
        /\ said' \subseteq IdsOf(live'.findings)
        /\ BuildStatus(ev).findings = base.findings \/ live'.findings = BuildStatus(ev).findings
    <2>1. CASE PatchStatus BY <1>1, <2>1, StoreIs DEF PatchStatus
    <2>2. CASE StatusUnchanged BY <1>1, <2>2 DEF StatusUnchanged, Inv, Typed, Said
    <2> QED BY <2>1, <2>2
  <1>3. Typed' BY <1>1, <1>2 DEF Typed, Points
  <1>4. Stored' BY <1>1, <1>2 DEF Stored, BuildStatus
  <1>5. Said' BY <1>1, <1>2 DEF Inv, Said
  <1> QED BY <1>1, <1>3, <1>4, <1>5, GoesToPublish DEF Inv

\* The end of a scan leaves nothing to keep but the status and what was said.
LEMMA Ended ==
    ASSUME Inv, EndScan, Counted, UNCHANGED <<app, prot, owner, ownerLag, spec>>,
           DOMAIN live' = {"ready", "findings", "total"}, said' \subseteq IdsOf(live'.findings),
           faults'["stale"] = 0 => ~repeated'
    PROVE  Inv'
  <1>1. pc' = "idle" /\ ev' = NoEvidence BY DEF EndScan
  <1>2. Typed' BY <1>1, NothingTyped DEF Inv, Typed, Counted, Points
  <1>3. Stored' /\ Said' /\ Present' /\ AppSeen' /\ ListSeen' /\ OwnersSeen'
    BY <1>1 DEF Stored, Said, Present, AppSeen, ListSeen, OwnersSeen
  <1> QED BY <1>2, <1>3 DEF Inv

LEMMA PatchFailsStep ==
    ASSUME Inv, PatchFails
    PROVE  Inv'
  <1> USE DEF worldVars, statusVars
  <1>1. Typed /\ EndScan /\ UNCHANGED <<app, prot, owner, ownerLag, spec, repeated>>
    BY DEF Inv, PatchFails
  <1>2. Counted BY <1>1, Counts, Kinds DEF PatchFails
  <1>3. DOMAIN live' = {"ready", "findings", "total"} /\ said' \subseteq IdsOf(live'.findings)
    <2>1. CASE Store BY <1>1, <2>1, StoreIs
    <2>2. CASE UNCHANGED <<live, prev, said>> BY <2>2 DEF Inv, Typed, Said
    <2> QED BY <2>1, <2>2 DEF PatchFails
  <1>4. faults'["stale"] = 0 => ~repeated' BY <1>1, <1>2 DEF Inv, Said, Counted
  <1> QED BY <1>1, <1>2, <1>3, <1>4, Ended

LEMMA PublishStep ==
    ASSUME Inv, Publish
    PROVE  Inv'
  <1> USE DEF worldVars, statusVars
  <1> DEFINE added == {t.f.id : t \in {u \in events' : u.type = "added"}}
  <1>1. /\ pc = "publish" /\ events' = Announcement /\ EndScan /\ Typed
        /\ said' = said \cup added /\ repeated' = (repeated \/ said \cap added # {})
        /\ UNCHANGED <<app, prot, owner, ownerLag, spec, live, faults>>
    BY DEF Inv, Publish
  <1>2. \A id \in added : id \in IdsOf(live.findings) /\ id \notin IdsOf(base.findings)
    <2> SUFFICES ASSUME NEW t \in Announcement, t.type = "added"
                 PROVE  t.f.id \in IdsOf(live.findings) /\ t.f.id \notin IdsOf(base.findings)
      BY <1>1
    <2>1. /\ base.findings # BuildStatus(ev).findings /\ t.f \in BuildStatus(ev).findings
          /\ t.f.id \notin IdsOf(base.findings)
      BY TransitionIs DEF Announcement
    <2>2. live.findings = BuildStatus(ev).findings BY <1>1, <2>1 DEF Inv, Stored
    <2> QED BY <2>1, <2>2 DEF IdsOf
  <1> HIDE DEF added
  <1>3. Counted BY <1>1, Counts
  <1>4. said' \subseteq IdsOf(live'.findings) /\ DOMAIN live' = {"ready", "findings", "total"}
    BY <1>1, <1>2 DEF Inv, Said, Typed
  <1>5. faults'["stale"] = 0 => ~repeated'
    <2> SUFFICES ASSUME faults["stale"] = 0 PROVE ~repeated'
      BY <1>1
    <2>1. ~repeated /\ said \subseteq IdsOf(base.findings) BY <1>1 DEF Inv, Said
    <2>2. said \cap added = {} BY <1>2, <2>1
    <2> QED BY <1>1, <2>1, <2>2
  <1> QED BY <1>1, <1>3, <1>4, <1>5, Ended

LEMMA CrashStep ==
    ASSUME Inv, Crash
    PROVE  Inv'
  <1> USE DEF worldVars
  <1>1. Typed /\ EndScan /\ UNCHANGED <<app, prot, owner, ownerLag, spec, live, said, repeated>>
    BY DEF Inv, Crash
  <1>2. Counted BY <1>1, Counts, Kinds DEF Crash
  <1>3. DOMAIN live' = {"ready", "findings", "total"} /\ said' \subseteq IdsOf(live'.findings)
    BY <1>1 DEF Inv, Typed, Said
  <1>4. faults'["stale"] = 0 => ~repeated' BY <1>1, <1>2 DEF Inv, Said, Counted
  <1> QED BY <1>1, <1>2, <1>3, <1>4, Ended

LEMMA Invariance == Spec => []Inv
  <1>1. ASSUME Inv, [Next]_vars PROVE Inv'
    <2>1. CASE Scan
      BY <1>1, <2>1, StartStep, DiscoverStep, ApplicationStep, ListStep, ListFailsStep,
         OwnerStep, PatchStep, PatchFailsStep, PublishStep DEF Scan
    <2>2. CASE Crash BY <1>1, <2>2, CrashStep
    <2>3. CASE Cluster BY <1>1, <2>3, ClusterMoves
    <2>4. CASE UNCHANGED vars
      <3>1. Elsewhere /\ UNCHANGED <<app, prot, owner, ownerLag, spec, gone, been, torn, faults>>
        BY <2>4 DEF vars, Elsewhere
      <3>2. Typed' /\ Counted BY <1>1, <3>1, Counts DEF Inv, Typed, Elsewhere
      <3> QED BY <1>1, <3>1, <3>2, Unseen
    <2> QED BY <1>1, <2>1, <2>2, <2>3, <2>4 DEF Next
  <1> QED BY <1>1, InvInit, PTL DEF Spec

-----------------------------------------------------------------------------
(* What the detectors find.                                                *)

\* The findings of one detector or the other.
LEMMA EvaluateIs ==
    ASSUME NEW e \in Evidence, NEW f \in Evaluate(e)
    PROVE  \/ f \in EvaluateArgoPruneRisk(e)
           \/ \E r \in Owned : f \in OwnerFinding(e, r)
  <1>1. PICK dt \in e.spec.detectors :
          f \in CASE dt = "ArgoPruneRisk" -> EvaluateArgoPruneRisk(e)
                  [] dt = "StaleOwnerReference" -> EvaluateStaleOwnerReference(e)
    BY DEF Evaluate
  <1>2. CASE dt = "ArgoPruneRisk" BY <1>1, <1>2
  <1>3. CASE dt = "StaleOwnerReference"
    BY <1>1, <1>3 DEF EvaluateStaleOwnerReference
  <1>4. dt \in Detectors BY <1>1 DEF Evidence
  <1> QED BY <1>2, <1>3, <1>4 DEF Detectors

Classes     == {"PruneRisk", "ApplicationEvidenceUnavailable", "OwnerUIDMismatch", "OwnerMissing",
                "OwnerEvidenceUnavailable"}
Confidences == {"Confirmed", "Suspected", "InsufficientEvidence"}
Findings    == [id : Classes \X Resources, conf : Confidences]

\* A prune finding is a risk of the snapshot, or says that there is no knowing.
LEMMA PruneFindingIs ==
    ASSUME NEW e \in Evidence, NEW f \in EvaluateArgoPruneRisk(e)
    PROVE  \/ /\ e.app.state = "fresh"
              /\ \E r \in e.app.prune :
                   /\ f.id = <<"PruneRisk", r>> /\ ~(Readable(e, r) /\ r \in e.prot)
                   /\ f.conf = "Confirmed" => Readable(e, r) /\ e.app.auto
                   /\ f \in Findings
           \/ f.conf = "InsufficientEvidence" /\ f \in Findings
  <1>1. e.app.prune \subseteq Resources BY AuditAssumption DEF Evidence
  <1>2. CASE e.app.state = "fresh"
    <2>1. f \in RisksOf(e) BY <1>2 DEF EvaluateArgoPruneRisk
    <2>2. PICK r \in e.app.prune :
            /\ ~(Readable(e, r) /\ r \in e.prot)
            /\ f = Finding("PruneRisk", r,
                     IF Readable(e, r) /\ e.app.auto THEN "Confirmed" ELSE "Suspected")
      BY <2>1 DEF RisksOf
    <2>3. PICK c \in {"Confirmed", "Suspected"} :
            /\ f = [id |-> <<"PruneRisk", r>>, conf |-> c]
            /\ c = "Confirmed" => Readable(e, r) /\ e.app.auto
      <3>1. CASE Readable(e, r) /\ e.app.auto BY <2>2, <3>1 DEF Finding
      <3>2. CASE ~(Readable(e, r) /\ e.app.auto) BY <2>2, <3>2 DEF Finding
      <3> QED BY <3>1, <3>2
    <2>4. f \in Findings BY <1>1, <2>3 DEF Findings, Classes, Confidences
    <2> QED BY <1>2, <2>2, <2>3, <2>4
  <1>3. CASE e.app.state # "fresh"
    <2>1. \E r \in Resources :
            f = Finding("ApplicationEvidenceUnavailable", r, "InsufficientEvidence")
      BY <1>1, <1>3 DEF EvaluateArgoPruneRisk
    <2> QED BY <2>1 DEF Finding, Findings, Classes, Confidences
  <1> QED BY <1>2, <1>3

LEMMA OwnerFindingIs ==
    ASSUME NEW e \in Evidence, NEW r \in Owned, NEW f \in OwnerFinding(e, r)
    PROVE  /\ f \in Findings /\ f.id[1] # "PruneRisk" /\ f.id[2] = r
           /\ f.conf = "Confirmed" =>
                f.id[1] = "OwnerUIDMismatch" \/ (f.id[1] = "OwnerMissing" /\ e.owner[r] = "absent")
  <1>1. r \in Resources /\ OwnerRef[r] \in UIDs BY AuditAssumption DEF Owned
  <1>2. UIDs \cap OwnerStates = {} BY AuditAssumption
  <1>3. \/ f = Finding("OwnerUIDMismatch", r, "Confirmed")
        \/ f = Finding("OwnerMissing", r, "Confirmed") /\ e.owner[r] = "absent"
        \/ f = Finding("OwnerEvidenceUnavailable", r, "InsufficientEvidence")
    BY <1>1, <1>2 DEF OwnerFinding, OwnerStates
  <1> QED BY <1>1, <1>3 DEF Finding, Findings, Classes, Confidences

\* Whatever is confirmed rests on evidence that was read.
LEMMA ConfirmedIs ==
    ASSUME NEW e \in Evidence, NEW f \in Evaluate(e), f.conf = "Confirmed",
           f.id[1] # "OwnerUIDMismatch"
    PROVE  \/ /\ e.app.state = "fresh" /\ e.app.auto /\ e.list = "read"
              /\ \E r \in (e.app.prune \cap Targets) \ e.prot : f.id = <<"PruneRisk", r>>
           \/ \E r \in Owned : f.id = <<"OwnerMissing", r>> /\ e.owner[r] = "absent"
  <1>1. CASE f \in EvaluateArgoPruneRisk(e) BY <1>1, PruneFindingIs DEF Readable
  <1>2. CASE \E r \in Owned : f \in OwnerFinding(e, r)
    <2>1. PICK r \in Owned : f \in OwnerFinding(e, r) BY <1>2
    <2>2. f \in Findings /\ f.id[2] = r /\ f.id[1] = "OwnerMissing" /\ e.owner[r] = "absent"
      BY <2>1, OwnerFindingIs
    <2>3. f.id = <<f.id[1], f.id[2]>> BY <2>2 DEF Findings
    <2> QED BY <2>2, <2>3
  <1> QED BY <1>1, <1>2, EvaluateIs

LEMMA EvaluateTyped == ASSUME NEW e \in Evidence PROVE Evaluate(e) \in SUBSET Findings
  <1> SUFFICES ASSUME NEW f \in Evaluate(e) PROVE f \in Findings
    OBVIOUS
  <1> QED BY EvaluateIs, PruneFindingIs, OwnerFindingIs

LEMMA FindingsFinite == IsFiniteSet(Findings)
  <1>1. IsFiniteSet(Classes) /\ IsFiniteSet(Confidences)
    <2>1. \A S, x : IsFiniteSet(S) => IsFiniteSet(S \cup {x}) BY FS_AddElement
    <2>2. \A x : IsFiniteSet({x}) BY FS_Singleton
    <2>3. /\ Classes = ((({"PruneRisk"} \cup {"ApplicationEvidenceUnavailable"})
                           \cup {"OwnerUIDMismatch"}) \cup {"OwnerMissing"})
                           \cup {"OwnerEvidenceUnavailable"}
          /\ Confidences = ({"Confirmed"} \cup {"Suspected"}) \cup {"InsufficientEvidence"}
      BY DEF Classes, Confidences
    <2> QED BY <2>1, <2>2, <2>3
  <1>2. IsFiniteSet(Classes \X Resources) BY <1>1, FS_Product, AuditAssumption
  <1>3. IsFiniteSet((Classes \X Resources) \X Confidences) BY <1>1, <1>2, FS_Product
  <1> DEFINE g == [x \in Findings |-> <<x.id, x.conf>>]
  <1>4. g \in Injection(Findings, (Classes \X Resources) \X Confidences)
    <2>1. g \in [Findings -> (Classes \X Resources) \X Confidences] BY DEF Findings
    <2>2. \A x, y \in Findings : g[x] = g[y] => x = y BY DEF Findings
    <2> QED BY <2>1, <2>2 DEF Injection, IsInjective
  <1> QED BY <1>3, <1>4, FS_Injection

\* A status with room for all findings keeps all of them.
LEMMA RoomForAll ==
    ASSUME NEW e \in Evidence, ~(BuildStatus(e).total > MaxFindings)
    PROVE  BuildStatus(e).findings = Evaluate(e)
  <1> PICK all : all = Evaluate(e) OBVIOUS
  <1>1. IsFiniteSet(all) /\ all \subseteq Findings BY EvaluateTyped, FindingsFinite, FS_Subset
  <1>2. Cardinality(all) \in Nat BY <1>1, FS_CardinalityType
  <1>3. Cardinality(all) <= MaxFindings BY <1>2, AuditAssumption DEF BuildStatus
  <1>4. ASSUME NEW f \in all
        PROVE  Cardinality({g \in all : Precedes(g.id, f.id)}) < MaxFindings
    <2> PICK before : before = {g \in all : Precedes(g.id, f.id)} OBVIOUS
    <2>1. Severity(f.id) \in Nat /\ Detector(f.id) \in Nat
      <3>1. Severity(f.id) \in {1, 2, 3}
        <4>1. CASE f.id[1] = "PruneRisk" BY <4>1 DEF Severity
        <4>2. CASE f.id[1] # "PruneRisk" BY <4>2 DEF Severity
        <4> QED BY <4>1, <4>2
      <3>2. Detector(f.id) \in {1, 2} BY DEF Detector
      <3> QED BY <3>1, <3>2
    <2>2. Order[f.id[2]] \in Nat BY <1>1, AuditAssumption DEF Findings
    <2>3. f \notin before BY <2>1, <2>2 DEF Precedes
    <2>4. before \in SUBSET all /\ before # all BY <2>3
    <2>5. /\ IsFiniteSet(before) /\ Cardinality(before) <= Cardinality(all)
          /\ Cardinality(all) # Cardinality(before)
      BY <1>1, <2>4, FS_Subset
    <2>6. Cardinality(before) \in Nat BY <2>5, FS_CardinalityType
    <2> QED BY <1>2, <1>3, <2>5, <2>6, AuditAssumption
  <1>5. BoundFindings(all) = all BY <1>4 DEF BoundFindings
  <1> QED BY <1>5 DEF BuildStatus

-----------------------------------------------------------------------------
(* The theorems.                                                           *)

\* owners.go and argo.go, Collect: what a scan confirms was so at a moment of
\* the scan, though the Application, the targets and the owners are read in
\* different calls and a lookup may be answered from an old cache.  Only a
\* prune risk whose two halves both changed between two calls can be untrue.
THEOREM ConfirmedIsReal == Spec => []ConfirmedWasReal
  <1>1. Inv => ConfirmedWasReal
    <2> SUFFICES ASSUME Inv, Evaluated, NEW f \in Evaluate(ev), f.conf = "Confirmed",
                        f.id[1] # "OwnerUIDMismatch"
                 PROVE  \/ f.id \in been
                        \/ f.id \in PruneIds /\ {"application", "annotation"} \subseteq torn
      BY DEF ConfirmedWasReal
    <2>1. ev \in Evidence /\ pc # "idle" BY DEF Inv, Typed, Evaluated
    <2>2. CASE /\ ev.app.state = "fresh" /\ ev.app.auto /\ ev.list = "read"
               /\ \E r \in (ev.app.prune \cap Targets) \ ev.prot : f.id = <<"PruneRisk", r>>
      <3>1. PICK r \in (ev.app.prune \cap Targets) \ ev.prot : f.id = <<"PruneRisk", r>> BY <2>2
      <3>2. <<"PruneRisk", r>> \in been \/ {"application", "annotation"} \subseteq torn
        BY <2>1, <2>2 DEF Inv, ListSeen, AppStates
      <3>3. f.id \in PruneIds BY <3>1, AuditAssumption DEF PruneIds
      <3> QED BY <3>1, <3>2, <3>3
    <2>3. CASE \E r \in Owned : f.id = <<"OwnerMissing", r>> /\ ev.owner[r] = "absent"
      BY <2>1, <2>3 DEF Inv, OwnersSeen
    <2> QED BY <2>1, <2>2, <2>3, ConfirmedIs
  <1> QED BY <1>1, Invariance, PTL

\* reconciler.go, patch and publish: a finding that stays in the stored status
\* is not announced as detected a second time, unless the cache gave a scan an
\* older status to start from.
THEOREM AnnouncedOnce == Spec => []DetectedOnce
  <1>1. Inv => DetectedOnce
    <2>1. Inv => faults["stale"] \in Nat BY DEF Inv, Typed, FaultKinds
    <2> QED BY <2>1 DEF Inv, Said, DetectedOnce
  <1> QED BY <1>1, Invariance, PTL

\* Events change when a scan speaks, begins or dies.
LEMMA EventsChange ==
    ASSUME [Next]_vars, events' # events
    PROVE  events' = {} \/ (pc = "publish" /\ events' = Announcement /\ UNCHANGED live)
  <1> USE DEF worldVars, statusVars, scanVars, historyVars
  <1>1. CASE Scan
    BY <1>1 DEF Scan, GetAudit, GetStaleAudit, StartScan, Discover, DiscoveryFails, ReadApplication,
           ReadApplicationFails, ListTargets, ListTargetsFails, LookupOwner, ConfirmOwner,
           LookupFails, PatchStatus, StatusUnchanged, PatchFails, Publish, Collect
  <1>2. CASE Crash BY <1>2 DEF Crash
  <1>3. CASE Cluster
    BY <1>3 DEF Cluster, ArgoChanges, ArgoStalls, ArgoReportsError, ArgoRecovers,
           AnnotationChanges, OwnerChanges, SpecChanges
  <1> QED BY <1>1, <1>2, <1>3 DEF Next, vars

\* reconciler.go, patch before publish: an announced transition is already in
\* the stored status, whatever patches failed or were answered late and
\* whichever status the scan began with.
THEOREM StoredBeforeSaid == Spec => StatusFirst
  <1> DEFINE Says == events' # events =>
                \A t \in events' : IF t.type = "resolved" THEN t.f.id \notin IdsOf(live.findings)
                                    ELSE t.f \in live.findings
  <1>1. Inv /\ [Next]_vars => Says
    <2> SUFFICES ASSUME Inv, [Next]_vars, events' # events, NEW t \in events'
                 PROVE  IF t.type = "resolved" THEN t.f.id \notin IdsOf(live.findings)
                        ELSE t.f \in live.findings
      OBVIOUS
    <2>1. pc = "publish" /\ t \in Announcement BY EventsChange
    <2>2. /\ base.findings # BuildStatus(ev).findings
          /\ t.type = "resolved" => t.f.id \notin IdsOf(BuildStatus(ev).findings)
          /\ t.type # "resolved" => t.f \in BuildStatus(ev).findings
      BY <2>1, TransitionIs DEF Announcement
    <2>3. live.findings = BuildStatus(ev).findings BY <2>1, <2>2 DEF Inv, Stored
    <2> QED BY <2>2, <2>3
  <1>2. Inv /\ [Next]_vars => [Says]_vars BY <1>1
  <1> QED BY <1>2, Invariance, PTL DEF Spec, StatusFirst

\* evaluator.go and InventoryReady: a prune risk is announced as resolved only
\* if it was absent at a moment of the scan, and not because evidence could
\* not be collected.
THEOREM ResolvedIsReal == Spec => RecoveryIsReal
  <1> DEFINE Real == events' # events =>
                \A t \in events' : t.type = "resolved" /\ t.f.id \in PruneIds =>
                   \/ t.f.id \in gone
                   \/ ev.app.state = "untrusted"
                   \/ BuildStatus(ev).total > MaxFindings
                   \/ "ArgoPruneRisk" \notin ev.spec.detectors
  <1>1. Inv /\ [Next]_vars => Real
    <2> SUFFICES ASSUME Inv, [Next]_vars, events' # events, NEW t \in events',
                        t.type = "resolved", t.f.id \in PruneIds,
                        ev.app.state # "untrusted", ~(BuildStatus(ev).total > MaxFindings),
                        "ArgoPruneRisk" \in ev.spec.detectors
                 PROVE  t.f.id \in gone
      OBVIOUS
    <2>1. pc = "publish" /\ t \in Announcement /\ ev \in Evidence BY EventsChange DEF Inv, Typed
    <2>2. InventoryReady(ev) /\ t.f.id \notin IdsOf(BuildStatus(ev).findings)
      BY <2>1, TransitionIs DEF Announcement
    <2>3. t.f.id \notin IdsOf(Evaluate(ev)) BY <2>1, <2>2, RoomForAll
    <2>4. ev.app.state = "fresh"
      <3>1. ev.app.state \in AppStates \cup {"unread", "error"} BY <2>1 DEF Evidence
      <3>2. ev.app.state # "unread" BY <2>1, <2>2 DEF Inv, AppSeen, InventoryReady
      <3> QED BY <2>2, <3>1, <3>2 DEF InventoryReady, AppStates
    <2>5. PICK r \in Resources : t.f.id = <<"PruneRisk", r>> BY DEF PruneIds
    <2>6. r \notin ev.app.prune \/ (Readable(ev, r) /\ r \in ev.prot)
      <3> SUFFICES ASSUME r \in ev.app.prune, ~(Readable(ev, r) /\ r \in ev.prot) PROVE FALSE
        OBVIOUS
      <3> PICK f : f = Finding("PruneRisk", r,
                      IF Readable(ev, r) /\ ev.app.auto THEN "Confirmed" ELSE "Suspected")
        OBVIOUS
      <3>1. f \in RisksOf(ev) BY DEF RisksOf
      <3>2. f \in Evaluate(ev) BY <2>4, <3>1 DEF Evaluate, EvaluateArgoPruneRisk
      <3>3. f.id = t.f.id BY <2>5 DEF Finding
      <3> QED BY <2>3, <3>2, <3>3 DEF IdsOf
    <2>7. CASE r \notin ev.app.prune BY <2>1, <2>4, <2>5, <2>7 DEF Inv, AppSeen, AppStates
    <2>8. CASE Readable(ev, r) /\ r \in ev.prot
      BY <2>1, <2>5, <2>8 DEF Inv, ListSeen, Readable
    <2> QED BY <2>6, <2>7, <2>8
  <1>2. Inv /\ [Next]_vars => [Real]_vars BY <1>1
  <1> QED BY <1>2, Invariance, PTL DEF Spec, RecoveryIsReal
=============================================================================
