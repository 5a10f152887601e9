# A TLA+ model of coffee-shop

coffee-shop is a small event-driven ordering system (Go, gRPC, RabbitMQ,
PostgreSQL) together with the platform that runs it: `platformctl`, which
creates, verifies and destroys the PROD, DEV, CI and GitHub environments and
drills a database restore; the workflows that carry an image from a commit to
PROD; and PlatformOwnershipGuard, a Kubernetes controller that reports ownership
risks. This directory models the parts of it that have state,
concurrency or failure handling, checks them with TLC on small instances, and
proves every safety property it checks with TLAPS, for every number of orders,
items, workers, invocations, commits, resources and faults.

`PROJECT.json` is the index: components, runs, the source lines of every
definition (`map`), mutants, findings, hazards and theorems.

```
tlc -workers 2 -config MCCounter_place.cfg MCCounter     # one run
tlapm Counter_proofs.tla                                 # one module's proofs
```

## 1. Inventory

| Component | State it keeps | Operations | Talks to | Hard parts | Module |
|---|---|---|---|---|---|
| counter (`internal/counter`, `cmd/counter`) | `orders`, `line_items`; PlaceOrder handlers, 24 worker goroutines | PlaceOrder, order transaction, publish loop, update handler, GetListOrderFulfillment | product (gRPC), stations and itself (RabbitMQ), PostgreSQL | publish after commit; concurrent read-modify-write; abandoned transactions | `Counter` |
| barista, kitchen | own `orders` table, 24 workers | handle one item: begin, insert, publish, commit, ack | RabbitMQ, PostgreSQL | publish inside the transaction; redelivery; connections and locks never released | `Station` |
| RabbitMQ publisher and consumer (`pkg/rabbitmq`) | options, a channel, a prefetch window | Configure, Publish with confirm, StartConsumer | broker | ambiguous confirms; first start; a channel that closes | `Publisher`, part of `Counter` and `Station` |
| order workflow | the three services together | an order from request to fulfilled | | everything above at once | `CoffeeShop` |
| product | none (fixed catalogue) | lookup | | | its answers, in `Counter` |
| PROD restore drill (`platformctl prod restore-drill`) | a state file, RDS target, Kubernetes Jobs, marker rows | run, cleanup | RDS, Kubernetes, source database | resume after a crash at any phase; Jobs that outlive their invocation; two operators | `RestoreDrill` |
| PROD lifecycle (`platformctl prod`) | Terraform state, saved plan, state bucket, cluster, secret, ALB | setup, reconcile, status, resilience, teardown | Terraform, AWS, Helm, Argo CD, load balancer controller | half-done applies, order of destruction, errors read as answers, interrupted fault injection | `ProdLifecycle` |
| DEV, CI and GitHub lifecycle (`platformctl dev`, `ci`, `github`) | four Terraform states and their locks, configured hosts, DEV's data and backups, repository secrets | setup, bootstrap, status, doctor, teardown | Terraform, AWS, Ansible, GitHub, `prod setup` | killed applies, resources no state records, a boundary two commands share | `Environments` |
| delivery (`.github/workflows`, `internal/platformctl/release`, `component`) | immutable tags in four registries, records and desired images on main, open pull requests | candidate build, delivery to DEV, QA decision, promotion, rollback, hotfix, reconciliation | registries, GitHub pull requests, Argo CD | what a run read changes before its pull request merges; expired tags and rebuilds; cancelled runs | `Delivery` |
| PlatformOwnershipGuard | the status of an OwnershipAudit, Events | reconcile | Kubernetes API, Argo CD Application | evidence read in several calls from a moving cluster; cached reads; leader change | `OwnershipAudit` |
| proxy, web, migrate, telemetry, generated code, manifests | | | | | not modelled, section 8 |

What makes each correct, in a sentence:

- counter: a reply says what was stored and sent; what leaves is a prefix of
  the order; rows agree with each other; the workers can lose an update only
  by overlapping; every update is settled and every item of an accepted order
  ends fulfilled or rejected.
- stations: the update leaves before the commit and never after it; nothing is
  lost without an error; every message is settled.
- drill: a target restored between the two markers and never forgotten;
  cleanup ends the drill from wherever it stopped.
- PROD lifecycle: what the cluster's controllers made goes before the cluster,
  except where an error was read as an answer; a report is true; running setup
  again repairs the environment.
- DEV, CI, GitHub lifecycle: a command that passed did what it is for; the CI
  foundation never exists without its boundary; running the setups, or the
  teardowns, again completes them or stops in a named state.
- delivery: one artifact from DEV to PROD, tested and approved before PROD wants
  it; what an environment is told to run can be pulled; every change ends as a
  record or in a named failure.
- guard: status first, then announcements; no recovery is announced for want
  of evidence; what is confirmed was so; the status converges.

## 2. Modules

| Module | Models | Composes |
|---|---|---|
| `Publisher` | `publisher.go`: the base publisher, `Configure` (which returns a copy), the wiring of `wire_gen.go` and `main.go`, and which exchange and key reach a queue | |
| `Counter` | the counter service and its broker | |
| `Station` | barista or kitchen | |
| `CoffeeShop` | counter, barista and kitchen | instances of `Counter` and `Station`, `Publisher` |
| `RestoreDrill` | the drill engine, its Jobs and RDS | |
| `ProdLifecycle` | the engine of `platformctl prod` and the world it acts on | |
| `Environments` | the engines of `platformctl dev`, `ci` and `github`, Terraform under a runner that kills it | |
| `Delivery` | the release workflows, registries, records and pull requests | |
| `OwnershipAudit` | collector, detectors, status builder, reconcile loop | |
| `Counter_proofs`, `Station_proofs`, `RestoreDrill_proofs`, `ProdLifecycle_proofs`, `Environments_proofs`, `Delivery_proofs`, `OwnershipAudit_proofs` | theorems about the module of that name | |
| `CoffeeShop_proofs` | theorems about the composition | instances of `Counter_proofs` and `Station_proofs` |
| `MC*` | small instances for TLC | |

Every network or database call is one step; what a handler computes in memory
between two calls belongs to the next step. Faults are actions with a budget
per kind, and a process crash is an action of its own, enabled at every point.
Definitions named `X_Something` next to `X` are mutants: `PROJECT.json` says
which property each one breaks.

### Counter

`place` and `next` are the program counter and loop index of the PlaceOrder
handler of one order, `orderRow` and `itemRow` the two tables, `wpc`, `wmsg`,
`wcopy` the workers with the order each has loaded. `PlaceOrder`, `Lookup`,
`CreateOrder`, `Publish`, `Reply` and their failing variants follow
`service.go` and `orders_postgres.go`; `Take`, `Load`, `Update` and the settling
actions follow `app.go` and the two event handlers. `Apply` is `Order.Apply`: it
matches the item type, not the ItemLineID. `Update` rewrites every line item
from the loaded copy, as the code does. `openTx` counts transactions that an
early return left open and that keep their connection. `route` is what the
broker knows of a station's exchange: absent (a publish closes the channel and
fails), declared but not bound (confirmed and dropped, since publishes are not
mandatory), bound. A failed publish may or may not have reached the queue: the
confirmation may time out after the broker took the message. The stations are an
environment that announces a sent item up to `MaxEmit` times.

### Station

The same worker pool with the station's handler. `rows` is its table, `leaked`
and `locked` the connections and keys held by transactions a failed handler
left open. An insert of a committed key fails; one of a key that an open
transaction holds waits, with the connection its transaction began on. `announced` are the updates on the counter's queue. A
malformed body is unmarshalled to the zero payload, so all malformed messages
share one key. `Addressed` says whether the handler's publisher names the
counter's exchange.

### CoffeeShop

The counter's `sent` is the stations' input, the stations' `announced` are the
counter's `emitted` and `queue`; a step of one service leaves the others'
variables alone. `StationPub` gives each station the publisher its handler holds.
`shop_wiring` gives both `StationHandlerPublisher`, what they hold as the code
stands. `shop_safety` leaves the kitchen so and gives the barista what it would
hold if `main` kept the result of `Configure`: one half of the composition is
the code as wired, the other walks the way back to the counter.

### RestoreDrill

`file` is the state file, `mem`, `pc`, `cmd` an invocation. A first run that
finds no file draws an identity from `Drills`; markers, Jobs and target belong to
an identity, the file to whoever saved last. Each phase's work,
the save that follows it and the two saves of the error path are separate
steps. Jobs act on their own (`JobSucceeds`, `JobFails`), whether or not an
invocation waits for them. A restore time is the set of markers committed before
it. `drift` is what has come to differ from what the preflight recorded (the
source, its restore window, the application Secret, a snapshot or managed secret
left by the target): cleanup compares it all again in its last step, and a Secret
that was rotated never changes back. Abstractions: the identity check and the deletion of the target are one
step; deleting a Job stops its pod; the probe Job of the preflight, which
changes nothing, is left out; approval to create the target is asked before the
markers are written, as in the engine (the runbook's steps 4 to 6 list it later).

### ProdLifecycle

`proc` is the running command with what the process remembers (the ALB's ARN,
whether it has planned before), `plan` the saved plan as shown, as the file is
now and whether approved, `infra` what Terraform has created; the other
variables are the cluster, the ALB, the secret, the broker's password and its
EBS volume, the failure fixtures and a restore drill that runs beside it. The
volume is deleted by the CSI driver some time after the platform's Application
is gone; `lost` keeps what it was if the cluster went first. One command runs at a
time. Terraform's state and AWS agree, a plan is the set of resources it leads
to, and an apply that stops has reached some set in between (`Between`), one of
the resources it was creating perhaps `tainted`: the next plan would replace it,
which the policy gate lets only a teardown do, the canary excepted. The state
bucket is one of six values of `backend`, since `verifyBootstrapClean` refuses
one whose other resources are missing. A crash
during an apply is such a stop, after which the operator is assumed to release
Terraform's lock (`Environments` models a lock that stays). The fingerprint check and the apply are one
step. A query whose error the code ignores (`awsSucceeds`, `kubeSucceeds`,
`helmSucceeds` and the like) may answer "not there" for something that is there;
the history variable `misread` records which. A wait times out without cost only
when nothing moves any more; an earlier timeout uses up a failure. Probes that
only read (images, target groups, RBAC, log samples) are part of one condition.
The two that take something away are steps: setup and reconcile scale web to zero
at the end of their verification and wait for Argo CD (`Verify`, `Healed`), and
resilience deletes a RabbitMQ pod among its fixtures; `down` is what is away. A
broker with a stale password leaves the application healthy or not, depending on
which service has restarted (`Answers`).

### Environments

`run` is the running command with what is left of its plan, `have` what each of
the four Terraform states records (DEV, the backend boundary shared with PROD,
the CI foundation, GitHub governance), `stray` what exists unrecorded, `lock` the
locks left taken. A plan is the set of resources it leads to; an apply works its
states in the code's order and may stop half-way with an error (recorded) or be
killed (`exec.CommandContext` sends SIGKILL: the lock stays, and what was being
created may be in no state). A creation that failed after AWS made the resource
leaves it `tainted`; the next plan replaces it, which the CI and GitHub policies
refuse. `want` is what the operator runs again and again, the setups or the
teardowns. `prod setup` appears as one action that makes the
candidate repositories if the boundary is complete. `revised` is a reviewed
change of the configuration that replaces a part, which the policies allow or
refuse. DEV's `backup` is that the bucket holds a base backup: the preflight of a
teardown asks no more, not whose it is. None is ever removed: `retentionPolicy:
"30d"` in `coffeeshop-postgres/values.yaml:11` is read by no template. Resources are grouped by what the
commands distinguish, hosts are configured or not, and read-only probes are one
condition.

### Delivery

One component. A digest is a commit and the number of its build: builds are not
reproducible, so a rebuild is another digest. `tags` are the registries'
immutable tags, which expire; `rec`, `verdict` and `image` are files on main;
`prs` are open pull requests with the base they were made from, and merge in any
order or conflict; `jobs` are the running delivery, promotion and hotfix
workflows between their read of main and their submission. `running` and
`pending` are the candidate workflow's concurrency group, which every push of a
branch joins: a merge, and also each submission of a desired-state pull request
(`Join`), which evicts whoever waits there; `lost` are the source commits whose
run was cancelled so, `failed` the runs that failed by themselves, until either
is run again. The checks of
`platformctl release` and `component` are the guards. Release sets of several
components, whose records are submitted together, and the maintenance lane are
left out.

### OwnershipAudit

One audit with one Application. `app`, `prot`, `owner`, `spec` are the cluster;
`live` is the stored status, `prev` the one before (what a stale cache holds),
`base` and `ev` what the running scan has read, `events` what it announces.
Every read of a scan is a step and the cluster changes between them. There is
one reconciler: leader election and one reconcile per key; a handover is a
crash. The fault `stale` is a cached read of the audit that is one write
behind. The fault `lag` is an owner lookup answered from an outdated cache: the
collector takes any `client.Reader`, and confirms a miss with a second reader,
so the model covers a cache-backed one, though as wired the unstructured reads
are live. Texts, reasons, timestamps and the heartbeat patch are left out.

## 3. Runs

| Run | Shows | Bounds | Distinct states |
|---|---|---|---|
| `counter_place` | reply, error and crash of three calls leave what they should | 3 orders (two items; off the menu; empty), 1 worker, 2 database faults, one of every other kind, exchanges declared and bound during the run | 1 234 812 |
| `counter_workers` | read-modify-writes of two workers; liveness | 1 order of 2 items, 2 workers, prefetch 2 and as many unsupported messages, 2 crashes, a closed channel | 39 677 |
| `counter_listing` | **violation**: an empty order breaks the listing | as `counter_place`, no faults | |
| `station` | insert, publish, commit across crashes; settling | 1 item, 2 malformed, 2 unsupported, prefetch 2, 2 workers, 2 connections, 1 fault of any kind | 367 436 |
| `shop_safety` | composition implements the counter's environment; end-to-end liveness | 1 order with an item for each station, 2 counter workers, one of each fault of the counter (but its database) and of the barista, which is repaired; the kitchen as wired | 57 180 |
| `shop_wiring` | **violation**: as wired, no item is answered | the same, no faults | |
| `drill_safety` | one operator, all faults; liveness | 2 crashes, one of each other fault, drift among them | 472 168 |
| `drill_overlap` | two invocations on one state path | `run` only, 2 identities, 4 kinds of faults, symmetry over processes and identities | 1 474 765 |
| `guard` | scans over a changing cluster; liveness | 3 resources (a Deployment-like target with an owner, a high-severity one without target rule, a target with an unregistered owner kind), room for 3 findings, any 2 changes or faults | 361 822 |
| `prod_lifecycle` | all commands, all failures; liveness | setup without limit, 2 other commands, 3 failures | 1 355 916 |
| `environments` | all commands of DEV, CI and GitHub; liveness | setups or teardowns without limit, 2 other commands or edits, 1 failure or kill | 303 075 |
| `delivery` | all workflows; liveness | 2 commits, 1 hotfix, 2 builds of each, any 2 disturbances | 411 624 |

Why the bounds suffice for what is claimed. Two workers and two line items are
the least for a lost update, and a third worker adds no new kind of overlap. In
the counter's own runs an update comes a second time by redelivery after a crash;
two announcements of one item are in `shop_safety` (`MaxEmit` 2), three in the
station's run, and the theorems hold for any number. Two unsupported
messages in a prefetch window of two fill it, as five do in the code. A fault
leaves one abandoned transaction behind, and with it a connection and a locked
key, for the other worker to run into. Two crashes let the drill
fail during its own recovery. Two invocations and two identities are the least
for two first runs on one path. Three failures in the PROD lifecycle let a
recovery fail twice, and two commands besides setup allow a teardown after a
resilience run. In `environments` one failure is enough for a stray resource, a
left lock or a half-made boundary, and two other commands allow a teardown after
a change of the configuration; the four states meet only through the boundary.
In `delivery` two commits are the least for one change to overtake another, two
builds for a commit to have two digests, and two disturbances for a tag to
expire and the commit to be built again; only commit 1 and the hotfix meet
disturbances other than failures (`Troubled`), which names the one that is
overtaken without loss of generality. In the guard, four findings are possible with room for three, so
one is pushed out, and two changes are the least for the Application and an
annotation to change between its two reads. For the safety properties section 5
removes the bounds.

Deadlock checking is off where a finite number of orders, messages or one drill
or a finite number of commits ends with nothing left to do; it is on for the
guard and both lifecycles.

### Liveness and fairness

Only what the Go runtime, the broker or the operator does is assumed.

- `Counter`, `Station`, `CoffeeShop`: weak fairness of each worker's steps and of
  each started PlaceOrder call (goroutines are scheduled, calls have an
  outcome). No fairness for new calls, faults or the repetition of
  announcements.
- `RestoreDrill`: invocations and Jobs make progress, RDS finishes what it began,
  the operator reruns `run` and, strongly, `cleanup`, and puts right foreign
  tags and other drills. Strong fairness of the start of `cleanup` because the
  file may be held by a run in between.
- `OwnershipAudit`: weak fairness of a scan (the workqueue requeues on error and
  at the resync interval).
- `Environments`: weak fairness of a running command and of `prod setup`; strong
  fairness of each setup, which only one command at a time allows. Nobody
  releases a lock or imports a stray resource.
- `Delivery`: weak fairness of the candidate run, of the running jobs and of
  merging what can merge (GitHub runs what is queued; auto-merge). No fairness
  for pushes, decisions, dispatches, re-runs or rollbacks.
- `ProdLifecycle`: weak fairness of the engine, the controllers, the delivery
  workflow, the end of a drill and of starting setup again; strong fairness of
  selecting the recovery state, which is possible only between commands.

The liveness properties name their exceptions, each a state the code does not
leave by itself:

- `EveryUpdateSettles`, `EveryItemSettles`, `FulfilledUnlessOverlap`: after a closed
  channel `StartConsumer` waits on a channel nobody sends to, and a prefetch
  window full of unsupported messages admits no other: nothing is consumed until
  a restart. A station's insert on a key held by an abandoned transaction waits
  without a timeout. `FulfilledUnlessOverlap` and `AcceptedItemsEnd` add a database
  error of the counter, overlapping workers and equal item types.
- `CleanupCompletes`: what the drill recorded stays different.
- `SetupRecovers`: a backend that is not whole, a tainted resource other than the
  canary, a stale broker password, a NetworkPolicy left by a dead resilience run.
- `SetupsConverge`, `TeardownsConverge`: `Stuck` and `StuckDown`, see section 4.
- `EveryChangeSettles`: a run that was cancelled or failed and was not run again, an
  expired candidate, an approval taken back, a pull request overtaken by another
  commit's.

## 4. Findings

1. **Stations publish to the wrong exchange** (`shop_wiring`). `cmd/barista/main.go:49`
   and `cmd/kitchen/main.go:49` drop the copy `Configure` returns; the handler
   keeps the default exchange, which nobody declares. Every publish fails, the
   delivery is rejected, the transaction stays open.
2. **An empty order breaks the listing** (`counter_listing`). The LEFT JOIN of
   `GetAll` yields NULLs that `Scan` cannot store, for all callers from then on.
Observations, stated by properties as named exceptions or not claimed:

- Drill cleanup can leave a marker: the cleanup Job runs before the drill's other
  Jobs are deleted (`restore_drill.go:327`) and nothing looks at the markers
  afterwards, so a Job that outlived a crashed run may commit in between.
  `CleanedLeavesNoMarker` excuses every drill with a crash or a failed Kubernetes
  call, of which that race is one consequence.
- An application Secret that is rotated during a drill makes every later cleanup
  fail at its last step, with the target already deleted
  (`restore_drill.go:356`; `CleanupCompletes` excludes it).
- Two first runs on one state path overwrite each other's identity; the target
  of the loser is in no file, and cleanup of the other drill passes beside it
  (`LostOnlyToRace` says it takes this race).
- `client.MergeFrom` sends no resourceVersion, so a scan that started from a stale
  read overwrites the newer status, against the comment above `patchStatus`
  (`ownershipaudit_controller.go:260`); the unit test
  `TestStatusConflictDoesNotOverwriteStaleStatus` passes because a stub returns
  the conflict. `Converges` shows that later scans repair it.
- A teardown does not wait for the broker's EBS volume, which its inventory
  cannot see (`verify.go:163`): a volume that is still being deleted when the
  cluster goes stays and is billed. `ClusterGoesLast` claims only the rest.
- `ci setup` and `prod setup` can wait for each other: with a boundary from before
  the CI role and no candidate repositories, the first says to run the second
  (`ci/operations.go:129`) and the second refuses the drift of the boundary
  (`prod/bootstrap.go:79`). A CI role without its policy, after an interrupted
  boundary apply, is repaired by neither. Both are named in `Stuck("ci")`.
- A resource whose creation failed is tainted; its replacement is a delete that
  `reconcile.rego:5`, `ci_reconcile.rego:5` and the GitHub engine refuse, so that
  every later setup stops at its plan until somebody untaints or removes it
  (`Stuck`, `SetupRecovers`).
- The runner kills Terraform on a timeout or an interrupt (`runner.go:52`): no
  code releases the lock, and an unrecorded resource is created again or blocks
  its own name for ever.
- A DEV teardown is content with a base backup of an earlier database, and a setup
  whose plan replaces the volumes asks for none. A DEV setup that failed before the
  first base backup cannot be torn down: the preflight waits for a backup that
  nothing makes (`StuckDown("dev")`).
- A push cancels the waiting candidate run of an earlier one
  (`release-candidate.yml:19`), and each desired-state submission is such a push
  (`submit-gitops-pr/action.yml:41`). So a source run that waits behind another
  source run is always cancelled, by the branch that run pushes when it submits
  its candidates, unless somebody runs it again; `src/README.md:228` says that the
  workflow builds the changed components after a merge.
- Of two desired-state pull requests from one main the second conflicts and nobody
  is told (`Overtaken`); a promotion whose approval was read before the rejection
  merged goes on, and nothing is claimed about it.
- Where DEV's tag has expired, a rebuilt candidate can give one commit a second
  digest (`OneArtifact`).

- Two workers of the counter can undo a fulfilled item (`RegressionNeedsOverlap`,
  `FulfilledUnlessOverlap`), and equal item types in one order share updates.
- A standing prune risk is announced as resolved when the Application reports a
  blocking condition, when it is pushed out of the findings budget or its
  detector is switched off (`RecoveryIsReal`); an outage or a refused spec drops
  findings silently and announces them again later; a lagging cache could give a
  confirmed `OwnerUIDMismatch`, against `platform-ownership-guard/README.md:47`,
  if the collector were wired to one; a prune risk can be confirmed that never
  was when the Application and an annotation both change between their reads
  (`ConfirmedWasReal`).
- A failed `get application` in a teardown removes only the Ingress, which
  self-heal brings back (`operations.go:173`); any error counts as "ALB deleted"
  (`:193`); a failed read of the secret replaces the passwords (`:468`).
- A teardown that destroyed the cluster and then failed cannot be resumed by
  teardown, only by setup. A first bootstrap that stops before its bucket exists
  leaves a KMS alias that blocks the next one; one that stops after it and before
  the rest is refused by `verifyBootstrapClean` from then on. A crash of `resilience`
  can leave the NetworkPolicy; `status` still passes. A failed cleanup of `resilience`
  is reported only when nothing had failed before (`resilience.go:42`).
- `README.md:154-155` suggests resuming a waiting setup with `prod reconcile`,
  which has no configure step. `README.md:197` speaks of one saved-plan boundary;
  setup has two, or three with a bootstrap, each approved.

## 5. Proofs

Every invariant that a passing run checks, the four action properties and the
refinement `CounterSpec` are theorems, for every value of the constants. Each rests on an
inductive invariant; TLC checked the property, and the invariant, on the run's
instance first. A step lemma has a case per action and under it one per conjunct
the action can disturb.

| Module | Theorem | Property | Inductive invariant |
|---|---|---|---|
| `Counter_proofs` | `TypeCorrect` | `TypeOK` | `TypeInv` |
| | `PrefixPublished` | `PublishedIsPrefix` | `TypeInv /\ PlaceInv` |
| | `AcceptedPublished` | `AcceptedOrderPublished` | `TypeInv /\ PlaceInv` |
| | `UpdateHasOrder` | `UpdateFindsItsOrder` | `TypeInv /\ PlaceInv` |
| | `RowsAlwaysAgree` | `RowsAgree` | `TypeInv /\ PlaceInv /\ RowInv` |
| | `FulfilledWasMade` | `FulfilledTypeWasMade` | `TypeInv /\ PlaceInv /\ RowInv` |
| | `RegressionOnlyByOverlap` | `RegressionNeedsOverlap` (action) | `TypeInv /\ PlaceInv /\ RowInv` |
| `Station_proofs` | `TypeCorrect` | `TypeOK` | `TypeInv` |
| | `CommittedAnnounced` | `CommittedWasAnnounced` | `TypeInv /\ DualInv` |
| | `DroppedAfterFailure` | `DroppedOnlyAfterFailure` | `TypeInv /\ DropInv` |
| | `NoSecondAnnouncement` | `NoAnnouncementAfterCommit` (action) | `TypeInv /\ TxInv` |
| `CoffeeShop_proofs` | `ShopImplementsCounter` | `CounterSpec` (refinement) | `Inv` |
| | `FulfilledIsAccounted` | `FulfilledHasStationRow` | `Inv` and the counter's theorem |
| `RestoreDrill_proofs`, runs only | `OnlyRacesLose` | `LostOnlyToRace` | `RunInv` |
| | `ValidatedIsTrue` | `ValidatedBoundary` | `RunInv` |
| `RestoreDrill_proofs`, one operator | `DataBetweenMarkers` | `RestoreBoundary` | `OpInv` |
| | `TargetNeverForgotten` | `TargetIsRecorded` | `OpInv` |
| | `SourceLeftClean` | `CleanedLeavesNoMarker` | `OpInv` |
| `ProdLifecycle_proofs` | `ClusterIsLast` | `ClusterGoesLast` | `Inv` |
| | `PasswordKept` | `CredentialsAgree` | `Inv` |
| | `SuccessIsTrue` | `ReportIsTrue` | `Inv` |
| `Environments_proofs` | `PassedTold` | `PassedIsDone` | `Inv` |
| | `BoundaryHolds` | `BoundaryFirst` | `Inv` |
| `Delivery_proofs` | `OnlyTestedInProd` | `ProdWasTested` | `Inv` |
| | `BuiltOnce` | `OneArtifact` | `Inv` |
| | `NothingMissing` | `DesiredCanBePulled` | `Inv` |
| `OwnershipAudit_proofs` | `ConfirmedIsReal` | `ConfirmedWasReal` | `Inv` |
| | `AnnouncedOnce` | `DetectedOnce` | `Inv` |
| | `StoredBeforeSaid` | `StatusFirst` (action) | `Inv` |
| | `ResolvedIsReal` | `RecoveryIsReal` (action) | `Inv` |

### Assumptions

Each module states what it assumes of its constants, and TLC evaluates it on the
run's instance. `Counter` assumes that a request lists each of its line items
once, in the list of its station (`OrderAssumption`), that updates and foreign
messages differ (`MessageAssumption`), and positive bounds and finitely many workers
(`BoundAssumption`); `Station` that kinds of messages do not overlap
(`StationAssumption`); `CoffeeShop` the same of its instances (`ShopAssumption`),
with any `StationPub`, so its theorems hold of the wiring as it is and as it is
meant; `OwnershipAudit` that resources have distinct keys and that a UID is none of
the words for a lookup that found none (`AuditAssumption`). The rest are types of
bounds. Two groups of theorems about the drill have a hypothesis of their own.
`OnlyRacesLose` and `ValidatedIsTrue` take any number of invocations but no
`cleanup` among them: a cleanup beside a run deletes the target of a file that says
validated, which is what cleanup is for. The other three take one invocation at a
time (`Procs = {o}`), any number of them one after another, each `run` or `cleanup`:
with two invocations at once TLC finds each of the three violated.

### The invariants and why they are needed

**Counter.** `TypeInv` adds to `TypeOK` what a loaded copy looks like (`CopyTyped`), that
an order and its items are inserted together (`RowsTogether`), and that stuck
deliveries were emitted. `PlaceInv` relates the publish loop to the queues: at
"publish" exactly the items before `next` are out (`Progress`), an idle order has
nothing out (`Unplaced`), what is out is persisted (`OutPersisted`,
`PlacedPersisted`), an accepted order has everything out (`OkAll`), only sent items
are announced (`EmittedSent`). `PublishedIsPrefix` alone does not say which item
comes next. `RowInv` says the same of the workers' copies as of the rows (`CopyAgree`,
`CopyMade`), because any copy, however stale, may be written back. This is why
the rows agree although updates can be lost.

**Station.** A busy worker holds a delivery it knows how to handle (`BusyHolds`);
whoever is about to commit was confirmed (`PublishedConfirmed`); a handler that
returned has its row or a reason (`ReturnedExplained`). `TxInv` is the primary key:
no two open transactions inserted the same key, and none a committed one, so a
redelivery fails at its insert and never reaches its publish.

**CoffeeShop.** The refinement mapping is the identity on the counter's variables; a
station's step is a step of the counter's environment (one more announcement of a
sent item, in turn) or a stutter. For this each station's workers must hold only
what the counter sent it (`Own`). `BaristaAccounts` and `KitchenAccounts` say that
every announcement has its row, its open transaction, or a failed station behind
it. `FulfilledIsAccounted` joins this to the counter's `FulfilledWasMade`, carried over
by the refinement rather than proved again.

**RestoreDrill.** For any number of runs: wherever a state is kept, in the file or in
an invocation's memory, what it says of its target is true (`AllTruthful`, since
any invocation may save it), and unless two first runs raced there is one identity
(`OneName`). For one operator: before the restore time is kept no marker B can exist
(`Beginning`), a state stands for what was done (`Sound`), memory is the file's state
or one step ahead (`InStep`, which is what survives a crash), and without a crash or
a failed kubectl call no Job outlives the wait for it (`NoStray`).

**ProdLifecycle.** The world (`Sane`): nothing runs without the cluster, what an
Application made does not outlive it, the ALB lives as long as the Ingress if the
teardown saw both, the broker's password comes from the secret. The run
(`OnCourse`): which plan each command may be applying and, step by step, which
Applications a teardown has removed or misread (`Gone`). Without `Gone` a teardown at
its apply could have anything left in the cluster. `Healing`: while setup waits for
its web pods everything else is complete, which is what its report says once they
are back. `Fixed` keeps the failure
fixtures inside `resilience` or known to be dirty; `Reported` says a report is the last thing
a command does.

**Environments.** `PlanHolds`: past the plan, a planned state is still to be done or
fully applied, and nothing it replaces goes missing. `Running` ties each point to the
engines that come to it; `TaintsPlanned`: past the plan, a tainted part is one the
plan replaces; `Ordered` is the order in which the CI foundation is created and
destroyed.

**Delivery.** What each lane's records, open pull requests and running jobs may claim
(`GoodRecords`, `GoodPR`, `GoodJob`): a claim is checked when a job reads main and must
still hold when its pull request merges much later. `Same` is the reason there is one
artifact: a build is named only as long as DEV's immutable tag names it. What an
open pull request or a running job names is in its registry, or was until it
expired there, from the copy on: this is `DesiredCanBePulled` before the merge.

**OwnershipAudit.** The histories hold the present (`Present`), and each piece of
evidence is tied to what was true when it was read and to what has been torn since
(`AppSeen`, `ListSeen`, `OwnersSeen`). `Stored`: once a scan may speak, the stored
findings are its own or it has nothing to say. `Said`: what was announced is in the
status, and without a stale read was there when the scan began.

### What the proofs changed

- `ProdWasTested` was too strong: it compared a hotfix in PROD with its present
  record. With two hotfixes, two rollbacks and an expired tag, more than the
  run's bounds allow, PROD is rolled back to a digest that was released while
  the record names a later build. The property now says so (`seen.hotfix`).
- `ClusterGoesLast` was weaker than what holds: it excused an orphaned ALB by any
  misread query; only that of the application's Argo CD Application can cause it.
- Two CASE expressions with overlapping arms, in `Environments` (`Apply`) and
  `OwnershipAudit`, whose first matching arm TLC takes, are now IF chains.

## 6. Only model-checked

- Liveness and everything under fairness, which TLAPS 1.4.5 does not reach:
  `EveryUpdateSettles`, `FulfilledUnlessOverlap`, `EveryItemSettles`,
  `AcceptedItemsEnd`, `CleanupCompletes`, `Converges`, `SetupRecovers`,
  `EveryChangeSettles`, `SetupsConverge`, `TeardownsConverge`.
- The two violations (`ListsOrderFulfillment`, `StationsAnswer`), which are
  counterexamples.

## 7. Plan

Done, in the order of importance: `Counter`, `Station`, `CoffeeShop`,
`RestoreDrill` (two identities included), `OwnershipAudit`, `ProdLifecycle`
(volumes included), `Environments`, `Delivery`; the safety proofs of all of them and
the refinement. Next:

1. `ValidatedBoundary` and `LostOnlyToRace` with a `cleanup` among the invocations:
   which weaker claims survive it, checked first, then proved.
2. The counter's and the stations' other theorems stated of the composition,
   through `ShopImplementsCounter` and the instances of `Station_proofs`.
3. Type invariants of the platform modules, now parts of their inductive
   invariants, as theorems of their own.

## 8. Not modelled

- proxy and web: stateless routing and static pages.
- migrate: one call of golang-migrate, whose locking is the library's. (Its
  restore-drill mode is in `RestoreDrill`.)
- Delivery: the maintenance lane (the standard one without DEV
  and QA, for the migration component), and
  release sets of several components, whose images move together as one record;
  the format checks of the evidence documents are guards of the model's actions
  only where a stale or missing document changes what happens.
- platformctl configuration, evidence files, prices, toolchain, linting: input
  and output without protocol state.
- Terraform, Ansible, Kubernetes manifests, policies, scripts: data applied by
  other tools; what the code relies on appears as external definitions.
- telemetry, logging, generated protobuf code.
- Within modelled parts: preparation delays, texts and timestamps, collisions of
  the 32-bit uuid prefix in `GetAll`, Terraform variables other than the canary's,
  volumes other than the broker's.
