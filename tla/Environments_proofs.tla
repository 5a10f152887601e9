------------------------ MODULE Environments_proofs ------------------------
(***************************************************************************)
(* Proofs about platformctl dev | ci | github, for every set of secrets    *)
(* and every number of failures, killed processes, edits and commands.     *)
(***************************************************************************)
EXTENDS Environments, TLAPS

-----------------------------------------------------------------------------
(* The configurations and the commands.                                    *)

LEMMA AllFacts ==
    /\ States = {"dev", "boot", "ci", "gov"}
    /\ All["dev"] = {"retained", "nodes", "disks"} /\ All["boot"] = {"role", "grant"}
    /\ All["ci"] = {"net", "roles", "host"} /\ All["gov"] = {"rules"}
  BY DEF All, States

Envs == {"dev", "ci", "github"}
Acts == {"setup", "status", "teardown", "bootstrap", "doctor"}
Points == {"idle", "preflight", "plan", "approve", "apply", "configure", "secrets", "verify"}

LEMMA ActionsFacts ==
    /\ DOMAIN Actions = Envs
    /\ Actions["dev"] = {"setup", "status", "teardown"}
    /\ Actions["ci"] = {"setup", "status", "teardown"}
    /\ Actions["github"] = {"bootstrap", "doctor"}
  BY DEF Actions, Envs

-----------------------------------------------------------------------------
(* The inductive invariant.                                                *)

TaintsRecorded ==
    tainted \subseteq Parts /\ \A f \in States : tainted \cap All[f] \subseteq have[f]

\* A configuration holds nothing but its own parts, and a tainted part is
\* recorded in its state.
Typed ==
    /\ run \in [env : Envs \cup {"none"}, act : Acts \cup {"none"}, pc : Points,
                todo : SUBSET States, swap : SUBSET Parts, set : SUBSET Required]
    /\ said \in [env : Envs \cup {"none"}, act : Acts \cup {"none"},
                 result : {"none", "passed", "failed"}, empty : BOOLEAN]
    /\ have \in [States -> SUBSET Parts]
    /\ \A f \in States : have[f] \subseteq All[f]
    /\ TaintsRecorded
    /\ revised \subseteq Revisable
    /\ backup \in BOOLEAN
    /\ secrets \subseteq Required

\* A command is one of its engine, has said nothing while it runs, and is at
\* a point that its engine comes to.
Running ==
    /\ At("idle") => run = Idle
    /\ ~At("idle") =>
         /\ run.env \in Envs /\ run.act \in Actions[run.env] /\ said = Silent
         /\ run.pc \in {"approve", "apply"} => run.act \in {"setup", "teardown", "bootstrap"}
         /\ At("plan") => run.act # "status"
         /\ At("configure") => run.act = "setup"
         /\ At("secrets") => run.act = "bootstrap"
         /\ run.todo \subseteq Planned
         /\ run.pc \notin {"approve", "apply"} => run.todo = {}
         /\ run.env = "dev" /\ run.act = "teardown" /\ ~At("preflight") => backup
         /\ run.env # "dev" => run.swap = {}

\* Past the plan, a planned state is on its way or fully applied, and what
\* the plan replaces is kept by it.
PlanHolds ==
    run.pc \in {"approve", "apply", "configure", "secrets", "verify"} /\ run.act # "status" =>
        \A f \in Planned :
            /\ f \notin run.todo => have[f] = Target(f)
            /\ run.swap \cap have[f] \subseteq Target(f)

\* Past the plan, a tainted part that the plan keeps is one it replaces, and
\* none is left in a state that was applied.
TaintsPlanned ==
    run.pc \in {"approve", "apply", "configure", "secrets", "verify"} /\ run.act # "status" =>
        \A f \in Planned :
            tainted \cap Target(f) \subseteq (IF f \in run.todo THEN run.swap ELSE {})

\* PassedIsDone with the command that passed spelled out.
Passed ==
    said.result = "passed" =>
        \/ /\ said.empty /\ said.env = "dev"
           /\ \A p \in Runtime : ~Exists(p)
           /\ Exists("retained") /\ backup
        \/ said.empty /\ said.env = "ci" /\ \A p \in All.ci : ~Exists(p)
        \/ /\ ~said.empty /\ said.env \in {"dev", "ci"} /\ said.act = "setup"
           /\ have[said.env] = All[said.env] /\ said.env \in conf
           /\ tainted \cap All[said.env] = {}
        \/ /\ ~said.empty /\ said.env = "dev" /\ said.act = "status"
           /\ "dev" \in conf /\ Runtime \subseteq have["dev"]
        \/ /\ ~said.empty /\ said.env = "ci" /\ said.act = "status"
           /\ "ci" \in conf /\ All.ci \subseteq have["ci"]
        \/ /\ ~said.empty /\ said.env = "github" /\ said.act \in {"bootstrap", "doctor"}
           /\ have["gov"] = All.gov /\ Required \subseteq secrets

Inv ==
    /\ Typed /\ Running /\ PlanHolds /\ TaintsPlanned
    /\ Ordered(have["ci"])
    /\ BoundaryFirst /\ Passed

-----------------------------------------------------------------------------
(* Plans.                                                                  *)

LEMMA PlannedFacts ==
    ASSUME run.env \in Envs
    PROVE  /\ run.env = "dev" => Planned = {"dev"}
           /\ run.env = "ci" => Planned = IF run.act = "setup" THEN {"boot", "ci"} ELSE {"ci"}
           /\ run.env = "github" => Planned = {"gov"}
  BY DEF Planned, Envs

LEMMA TargetFacts ==
    /\ Target("dev") = IF run.act = "teardown" THEN {"retained"} ELSE All["dev"]
    /\ Target("ci") = IF run.act = "teardown" THEN {} ELSE All["ci"]
    /\ Target("boot") = All["boot"] /\ Target("gov") = All["gov"]
  <1>1. All.dev \ Runtime = {"retained"} BY AllFacts DEF Runtime
  <1> QED BY <1>1 DEF Target

\* Nothing changes of the plan, the states and what was said.
LEMMA Quiet ==
    ASSUME Inv, UNCHANGED <<run, said, have, stray, conf, tainted, secrets>>,
           revised' \subseteq Revisable, backup' \in {backup, TRUE}
    PROVE  Inv'
  <1> USE DEF Inv
  <1>1. Typed' BY DEF Typed, TaintsRecorded
  <1>2. Running' BY DEF Running, At, Planned
  <1>3. PlanHolds' /\ TaintsPlanned' BY DEF PlanHolds, TaintsPlanned, Planned, Target
  <1>4. Ordered(have["ci"])' /\ BoundaryFirst'
    BY DEF Ordered, BoundaryFirst
  <1>5. Passed' BY DEF Passed, Exists
  <1> QED BY <1>1, <1>2, <1>3, <1>4, <1>5

\* A command that fails leaves the states ordered.
LEMMA EndFailed ==
    ASSUME Inv, End("failed"), ~At("idle"),
           have' \in [States -> SUBSET Parts], \A f \in States : have'[f] \subseteq All[f],
           Ordered(have["ci"])', BoundaryFirst', TaintsRecorded',
           revised' \subseteq Revisable, UNCHANGED <<backup, secrets>>
    PROVE  Inv'
  <1>1. run' = Idle /\ said' = [env |-> run.env, act |-> run.act, result |-> "failed", empty |-> FALSE]
    BY DEF End, EndAs
  <1>2. Typed' BY <1>1 DEF Inv, Typed, Idle, Points
  <1>3. Running' /\ PlanHolds' /\ TaintsPlanned'
    BY <1>1 DEF Running, PlanHolds, TaintsPlanned, Idle, At
  <1>4. Passed' BY <1>1 DEF Passed
  <1> QED BY <1>2, <1>3, <1>4 DEF Inv

LEMMA PassedMeans == Passed => PassedIsDone
  <1> SUFFICES ASSUME Passed, said.result = "passed" PROVE PassedIsDone
    BY DEF PassedIsDone
  <1>1. CASE said.empty /\ said.env = "dev" BY <1>1 DEF Passed, PassedIsDone
  <1>2. CASE said.empty /\ said.env = "ci" BY <1>2 DEF Passed, PassedIsDone
  <1>3. CASE ~said.empty /\ said.env \in {"dev", "ci"} /\ said.act = "setup"
    BY <1>3 DEF Passed, PassedIsDone
  <1>4. CASE ~said.empty /\ said.env \in {"dev", "ci"} /\ said.act = "status"
    BY <1>4 DEF Passed, PassedIsDone
  <1>5. CASE ~said.empty /\ said.env = "github" /\ said.act \in {"bootstrap", "doctor"}
    BY <1>5 DEF Passed, PassedIsDone
  <1> QED BY <1>1, <1>2, <1>3, <1>4, <1>5 DEF Passed

-----------------------------------------------------------------------------
(* Apply.                                                                  *)

\* What Terraform may do to a planned state: parts stay the configuration's
\* own, the boundary loses nothing and the foundation gains nothing without
\* it; what broke is recorded.
LEMMA AppliedStep ==
    ASSUME Inv, At("apply"), NEW f \in run.todo, Turn(f),
           NEW gone \in SUBSET Gone(f), NEW made \in SUBSET Made(f),
           NEW broken \in SUBSET made,
           Ordered((have[f] \ gone) \cup made), Applied(f, gone, made, broken)
    PROVE  /\ have' \in [States -> SUBSET Parts]
           /\ \A g \in States : have'[g] \subseteq All[g]
           /\ \A g \in States \ {f} : have'[g] = have[g]
           /\ have'[f] = (have[f] \ gone) \cup made
           /\ Ordered(have["ci"])' /\ BoundaryFirst' /\ TaintsRecorded'
           /\ tainted' = (tainted \ gone) \cup broken
           /\ revised' \subseteq Revisable /\ UNCHANGED <<backup, candidates, secrets>>
  <1>1. /\ f \in Planned /\ f \in States /\ run.env \in Envs /\ run.act \in Actions[run.env]
        /\ run.act \in {"setup", "teardown", "bootstrap"}
    BY DEF Inv, Running, Typed, At
  <1>2. Target(f) \subseteq All[f]
    BY <1>1, AllFacts, TargetFacts
  <1>3. \A g \in States : All[g] \subseteq Parts
    BY DEF Parts
  <1>4. have' = [have EXCEPT ![f] = (have[f] \ gone) \cup made]
    BY DEF Applied
  <1>5. have \in [States -> SUBSET Parts] /\ \A g \in States : have[g] \subseteq All[g]
    BY DEF Inv, Typed
  <1>6. have'[f] = (have[f] \ gone) \cup made /\ \A g \in States \ {f} : have'[g] = have[g]
    BY <1>1, <1>4, <1>5
  <1>7. have'[f] \subseteq All[f]
    BY <1>1, <1>2, <1>5, <1>6 DEF Made
  <1>8. have' \in [States -> SUBSET Parts] /\ \A g \in States : have'[g] \subseteq All[g]
    BY <1>1, <1>3, <1>4, <1>5, <1>6, <1>7
  <1>9. Ordered(have["ci"])'
    BY <1>6, AllFacts DEF Inv, Ordered
  <1>13. tainted' = (tainted \ gone) \cup broken /\ broken \subseteq All[f]
    BY <1>6, <1>7 DEF Applied
  <1>10. BoundaryFirst'
    <2>1. CASE f = "boot"
      <3>1. run.env = "ci" /\ run.swap = {}
        BY <1>1, <2>1, PlannedFacts DEF Envs, Inv, Running, At
      <3>2. gone = {} /\ made \subseteq All["boot"] \ have["boot"]
        BY <1>1, <1>5, <2>1, <3>1, TargetFacts, AllFacts DEF Gone, Made
      <3>3. have'["ci"] = have["ci"] BY <1>6, <2>1, AllFacts
      <3> QED
        BY <1>6, <1>7, <1>13, <2>1, <3>2, <3>3, AllFacts DEF BoundaryFirst, Inv
    <2>2. CASE f = "ci" /\ run.act = "setup"
      <3>1. run.env = "ci"
        BY <1>1, <2>2, PlannedFacts DEF Envs
      <3>2. "boot" \in Planned /\ "boot" \notin run.todo
        BY <1>1, <2>2, <3>1, PlannedFacts DEF Turn
      <3>3. have["boot"] = All["boot"] /\ tainted \cap All["boot"] = {}
        BY <1>1, <3>2, TargetFacts DEF Inv, PlanHolds, TaintsPlanned, At
      <3> QED BY <1>6, <1>13, <2>2, <3>3, AllFacts DEF BoundaryFirst
    <2>3. CASE f = "ci" /\ run.act = "teardown"
      <3>1. run.swap \cap have["ci"] = {}
        BY <1>1, <2>3, TargetFacts DEF Inv, PlanHolds, At
      <3>2. made = {} BY <2>3, <3>1, TargetFacts DEF Made
      <3> QED BY <1>6, <1>13, <2>3, <3>2, AllFacts DEF BoundaryFirst, Inv
    <2>4. CASE f \in {"dev", "gov"}
      BY <1>6, <1>13, <2>4, AllFacts DEF BoundaryFirst, Inv
    <2>5. f = "ci" => run.act \in {"setup", "teardown"}
      BY <1>1, PlannedFacts, ActionsFacts DEF Envs
    <2> QED BY <1>1, <2>1, <2>2, <2>3, <2>4, <2>5, AllFacts
  <1>11. TaintsRecorded'
    <2>1. gone \subseteq All[f] BY <1>1, <1>2, <1>5 DEF Gone
    <2>2. \A g \in States \ {f} : All[g] \cap All[f] = {} BY <1>1, AllFacts
    <2>3. broken \subseteq have'[f] /\ broken \subseteq All[f] BY <1>6, <1>7
    <2>4. TaintsRecorded BY DEF Inv, Typed
    <2>5. tainted' \subseteq Parts BY <1>1, <1>3, <1>13, <2>3, <2>4 DEF TaintsRecorded
    <2>6. \A g \in States \ {f} : tainted' \cap All[g] \subseteq have'[g]
      BY <1>6, <1>13, <2>2, <2>3, <2>4 DEF TaintsRecorded
    <2>7. tainted' \cap All[f] \subseteq have'[f]
      BY <1>1, <1>6, <1>13, <2>3, <2>4 DEF TaintsRecorded
    <2> QED BY <2>5, <2>6, <2>7 DEF TaintsRecorded
  <1>12. revised' \subseteq Revisable /\ UNCHANGED <<backup, candidates, secrets>>
    BY DEF Applied, Inv, Typed
  <1> QED BY <1>6, <1>8, <1>9, <1>10, <1>11, <1>12, <1>13

\* An apply that stops half-way.
LEMMA HalfwayStep ==
    ASSUME Inv, At("apply"), NEW f \in run.todo, Turn(f), NEW broken, Halfway(f, broken),
           End("failed")
    PROVE  Inv'
  <1>1. PICK gone \in SUBSET Gone(f), made \in SUBSET Made(f) :
          /\ broken \subseteq made
          /\ Ordered((have[f] \ gone) \cup made) /\ Applied(f, gone, made, broken)
    BY DEF Halfway
  <1>2. /\ have' \in [States -> SUBSET Parts]
        /\ \A g \in States : have'[g] \subseteq All[g]
        /\ Ordered(have["ci"])' /\ BoundaryFirst' /\ TaintsRecorded'
        /\ revised' \subseteq Revisable /\ UNCHANGED <<backup, secrets>>
    BY <1>1, AppliedStep
  <1> QED BY <1>2, EndFailed DEF At

\* An apply that ends: the state is what the plan leads to.
LEMMA ApplyStep ==
    ASSUME Inv, Apply
    PROVE  Inv'
  <1>1. PICK f \in run.todo :
          /\ Turn(f)
          /\ Applied(f, Gone(f), Made(f), {})
          /\ run' = [run EXCEPT !.todo = @ \ {f},
                                !.pc = IF run.todo # {f} THEN "apply"
                                       ELSE IF run.env = "github" THEN "secrets"
                                       ELSE AfterApply]
    BY DEF Apply
  <1>2. /\ At("apply") /\ UNCHANGED said /\ said = Silent /\ f \in Planned /\ f \in States
        /\ run.env \in Envs /\ run.act \in Actions[run.env]
        /\ run.act \in {"setup", "teardown", "bootstrap"}
    BY DEF Apply, Inv, Running, Typed, At
  <1>3. /\ run.swap \cap have[f] \subseteq Target(f)
        /\ have \in [States -> SUBSET Parts] /\ have[f] \subseteq All[f]
    BY <1>2 DEF Inv, PlanHolds, At, Typed
  <1>4. (have[f] \ Gone(f)) \cup Made(f) = Target(f)
    BY <1>3 DEF Gone, Made
  <1>5. Ordered(Target(f))
    BY <1>2, TargetFacts, AllFacts DEF Ordered
  <1>6. /\ have' \in [States -> SUBSET Parts]
        /\ \A g \in States : have'[g] \subseteq All[g]
        /\ \A g \in States \ {f} : have'[g] = have[g]
        /\ have'[f] = Target(f)
        /\ Ordered(have["ci"])' /\ BoundaryFirst' /\ TaintsRecorded'
        /\ tainted' = tainted \ Gone(f)
        /\ revised' \subseteq Revisable /\ UNCHANGED <<backup, candidates, secrets>>
    <2>1. Ordered((have[f] \ Gone(f)) \cup Made(f)) BY <1>4, <1>5
    <2>2. Gone(f) \in SUBSET Gone(f) /\ Made(f) \in SUBSET Made(f) /\ {} \in SUBSET Made(f)
      OBVIOUS
    <2>3. /\ have' \in [States -> SUBSET Parts]
          /\ \A g \in States : have'[g] \subseteq All[g]
          /\ \A g \in States \ {f} : have'[g] = have[g]
          /\ have'[f] = (have[f] \ Gone(f)) \cup Made(f)
          /\ Ordered(have["ci"])' /\ BoundaryFirst' /\ TaintsRecorded'
          /\ tainted' = (tainted \ Gone(f)) \cup {}
          /\ revised' \subseteq Revisable /\ UNCHANGED <<backup, candidates, secrets>>
      BY <1>1, <1>2, <2>1, <2>2, AppliedStep
    <2> QED BY <1>4, <2>3
  <1>7. /\ run.env = "github" => run'.pc = "secrets" /\ run.act = "bootstrap"
        /\ run.env # "github" /\ run.todo = {f} =>
             run'.pc = IF run.act = "setup" THEN "configure" ELSE "verify"
        /\ run.env # "github" /\ run.todo # {f} => run'.pc = "apply"
        /\ run'.env = run.env /\ run'.act = run.act /\ run'.todo = run.todo \ {f}
        /\ run'.swap = run.swap /\ run'.set = run.set
    <2>1. run.env = "github" => run.todo = {f}
      BY <1>2, PlannedFacts DEF Inv, Running, At
    <2>2. run.env = "github" => run.act = "bootstrap"
      BY <1>2, ActionsFacts
    <2> QED BY <1>1, <2>1, <2>2 DEF Inv, Typed, AfterApply
  <1>8. Typed'
    <2>1. run'.pc \in Points BY <1>7 DEF Points
    <2>2. run' \in [env : Envs \cup {"none"}, act : Acts \cup {"none"}, pc : Points,
                todo : SUBSET States, swap : SUBSET Parts, set : SUBSET Required]
      BY <1>1, <1>7, <2>1 DEF Inv, Typed
    <2> QED BY <1>2, <1>6, <2>2 DEF Inv, Typed
  <1>9. Planned' = Planned /\ \A g \in States : Target(g)' = Target(g)
    BY <1>7 DEF Planned, Target
  <1>10. Running'
    <2>1. run.env = "github" => run.todo = {f}
      BY <1>2, PlannedFacts DEF Inv, Running, At
    <2> QED BY <1>2, <1>6, <1>7, <1>9, <2>1, ActionsFacts DEF Inv, Running, At, Typed
  <1>11. PlanHolds'
    <2> SUFFICES ASSUME NEW g \in Planned
                 PROVE  /\ g \notin run'.todo => have'[g] = Target(g)
                        /\ run'.swap \cap have'[g] \subseteq Target(g)
      BY <1>2, <1>9, PlannedFacts, AllFacts DEF PlanHolds, Envs
    <2>1. g \in States BY <1>2, PlannedFacts, AllFacts DEF Envs
    <2> QED BY <1>2, <1>6, <1>7, <2>1 DEF Inv, PlanHolds, At
  <1>12. Passed' BY <1>2 DEF Passed, Silent
  <1>13. TaintsPlanned'
    <2> SUFFICES ASSUME NEW g \in Planned
                 PROVE  tainted' \cap Target(g) \subseteq (IF g \in run'.todo THEN run'.swap ELSE {})
      BY <1>2, <1>9, PlannedFacts, AllFacts DEF TaintsPlanned, Envs
    <2>1. tainted \cap Target(g) \subseteq (IF g \in run.todo THEN run.swap ELSE {})
      BY <1>2 DEF Inv, TaintsPlanned, At
    <2>2. CASE g = f
      <3>1. tainted \cap Target(f) \subseteq have[f]
        BY <1>2, TargetFacts, AllFacts DEF Inv, Typed, TaintsRecorded
      <3>2. tainted' \cap Target(f) = {} BY <1>6, <2>1, <2>2, <3>1 DEF Gone
      <3> QED BY <2>2, <3>2
    <2>3. CASE g # f BY <1>6, <1>7, <2>1, <2>3
    <2> QED BY <2>2, <2>3
  <1> QED BY <1>6, <1>8, <1>10, <1>11, <1>12, <1>13 DEF Inv

-----------------------------------------------------------------------------
(* The steps before and after it.                                          *)

\* A command moves on, and what it is about does not change.
LEMMA Moves ==
    ASSUME Inv, NEW to \in {"verify", "plan", "apply"},
           Goto(to), ~At("idle"),
           UNCHANGED <<have, revised, backup, secrets, tainted>>,
           to = "verify" /\ run.act # "status" =>
               \A f \in Planned : have[f] = Target(f) /\ run.swap \cap have[f] \subseteq Target(f)
                                   /\ tainted \cap Target(f) = {},
           to = "apply" => At("approve"), to = "plan" => At("preflight") /\ run.act # "status",
           to = "verify" => run.todo = {},
           At("preflight") => ~(run.env = "dev" /\ run.act = "teardown" /\ ~backup)
    PROVE  Inv'
  <1>1. /\ run'.pc = to /\ run'.env = run.env /\ run'.act = run.act /\ run'.todo = run.todo
        /\ run'.swap = run.swap /\ run'.set = run.set /\ said' = said /\ said = Silent
    BY DEF Goto, Inv, Typed, Running
  <1>2. Typed' BY <1>1 DEF Goto, Inv, Typed, TaintsRecorded, Points
  <1>3. Planned' = Planned /\ \A g \in States : Target(g)' = Target(g)
    BY <1>1 DEF Planned, Target
  <1>4. Running' BY <1>1, <1>3 DEF Inv, Running, At
  <1>5. PlanHolds'
    <2> SUFFICES ASSUME to \in {"verify", "apply"}, run.act # "status", NEW g \in Planned
                 PROVE  /\ g \notin run.todo => have[g] = Target(g)
                        /\ run.swap \cap have[g] \subseteq Target(g)
      BY <1>1, <1>3, PlannedFacts, AllFacts DEF PlanHolds, Envs, Inv, Running
    <2> QED BY DEF Inv, PlanHolds, At
  <1>6. Passed' BY <1>1 DEF Passed, Silent
  <1>7. TaintsPlanned'
    <2> SUFFICES ASSUME to \in {"verify", "apply"}, run.act # "status", NEW g \in Planned
                 PROVE  tainted \cap Target(g) \subseteq (IF g \in run.todo THEN run.swap ELSE {})
      BY <1>1, <1>3, PlannedFacts, AllFacts DEF TaintsPlanned, Envs, Inv, Running
    <2> QED BY DEF Inv, TaintsPlanned, At
  <1> QED
    BY <1>2, <1>4, <1>5, <1>6, <1>7 DEF Inv, Ordered, BoundaryFirst

LEMMA StartStep ==
    ASSUME Inv, NEW env \in DOMAIN Actions, NEW act \in Actions[env], Start(env, act)
    PROVE  Inv'
  <1>1. env \in Envs /\ act \in Acts BY ActionsFacts DEF Envs, Acts
  <1>2. /\ run'.env = env /\ run'.act = act /\ run'.pc \in {"preflight", "plan"}
        /\ run'.pc = "plan" => env = "github"
        /\ run'.todo = {} /\ run'.swap = {} /\ run'.set = {} /\ said' = Silent
    BY DEF Start, Idle
  <1>3. Typed'
    <2>1. run' = [env |-> env, act |-> act, pc |-> run'.pc, todo |-> {}, swap |-> {}, set |-> {}]
      BY DEF Start, Idle
    <2>2. run' \in [env : Envs \cup {"none"}, act : Acts \cup {"none"}, pc : Points,
                    todo : SUBSET States, swap : SUBSET Parts, set : SUBSET Required]
      BY <1>1, <1>2, <2>1 DEF Points
    <2> QED BY <1>2, <2>2 DEF Start, Silent, Inv, Typed, TaintsRecorded, tfVars, devVars, restVars
  <1>4. Running'
    <2>1. act = "status" => env # "github" BY <1>1, ActionsFacts DEF Envs
    <2>2. run'.pc # "idle" /\ run'.pc \notin {"approve", "apply", "configure", "secrets"} BY <1>2
    <2>3. env = "dev" /\ act = "teardown" => run'.pc = "preflight" BY <1>2
    <2>4. run'.todo \subseteq Planned' BY <1>2
    <2> QED BY <1>1, <1>2, <2>1, <2>2, <2>3, <2>4 DEF Running, At
  <1>5. PlanHolds' /\ TaintsPlanned' /\ Passed'
    BY <1>2 DEF PlanHolds, TaintsPlanned, Passed, Silent
  <1> QED
    BY <1>3, <1>4, <1>5
    DEF Start, Inv, Ordered, BoundaryFirst, tfVars, devVars

\* A command that fails without having touched anything.
LEMMA FailsQuietly ==
    ASSUME Inv, End("failed"), ~At("idle"), UNCHANGED <<have, revised, backup, secrets, tainted>>
    PROVE  Inv'
  <1>1. /\ have' \in [States -> SUBSET Parts] /\ \A f \in States : have'[f] \subseteq All[f]
        /\ revised' \subseteq Revisable /\ TaintsRecorded'
    BY DEF Inv, Typed, TaintsRecorded
  <1>2. Ordered(have["ci"])' /\ BoundaryFirst'
    BY DEF Inv, Ordered, BoundaryFirst
  <1> QED BY <1>1, <1>2, EndFailed

LEMMA PreflightStep ==
    ASSUME Inv, Preflight
    PROVE  Inv'
  <1>1. At("preflight") /\ ~At("idle") /\ UNCHANGED <<have, revised, backup, secrets, tainted>>
    BY DEF Preflight, At, tfVars, devVars, restVars
  <1>2. CASE End("failed") BY <1>1, <1>2, FailsQuietly
  <1>3. CASE PreflightPasses /\ Goto(IF run.act = "status" THEN "verify" ELSE "plan")
    <2>1. run.todo = {} BY <1>1 DEF Inv, Running, At
    <2>2. ~(run.env = "dev" /\ run.act = "teardown" /\ ~backup)
      BY <1>3 DEF PreflightPasses
    <2> QED BY <1>1, <1>3, <2>1, <2>2, Moves
  <1> QED BY <1>2, <1>3 DEF Preflight

\* The plan's replacements are parts that it keeps.
LEMMA ReplacedKept ==
    ASSUME Inv, ~At("idle"), NEW f \in Planned
    PROVE  (UNION {Replaced(g) : g \in Planned}) \cap have[f] \subseteq Target(f)
  <1>1. run.env \in Envs BY DEF Inv, Running
  <1>2. f \in States BY <1>1, PlannedFacts, AllFacts DEF Envs
  <1>3. \A g \in Planned : g # f => have[g] \cap have[f] = {}
    <2>1. \A g \in States : have[g] \subseteq All[g] BY DEF Inv, Typed
    <2> QED BY <1>1, <2>1, PlannedFacts, AllFacts DEF Envs
  <1> QED BY <1>3 DEF Replaced

LEMMA PlanRuntimeStep ==
    ASSUME Inv, PlanRuntime
    PROVE  Inv'
  <1> DEFINE swap == UNION {Replaced(f) : f \in Planned}
  <1>1. /\ At("plan") /\ ~At("idle") /\ run.env \in {"dev", "ci"} /\ run.act \in Actions[run.env]
        /\ UNCHANGED <<have, revised, backup, secrets, tainted>> /\ said = Silent
    BY DEF PlanRuntime, Inv, Running, At, Envs, tfVars, devVars, restVars
  <1>2. CASE End("failed") BY <1>1, <1>2, FailsQuietly
  <1>3. CASE /\ run' = [run EXCEPT !.pc = IF Changed = {} THEN AfterApply ELSE "approve",
                                   !.todo = Changed, !.swap = swap]
             /\ UNCHANGED said /\ ~Refused
    <2>1. Changed \subseteq Planned /\ \A f \in Planned \ Changed : have[f] = Target(f)
      BY DEF Changed
    <2>2. swap \subseteq Parts
      <3>1. \A f \in States : have[f] \subseteq Parts BY DEF Inv, Typed
      <3>2. Planned \subseteq States BY <1>1, PlannedFacts, AllFacts DEF Envs
      <3> QED BY <3>1, <3>2 DEF Replaced
    <2>10. run.env = "ci" => swap = {}
      <3>1. run.env = "ci" => \A f \in Planned : Replaced(f) = {}
        BY <1>1, <1>3 DEF Refused, PolicyAllows
      <3> QED BY <3>1
    <2>11. \A g \in Planned : tainted \cap Target(g) \subseteq (IF g \in Changed THEN swap ELSE {})
      <3> SUFFICES ASSUME NEW g \in Planned
                   PROVE  tainted \cap Target(g) \subseteq (IF g \in Changed THEN swap ELSE {})
        OBVIOUS
      <3>1. g \in States BY <1>1, PlannedFacts, AllFacts DEF Envs
      <3>2. tainted \cap Target(g) \subseteq have[g]
        BY <3>1, TargetFacts, AllFacts DEF Inv, Typed, TaintsRecorded
      <3>3. tainted \cap Target(g) \subseteq Replaced(g) BY <3>2 DEF Replaced
      <3>4. Replaced(g) \subseteq swap OBVIOUS
      <3> QED BY <3>3, <3>4 DEF Changed
    <2> HIDE DEF swap
    <2>3. /\ run'.env = run.env /\ run'.act = run.act /\ run'.set = run.set
          /\ run'.todo = Changed /\ run'.swap = swap
          /\ run'.pc = IF Changed = {} THEN AfterApply ELSE "approve"
      BY <1>3 DEF Inv, Typed
    <2>4. Changed \subseteq States
      BY <1>1, <2>1, PlannedFacts, AllFacts DEF Envs
    <2>5. Typed'
      BY <1>1, <1>3, <2>2, <2>3, <2>4 DEF Inv, Typed, TaintsRecorded, AfterApply, Points
    <2>6. Planned' = Planned /\ \A g \in States : Target(g)' = Target(g)
      BY <2>3 DEF Planned, Target
    <2>7. Running'
      <3>1. run.act # "status" BY <1>1 DEF Inv, Running
      <3> QED
        BY <1>1, <1>3, <2>1, <2>3, <2>6, <2>10, <3>1, ActionsFacts
        DEF Inv, Running, At, AfterApply, Envs
    <2>8. PlanHolds'
      <3> SUFFICES ASSUME NEW g \in Planned
                   PROVE  /\ g \notin Changed => have[g] = Target(g)
                          /\ swap \cap have[g] \subseteq Target(g)
        BY <1>1, <2>3, <2>6, PlannedFacts, AllFacts DEF PlanHolds, Envs
      <3> QED BY <1>1, <2>1, ReplacedKept DEF swap
    <2>9. Passed' BY <1>1, <1>3 DEF Passed, Silent
    <2>12. TaintsPlanned'
      BY <1>1, <2>3, <2>6, <2>11, PlannedFacts, AllFacts DEF TaintsPlanned, Envs
    <2> QED
      BY <1>1, <2>5, <2>7, <2>8, <2>9, <2>12 DEF Inv, Ordered, BoundaryFirst
  <1> QED BY <1>2, <1>3 DEF PlanRuntime

LEMMA PlanGitHubStep ==
    ASSUME Inv, PlanBootstrap \/ PlanDoctor
    PROVE  Inv'
  <1>1. /\ At("plan") /\ ~At("idle") /\ run.act \in {"bootstrap", "doctor"}
        /\ UNCHANGED <<have, revised, backup, secrets, tainted>>
    BY DEF PlanBootstrap, PlanDoctor, At, tfVars, devVars, restVars
  <1>2. run.env = "github" /\ run.todo = {} /\ run.swap = {} /\ said = Silent
    BY <1>1, ActionsFacts DEF Inv, Running, At, Envs
  <1>3. Planned = {"gov"} BY <1>2, PlannedFacts DEF Envs
  <1>7. ~Refused => tainted \cap Target("gov") = {}
    <2>1. ~Refused => Replaced("gov") = {} BY <1>2, <1>3 DEF Refused, PolicyAllows
    <2>2. tainted \cap Target("gov") \subseteq have["gov"]
      BY TargetFacts, AllFacts DEF Inv, Typed, TaintsRecorded
    <2> QED BY <2>1, <2>2 DEF Replaced
  <1>4. CASE End("failed") BY <1>1, <1>4, FailsQuietly
  <1>5. CASE PlanBootstrap /\ UNCHANGED said /\ ~Refused
               /\ run' = [run EXCEPT !.pc = "approve", !.todo = {"gov"}, !.set = Local]
    <2>1. /\ run'.env = "github" /\ run'.act = "bootstrap" /\ run'.pc = "approve"
          /\ run'.todo = {"gov"} /\ run'.swap = run.swap
      BY <1>2, <1>5 DEF PlanBootstrap, Inv, Typed
    <2>2. Typed'
      BY <1>1, <1>5, <2>1, AllFacts, EnvironmentsAssumption DEF Inv, Typed, TaintsRecorded, Points
    <2>3. Planned' = Planned /\ Target("gov")' = Target("gov")
      BY <1>2, <2>1 DEF Planned, Target
    <2>4. Running' BY <1>1, <1>2, <1>3, <1>5, <2>1, <2>3, ActionsFacts DEF Running, At, Envs
    <2>5. run.swap \cap have["gov"] \subseteq Target("gov")
      BY TargetFacts, AllFacts DEF Inv, Typed
    <2>6. PlanHolds' BY <1>1, <1>3, <2>1, <2>3, <2>5 DEF PlanHolds
    <2>7. Passed' BY <1>2, <1>5 DEF Passed, Silent
    <2>8. TaintsPlanned' BY <1>1, <1>3, <1>5, <1>7, <2>1, <2>3 DEF TaintsPlanned
    <2> QED
      BY <1>1, <2>2, <2>4, <2>6, <2>7, <2>8 DEF Inv, Ordered, BoundaryFirst
  <1>6. CASE PlanDoctor /\ ~Refused /\ Changed = {} /\ Goto("verify")
    <2>1. have["gov"] = Target("gov") BY <1>3, <1>6 DEF Changed
    <2> QED BY <1>1, <1>2, <1>3, <1>6, <1>7, <2>1, Moves DEF At
  <1> QED BY <1>4, <1>5, <1>6 DEF PlanBootstrap, PlanDoctor

LEMMA ApproveStep ==
    ASSUME Inv, Approve
    PROVE  Inv'
  <1>1. /\ At("approve") /\ ~At("idle") /\ Goto("apply")
        /\ UNCHANGED <<have, revised, backup, secrets, tainted>>
    BY DEF Approve, At, tfVars, devVars, restVars
  <1> QED BY <1>1, Moves DEF At

\* After the apply every planned state is what the plan leads to.
LEMMA AppliedAll ==
    ASSUME Inv, run.pc \in {"configure", "secrets", "verify"}, run.act # "status"
    PROVE  \A f \in Planned : have[f] = Target(f) /\ tainted \cap Target(f) = {}
  BY DEF Inv, PlanHolds, TaintsPlanned, Running, At

LEMMA ConfigureStep ==
    ASSUME Inv, ConfigureDev \/ ConfigureCI
    PROVE  Inv'
  <1>1. /\ At("configure") /\ ~At("idle") /\ run.act = "setup" /\ run.todo = {} /\ said = Silent
        /\ run.env \in Envs
        /\ UNCHANGED <<have, revised, backup, secrets, tainted>>
    BY DEF ConfigureDev, ConfigureCI, Inv, Running, At, tfVars, restVars
  <1>2. CASE End("failed")
    BY <1>1, <1>2, FailsQuietly
  <1>3. CASE Goto("verify")
    <2>1. /\ run'.pc = "verify" /\ run'.env = run.env /\ run'.act = "setup" /\ run'.todo = {}
          /\ run'.swap = run.swap /\ run'.set = run.set /\ said' = Silent
      BY <1>1, <1>3 DEF Goto, Inv, Typed
    <2>2. Typed' BY <1>1, <1>3, <2>1 DEF Goto, Inv, Typed, TaintsRecorded, Points
    <2>3. Planned' = Planned /\ \A g \in States : Target(g)' = Target(g)
      BY <1>1, <2>1 DEF Planned, Target
    <2>4. Running' BY <1>1, <2>1, <2>3 DEF Inv, Running, At
    <2>5. PlanHolds'
      <3> SUFFICES ASSUME NEW g \in Planned
                   PROVE  have[g] = Target(g) /\ run.swap \cap have[g] \subseteq Target(g)
        BY <1>1, <2>1, <2>3, PlannedFacts, AllFacts DEF PlanHolds, Envs
      <3> QED BY <1>1 DEF Inv, PlanHolds, At
    <2>6. Passed' BY <2>1 DEF Passed, Silent
    <2>7. TaintsPlanned'
      BY <1>1, <2>1, <2>3, AppliedAll, PlannedFacts, AllFacts DEF TaintsPlanned, At, Envs
    <2> QED
      BY <1>1, <2>2, <2>4, <2>5, <2>6, <2>7 DEF Inv, Ordered, BoundaryFirst
  <1> QED BY <1>2, <1>3 DEF ConfigureDev, ConfigureCI, PlayStops

LEMMA SetSecretStep ==
    ASSUME Inv, SetSecret
    PROVE  Inv'
  <1>1. /\ At("secrets") /\ ~At("idle") /\ run.act = "bootstrap" /\ run.todo = {} /\ said' = Silent
        /\ run.env \in Envs /\ run.act \in Actions[run.env]
        /\ UNCHANGED <<have, revised, backup, tainted>>
    BY DEF SetSecret, Inv, Running, At, tfVars, devVars
  <1>2. /\ run'.pc \in {"secrets", "verify"} /\ run'.env = run.env /\ run'.act = "bootstrap"
        /\ run'.todo = {} /\ run'.swap = run.swap
    BY <1>1 DEF SetSecret, Inv, Typed, At
  <1>3. Typed'
    <2>1. CASE \E x \in run.set : /\ secrets' = secrets \cup {x}
                                  /\ run' = [run EXCEPT !.set = @ \ {x}]
      BY <1>1, <2>1 DEF Inv, Typed, TaintsRecorded, Silent
    <2>2. CASE run' = [run EXCEPT !.pc = "verify"] /\ UNCHANGED secrets
      BY <1>1, <2>2 DEF Inv, Typed, TaintsRecorded, Points, Silent
    <2> QED BY <2>1, <2>2 DEF SetSecret
  <1>4. Planned' = Planned /\ \A g \in States : Target(g)' = Target(g)
    BY <1>1, <1>2 DEF Planned, Target
  <1>5. Running' BY <1>1, <1>2, <1>4 DEF Inv, Running, At
  <1>6. PlanHolds'
    <2> SUFFICES ASSUME NEW g \in Planned
                 PROVE  have[g] = Target(g) /\ run.swap \cap have[g] \subseteq Target(g)
      BY <1>1, <1>2, <1>4, PlannedFacts, AllFacts DEF PlanHolds, Envs
    <2> QED BY <1>1 DEF Inv, PlanHolds, At
  <1>7. Passed' BY <1>1 DEF Passed, Silent
  <1>8. TaintsPlanned'
    BY <1>1, <1>2, <1>4, AppliedAll, PlannedFacts, AllFacts DEF TaintsPlanned, At, Envs
  <1> QED
    BY <1>1, <1>3, <1>5, <1>6, <1>7, <1>8 DEF Inv, Ordered, BoundaryFirst

LEMMA VerifyStep ==
    ASSUME Inv, VerifyDev \/ VerifyCI \/ VerifyGitHub
    PROVE  Inv'
  <1>1. /\ At("verify") /\ ~At("idle") /\ run.env \in Envs /\ run.act \in Actions[run.env]
        /\ UNCHANGED <<have, stray, revised, backup, secrets, tainted, conf>>
        /\ \/ EndAs("passed", TRUE) \/ EndAs("failed", TRUE)
           \/ EndAs("passed", FALSE) \/ EndAs("failed", FALSE)
    <2>1. /\ At("verify") /\ ~At("idle")
          /\ UNCHANGED <<have, stray, revised, backup, secrets, tainted, conf>>
      BY DEF VerifyDev, VerifyCI, VerifyGitHub, At, tfVars, devVars, restVars
    <2>2. CASE VerifyDev BY <2>1, <2>2 DEF VerifyDev, End, Inv, Running
    <2>3. CASE VerifyCI BY <2>1, <2>3 DEF VerifyCI, End, Inv, Running
    <2>4. CASE VerifyGitHub BY <2>1, <2>4 DEF VerifyGitHub, End, Inv, Running
    <2> QED BY <2>1, <2>2, <2>3, <2>4 DEF Inv, Running
  <1>2. /\ run' = Idle /\ said'.env = run.env /\ said'.act = run.act
        /\ said' \in [env : Envs \cup {"none"}, act : Acts \cup {"none"},
                      result : {"none", "passed", "failed"}, empty : BOOLEAN]
    <2>1. run.env \in Envs \cup {"none"} /\ run.act \in Acts \cup {"none"} BY DEF Inv, Typed
    <2>2. CASE EndAs("passed", TRUE) BY <2>1, <2>2 DEF EndAs
    <2>3. CASE EndAs("failed", TRUE) BY <2>1, <2>3 DEF EndAs
    <2>4. CASE EndAs("passed", FALSE) BY <2>1, <2>4 DEF EndAs
    <2>5. CASE EndAs("failed", FALSE) BY <2>1, <2>5 DEF EndAs
    <2> QED BY <1>1, <2>2, <2>3, <2>4, <2>5
  <1>3. Typed' BY <1>1, <1>2 DEF Inv, Typed, TaintsRecorded, Idle, Points
  <1>4. Running' /\ PlanHolds' /\ TaintsPlanned'
    BY <1>2 DEF Running, PlanHolds, TaintsPlanned, Idle, At
  <1>5. Passed'
    <2> SUFFICES ASSUME said'.result = "passed" PROVE Passed'
      BY DEF Passed
    <2>1. CASE VerifyDev
      <3>1. CASE run.act = "teardown" \/ (run.act = "status" /\ ~Exists("nodes"))
        <4>1. DevInventoryEmpty /\ said'.empty /\ run.env = "dev"
          BY <2>1, <3>1 DEF VerifyDev, EndAs
        <4> QED BY <1>1, <1>2, <4>1, AllFacts DEF Passed, DevInventoryEmpty, Exists
      <3>2. CASE ~(run.act = "teardown" \/ (run.act = "status" /\ ~Exists("nodes")))
        <4>1. DevRuntimeHealthy /\ ~said'.empty /\ run.env = "dev"
          BY <2>1, <3>2 DEF VerifyDev, End, EndAs
        <4>2. run.act = "setup" => have["dev"] = All["dev"] /\ tainted \cap All["dev"] = {}
          BY <1>1, <4>1, AppliedAll, PlannedFacts, TargetFacts DEF At
        <4>3. run.act \in {"setup", "status"} BY <1>1, <3>2, <4>1, ActionsFacts
        <4> QED BY <1>1, <1>2, <4>1, <4>2, <4>3 DEF Passed, DevRuntimeHealthy
      <3> QED BY <3>1, <3>2
    <2>2. CASE VerifyCI
      <3>1. CASE run.act = "teardown"
        <4>1. (\A p \in All.ci : ~Exists(p)) /\ said'.empty /\ run.env = "ci"
          BY <2>2, <3>1 DEF VerifyCI, EndAs
        <4> QED BY <1>1, <1>2, <4>1 DEF Passed, Exists
      <3>2. CASE run.act # "teardown"
        <4>1. CIHealthy /\ ~said'.empty /\ run.env = "ci"
          BY <2>2, <3>2 DEF VerifyCI, End, EndAs
        <4>2. run.act = "setup" => have["ci"] = All["ci"] /\ tainted \cap All["ci"] = {}
          BY <1>1, <4>1, AppliedAll, PlannedFacts, TargetFacts DEF At
        <4>3. run.act \in {"setup", "status"} BY <1>1, <3>2, <4>1, ActionsFacts
        <4>4. All.ci \subseteq have["ci"] BY <4>1, AllFacts DEF CIHealthy, Inv, Ordered
        <4> QED BY <1>1, <1>2, <4>1, <4>2, <4>3, <4>4 DEF Passed, CIHealthy
      <3> QED BY <3>1, <3>2
    <2>3. CASE VerifyGitHub
      <3>1. Required \subseteq secrets /\ ~said'.empty /\ run.env = "github"
        BY <2>3 DEF VerifyGitHub, End, EndAs
      <3>2. run.act \in {"bootstrap", "doctor"} BY <1>1, <3>1, ActionsFacts
      <3>3. have["gov"] = All["gov"]
        BY <1>1, <3>1, <3>2, AppliedAll, PlannedFacts, TargetFacts DEF At
      <3> QED BY <1>1, <1>2, <3>1, <3>2, <3>3 DEF Passed
    <2> QED BY <2>1, <2>2, <2>3
  <1> QED
    BY <1>1, <1>3, <1>4, <1>5 DEF Inv, Ordered, BoundaryFirst

LEMMA FailureStep ==
    ASSUME Inv, Fails \/ PlanKilled \/ ApplyRefused \/ ApplyFails \/ ApplyKilled
    PROVE  Inv'
  <1>1. CASE Fails
    BY <1>1, FailsQuietly DEF Fails, At, tfVars, devVars, restVars
  <1>2. CASE PlanKilled
    BY <1>2, FailsQuietly DEF PlanKilled, At, devVars, restVars
  <1>3. CASE ApplyRefused
    <2>1. PICK f \in run.todo : Turn(f) /\ Halfway(f, {}) BY <1>3 DEF ApplyRefused
    <2> QED BY <1>3, <2>1, HalfwayStep DEF ApplyRefused
  <1>4. CASE ApplyFails
    <2>1. PICK f \in run.todo : Turn(f) /\ \E broken : Halfway(f, broken) BY <1>4 DEF ApplyFails
    <2> QED BY <1>4, <2>1, HalfwayStep DEF ApplyFails
  <1>5. CASE ApplyKilled
    <2>1. PICK f \in run.todo : Turn(f) /\ Halfway(f, {}) BY <1>5 DEF ApplyKilled
    <2> QED BY <1>5, <2>1, HalfwayStep DEF ApplyKilled
  <1> QED BY <1>1, <1>2, <1>3, <1>4, <1>5

\* prod setup, the scheduled backup and the operator's own commands touch
\* nothing that a command has planned or said.
LEMMA OutsideStep ==
    ASSUME Inv, \/ ProdSetup \/ Backup \/ Unlock \/ UNCHANGED vars
                \/ \E p \in Revisable : Revise(p)
    PROVE  Inv'
  <1>1. revised \subseteq Revisable BY DEF Inv, Typed
  <1>2. CASE ProdSetup
    BY <1>1, <1>2, Quiet DEF ProdSetup, runVars, tfVars, devVars
  <1>3. CASE Backup
    BY <1>1, <1>3, Quiet DEF Backup, runVars, tfVars, restVars
  <1>4. CASE Unlock
    BY <1>1, <1>4, Quiet DEF Unlock, runVars, devVars, restVars
  <1>5. CASE UNCHANGED vars
    BY <1>1, <1>5, Quiet DEF vars
  <1>6. CASE \E p \in Revisable : Revise(p)
    <2>1. PICK p \in Revisable : Revise(p) BY <1>6
    <2>2. revised' \subseteq Revisable BY <1>1, <2>1 DEF Revise
    <2> QED BY <2>1, <2>2, Quiet DEF Revise, runVars, tfVars, devVars
  <1> QED BY <1>2, <1>3, <1>4, <1>5, <1>6

-----------------------------------------------------------------------------
(* The theorems.                                                           *)

LEMMA InitInv == Init => Inv
  <1> SUFFICES ASSUME Init PROVE Inv
    OBVIOUS
  <1>1. PICK boundary \in {{}, All["boot"]} :
          have = [f \in States |-> IF f = "boot" THEN boundary ELSE {}]
    BY DEF Init
  <1>2. \A f \in States : have[f] \subseteq All[f] /\ All[f] \subseteq Parts
    BY <1>1 DEF Parts
  <1>3. run = Idle /\ said = Silent /\ backup = FALSE /\ tainted = {} /\ revised = {}
    BY DEF Init
  <1>4. secrets \subseteq Required BY DEF Init
  <1>5. have["ci"] = {} BY <1>1, AllFacts
  <1>6. Typed
    <2>1. have \in [States -> SUBSET Parts] BY <1>1, <1>2
    <2>2. run \in [env : Envs \cup {"none"}, act : Acts \cup {"none"}, pc : Points,
                   todo : SUBSET States, swap : SUBSET Parts, set : SUBSET Required]
      BY <1>3 DEF Idle, Points
    <2>3. said \in [env : Envs \cup {"none"}, act : Acts \cup {"none"},
                    result : {"none", "passed", "failed"}, empty : BOOLEAN]
      BY <1>3 DEF Silent
    <2> QED BY <1>2, <1>3, <1>4, <2>1, <2>2, <2>3 DEF Typed, TaintsRecorded
  <1>7. Running /\ PlanHolds /\ TaintsPlanned
    BY <1>3 DEF Running, PlanHolds, TaintsPlanned, Idle, At
  <1>8. Ordered(have["ci"]) /\ BoundaryFirst BY <1>5 DEF Ordered, BoundaryFirst
  <1>9. Passed BY <1>3 DEF Passed, Silent
  <1> QED BY <1>6, <1>7, <1>8, <1>9 DEF Inv

LEMMA NextInv == Inv /\ [Next]_vars => Inv'
  <1> SUFFICES ASSUME Inv, [Next]_vars PROVE Inv'
    OBVIOUS
  <1>1. CASE \E env \in DOMAIN Actions : \E act \in Actions[env] : Start(env, act)
    BY <1>1, StartStep
  <1>2. CASE Step
    BY <1>2, PreflightStep, PlanRuntimeStep, PlanGitHubStep, ApproveStep, ApplyStep,
       FailureStep, ConfigureStep, SetSecretStep, VerifyStep DEF Step
  <1>3. CASE Fails \/ PlanKilled \/ ApplyFails \/ ApplyKilled
    BY <1>3, FailureStep
  <1>4. CASE \/ ProdSetup \/ Backup \/ Unlock \/ UNCHANGED vars
             \/ \E p \in Revisable : Revise(p)
    BY <1>4, OutsideStep
  <1> QED BY <1>1, <1>2, <1>3, <1>4 DEF Next

LEMMA Invariance == Spec => []Inv
  BY InitInv, NextInv, PTL DEF Spec

\* engine.go of dev, ci and github: what a command that passed said is true
\* when it says it and stays true until the next command starts, whatever
\* was killed, failed, edited or backed up meanwhile: a setup has every part
\* of its configuration and configured hosts, a teardown left nothing billed.
THEOREM PassedTold == Spec => []PassedIsDone
  <1>1. Inv => PassedIsDone BY PassedMeans DEF Inv
  <1> QED BY <1>1, Invariance, PTL

\* ci/engine.go apply: the boundary is applied before the foundation and no
\* teardown, replacement or half-done apply takes a part of it away.
THEOREM BoundaryHolds == Spec => []BoundaryFirst
  <1>1. Inv => BoundaryFirst BY DEF Inv
  <1> QED BY <1>1, Invariance, PTL
=============================================================================
