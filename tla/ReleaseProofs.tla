------------------------------ MODULE ReleaseProofs ------------------------------
(***************************************************************************)
(* The cleanup of a release, the handlers it gives back, the truth of its  *)
(* record, and that it only moves forward, for any number of signals, of   *)
(* sources and of edits.                                                   *)
(***************************************************************************)
EXTENDS ReleaseProperties, TLAPS

\* The labels from a step of a deployment on, when nothing was raised.
Publishing == {"publish", "link", "done"}
Closed == {"stopped"} \cup Publishing
Compared == {"readback", "ignore", "wait", "clean"} \cup Closed
Declared == {"deploy", "compare"} \cup Compared
Listening == {"listen", "keys", "declare"} \cup Declared
Started == {"popen"} \cup Listening
Rebuilt == {"install", "log", "start"} \cup Started
Planned == {"ensure", "rebuild"} \cup Rebuilt
Preparing == {"begin", "build", "identity", "hash", "source"}
Label == Preparing \cup Planned \cup Ended

ManagerOK ==
    /\ pc \in Label /\ raising \in BOOLEAN /\ known \in BOOLEAN
    /\ handler \in [Signals -> {"default", "interrupted", "ignored"}]
    /\ saved \subseteq Signals
    /\ server \in {"none", "running", "exited"}

-----------------------------------------------------------------------------
(* The cleanup.                                                            *)

\* Before the log is opened there is nothing to clean up.
Before == Preparing \cup {"ensure", "rebuild", "install", "log"}

\* Which handlers are in place.  An exception while they were being installed
\* leads to the finally block with nothing to clean up.
Handlers ==
    /\ pc \in Before \ {"install", "log"} =>
           saved = {} /\ \A s \in Signals : handler[s] = "default"
    /\ pc = "install" => \A s \in Signals : handler[s] # "ignored"
    /\ pc \in Tried \ {"install"} =>
           saved = Signals /\ \A s \in Signals : handler[s] = "interrupted"
    /\ pc = "ignore" =>
           \/ saved = Signals /\ \A s \in Signals : handler[s] # "default"
           \/ ~known /\ secrets = {}
    /\ pc \in {"wait", "clean"} =>
           \/ \A s \in Signals : handler[s] = "ignored"
           \/ ~known /\ secrets = {}

Cleanup ==
    /\ server = "running" => known \/ pc = "popen"
    /\ pc \in Before => ~known /\ secrets = {}
    /\ pc = "start" => ~known
    /\ pc = "clean" => server # "running"
    /\ pc \in Closed \cup Ended => server # "running" /\ secrets = {}

Interrupted == hit \cap {"popen", "ignore"} # {}

CleanupInv == ManagerOK /\ (Interrupted \/ (Handlers /\ Cleanup))

-----------------------------------------------------------------------------
(* The record.                                                             *)

Straight == mode = "deploy-local" /\ ~raising

\* How often the source must have changed for a build of x, which is not the
\* source of the plan, to have been seen behind the plan (Once), again in
\* contracts/target after the second build (Twice), and for all that to be over.
Once(x) == x # plan.source => edits >= 1 /\ (source = x => edits >= 2)
Twice(x) ==
    x # plan.source => edits >= 2 /\ (source = plan.source => edits >= 3)

PlanOK ==
    /\ edits \in Nat /\ source \in Source /\ artifact \in Source
    /\ plan \in [class : Source \cup {None}, artifact : Source \cup {None},
                 source : Source \cup {None}]
    /\ pc \in {"identity", "hash"} => artifact = source \/ edits >= 1
    /\ pc \in {"hash", "source"} => plan.class = source \/ edits >= 1
    /\ pc = "source" => plan.artifact = source \/ edits >= 1

DeploymentOK ==
    Straight =>
        /\ pc \in Planned => Once(plan.class) /\ Once(plan.artifact)
        /\ pc \in Rebuilt =>
               /\ artifact = plan.class => Twice(plan.class)
               /\ artifact = plan.artifact => Twice(plan.artifact)
        /\ pc \in Declared => deployed = plan.class /\ Twice(plan.class)
        /\ pc \in Compared => Twice(plan.artifact)
        /\ pc \in Publishing /\ edits < 3 =>
               plan.class = plan.source /\ plan.artifact = plan.source

\* The devnet that is stopped is the one of this release.
DevnetOK ==
    Straight =>
        /\ pc \in Listening => known
        /\ pc \in Started => server # "none"
        /\ pc \in Started /\ taken => server = "exited" /\ code = "failed"
        /\ pc = "clean" => server = "exited"
        /\ pc \in Closed =>
               server = "exited" /\ secrets = {} /\ (taken => stopped = "failed")

RecordOK ==
    /\ output = "record" <=> pc = "done"
    /\ foreign => output = "other"
    /\ pc = "done" =>
           record = [class |-> plan.class, artifact |-> plan.artifact,
                     source |-> plan.source, server |-> stopped]
    /\ checked => Recorded /\ record.server \in {"term", "kill"}
    /\ raising => pc \in {"ignore", "wait", "clean", "raised", "killed"}

RecordInv == PlanOK /\ DeploymentOK /\ DevnetOK /\ RecordOK


-----------------------------------------------------------------------------
(* Every step keeps the invariant of the cleanup.                          *)

USE DEF Signals, Label, Preparing, Planned, Rebuilt, Started, Listening, Declared,
        Compared, Closed, Publishing, Ended, Tried, Before

LEMMA CleanupInit == Init => CleanupInv
BY DEF Init, ServerInit, CleanupInv, ManagerOK, Handlers, Cleanup

\* A step that leaves the manager alone, but for the label.
Moves(from, to) ==
    /\ pc = from /\ pc' = to
    /\ UNCHANGED <<raising, handler, saved, known, secrets, server, hit>>

LEMMA CleanupMoves ==
    ASSUME CleanupInv,
           \/ Moves("begin", "build") \/ Moves("build", "identity")
           \/ Moves("identity", "hash") \/ Moves("hash", "source")
           \/ Moves("source", "publish") \/ Moves("source", "ensure")
           \/ Moves("ensure", "rebuild") \/ Moves("rebuild", "install")
           \/ Moves("listen", "keys") \/ Moves("deploy", "compare")
           \/ Moves("compare", "readback") \/ Moves("readback", "ignore")
           \/ Moves("stopped", "publish") \/ Moves("publish", "link")
           \/ Moves("link", "done") \/ Moves(pc, pc)
    PROVE  CleanupInv'
<1>1. ManagerOK'
  BY DEF CleanupInv, ManagerOK, Moves
<1>2. CASE Interrupted
  BY <1>1, <1>2 DEF CleanupInv, Interrupted, Moves
<1>3. CASE Handlers /\ Cleanup
  <2>1. Handlers'
    <3>1. UNCHANGED <<handler, saved, known, secrets>>
      BY DEF Moves
    <3>2. CASE pc' = pc
      BY <1>3, <3>1, <3>2 DEF Handlers
    <3>3. CASE /\ pc \in Before \ {"install", "log"}
               /\ pc' \in (Before \ {"log"}) \cup Publishing
      BY <1>3, <3>1, <3>3 DEF Handlers
    <3>4. CASE pc \in Tried \ {"install"} /\ pc' \in (Tried \ {"install"}) \cup {"ignore"}
      BY <1>3, <3>1, <3>4 DEF Handlers
    <3>5. CASE pc' \in Publishing
      BY <3>5 DEF Handlers
    <3> QED
      BY <3>2, <3>3, <3>4, <3>5 DEF Moves
  <2>2. Cleanup'
    BY <1>3 DEF CleanupInv, ManagerOK, Handlers, Cleanup, Moves
  <2> QED
    BY <1>1, <2>1, <2>2 DEF CleanupInv
<1> QED
  BY <1>2, <1>3 DEF CleanupInv


\* The server's own steps, those of the deployment that may raise, and the devnet.
LEMMA CleanupOfServer == ASSUME CleanupInv, ServerStep PROVE CleanupInv'
<1> USE DEF Install, unset, OpenLog, Assign, Ignore, Wait, Clean,
           manager, world
<1>1. ManagerOK'
  BY DEF ServerStep, CleanupInv, ManagerOK
<1>2. CASE Interrupted
  BY <1>1, <1>2 DEF ServerStep, CleanupInv, Interrupted
<1>3. CASE Handlers /\ Cleanup
  <2>1. Handlers'
    <3>1. CASE OpenLog \/ Assign
      BY <1>3, <3>1 DEF CleanupInv, ManagerOK, Handlers, Cleanup
    <3>2. CASE Install /\ pc' = pc
      BY <1>3, <3>2 DEF CleanupInv, ManagerOK, Handlers
    <3>3. CASE Install /\ pc' # pc
      <4>1. pc' = "log" /\ handler' = handler /\ saved' = saved \cup {"SIGTERM"}
        BY <3>3
      <4>2. "SIGINT" \in saved /\ ~unset("SIGINT") /\ ~unset("SIGTERM")
        BY <3>3
      <4>3. saved' = Signals
        BY <4>1, <4>2 DEF CleanupInv, ManagerOK
      <4>4. \A s \in Signals : handler[s] = "interrupted"
        BY <1>3, <3>3, <4>2 DEF CleanupInv, ManagerOK, Handlers
      <4> QED
        BY <4>1, <4>3, <4>4 DEF Handlers
    <3>4. CASE Ignore
      BY <1>3, <3>4 DEF CleanupInv, ManagerOK, Handlers, Cleanup
    <3>5. CASE Wait \/ Clean
      BY <1>3, <3>5 DEF CleanupInv, ManagerOK, Handlers, Cleanup
    <3> QED
      BY <3>1, <3>2, <3>3, <3>4, <3>5 DEF ServerStep
  <2>2. Cleanup'
    BY <1>3 DEF ServerStep, CleanupInv, ManagerOK, Handlers, Cleanup
  <2> QED
    BY <1>1, <2>1, <2>2 DEF CleanupInv
<1> QED
  BY <1>2, <1>3 DEF CleanupInv

LEMMA CleanupOfDeployment == ASSUME CleanupInv, Start \/ Keys \/ Declare PROVE CleanupInv'
<1> USE DEF Start, StartServer, Keys, Declare, Raise, raised, world
<1>1. ManagerOK'
  BY DEF CleanupInv, ManagerOK
<1>2. CASE Interrupted
  BY <1>1, <1>2 DEF CleanupInv, Interrupted
<1>3. CASE Handlers /\ Cleanup
  <2>1. Handlers'
    BY <1>3 DEF CleanupInv, ManagerOK, Handlers, Cleanup
  <2>2. Cleanup'
    BY <1>3 DEF CleanupInv, ManagerOK, Handlers, Cleanup
  <2> QED
    BY <1>1, <2>1, <2>2 DEF CleanupInv
<1> QED
  BY <1>2, <1>3 DEF CleanupInv

LEMMA CleanupOfDevnet == ASSUME CleanupInv, Dies \/ Heeds PROVE CleanupInv'
<1> USE DEF Dies, Heeds, manager
<1>1. ManagerOK'
  BY DEF CleanupInv, ManagerOK
<1>2. CASE Interrupted
  BY <1>1, <1>2 DEF CleanupInv, Interrupted
<1>3. CASE Handlers /\ Cleanup
  <2>1. Handlers'
    BY <1>3 DEF CleanupInv, ManagerOK, Handlers, Cleanup
  <2>2. Cleanup'
    BY <1>3 DEF CleanupInv, ManagerOK, Handlers, Cleanup
  <2> QED
    BY <1>1, <2>1, <2>2 DEF CleanupInv
<1> QED
  BY <1>2, <1>3 DEF CleanupInv

LEMMA CleanupOfFailure == 
    ASSUME CleanupInv, NEW labels, labels \cap {"popen", "ignore", "wait", "clean"} = {},
           StepFails(labels)
    PROVE  CleanupInv'
<1> USE DEF StepFails, Raise, raised, world
<1>1. ManagerOK'
  BY DEF CleanupInv, ManagerOK
<1>2. CASE Interrupted
  BY <1>1, <1>2 DEF CleanupInv, Interrupted
<1>3. CASE Handlers /\ Cleanup
  <2>1. Handlers'
    BY <1>3 DEF CleanupInv, ManagerOK, Handlers, Cleanup
  <2>2. Cleanup'
    BY <1>3 DEF CleanupInv, ManagerOK, Handlers, Cleanup
  <2> QED
    BY <1>1, <2>1, <2>2 DEF CleanupInv
<1> QED
  BY <1>2, <1>3 DEF CleanupInv

LEMMA CleanupOfSignal == ASSUME CleanupInv, NEW s \in Signals, Receive(s) PROVE CleanupInv'
<1> USE DEF Receive, Raise, raised
<1>1. ManagerOK'
  BY DEF CleanupInv, ManagerOK
<1>2. CASE Interrupted
  BY <1>1, <1>2 DEF CleanupInv, Interrupted
<1>4. CASE pc \in {"popen", "ignore"} /\ pc' # "killed"
  <2>1. Interrupted'
    BY <1>4 DEF Interrupted
  <2> QED
    BY <1>1, <2>1 DEF CleanupInv
<1>3. CASE Handlers /\ Cleanup /\ ~(pc \in {"popen", "ignore"} /\ pc' # "killed")
  <2>1. Handlers'
    BY <1>3 DEF CleanupInv, ManagerOK, Handlers, Cleanup
  <2>2. Cleanup'
    BY <1>3 DEF CleanupInv, ManagerOK, Handlers, Cleanup
  <2> QED
    BY <1>1, <2>1, <2>2 DEF CleanupInv
<1> QED
  BY <1>2, <1>3, <1>4 DEF CleanupInv



LEMMA CleanupStep == CleanupInv /\ [Next]_vars => CleanupInv'
<1> SUFFICES ASSUME CleanupInv, [Next]_vars PROVE CleanupInv'
  OBVIOUS
<1>1. CASE Begin \/ Build \/ Identity \/ Hash \/ SourceIdentity \/ EnsureNew
  BY <1>1, CleanupMoves DEF Begin, Build, Identity, Hash, SourceIdentity, EnsureNew,
                            Step, quiet, world, Moves
<1>2. CASE Compare \/ Readback \/ Recheck \/ Publish \/ Link
  BY <1>2, CleanupMoves DEF Compare, Readback, Recheck, Publish, Link, Step, quiet, world,
                            Moves
<1>3. CASE Rebuild \/ Listen \/ Deploy
  BY <1>3, CleanupMoves DEF Rebuild, Listen, Deploy, Step, world, Moves
<1>4. CASE \/ StepFails({"begin", "build", "identity", "hash", "source", "ensure", "compare",
                        "readback", "stopped", "publish", "link"})
           \/ StepFails({"rebuild", "log", "listen", "keys", "declare", "deploy"})
  BY <1>4, CleanupOfFailure
<1>5. CASE \/ (\E s \in Source : Edit(s)) \/ OtherBuild \/ OtherWrites \/ CheckRecord
           \/ UNCHANGED vars
  BY <1>5, CleanupMoves DEF Edit, OtherBuild, OtherWrites, CheckRecord, serverVars, vars,
                            Moves
<1> QED
  BY <1>1, <1>2, <1>3, <1>4, <1>5, CleanupOfServer, CleanupOfDeployment, CleanupOfSignal,
     CleanupOfDevnet DEF Next, ReleaseStep, DeploymentStep

-----------------------------------------------------------------------------
(* The signal handlers.                                                    *)

\* What previous and the handlers are at each label, when no signal came while
\* they were being installed or before they were ignored.
Restorable ==
    /\ pc \in Before \ {"install", "log"} =>
           saved = {} /\ \A s \in Signals : handler[s] = "default"
    /\ pc = "install" => \A s \in Signals : handler[s] # "ignored"
    /\ pc \in Tried \ {"install"} =>
           saved = Signals /\ \A s \in Signals : handler[s] = "interrupted"
    /\ pc \in {"ignore", "wait", "clean"} => saved = Signals
    /\ pc \in {"wait", "clean"} => \A s \in Signals : handler[s] = "ignored"
    /\ pc \in Closed \cup {"raised"} => \A s \in Signals : handler[s] = "default"

Diverted == hit \cap {"install", "ignore"} # {}

HandlersInv == ManagerOK /\ (Diverted \/ Restorable)

LEMMA HandlersInit == Init => HandlersInv
BY DEF Init, ServerInit, HandlersInv, ManagerOK, Restorable

LEMMA HandlersOfProgram ==
    ASSUME ManagerOK, Restorable,
           \/ Begin \/ Build \/ Identity \/ Hash \/ SourceIdentity \/ EnsureNew
           \/ Compare \/ Readback \/ Recheck \/ Publish \/ Link
           \/ Rebuild \/ Start \/ Listen \/ Keys \/ Declare \/ Deploy
    PROVE  Restorable'
<1>1. CASE Begin \/ Build \/ Identity \/ Hash \/ SourceIdentity \/ EnsureNew
  BY <1>1 DEF Begin, Build, Identity, Hash, SourceIdentity, EnsureNew, Step, quiet,
              ManagerOK, Restorable
<1>2. CASE Compare \/ Readback \/ Recheck \/ Publish \/ Link
  BY <1>2 DEF Compare, Readback, Recheck, Publish, Link, Step, quiet, ManagerOK,
              Restorable
<1>3. CASE Rebuild \/ Listen \/ Deploy
  BY <1>3 DEF Rebuild, Listen, Deploy, Step, ManagerOK, Restorable
<1>4. CASE Start \/ Keys \/ Declare
  BY <1>4 DEF Start, StartServer, Keys, Declare, Raise, raised, ManagerOK, Restorable
<1> QED
  BY <1>1, <1>2, <1>3, <1>4

LEMMA HandlersOfServer == ASSUME ManagerOK, Restorable, ServerStep PROVE Restorable'
<1>1. CASE Install
  <2>1. CASE pc' = pc
    BY <1>1, <2>1 DEF Install, unset, ManagerOK, Restorable
  <2>2. CASE pc' # pc
    <3>1. pc' = "log" /\ handler' = handler /\ saved' = saved \cup {"SIGTERM"}
      BY <1>1, <2>2 DEF Install
    <3>2. "SIGINT" \in saved /\ ~unset("SIGINT") /\ ~unset("SIGTERM")
      BY <1>1, <2>2 DEF Install
    <3>3. saved' = Signals
      BY <3>1, <3>2 DEF ManagerOK
    <3>4. pc = "install"
      BY <1>1 DEF Install
    <3>5. \A s \in Signals : handler[s] = "interrupted"
      BY <3>2, <3>4 DEF unset, ManagerOK, Restorable
    <3> QED
      BY <3>1, <3>3, <3>5 DEF Restorable
  <2> QED
    BY <2>1, <2>2
<1>2. CASE OpenLog \/ Assign
  BY <1>2 DEF OpenLog, Assign, ManagerOK, Restorable
<1>3. CASE Ignore
  BY <1>3 DEF Ignore, ManagerOK, Restorable
<1>4. CASE Wait \/ Clean
  BY <1>4 DEF Wait, Clean, manager, ManagerOK, Restorable
<1> QED
  BY <1>1, <1>2, <1>3, <1>4 DEF ServerStep

LEMMA HandlersOfSignal ==
    ASSUME ManagerOK, Restorable, NEW s \in Signals, Receive(s),
           pc \notin {"install", "ignore"} \/ pc' = "killed"
    PROVE  Restorable'
<1>1. pc \notin {"wait", "clean"}
  BY DEF Receive, Restorable
<1> QED
  BY <1>1 DEF Receive, Raise, raised, ManagerOK, Restorable

LEMMA HandlersOfFailure ==
    ASSUME ManagerOK, Restorable, NEW labels,
           labels \cap {"install", "ignore", "wait", "clean", "killed"} = {},
           StepFails(labels)
    PROVE  Restorable'
BY DEF StepFails, Raise, raised, ManagerOK, Restorable

\* Signals are taken at labels, and never forgotten.
LEMMA HitsStay == ASSUME [Next]_vars PROVE hit \subseteq hit'
BY DEF Next, ReleaseStep, DeploymentStep, ServerStep, vars,
       Begin, Build, Identity, Hash, SourceIdentity, EnsureNew, Compare, Readback, Recheck,
       Publish, Link, Rebuild, Start, StartServer, Listen, Keys, Declare, Deploy, Step,
       StepFails, Install, OpenLog, Assign, Ignore, Wait, Clean, Receive, Dies, Heeds,
       Edit, OtherBuild, OtherWrites, CheckRecord, serverVars, world, quiet

LEMMA HandlersStep ==
    ASSUME ManagerOK, ManagerOK', Diverted \/ Restorable, [Next]_vars
    PROVE  Diverted' \/ Restorable'
<1>1. CASE Diverted
  BY <1>1, HitsStay DEF Diverted
<1>2. CASE Restorable
  <2>1. ASSUME NEW s \in Signals, Receive(s)
        PROVE  Diverted' \/ Restorable'
    <3>1. CASE pc \in {"install", "ignore"} /\ pc' # "killed"
      BY <2>1, <3>1 DEF Receive, Raise, raised, Diverted
    <3>2. CASE ~(pc \in {"install", "ignore"} /\ pc' # "killed")
      BY <1>2, <2>1, <3>2, HandlersOfSignal
    <3> QED
      BY <3>1, <3>2
  <2>2. CASE \/ StepFails({"begin", "build", "identity", "hash", "source", "ensure",
                           "compare", "readback", "stopped", "publish", "link"})
             \/ StepFails({"rebuild", "log", "listen", "keys", "declare", "deploy"})
    BY <1>2, <2>2, HandlersOfFailure
  <2>3. CASE \/ Dies \/ Heeds \/ (\E s \in Source : Edit(s)) \/ OtherBuild
             \/ OtherWrites \/ CheckRecord \/ UNCHANGED vars
    <3>1. UNCHANGED <<pc, handler, saved>>
      BY <2>3 DEF Dies, Heeds, manager, Edit, OtherBuild, OtherWrites, CheckRecord,
                  serverVars, vars
    <3> QED
      BY <1>2, <3>1 DEF Restorable
  <2> QED
    BY <1>2, <2>1, <2>2, <2>3, HandlersOfProgram, HandlersOfServer
       DEF Next, ReleaseStep, DeploymentStep
<1> QED
  BY <1>1, <1>2

\* Whatever fails and however many signals come, the devnet and its private files
\* go and SIGINT and SIGTERM do again what they did before, but for signals in the
\* places named.
THEOREM ReleaseCleanup == Spec => []CleanupUnlessInterrupted
<1> DEFINE Inv == CleanupInv /\ HandlersInv
<1>1. Init => Inv
  BY CleanupInit, HandlersInit
<1>2. Inv /\ [Next]_vars => Inv'
  <2> SUFFICES ASSUME Inv, [Next]_vars PROVE Inv'
    OBVIOUS
  <2>1. CleanupInv'
    BY CleanupStep
  <2>2. ManagerOK /\ ManagerOK'
    BY <2>1 DEF CleanupInv
  <2> QED
    BY <2>1, <2>2, HandlersStep DEF HandlersInv
<1>3. Inv => DevnetGone
  BY DEF CleanupInv, Cleanup, Interrupted, DevnetGone
<1>4. Inv => HandlersReturn
  BY DEF HandlersInv, Restorable, Diverted, HandlersReturn
<1>5. Inv => CleanupUnlessInterrupted
  BY <1>3, <1>4 DEF CleanupUnlessInterrupted
<1> QED
  BY <1>1, <1>2, <1>5, PTL DEF Spec

-----------------------------------------------------------------------------
(* Every step keeps the invariant of the record.                           *)

LEMMA RecordInit == Init => RecordInv
<1> SUFFICES ASSUME Init PROVE RecordInv
  OBVIOUS
<1>1. foreign => output = "other"
  BY ZenonT(30) DEF Init
<1>2. output # "record" /\ checked = FALSE /\ raising = FALSE /\ pc = "begin"
  BY DEF Init, ServerInit
<1>3. RecordOK
  BY <1>1, <1>2 DEF RecordOK
<1>4. PlanOK /\ DeploymentOK /\ DevnetOK
  BY <1>2 DEF Init, ServerInit, PlanOK, DeploymentOK, DevnetOK, Straight, NoPlan
<1> QED
  BY <1>3, <1>4 DEF RecordInv

\* The plan.
LEMMA RecordOfPlanning ==
    ASSUME ManagerOK, ManagerOK', RecordInv,
           Begin \/ Build \/ Identity \/ Hash \/ SourceIdentity \/ EnsureNew
    PROVE  RecordInv'
<1> USE DEF Begin, Build, Identity, Hash, SourceIdentity, EnsureNew, Step, quiet, world,
           tree, release
<1>1. PlanOK'
  BY DEF ManagerOK, RecordInv, PlanOK
<1>2. DeploymentOK'
  BY DEF ManagerOK, RecordInv, PlanOK, DeploymentOK, Straight, Once, Twice
<1>3. DevnetOK'
  BY DEF ManagerOK, RecordInv, DevnetOK, RecordOK, Straight
<1>4. RecordOK'
  BY DEF ManagerOK, RecordInv, DevnetOK, RecordOK, Recorded
<1> QED
  BY <1>1, <1>2, <1>3, <1>4 DEF RecordInv

\* The deployment.
LEMMA RecordOfStarting ==
    ASSUME ManagerOK, ManagerOK', RecordInv,
           Rebuild \/ Start \/ Listen, UNCHANGED release
    PROVE  RecordInv'
<1> USE DEF Rebuild, Start, StartServer, Listen, Step, Raise, raised, world, tree, release
<1>1. PlanOK'
  BY DEF ManagerOK, RecordInv, PlanOK
<1>2. DeploymentOK'
  BY DEF ManagerOK, RecordInv, PlanOK, DeploymentOK, Straight, Once, Twice
<1>3. DevnetOK'
  BY DEF ManagerOK, RecordInv, DevnetOK, RecordOK, Straight
<1>4. RecordOK'
  BY DEF ManagerOK, RecordInv, DevnetOK, RecordOK, Recorded
<1> QED
  BY <1>1, <1>2, <1>3, <1>4 DEF RecordInv

LEMMA RecordOfDeploying ==
    ASSUME ManagerOK, ManagerOK', RecordInv,
           Keys \/ Declare \/ Deploy, UNCHANGED release
    PROVE  RecordInv'
<1> USE DEF Keys, Declare, planned, Deploy, Step, Raise, raised, world, tree, release
<1>1. PlanOK'
  BY DEF ManagerOK, RecordInv, PlanOK
<1>2. DeploymentOK'
  BY DEF ManagerOK, RecordInv, PlanOK, DeploymentOK, Straight, Once, Twice
<1>3. DevnetOK'
  BY DEF ManagerOK, RecordInv, DevnetOK, RecordOK, Straight
<1>4. RecordOK'
  BY DEF ManagerOK, RecordInv, DevnetOK, RecordOK, Recorded
<1> QED
  BY <1>1, <1>2, <1>3, <1>4 DEF RecordInv

LEMMA RecordOfServer ==
    ASSUME ManagerOK, ManagerOK', RecordInv,
           ServerStep, UNCHANGED <<tree, taken, plan, deployed, release>>
    PROVE  RecordInv'
<1> USE DEF ServerStep, Install, unset, OpenLog, Assign, Ignore, Wait, Clean,
           manager, world, tree, release
<1>1. PlanOK'
  BY DEF ManagerOK, RecordInv, PlanOK
<1>2. DeploymentOK'
  BY DEF ManagerOK, RecordInv, PlanOK, DeploymentOK, Straight, Once, Twice
<1>3. DevnetOK'
  BY DEF ManagerOK, RecordInv, DevnetOK, RecordOK, Straight
<1>4. RecordOK'
  BY DEF ManagerOK, RecordInv, DevnetOK, RecordOK, Recorded
<1> QED
  BY <1>1, <1>2, <1>3, <1>4 DEF RecordInv

\* The record.
LEMMA RecordOfRecording ==
    ASSUME ManagerOK, ManagerOK', RecordInv,
           Compare \/ Readback \/ Recheck \/ Publish \/ Link
    PROVE  RecordInv'
<1> USE DEF Compare, Readback, Recheck, same_source, Publish, Link, Step, quiet, world,
           tree, release
<1>1. PlanOK'
  BY DEF ManagerOK, RecordInv, PlanOK
<1>2. DeploymentOK'
  BY DEF ManagerOK, RecordInv, PlanOK, DeploymentOK, Straight, Once, Twice
<1>3. DevnetOK'
  BY DEF ManagerOK, RecordInv, DevnetOK, RecordOK, Straight
<1>4. RecordOK'
  BY DEF ManagerOK, RecordInv, DevnetOK, RecordOK, Recorded
<1> QED
  BY <1>1, <1>2, <1>3, <1>4 DEF RecordInv

\* What happens around it.
LEMMA RecordOfOthers ==
    ASSUME ManagerOK, ManagerOK', RecordInv,
           \/ CheckRecord \/ OtherWrites
           \/ ((\E s \in Source : Edit(s)) \/ OtherBuild) /\ UNCHANGED release
    PROVE  RecordInv'
<1> USE DEF CheckRecord, OtherWrites, Edit, OtherBuild, serverVars, tree, release
<1>1. PlanOK'
  BY DEF ManagerOK, RecordInv, PlanOK
<1>2. DeploymentOK'
  BY DEF ManagerOK, RecordInv, PlanOK, DeploymentOK, Straight, Once, Twice
<1>3. DevnetOK'
  BY DEF ManagerOK, RecordInv, DevnetOK, RecordOK, Straight
<1>4. RecordOK'
  BY DEF ManagerOK, RecordInv, DevnetOK, RecordOK, Recorded
<1> QED
  BY <1>1, <1>2, <1>3, <1>4 DEF RecordInv

LEMMA RecordOfWorld ==
    ASSUME ManagerOK, ManagerOK', RecordInv,
           (\E s \in Signals : Receive(s)) \/ Dies \/ Heeds,
           UNCHANGED <<tree, taken, plan, deployed, release>>
    PROVE  RecordInv'
<1> USE DEF Receive, Dies, Heeds, Raise, raised, manager, tree, release
<1>1. PlanOK'
  BY DEF ManagerOK, RecordInv, PlanOK
<1>2. DeploymentOK'
  BY DEF ManagerOK, RecordInv, PlanOK, DeploymentOK, Straight, Once, Twice
<1>3. DevnetOK'
  BY DEF ManagerOK, RecordInv, DevnetOK, RecordOK, Straight
<1>4. RecordOK'
  BY DEF ManagerOK, RecordInv, DevnetOK, RecordOK, Recorded
<1> QED
  BY <1>1, <1>2, <1>3, <1>4 DEF RecordInv

\* A failure.
LEMMA RecordOfFailure ==
    ASSUME ManagerOK, ManagerOK', RecordInv,
           NEW labels, StepFails(labels), "done" \notin labels, UNCHANGED release
    PROVE  RecordInv'
<1> USE DEF StepFails, Raise, raised, world, tree, release
<1>1. PlanOK'
  BY DEF ManagerOK, RecordInv, PlanOK
<1>2. DeploymentOK'
  BY DEF ManagerOK, RecordInv, PlanOK, DeploymentOK, Straight, Once, Twice
<1>3. DevnetOK'
  BY DEF ManagerOK, RecordInv, DevnetOK, RecordOK, Straight
<1>4. RecordOK'
  BY DEF ManagerOK, RecordInv, DevnetOK, RecordOK, Recorded
<1> QED
  BY <1>1, <1>2, <1>3, <1>4 DEF RecordInv

LEMMA RecordStep ==
    ASSUME ManagerOK, ManagerOK', RecordInv, [Next]_vars
    PROVE  RecordInv'
<1>1. CASE UNCHANGED vars
  BY <1>1 DEF vars, RecordInv, PlanOK, DeploymentOK, DevnetOK, RecordOK, Straight,
              Recorded, Once, Twice
<1> QED
  BY <1>1, RecordOfPlanning, RecordOfStarting, RecordOfDeploying, RecordOfServer,
     RecordOfRecording, RecordOfOthers, RecordOfWorld, RecordOfFailure
     DEF Next, ReleaseStep, DeploymentStep

\* A success record is written after the cleanup and describes the deployment,
\* whoever edits and builds what meanwhile, for up to two edits.
THEOREM ReleaseRecordIsTruthful == Spec => []RecordIsTruthful
<1> DEFINE Inv == CleanupInv /\ RecordInv
<1>1. Init => Inv
  BY CleanupInit, RecordInit
<1>2. Inv /\ [Next]_vars => Inv'
  <2> SUFFICES ASSUME Inv, [Next]_vars PROVE Inv'
    OBVIOUS
  <2>1. CleanupInv'
    BY CleanupStep
  <2>2. ManagerOK /\ ManagerOK'
    BY <2>1 DEF CleanupInv
  <2> QED
    BY <2>1, <2>2, RecordStep
<1>3. Inv => RecordIsTruthful
  <2> SUFFICES ASSUME Inv, Recorded PROVE RecordIsTruthful
    BY DEF RecordIsTruthful, RecordInv, RecordOK
  <2>1. /\ pc = "done" /\ Straight
        /\ record = [class |-> plan.class, artifact |-> plan.artifact,
                     source |-> plan.source, server |-> stopped]
    BY DEF RecordInv, RecordOK, Recorded, Straight, CleanupInv, ManagerOK
  <2>2. server = "exited" /\ secrets = {} /\ (taken => stopped = "failed")
    BY <2>1 DEF RecordInv, DevnetOK
  <2>3. /\ deployed = plan.class
        /\ edits < 3 => plan.class = plan.source /\ plan.artifact = plan.source
    BY <2>1 DEF RecordInv, DeploymentOK
  <2>4. checked => ~taken
    BY <2>1, <2>2 DEF RecordInv, RecordOK
  <2> QED
    BY <2>1, <2>2, <2>3, <2>4 DEF RecordIsTruthful, RecordInv, RecordOK
<1> QED
  BY <1>1, <1>2, <1>3, PTL DEF Spec

-----------------------------------------------------------------------------
(* The release only moves forward: the variant behind ReleaseEnds.         *)

\* The labels in the order of the program, an exception's way out included.
Stage ==
    CASE pc = "begin" -> 0 [] pc = "build" -> 1 [] pc = "identity" -> 2
      [] pc = "hash" -> 3 [] pc = "source" -> 4 [] pc = "ensure" -> 5
      [] pc = "rebuild" -> 6 [] pc = "install" -> 7 [] pc = "log" -> 8
      [] pc = "start" -> 9 [] pc = "popen" -> 10 [] pc = "listen" -> 11
      [] pc = "keys" -> 12 [] pc = "declare" -> 13 [] pc = "deploy" -> 14
      [] pc = "compare" -> 15 [] pc = "readback" -> 16 [] pc = "ignore" -> 17
      [] pc = "wait" -> 18 [] pc = "clean" -> 19 [] pc = "stopped" -> 20
      [] pc = "publish" -> 21 [] pc = "link" -> 22 [] OTHER -> 23

\* What the loops over the two signals have done: a handler installed, its
\* predecessor stored, the signal ignored.
One(b) == IF b THEN 1 ELSE 0
Settled(s) == One(handler[s] # "default") + One(s \in saved) + One(handler[s] = "ignored")

Position == 7 * Stage + Settled("SIGINT") + Settled("SIGTERM")

LEMMA PositionType ==
    /\ Stage \in 0 .. 23 /\ Stage' \in 0 .. 23
    /\ \A s \in Signals : Settled(s) \in 0 .. 3 /\ Settled(s)' \in 0 .. 3
<1>1. Stage \in 0 .. 23 /\ Stage' \in 0 .. 23
  BY DEF Stage
<1>2. \A s \in Signals : Settled(s) \in 0 .. 3 /\ Settled(s)' \in 0 .. 3
  BY DEF Settled, One
<1> QED
  BY <1>1, <1>2

\* Later in the program, or at the same label with more of a loop done.
Onwards ==
    \/ Stage' > Stage
    \/ /\ Stage' = Stage
       /\ \A s \in Signals : Settled(s)' >= Settled(s)
       /\ \E s \in Signals : Settled(s)' > Settled(s)
Rests == Stage' = Stage /\ \A s \in Signals : Settled(s)' = Settled(s)

LEMMA PositionFollows ==
    /\ Onwards => Position' > Position
    /\ Rests => Position' = Position
    /\ Position \in 0 .. 167 /\ Position' \in 0 .. 167
<1> DEFINE s == Stage  w == Stage'
           a == Settled("SIGINT")  b == Settled("SIGTERM")
           c == Settled("SIGINT")'  d == Settled("SIGTERM")'
<1>1. /\ s \in 0 .. 23 /\ w \in 0 .. 23
      /\ a \in 0 .. 3 /\ b \in 0 .. 3 /\ c \in 0 .. 3 /\ d \in 0 .. 3
  BY PositionType
<1>2. Position = 7 * s + a + b /\ Position' = 7 * w + c + d
  BY DEF Position
<1>3. /\ Onwards => w > s \/ (w = s /\ c >= a /\ d >= b /\ (c > a \/ d > b))
      /\ Rests => w = s /\ c = a /\ d = b
  BY DEF Onwards, Rests
<1> HIDE DEF s, w, a, b, c, d
<1> QED
  BY <1>1, <1>2, <1>3

LEMMA LoopsMove ==
    ASSUME ManagerOK, Install \/ Ignore
    PROVE  Onwards
<1>1. CASE pc' # pc
  BY <1>1 DEF Install, Ignore, Onwards, Stage
<1>2. CASE pc' = pc
  <2>1. Stage' = Stage
    BY <1>2 DEF Stage
  <2>2. PICK s \in Signals :
            \/ /\ handler[s] = "default" /\ saved' = saved
               /\ handler' = [handler EXCEPT ![s] = "interrupted"]
            \/ s \notin saved /\ saved' = saved \cup {s} /\ handler' = handler
            \/ /\ handler[s] # "ignored" /\ saved' = saved
               /\ handler' = [handler EXCEPT ![s] = "ignored"]
    <3>1. CASE Install
      BY <1>2, <3>1 DEF Install, unset
    <3>2. CASE Ignore
      <4> DEFINE left == {s \in saved : handler[s] # "ignored"}
                 next == IF "SIGINT" \in left THEN "SIGINT" ELSE "SIGTERM"
      <4>1. left # {} /\ handler' = [handler EXCEPT ![next] = "ignored"] /\ saved' = saved
        BY <1>2, <3>2 DEF Ignore
      <4>2. next \in left
        BY <4>1 DEF ManagerOK
      <4>3. left \subseteq Signals
        BY DEF ManagerOK
      <4>4. next \in Signals /\ handler[next] # "ignored"
        BY <4>2, <4>3
      <4> HIDE DEF next
      <4> QED
        BY <4>1, <4>4
    <3> QED
      BY <3>1, <3>2
  <2>3. Settled(s)' > Settled(s)
    BY <2>2 DEF Settled, One, ManagerOK
  <2>4. \A x \in Signals : Settled(x)' >= Settled(x)
    BY <2>2 DEF Settled, One, ManagerOK
  <2> QED
    BY <2>1, <2>3, <2>4 DEF Onwards
<1> QED
  BY <1>1, <1>2

LEMMA ReleaseMoves ==
    ASSUME ManagerOK, ReleaseStep
    PROVE  Onwards
<1> USE DEF Onwards, Stage
<1>1. CASE Begin \/ Build \/ Identity \/ Hash \/ SourceIdentity \/ EnsureNew
           \/ Compare \/ Readback \/ Recheck \/ Publish \/ Link
  BY <1>1 DEF Begin, Build, Identity, Hash, SourceIdentity, EnsureNew, Compare, Readback,
              Recheck, Publish, Link, Step
<1>2. CASE StepFails({"begin", "build", "identity", "hash", "source", "ensure", "compare",
                      "readback", "stopped", "publish", "link"})
           \/ StepFails({"rebuild", "log", "listen", "keys", "declare", "deploy"})
  BY <1>2 DEF StepFails, Raise, raised
<1>3. CASE Rebuild \/ Listen \/ Deploy
  BY <1>3 DEF Rebuild, Listen, Deploy, Step
<1>4. CASE Start \/ Keys \/ Declare
  BY <1>4 DEF Start, StartServer, Keys, Declare, Raise, raised
<1>5. CASE OpenLog \/ Assign \/ Wait \/ Clean
  BY <1>5 DEF OpenLog, Assign, Wait, Clean
<1>6. CASE Install \/ Ignore
  BY <1>6, LoopsMove
<1> QED
  BY <1>1, <1>2, <1>3, <1>4, <1>5, <1>6 DEF ReleaseStep, DeploymentStep, ServerStep

LEMMA OthersMove ==
    ASSUME ManagerOK, [Next]_vars, ~ReleaseStep
    PROVE  Onwards \/ Rests
<1>1. ASSUME NEW s \in Signals, Receive(s)
      PROVE  Onwards
  BY <1>1 DEF Receive, Raise, raised, Onwards, Stage, ManagerOK
<1>2. ASSUME UNCHANGED <<pc, handler, saved>>
      PROVE  Rests
  BY <1>2 DEF Rests, Stage, Settled
<1>3. CASE Dies \/ Heeds \/ UNCHANGED vars
  BY <1>2, <1>3 DEF Dies, Heeds, manager, vars
<1>4. CASE (\E s \in Source : Edit(s)) \/ OtherBuild \/ OtherWrites \/ CheckRecord
  BY <1>2, <1>4 DEF Edit, OtherBuild, OtherWrites, CheckRecord, serverVars
<1> QED
  BY <1>1, <1>3, <1>4 DEF Next

LEMMA PositionMoves ==
    ASSUME ManagerOK, [Next]_vars
    PROVE  /\ Position' >= Position
           /\ ReleaseStep => Position' > Position
<1>1. Position \in Nat /\ Position' \in Nat
  BY PositionFollows
<1>2. Onwards \/ (Rests /\ ~ReleaseStep)
  BY ReleaseMoves, OthersMove
<1> QED
  BY <1>1, <1>2, PositionFollows

\* However many signals arrive, and whatever the devnet does, each step of a
\* release takes it forward, and none takes it back: it is over after at most
\* 167 steps of its own, or rests at a label for ever.
THEOREM ReleaseNeverReturns ==
    Spec => /\ [](Position \in 0 .. 167)
            /\ [][/\ Position' >= Position
                  /\ ReleaseStep => Position' > Position]_vars
<1>1. Position \in 0 .. 167
  BY PositionFollows
<1>2. CleanupInv /\ [Next]_vars =>
        [/\ Position' >= Position
         /\ ReleaseStep => Position' > Position]_vars
  BY PositionMoves DEF CleanupInv
<1> QED
  BY <1>1, <1>2, CleanupInit, CleanupStep, PTL DEF Spec
=============================================================================
