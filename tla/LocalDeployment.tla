----------------------------- MODULE LocalDeployment -----------------------------
(***************************************************************************)
(* local_deployment of scripts/integration/run.py, as local.py calls it:   *)
(* the registry is built once more, a devnet started on a port that was    *)
(* free a moment ago, and the registry declared and deployed on what       *)
(* answers there.                                                          *)
(*                                                                         *)
(* A source tree is a name.  What is built from it, a compiled class and   *)
(* its hashes, has the same name.                                          *)
(***************************************************************************)
EXTENDS OwnedServer

CONSTANTS
    Source,
    MaxEdits,   \* bound on the changes to the source
    None

VARIABLES
    source, edits,
    artifact,   \* the compiled class in contracts/target
    taken,      \* another program has the port
    plan,
    deployed    \* the class that the registry is declared and deployed with

tree == <<source, edits, artifact>>
\* What goes on in the checkout, and on the machine, meanwhile.
Edit(s) ==
    /\ pc \notin Ended /\ edits < MaxEdits /\ s # source
    /\ source' = s /\ edits' = edits + 1
    /\ UNCHANGED <<serverVars, artifact, taken, plan, deployed>>

OtherBuild ==
    /\ pc \notin Ended
    /\ artifact' = source
    /\ UNCHANGED <<serverVars, source, edits, taken, plan, deployed>>
-----------------------------------------------------------------------------
Step(from, to) == pc = from /\ pc' = to /\ UNCHANGED raising

\* A command, a request or an assertion of the step at a label fails.
StepFails(labels) ==
    /\ pc \in labels
    /\ Raise
    /\ UNCHANGED <<handler, saved, known, secrets, stopped, world, tree, taken,
                   plan, deployed>>

\* Versions, a build, the ABI, and a port.
Rebuild ==
    /\ Step("rebuild", "install")
    /\ artifact' = source
    /\ taken' \in BOOLEAN
    /\ UNCHANGED <<handler, saved, known, secrets, stopped, world, source, edits,
                   plan, deployed>>

Start ==
    /\ StartServer(taken)
    /\ UNCHANGED <<tree, taken, plan, deployed>>

answers == server = "running" \/ taken

Listen ==
    /\ Step("listen", "keys") /\ answers
    /\ UNCHANGED <<handler, saved, known, secrets, stopped, world, tree, taken,
                   plan, deployed>>

\* The key is written, and imported; the import may fail.
Keys ==
    /\ pc = "keys" /\ answers
    /\ secrets' = secrets \cup {"private-key", "accounts.json"}
    /\ \/ pc' = "declare" /\ UNCHANGED raising
       \/ Raise
    /\ UNCHANGED <<handler, saved, known, stopped, world, tree, taken, plan, deployed>>

planned(class) == class = plan.class

\* sncast declares what is there, built again or not.
Declare ==
    /\ pc = "declare" /\ answers
    /\ artifact' \in {artifact, source}
    /\ \/ planned(artifact') /\ pc' = "deploy" /\ UNCHANGED raising
       \/ ~planned(artifact') /\ Raise
    /\ deployed' = artifact'
    /\ UNCHANGED <<handler, saved, known, secrets, stopped, world, source, edits,
                   taken, plan>>

Deploy ==
    /\ Step("deploy", "compare") /\ answers
    /\ UNCHANGED <<handler, saved, known, secrets, stopped, world, tree, taken,
                   plan, deployed>>

DeploymentStep ==
    \/ Rebuild \/ Start \/ Listen \/ Keys \/ Declare \/ Deploy
    \/ StepFails({"rebuild", "log", "listen", "keys", "declare", "deploy"})
    \/ ServerStep /\ UNCHANGED <<tree, taken, plan, deployed>>
=============================================================================
