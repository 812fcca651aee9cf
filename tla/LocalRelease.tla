------------------------------- MODULE LocalRelease -------------------------------
(***************************************************************************)
(* scripts/release/local.py: a plan is made from a build, carried out on a *)
(* devnet of its own, and recorded, if the source is still that of the     *)
(* plan, in a file that no other is replaced by.  check_ci_records.py then *)
(* looks at the record.                                                    *)
(***************************************************************************)
EXTENDS LocalDeployment

VARIABLES
    mode,       \* plan or deploy-local
    output,     \* absent, other or record
    foreign,    \* history: the file at the output is or was another's
    record,     \* what the record says
    checked     \* check_ci_records.py accepted it

release == <<mode, output, foreign, record, checked>>
vars == <<pc, raising, handler, saved, signals, hit, server, known, code, secrets,
          stopped, source, edits, artifact, taken, plan, deployed, mode, output,
          foreign, record, checked>>

NoPlan == [class |-> None, artifact |-> None, source |-> None]
NoRecord == [class |-> None, artifact |-> None, source |-> None, server |-> None]

Init ==
    /\ ServerInit
    /\ pc = "begin"
    /\ source \in Source /\ edits = 0
    /\ artifact \in Source
    /\ taken = FALSE /\ plan = NoPlan /\ deployed = None
    /\ mode \in {"plan", "deploy-local"}
    /\ output \in {"absent", "other"} /\ foreign = (output = "other")
    /\ record = NoRecord /\ checked = FALSE

quiet == <<handler, saved, known, secrets, stopped, world>>

OtherWrites ==
    /\ pc \notin Ended /\ output = "absent"
    /\ output' = "other" /\ foreign' = TRUE
    /\ UNCHANGED <<serverVars, tree, taken, plan, deployed, mode, record, checked>>
-----------------------------------------------------------------------------
(* main, prepare.                                                          *)

ensure_new == output = "absent"

\* The configuration, the output, the pinned versions.
Begin ==
    /\ Step("begin", "build") /\ ensure_new
    /\ UNCHANGED <<quiet, tree, taken, plan, deployed, release>>

Build ==
    /\ Step("build", "identity")
    /\ artifact' = source
    /\ UNCHANGED <<quiet, source, edits, taken, plan, deployed, release>>

Identity ==
    /\ Step("identity", "hash")
    /\ plan' = [plan EXCEPT !.class = artifact]
    /\ UNCHANGED <<quiet, tree, taken, deployed, release>>

Hash ==
    /\ Step("hash", "source")
    /\ plan' = [plan EXCEPT !.artifact = artifact]
    /\ UNCHANGED <<quiet, tree, taken, deployed, release>>

SourceIdentity ==
    /\ Step("source", IF mode = "plan" THEN "publish" ELSE "ensure")
    /\ plan' = [plan EXCEPT !.source = source]
    /\ UNCHANGED <<quiet, tree, taken, deployed, release>>
-----------------------------------------------------------------------------
(* deploy, exclusive_json.                                                 *)

EnsureNew ==
    /\ Step("ensure", "rebuild") /\ ensure_new
    /\ UNCHANGED <<quiet, tree, taken, plan, deployed, release>>

Compare ==
    /\ Step("compare", "readback") /\ artifact = plan.artifact
    /\ UNCHANGED <<quiet, tree, taken, plan, deployed, release>>

\* readback.ts looks at the artifact once more, then at what is deployed.  The
\* end of the block: the devnet is stopped before anything is recorded.
Readback ==
    /\ Step("readback", "ignore") /\ artifact = plan.class
    /\ answers /\ deployed = plan.class
    /\ UNCHANGED <<quiet, tree, taken, plan, deployed, release>>

\* Mutant: the source is not looked at again.
M_same_source == TRUE
same_source == source = plan.source

Recheck ==
    /\ Step("stopped", "publish") /\ stopped # "none" /\ same_source
    /\ UNCHANGED <<quiet, tree, taken, plan, deployed, release>>

\* ensure_new, and a temporary file with the whole record.
Publish ==
    /\ Step("publish", "link") /\ ensure_new
    /\ UNCHANGED <<quiet, tree, taken, plan, deployed, release>>

\* os.link, which replaces nothing.
Link ==
    /\ Step("link", "done") /\ output = "absent"
    /\ output' = "record"
    /\ record' = [class |-> plan.class, artifact |-> plan.artifact,
                  source |-> plan.source, server |-> stopped]
    /\ UNCHANGED <<quiet, tree, taken, plan, deployed, mode, foreign, checked>>

\* check_ci_records.py: the record of a deployment whose server was stopped.
CheckRecord ==
    /\ pc = "done" /\ ~checked
    /\ mode = "deploy-local" /\ record.server \in {"term", "kill"}
    /\ checked' = TRUE
    /\ UNCHANGED <<serverVars, tree, taken, plan, deployed, mode, output, foreign, record>>

ReleaseStep ==
    \/ Begin \/ Build \/ Identity \/ Hash \/ SourceIdentity \/ EnsureNew
    \/ Compare \/ Readback \/ Recheck \/ Publish \/ Link
    \/ StepFails({"begin", "build", "identity", "hash", "source", "ensure", "compare",
                  "readback", "stopped", "publish", "link"}) /\ UNCHANGED release
    \/ DeploymentStep /\ UNCHANGED release

Next ==
    \/ ReleaseStep
    \/ \E s \in Signals :
          Receive(s) /\ UNCHANGED <<tree, taken, plan, deployed, release>>
    \/ (Dies \/ Heeds) /\ UNCHANGED <<tree, taken, plan, deployed, release>>
    \/ (\E s \in Source : Edit(s)) /\ UNCHANGED release
    \/ OtherBuild /\ UNCHANGED release
    \/ OtherWrites \/ CheckRecord

Spec == Init /\ [][Next]_vars /\ WF_vars(ReleaseStep)
=============================================================================
