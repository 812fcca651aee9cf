--------------------------- MODULE ReviewPublication ---------------------------
(***************************************************************************)
(* The reviews of one pull request (scripts/review_ci.py, review_gate.py   *)
(* and .github/workflows/reviews.yml): runs of the workflow that start,    *)
(* prepare the context, run the reviewers and publish their verdicts,      *)
(* while the pull request moves, runs are cancelled by later ones and jobs *)
(* are run again.                                                          *)
(*                                                                         *)
(* GitHub itself is modelled from how the workflow uses it: the runs of    *)
(* the concurrency group follow one another, a job with always() outlives  *)
(* the cancellation of its run, and artifacts belong to the run, so that   *)
(* those of an earlier attempt stay until they are overwritten.            *)
(***************************************************************************)
EXTENDS Naturals, FiniteSets

CONSTANTS
    Run, Reviewer, Head,
    MaxBase,        \* bound on the commits of main
    MaxAttempt,     \* bound on the attempts of a run
    Routed,         \* the reviewers of a revision: gate.route of its paths
    MayClose,       \* TRUE: the pull request may be closed and reopened
    Faults,         \* TRUE: calls of the API, downloads and jobs may fail
    None

Base == 1 .. MaxBase
Revision == [base : Base, head : Head]

ASSUME ReviewAssumption ==
    /\ MaxBase \in Nat \ {0} /\ MaxAttempt \in Nat \ {0}
    /\ Routed \in [Revision -> SUBSET Reviewer]
    /\ MayClose \in BOOLEAN /\ Faults \in BOOLEAN
    /\ None \notin Run \cup Revision

Verdict == {"clean", "blocking"}
Result == [of : Revision, verdict : Verdict \cup {"incomplete"}]

Phase == {"unused", "queued", "start", "upload", "prepare", "review", "publish",
          "comment", "post", "check", "write", "done"}

VARIABLES
    pr,         \* the pull request
    status,     \* review/required of each head: its state, and the run it links
    comments,   \* the bot's comments
    phase, resume, attempt, cancelling, trusted, meta, start, prepare,
    manifest, job, artifact,                   \* runs
    intent, passed, results, todo, posting,    \* the status to be set, and the
                                               \* publisher's loop
    given, late   \* history: verdicts given, and writes of a run about a
                  \* revision since the pull request left it

github == <<pr, status, comments>>
jobs == <<start, prepare, manifest, job, artifact>>
queue == <<resume, attempt, cancelling, trusted>>
publisher == <<passed, results, todo, posting>>
vars == <<pr, status, comments, phase, resume, attempt, cancelling, trusted,
          meta, start, prepare, manifest, job, artifact, intent, passed,
          results, todo, posting, given, late>>

Each(x) == [r \in Run |-> x]
NoResult == [v \in Reviewer |-> None]

Init ==
    /\ pr \in [open : {TRUE}, base : {1}, head : Head]
    /\ status = [h \in Head |-> [state |-> "none", run |-> None]]
    /\ comments = {}
    /\ phase = Each("unused") /\ resume = Each("start") /\ attempt = Each(0)
    /\ cancelling = Each(FALSE) /\ trusted = Each(1) /\ meta = Each(None)
    /\ start = Each("none") /\ prepare = Each("none")
    /\ manifest = Each(None)
    /\ job = Each([v \in Reviewer |-> "todo"])
    /\ artifact = Each(NoResult)
    /\ intent = Each("pending") /\ passed = Each(FALSE)
    /\ results = Each(NoResult) /\ todo = Each({}) /\ posting = Each(None)
    /\ given = {} /\ late = Each(0)
-----------------------------------------------------------------------------
(* The pull request.                                                       *)

revision(p) == [base |-> p.base, head |-> p.head]

\* require_current, as a GET of the pull request answers it.
current(r) == pr.open /\ meta[r] = revision(pr)

Becomes(p) ==
    /\ pr' = p
    /\ late' = [r \in Run |->
           IF p.open /\ meta[r] = revision(p) THEN 0 ELSE late[r]]
    /\ UNCHANGED <<status, comments, phase, queue, meta, jobs, intent,
                   publisher, given>>

\* A push, also a forced one back to an earlier commit.
Push(h) == h # pr.head /\ Becomes([pr EXCEPT !.head = h])
MainMoves == pr.base < MaxBase /\ Becomes([pr EXCEPT !.base = @ + 1])
CloseOrReopen == MayClose /\ Becomes([pr EXCEPT !.open = ~@])
-----------------------------------------------------------------------------
(* Runs of the workflow.                                                   *)

Active(r) == phase[r] \notin {"unused", "queued", "done"}

\* A run enters the concurrency group: one that waits is dropped, and the one
\* in progress is cancelled.
Enter(r) ==
    /\ phase' = [s \in Run |->
           IF s = r THEN "queued"
           ELSE IF phase[s] = "queued" THEN "done" ELSE phase[s]]
    /\ cancelling' = [s \in Run |-> s # r /\ (cancelling[s] \/ Active(s))]
    /\ attempt' = [attempt EXCEPT ![r] = @ + 1]

Trigger(r) ==
    /\ phase[r] = "unused"
    /\ Enter(r)
    /\ trusted' = [trusted EXCEPT ![r] = pr.base]
    /\ UNCHANGED <<github, resume, meta, jobs, intent, publisher, given, late>>

Expected(r) == Routed[manifest[r]]

\* The context is made again whenever the metadata may be new.
prepares_again(first) == first \in {"start", "prepare"}

\* Jobs of a finished run are run again from one of them on, with the jobs
\* that need it: all, the failed ones, or one that somebody picked.
Rerun(r, first, again) ==
    /\ phase[r] = "done"
    /\ attempt[r] < MaxAttempt
    /\ first # "start" => start[r] = "success"
    /\ first = "review" => prepare[r] = "success" /\ again \subseteq Expected(r)
    /\ (first = "review") = (again # {})
    /\ Enter(r)
    /\ resume' = [resume EXCEPT ![r] = first]
    /\ job' = [job EXCEPT ![r] = [v \in Reviewer |->
           IF v \in again \/ first \in {"start", "prepare"} THEN "todo" ELSE @[v]]]
    /\ start' = [start EXCEPT ![r] = IF first = "start" THEN "none" ELSE @]
    /\ prepare' = [prepare EXCEPT ![r] =
           IF prepares_again(first) THEN "none" ELSE @]
    /\ UNCHANGED <<github, trusted, meta, manifest, artifact, intent, publisher,
                   given, late>>

group_free == \A s \in Run : ~Active(s)

BeginRun(r) ==
    /\ phase[r] = "queued"
    /\ group_free
    /\ phase' = [phase EXCEPT ![r] = resume[r]]
    /\ UNCHANGED <<github, queue, meta, jobs, intent, publisher, given, late>>

starting(r) ==
    \/ phase[r] \in {"start", "upload"}
    \/ phase[r] \in {"check", "write"} /\ intent[r] = "pending"

\* What follows a job that failed or was cancelled: the publisher, always().
\* Mutant: it needs the success of the others.
M_anyway == "done"
anyway == "publish"

\* The job of a cancelled run ends; that of the publisher goes on.
CancelJob(r) ==
    /\ cancelling[r]
    /\ \/ /\ starting(r)
          /\ start' = [start EXCEPT ![r] = "cancelled"]
          /\ phase' = [phase EXCEPT ![r] = "done"]
          /\ UNCHANGED <<prepare, job>>
       \/ /\ phase[r] = "prepare"
          /\ prepare' = [prepare EXCEPT ![r] = "cancelled"]
          /\ phase' = [phase EXCEPT ![r] = anyway]
          /\ UNCHANGED <<start, job>>
       \/ /\ phase[r] = "review"
          /\ job' = [job EXCEPT ![r] = [v \in Reviewer |->
                 IF job[r][v] = "todo" THEN "cancelled" ELSE job[r][v]]]
          /\ phase' = [phase EXCEPT ![r] = anyway]
          /\ UNCHANGED <<start, prepare>>
    /\ UNCHANGED <<github, queue, meta, manifest, artifact, intent, publisher,
                   given, late>>

\* What publish() kept in its variables.
Forgets(r) ==
    /\ passed' = [passed EXCEPT ![r] = FALSE]
    /\ results' = [results EXCEPT ![r] = NoResult]
    /\ todo' = [todo EXCEPT ![r] = {}]
    /\ posting' = [posting EXCEPT ![r] = None]

\* A job's runner is lost, or its time is up.
JobDies(r) ==
    /\ Faults
    /\ phase[r] \in {"publish", "comment", "post", "check", "write"}
    /\ Forgets(r)
    /\ start' = [start EXCEPT ![r] =
           IF starting(r) THEN "failure" ELSE @]
    /\ phase' = [phase EXCEPT ![r] = "done"]
    /\ UNCHANGED <<github, queue, meta, prepare, manifest, job, artifact,
                   intent, given, late>>
-----------------------------------------------------------------------------
(* Setting the status: set_status checks that the revision is current, and *)
(* then writes.                                                            *)

\* The status could not be set: start fails, a publisher revokes, once.
Refused(r) ==
    /\ phase' = [phase EXCEPT ![r] =
           IF intent[r] \in {"pending", "revoke"} THEN "done" ELSE "check"]
    /\ start' = [start EXCEPT ![r] = IF intent[r] = "pending" THEN "failure" ELSE @]
    /\ intent' = [intent EXCEPT ![r] = IF @ = "pending" THEN @ ELSE "revoke"]

Check(r) ==
    /\ phase[r] = "check"
    /\ \/ /\ current(r)
          /\ phase' = [phase EXCEPT ![r] = "write"]
          /\ UNCHANGED <<start, intent>>
       \/ /\ ~current(r) \/ Faults
          /\ Refused(r)
    /\ UNCHANGED <<github, queue, meta, prepare, manifest, job, artifact,
                   publisher, given, late>>

state_of(r) == IF intent[r] = "revoke" THEN "failure" ELSE intent[r]

\* Counts a write about a revision that the pull request has left.
Written(r) == late' = [late EXCEPT ![r] = IF current(r) THEN @ ELSE @ + 1]

Set(r) ==
    /\ status' = [status EXCEPT ![meta[r].head] =
           [state |-> state_of(r), run |-> r]]
    /\ Written(r)

\* The write.  An answer that fails says nothing of its effect.
Write(r) ==
    /\ phase[r] = "write"
    /\ \/ /\ Set(r)
          /\ phase' = [phase EXCEPT ![r] =
                 IF intent[r] = "pending" THEN "upload" ELSE "done"]
          /\ UNCHANGED <<start, intent>>
       \/ /\ Faults
          /\ Set(r) \/ UNCHANGED <<status, late>>
          /\ Refused(r)
    /\ UNCHANGED <<pr, comments, queue, meta, prepare, manifest, job, artifact,
                   publisher, given>>
-----------------------------------------------------------------------------
(* start, prepare and the reviewers.                                       *)

\* The metadata of the pull request as it is now.
Start(r) ==
    /\ phase[r] = "start"
    /\ \/ /\ pr.open /\ pr.base = trusted[r]
          /\ meta' = [meta EXCEPT ![r] = revision(pr)]
          /\ late' = [late EXCEPT ![r] = 0]
          /\ intent' = [intent EXCEPT ![r] = "pending"]
          /\ phase' = [phase EXCEPT ![r] = "check"]
          /\ UNCHANGED start
       \/ /\ ~pr.open \/ pr.base # trusted[r] \/ Faults
          /\ start' = [start EXCEPT ![r] = "failure"]
          /\ phase' = [phase EXCEPT ![r] = "done"]
          /\ UNCHANGED <<meta, late, intent>>
    /\ UNCHANGED <<github, queue, prepare, manifest, job, artifact, publisher,
                   given>>

\* The metadata is kept for the run, whose later jobs depend on it.
Upload(r) ==
    /\ phase[r] = "upload"
    /\ \/ /\ start' = [start EXCEPT ![r] = "success"]
          /\ phase' = [phase EXCEPT ![r] = "prepare"]
       \/ /\ Faults
          /\ start' = [start EXCEPT ![r] = "failure"]
          /\ phase' = [phase EXCEPT ![r] = "done"]
    /\ UNCHANGED <<github, queue, meta, prepare, manifest, job, artifact,
                   intent, publisher, given, late>>

Prepare(r) ==
    /\ phase[r] = "prepare"
    /\ \/ /\ prepare' = [prepare EXCEPT ![r] = "success"]
          /\ manifest' = [manifest EXCEPT ![r] = meta[r]]
          /\ phase' = [phase EXCEPT ![r] =
                 IF Routed[meta[r]] = {} THEN "publish" ELSE "review"]
       \/ /\ prepare' = [prepare EXCEPT ![r] = "failure"]
          /\ phase' = [phase EXCEPT ![r] = anyway]
          /\ UNCHANGED manifest
    /\ UNCHANGED <<github, queue, meta, start, job, artifact, intent, publisher,
                   given, late>>

\* The record a reviewer leaves names the revision of the context it read.
Record(r, v, verdict) ==
    artifact' = [artifact EXCEPT ![r][v] = [of |-> manifest[r], verdict |-> verdict]]

\* The result of the matrix job.
review_status(r) ==
    IF Expected(r) = {} THEN "skipped"
    ELSE IF \A v \in Expected(r) : job[r][v] = "success" THEN "success"
    ELSE "failure"

\* One reviewer of the matrix.  It may end without a record of its own: then
\* that of an earlier attempt stays.
Review(r, v) ==
    /\ phase[r] = "review"
    /\ v \in Expected(r)
    /\ job[r][v] = "todo"
    /\ \/ \E verdict \in Verdict :
             /\ Record(r, v, verdict)
             /\ given' = given \cup
                   {[of |-> manifest[r], reviewer |-> v, verdict |-> verdict]}
             /\ job' = [job EXCEPT ![r][v] = "success"]
       \/ /\ Record(r, v, "incomplete") \/ UNCHANGED artifact
          /\ UNCHANGED given
          /\ job' = [job EXCEPT ![r][v] = "failure"]
    /\ UNCHANGED <<github, queue, meta, start, prepare, manifest, intent,
                   publisher, late>>
    /\ phase' = [phase EXCEPT ![r] =
           IF \E w \in Expected(r) : job'[r][w] = "todo" THEN @
           ELSE IF review_status(r)' = "success" THEN "publish" ELSE anyway]
-----------------------------------------------------------------------------
(* publish.                                                                *)

\* A complete review of the revision.
\* Mutant: results of another revision count.
M_complete(result, x) == result # None /\ result.verdict # "incomplete"
complete(result, x) ==
    /\ result # None
    /\ result.of = x
    /\ result.verdict # "incomplete"

\* gate.assess: no result of a reviewer that is not expected, a complete one of
\* each that is, and none that blocks.
\* Mutant: reviewers without a result are not missed.
M_assess(expected, got, x) ==
    \A v \in Reviewer : got[v] # None =>
        v \in expected /\ complete(got[v], x) /\ got[v].verdict = "clean"
assess(expected, got, x) ==
    /\ \A v \in Reviewer : got[v] # None => v \in expected
    /\ \A v \in expected : complete(got[v], x) /\ got[v].verdict = "clean"

\* publish() returns or raises: the status is set.
Returns(r) ==
    /\ phase' = [phase EXCEPT ![r] = "check"]
    /\ Forgets(r)

Revoke(r) ==
    /\ intent' = [intent EXCEPT ![r] = "revoke"]
    /\ Returns(r)

\* What the results download brings: what there is, or less.
Downloads(r) ==
    IF Expected(r) = {} THEN {NoResult}
    ELSE IF ~Faults THEN {artifact[r]}
    ELSE {[v \in Reviewer |-> IF v \in lost THEN None ELSE artifact[r][v]] :
             lost \in SUBSET Reviewer}

Publish(r) ==
    /\ phase[r] = "publish"
    /\ \/ /\ ~current(r) \/ Faults
          /\ Revoke(r)
       \/ /\ current(r)
          /\ prepare[r] # "success" \/ Faults
          /\ intent' = [intent EXCEPT ![r] = "failure"]
          /\ Returns(r)
       \/ /\ current(r)
          /\ prepare[r] = "success"
          /\ manifest[r] # meta[r]
          /\ Revoke(r)
       \/ /\ current(r)
          /\ prepare[r] = "success"
          /\ manifest[r] = meta[r]
          /\ \E got \in Downloads(r) :
                /\ results' = [results EXCEPT ![r] = got]
                /\ passed' = [passed EXCEPT ![r] =
                       /\ assess(Expected(r), got, meta[r])
                       /\ review_status(r) \in {"success", "skipped"}]
          /\ todo' = [todo EXCEPT ![r] = Expected(r)]
          /\ phase' = [phase EXCEPT ![r] = "comment"]
          /\ UNCHANGED <<intent, posting>>
    /\ UNCHANGED <<github, queue, meta, jobs, given, late>>

\* A comment's text: the findings of a complete review, or that it is incomplete.
body(r, v) ==
    IF complete(results[r][v], meta[r]) THEN results[r][v].verdict
    ELSE "incomplete"

comment(r, v) ==
    [run |-> r, attempt |-> attempt[r], reviewer |-> v, of |-> meta[r],
     body |-> body(r, v)]

\* The comments that carry the marker of this reviewer in this attempt.
\* Mutant: the marker names the run only.
M_matching(r, v) == {c \in comments : c.run = r /\ c.reviewer = v}
matching(r, v) ==
    {c \in comments : c.run = r /\ c.attempt = attempt[r] /\ c.reviewer = v}

collides(r, v) == matching(r, v) \notin {{}, {comment(r, v)}}

\* Mutant: the revision is not checked again before each comment.
M_still_current(r) == TRUE
still_current(r) == current(r)

\* publication_action for the next reviewer.
Comment(r, v) ==
    /\ phase[r] = "comment"
    /\ v \in todo[r]
    /\ \/ /\ collides(r, v) \/ ~still_current(r) \/ Faults
          /\ Revoke(r)
       \/ /\ ~collides(r, v) /\ still_current(r)
          /\ todo' = [todo EXCEPT ![r] = @ \ {v}]
          /\ IF matching(r, v) = {}
             THEN /\ posting' = [posting EXCEPT ![r] = v]
                  /\ phase' = [phase EXCEPT ![r] = "post"]
             ELSE UNCHANGED <<posting, phase>>
          /\ UNCHANGED <<intent, passed, results>>
    /\ UNCHANGED <<github, queue, meta, jobs, given, late>>

Says(r) ==
    /\ comments' = comments \cup {comment(r, posting[r])}
    /\ Written(r)

Post(r) ==
    /\ phase[r] = "post"
    /\ \/ /\ Says(r)
          /\ phase' = [phase EXCEPT ![r] = "comment"]
          /\ posting' = [posting EXCEPT ![r] = None]
          /\ UNCHANGED <<intent, passed, results, todo>>
       \/ /\ Faults
          /\ Says(r) \/ UNCHANGED <<comments, late>>
          /\ Revoke(r)
    /\ UNCHANGED <<pr, status, queue, meta, jobs, given>>

\* Every comment is there: the status follows.
commented(r) == todo[r] = {}

Conclude(r) ==
    /\ phase[r] = "comment"
    /\ commented(r)
    /\ intent' = [intent EXCEPT ![r] = IF passed[r] THEN "success" ELSE "failure"]
    /\ Returns(r)
    /\ UNCHANGED <<github, queue, meta, jobs, given, late>>
-----------------------------------------------------------------------------
PullRequest == MainMoves \/ CloseOrReopen \/ \E h \in Head : Push(h)

Work(r) ==
    \/ BeginRun(r) \/ CancelJob(r) \/ Start(r) \/ Check(r) \/ Write(r)
    \/ Upload(r) \/ Prepare(r) \/ Publish(r) \/ Post(r) \/ Conclude(r)
    \/ \E v \in Reviewer : Review(r, v) \/ Comment(r, v)

Next ==
    \/ PullRequest
    \/ \E r \in Run :
          \/ Trigger(r) \/ Work(r) \/ JobDies(r)
          \/ \E first \in {"start", "prepare", "review", "publish"},
                again \in SUBSET Reviewer : Rerun(r, first, again)

\* GitHub runs the jobs that are due, and ends those that take too long.
Fairness == \A r \in Run : WF_vars(Work(r))

Spec == Init /\ [][Next]_vars /\ Fairness
=============================================================================
