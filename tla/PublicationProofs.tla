--------------------------- MODULE PublicationProofs ---------------------------
(***************************************************************************)
(* That a green status is earned, that comments say what reviewers said,   *)
(* that a run stops when its pull request has moved, that reruns are not   *)
(* blocked, and how runs end, for any pull request, runs, attempts,        *)
(* cancellations and faults.                                               *)
(***************************************************************************)
EXTENDS PublicationProperties, TLAPS

USE ReviewAssumption

-----------------------------------------------------------------------------
(* The invariant.                                                          *)

Report == Result \cup {None}
Resumed == {"start", "prepare", "review", "publish"}
Intent == {"pending", "success", "failure", "revoke"}
Outcome == {"none", "cancelled", "failure", "success"}
Statuses == [state : {"none", "pending", "success", "failure"}, run : Run \cup {None}]

ReviewTypeOK ==
    /\ pr \in [open : BOOLEAN, base : Base, head : Head]
    /\ status \in [Head -> Statuses]
    /\ phase \in [Run -> Phase] /\ resume \in [Run -> Resumed]
    /\ attempt \in [Run -> Nat] /\ late \in [Run -> Nat]
    /\ start \in [Run -> Outcome] /\ prepare \in [Run -> Outcome]
    /\ meta \in [Run -> Revision \cup {None}] /\ manifest \in [Run -> Revision \cup {None}]
    /\ intent \in [Run -> Intent] /\ passed \in [Run -> BOOLEAN]
    /\ artifact \in [Run -> [Reviewer -> Report]]
    /\ results \in [Run -> [Reviewer -> Report]]
    /\ todo \in [Run -> SUBSET Reviewer] /\ posting \in [Run -> Reviewer \cup {None}]

\* A job knows the revision it is about, and a reviewer that of its context.
Working == {"upload", "prepare", "review", "publish", "comment", "post", "check", "write"}

Known(r) ==
    /\ start[r] = "success" \/ resume[r] # "start" \/ phase[r] \in Working
          => meta[r] \in Revision
    /\ prepare[r] = "success" \/ resume[r] = "review" \/ phase[r] = "review"
          => manifest[r] \in Revision

RevisionsKnown == \A r \in Run : Known(r)

\* A report that a reviewer completed is one it gave.
Said(report, v) ==
    report # None /\ report.verdict # "incomplete" =>
        [of |-> report.of, reviewer |-> v, verdict |-> report.verdict] \in given

Reports(r) == \A v \in Reviewer : Said(artifact[r][v], v) /\ Said(results[r][v], v)

ReportsAreGiven == \A r \in Run : Reports(r)

\* A run that has written about a revision since the pull request left it is
\* about to find that out.
Stopping(r) ==
    late[r] # 0 => late[r] = 1 /\ ~current(r) /\ phase[r] \notin {"write", "post"}

LateStops == \A r \in Run : Stopping(r)

\* This attempt of the run has yet to come to its comments.
Early(r) ==
    \/ phase[r] \in {"unused", "queued", "start", "upload", "prepare", "review", "publish"}
    \/ phase[r] \in {"check", "write"} /\ intent[r] = "pending"

Own(r) == {c \in comments : c.run = r /\ c.attempt = attempt[r]}

\* No comment is of an attempt to come, nor of one that has not come to its
\* comments; those of the others are on reviewers that are done.
Follows(r) ==
    /\ \A c \in comments : c.run = r => c.attempt \in Nat /\ c.attempt <= attempt[r]
    /\ Early(r) => Own(r) = {}
    /\ phase[r] \in {"comment", "post"} => \A c \in Own(r) : c.reviewer \notin todo[r]
    /\ phase[r] = "post" => /\ posting[r] \in Reviewer \ todo[r]
                            /\ \A c \in Own(r) : c.reviewer # posting[r]

CommentsFollowTodo == \A r \in Run : Follows(r)

\* What a publisher that writes comments has found, and has written.
Publishing(r) ==
    /\ manifest[r] = meta[r]
    /\ passed[r] => assess(Expected(r), results[r], meta[r])
    /\ \A v \in Expected(r) \ todo[r] :
          (phase[r] = "post" /\ v = posting[r]) \/ comment(r, v) \in comments

\* Every reviewer of the revision has a comment without findings.
Visible(r, x) ==
    \A v \in Routed[x] : \E c \in comments :
        c.run = r /\ c.reviewer = v /\ c.of = x /\ c.body = "clean"

Earned(r) ==
    /\ phase[r] \in {"comment", "post"} => Publishing(r)
    /\ phase[r] \in {"check", "write"} /\ intent[r] = "success" => Visible(r, meta[r])

SuccessIsEarned == \A r \in Run : Earned(r)

ReviewInv ==
    /\ ReviewTypeOK /\ RevisionsKnown /\ ReportsAreGiven /\ LateStops
    /\ CommentsFollowTodo /\ SuccessIsEarned
    /\ SuccessIsVisible /\ CommentsAreTruthful

-----------------------------------------------------------------------------
(* A step is one of the pull request, or one of a run.                     *)

RunStep(r) ==
    \/ Trigger(r) \/ Work(r) \/ JobDies(r)
    \/ \E first \in Resumed, again \in SUBSET Reviewer : Rerun(r, first, again)

LEMMA StepCases ==
    [Next]_vars <=> PullRequest \/ (\E r \in Run : RunStep(r)) \/ UNCHANGED vars
  BY DEF Next, RunStep, Resumed

-----------------------------------------------------------------------------
(* Types.                                                                  *)

LEMMA InitTypes == Init => ReviewTypeOK
<1> SUFFICES ASSUME Init PROVE ReviewTypeOK
  OBVIOUS
<1>1. pr \in [open : BOOLEAN, base : Base, head : Head]
  <2>1. {TRUE} \subseteq BOOLEAN /\ {1} \subseteq Base
    BY DEF Base
  <2> QED
    BY <2>1 DEF Init
<1>4. status \in [Head -> Statuses]
  <2>1. [state |-> "none", run |-> None] \in Statuses
    BY DEF Statuses
  <2> QED
    BY <2>1 DEF Init
<1>2. /\ phase \in [Run -> Phase] /\ resume \in [Run -> Resumed]
      /\ attempt \in [Run -> Nat] /\ late \in [Run -> Nat]
      /\ start \in [Run -> Outcome] /\ prepare \in [Run -> Outcome]
      /\ meta \in [Run -> Revision \cup {None}] /\ manifest \in [Run -> Revision \cup {None}]
      /\ intent \in [Run -> Intent] /\ passed \in [Run -> BOOLEAN]
  BY DEF Init, Each, Phase, Resumed, Intent, Outcome
<1>3. /\ artifact \in [Run -> [Reviewer -> Report]]
      /\ results \in [Run -> [Reviewer -> Report]]
      /\ todo \in [Run -> SUBSET Reviewer] /\ posting \in [Run -> Reviewer \cup {None}]
  BY DEF Init, Each, NoResult, Report
<1> QED
  BY <1>1, <1>2, <1>3, <1>4 DEF ReviewTypeOK

LEMMA ForgetsTypes ==
    ASSUME ReviewTypeOK, NEW r \in Run, Forgets(r)
    PROVE  /\ passed' \in [Run -> BOOLEAN] /\ results' \in [Run -> [Reviewer -> Report]]
           /\ todo' \in [Run -> SUBSET Reviewer] /\ posting' \in [Run -> Reviewer \cup {None}]
<1>1. NoResult \in [Reviewer -> Report]
  BY DEF NoResult, Report
<1>2. results' \in [Run -> [Reviewer -> Report]]
  <2> HIDE DEF NoResult, Report
  <2> QED
    BY <1>1 DEF Forgets, ReviewTypeOK
<1>3. todo' \in [Run -> SUBSET Reviewer]
  BY DEF Forgets, ReviewTypeOK
<1> QED
  BY <1>2, <1>3 DEF Forgets, ReviewTypeOK

LEMMA WrittenTypes ==
    ASSUME ReviewTypeOK, NEW r \in Run, Written(r)
    PROVE  late' \in [Run -> Nat]
<1>1. late \in [Run -> Nat] /\ late[r] + 1 \in Nat
  BY DEF ReviewTypeOK
<1> QED
  BY <1>1 DEF Written

LEMMA RevisionTypes ==
    ASSUME NEW f \in [Run -> Revision \cup {None}], NEW r \in Run,
           NEW x \in Revision \cup {None}
    PROVE  [f EXCEPT ![r] = x] \in [Run -> Revision \cup {None}]
  OBVIOUS

LEMMA NextTypes == ReviewTypeOK /\ RevisionsKnown /\ [Next]_vars => ReviewTypeOK'
<1> SUFFICES ASSUME ReviewTypeOK, RevisionsKnown, [Next]_vars PROVE ReviewTypeOK'
  OBVIOUS
<1> USE DEF ReviewTypeOK, Outcome, github, jobs, queue, publisher
<1>1. CASE PullRequest
  <2>1. PICK p \in [open : BOOLEAN, base : Base, head : Head] : Becomes(p)
    <3>1. CASE MainMoves
      <4>1. pr.base + 1 \in Base
        BY <3>1 DEF MainMoves, Base
      <4>2. [pr EXCEPT !.base = @ + 1] \in [open : BOOLEAN, base : Base, head : Head]
        BY <4>1
      <4> QED
        BY <3>1, <4>2 DEF MainMoves
    <3>2. CASE CloseOrReopen
      <4>1. [pr EXCEPT !.open = ~@] \in [open : BOOLEAN, base : Base, head : Head]
        OBVIOUS
      <4> QED
        BY <3>2, <4>1 DEF CloseOrReopen
    <3>3. ASSUME NEW h \in Head, Push(h)
          PROVE  \E p \in [open : BOOLEAN, base : Base, head : Head] : Becomes(p)
      <4>1. [pr EXCEPT !.head = h] \in [open : BOOLEAN, base : Base, head : Head]
        OBVIOUS
      <4> QED
        BY <3>3, <4>1 DEF Push
    <3> QED
      BY <1>1, <3>1, <3>2, <3>3 DEF PullRequest
  <2> QED
    BY <2>1 DEF Becomes
<1>2. ASSUME NEW r \in Run, Trigger(r) PROVE ReviewTypeOK'
  BY <1>2 DEF Trigger, Enter, Phase
<1>3. ASSUME NEW r \in Run, NEW first \in Resumed, NEW again, Rerun(r, first, again)
      PROVE  ReviewTypeOK'
  BY <1>3 DEF Rerun, Enter, Phase
<1>4. ASSUME NEW r \in Run, BeginRun(r) PROVE ReviewTypeOK'
  BY <1>4 DEF BeginRun, Phase, Resumed
<1>5. ASSUME NEW r \in Run, CancelJob(r) PROVE ReviewTypeOK'
  BY <1>5 DEF CancelJob, Phase, anyway
<1>6. ASSUME NEW r \in Run, JobDies(r) PROVE ReviewTypeOK'
  BY <1>6, ForgetsTypes DEF JobDies, Phase
<1>7. ASSUME NEW r \in Run, Start(r) PROVE ReviewTypeOK'
  <2>1. revision(pr) \in Revision
    BY DEF revision, Revision
  <2>2. meta' \in [Run -> Revision \cup {None}] /\ late' \in [Run -> Nat]
    <3>1. UNCHANGED meta \/ meta' = [meta EXCEPT ![r] = revision(pr)]
      BY <1>7 DEF Start
    <3>2. UNCHANGED late \/ late' = [late EXCEPT ![r] = 0]
      BY <1>7 DEF Start
    <3>3. meta' \in [Run -> Revision \cup {None}]
      BY <2>1, <3>1, RevisionTypes
    <3>4. late' \in [Run -> Nat]
      <4>1. late \in [Run -> Nat]
        OBVIOUS
      <4> HIDE DEF ReviewTypeOK
      <4> QED
        BY <3>2, <4>1
    <3> QED
      BY <3>3, <3>4
  <2> QED
    BY <1>7, <2>2 DEF Start, Phase, Intent
<1>8. ASSUME NEW r \in Run, Check(r) PROVE ReviewTypeOK'
  BY <1>8 DEF Check, Refused, Phase, Intent
<1>9. ASSUME NEW r \in Run, Write(r) PROVE ReviewTypeOK'
  <2>1. [state |-> state_of(r), run |-> r] \in Statuses
    BY DEF state_of, Statuses, Intent
  <2>2. status' \in [Head -> Statuses]
    <3>1. CASE UNCHANGED status
      BY <3>1
    <3>2. CASE Set(r)
      BY <2>1, <3>2 DEF Set
    <3> QED
      BY <1>9, <3>1, <3>2 DEF Write
  <2>3. late' \in [Run -> Nat]
    <3>1. UNCHANGED late \/ Written(r)
      BY <1>9 DEF Write, Set
    <3> QED
      BY <3>1, WrittenTypes
  <2> QED
    BY <1>9, <2>2, <2>3 DEF Write, Refused, Phase, Intent
<1>10. ASSUME NEW r \in Run, Upload(r) PROVE ReviewTypeOK'
  BY <1>10 DEF Upload, Phase
<1>11. ASSUME NEW r \in Run, Prepare(r) PROVE ReviewTypeOK'
  <2>1. manifest' \in [Run -> Revision \cup {None}] /\ prepare' \in [Run -> Outcome]
    <3>1. UNCHANGED manifest \/ manifest' = [manifest EXCEPT ![r] = meta[r]]
      BY <1>11 DEF Prepare
    <3>2. manifest' \in [Run -> Revision \cup {None}]
      <4>1. meta[r] \in Revision \cup {None}
        OBVIOUS
      <4> QED
        BY <3>1, <4>1, RevisionTypes
    <3> QED
      BY <1>11, <3>2 DEF Prepare
  <2>2. phase' \in [Run -> Phase]
    <3>1. \E next \in {"publish", "review"} : phase' = [phase EXCEPT ![r] = next]
      BY <1>11 DEF Prepare, anyway
    <3> QED
      BY <3>1 DEF Phase
  <2> QED
    BY <1>11, <2>1, <2>2 DEF Prepare
<1>12. ASSUME NEW r \in Run, NEW v \in Reviewer, Review(r, v) PROVE ReviewTypeOK'
  <2>1. manifest[r] \in Revision
    BY <1>12 DEF Review, RevisionsKnown, Known
  <2>2. artifact' \in [Run -> [Reviewer -> Report]]
    <3>1. \A x \in Verdict \cup {"incomplete"} :
             [of |-> manifest[r], verdict |-> x] \in Report
      BY <2>1 DEF Report, Result
    <3>2. \A x \in Verdict \cup {"incomplete"} :
             Record(r, v, x) => artifact' \in [Run -> [Reviewer -> Report]]
      BY <3>1 DEF Record
    <3> QED
      BY <1>12, <3>2 DEF Review
  <2> QED
    BY <1>12, <2>2 DEF Review, Phase, anyway
<1>13. ASSUME NEW r \in Run, Publish(r) PROVE ReviewTypeOK'
  <2>1. \A got \in Downloads(r) : got \in [Reviewer -> Report]
    BY DEF Downloads, NoResult, Report
  <2>2. results' \in [Run -> [Reviewer -> Report]]
    <3>1. CASE Forgets(r)
      BY <3>1, ForgetsTypes
    <3>2. CASE \E got \in Downloads(r) : results' = [results EXCEPT ![r] = got]
      <4>1. PICK got \in [Reviewer -> Report] : results' = [results EXCEPT ![r] = got]
        BY <2>1, <3>2
      <4> QED
        BY <4>1
    <3> QED
      BY <1>13, <3>1, <3>2 DEF Publish, Revoke, Returns
  <2>3. todo' \in [Run -> SUBSET Reviewer]
    <3>1. manifest[r] = meta[r] /\ current(r) => Expected(r) \in SUBSET Reviewer
      BY DEF Expected, current, revision, Revision
    <3>2. CASE Forgets(r)
      BY <3>2, ForgetsTypes
    <3>3. CASE todo' = [todo EXCEPT ![r] = Expected(r)] /\ current(r) /\ manifest[r] = meta[r]
      BY <3>1, <3>3
    <3> QED
      BY <1>13, <3>2, <3>3 DEF Publish, Revoke, Returns
  <2>4. passed' \in [Run -> BOOLEAN]
    BY <1>13 DEF Publish, Revoke, Returns, Forgets, assess
  <2>5. /\ phase' \in [Run -> Phase] /\ intent' \in [Run -> Intent]
        /\ posting' \in [Run -> Reviewer \cup {None}]
    BY <1>13 DEF Publish, Revoke, Returns, Forgets, Phase, Intent
  <2> QED
    BY <1>13, <2>2, <2>3, <2>4, <2>5 DEF Publish
<1>14. ASSUME NEW r \in Run, NEW v \in Reviewer, Comment(r, v) PROVE ReviewTypeOK'
  <2>p. phase' \in [Run -> Phase]
    <3>1. \/ Revoke(r)
          \/ UNCHANGED phase
          \/ phase' = [phase EXCEPT ![r] = "post"]
      BY <1>14 DEF Comment
    <3> QED
      BY <3>1 DEF Revoke, Returns, Phase
  <2>i. intent' \in [Run -> Intent]
    BY <1>14 DEF Comment, Revoke, Intent
  <2>1. CASE Forgets(r)
    BY <1>14, <2>p, <2>i, <2>1, ForgetsTypes DEF Comment
  <2>2. CASE todo' = [todo EXCEPT ![r] = @ \ {v}]
    <3>1. todo' \in [Run -> SUBSET Reviewer]
      BY <2>2
    <3>2. \/ Forgets(r)
          \/ UNCHANGED posting
          \/ posting' = [posting EXCEPT ![r] = v]
      BY <1>14 DEF Comment, Revoke, Returns
    <3>3. posting' \in [Run -> Reviewer \cup {None}]
      BY <3>2, ForgetsTypes
    <3> QED
      BY <1>14, <2>p, <2>i, <3>1, <3>3, ForgetsTypes DEF Comment, Revoke, Returns
  <2> QED
    BY <1>14, <2>1, <2>2 DEF Comment, Revoke, Returns
<1>15. ASSUME NEW r \in Run, Post(r) PROVE ReviewTypeOK'
  <2>1. late' \in [Run -> Nat]
    <3>1. UNCHANGED late \/ Written(r)
      BY <1>15 DEF Post, Says
    <3> QED
      BY <3>1, WrittenTypes
  <2>2. phase' \in [Run -> Phase] /\ intent' \in [Run -> Intent]
    BY <1>15 DEF Post, Revoke, Returns, Phase, Intent
  <2>3. CASE Forgets(r)
    BY <1>15, <2>1, <2>2, <2>3, ForgetsTypes DEF Post
  <2>4. CASE UNCHANGED <<passed, results, todo>> /\ posting' = [posting EXCEPT ![r] = None]
    BY <1>15, <2>1, <2>2, <2>4 DEF Post
  <2> QED
    BY <1>15, <2>3, <2>4 DEF Post, Revoke, Returns
<1>16. ASSUME NEW r \in Run, Conclude(r) PROVE ReviewTypeOK'
  BY <1>16, ForgetsTypes DEF Conclude, Returns, Phase, Intent
<1>17. CASE UNCHANGED vars
  BY <1>17 DEF vars
<1> HIDE DEF ReviewTypeOK, Outcome, github, jobs, queue, publisher
<1> QED
  BY <1>1, <1>2, <1>3, <1>4, <1>5, <1>6, <1>7, <1>8, <1>9, <1>10, <1>11, <1>12, <1>13,
     <1>14, <1>15, <1>16, <1>17, StepCases DEF RunStep, Work

-----------------------------------------------------------------------------
(* Runs do not touch each other, but for those that wait for their turn.   *)

Stays(s) ==
    /\ resume'[s] = resume[s] /\ attempt'[s] = attempt[s] /\ late'[s] = late[s]
    /\ start'[s] = start[s] /\ prepare'[s] = prepare[s] /\ meta'[s] = meta[s]
    /\ manifest'[s] = manifest[s] /\ artifact'[s] = artifact[s]
    /\ intent'[s] = intent[s] /\ passed'[s] = passed[s] /\ results'[s] = results[s]
    /\ todo'[s] = todo[s] /\ posting'[s] = posting[s]
    /\ phase'[s] = phase[s] \/ (phase[s] = "queued" /\ phase'[s] = "done")

LEMMA ForgetsStays ==
    ASSUME ReviewTypeOK, NEW r \in Run, NEW s \in Run \ {r}, Forgets(r)
    PROVE  /\ passed'[s] = passed[s] /\ results'[s] = results[s]
           /\ todo'[s] = todo[s] /\ posting'[s] = posting[s]
<1>1. /\ passed \in [Run -> BOOLEAN] /\ results \in [Run -> [Reviewer -> Report]]
      /\ todo \in [Run -> SUBSET Reviewer] /\ posting \in [Run -> Reviewer \cup {None}]
  BY DEF ReviewTypeOK
<1> QED
  BY <1>1 DEF Forgets

LEMMA OthersStay ==
    ASSUME ReviewTypeOK, NEW r \in Run, RunStep(r)
    PROVE  \A s \in Run \ {r} : Stays(s)
<1> SUFFICES ASSUME NEW s \in Run \ {r} PROVE Stays(s)
  OBVIOUS
<1>t. /\ DOMAIN phase = Run /\ DOMAIN resume = Run /\ DOMAIN attempt = Run
      /\ DOMAIN late = Run /\ DOMAIN start = Run /\ DOMAIN prepare = Run
      /\ DOMAIN meta = Run /\ DOMAIN manifest = Run /\ DOMAIN artifact = Run
      /\ DOMAIN intent = Run /\ DOMAIN passed = Run /\ DOMAIN results = Run
      /\ DOMAIN todo = Run /\ DOMAIN posting = Run
  BY DEF ReviewTypeOK
<1> USE <1>t DEF github, jobs, queue, publisher, Stays
<1>1. CASE Trigger(r)
  BY <1>1 DEF Trigger, Enter
<1>2. ASSUME NEW first, NEW again, Rerun(r, first, again) PROVE Stays(s)
  BY <1>2 DEF Rerun, Enter
<1>3. CASE BeginRun(r) \/ CancelJob(r) \/ Start(r) \/ Upload(r) \/ Prepare(r)
  BY <1>3 DEF BeginRun, CancelJob, Start, Upload, Prepare
<1>4. CASE JobDies(r)
  BY <1>4, ForgetsStays DEF JobDies
<1>5. CASE Check(r) \/ Write(r)
  BY <1>5 DEF Check, Write, Set, Written, Refused
<1>6. ASSUME NEW v \in Reviewer, Review(r, v) PROVE Stays(s)
  BY <1>6 DEF Review, Record
<1>7. CASE Publish(r)
  BY <1>7, ForgetsStays DEF Publish, Revoke, Returns
<1>8. ASSUME NEW v \in Reviewer, Comment(r, v) PROVE Stays(s)
  BY <1>8, ForgetsStays DEF Comment, Revoke, Returns
<1>9. CASE Post(r)
  BY <1>9, ForgetsStays DEF Post, Says, Written, Revoke, Returns
<1>10. CASE Conclude(r)
  BY <1>10, ForgetsStays DEF Conclude, Returns
<1> QED
  BY <1>1, <1>2, <1>3, <1>4, <1>5, <1>6, <1>7, <1>8, <1>9, <1>10 DEF RunStep, Work

-----------------------------------------------------------------------------
(* What a run knows.                                                       *)

LEMMA StepKnown ==
    ASSUME ReviewTypeOK, NEW r \in Run, Known(r), RunStep(r)
    PROVE  Known(r)'
<1>t. /\ DOMAIN phase = Run /\ DOMAIN resume = Run /\ DOMAIN start = Run
      /\ DOMAIN prepare = Run /\ DOMAIN meta = Run /\ DOMAIN manifest = Run
      /\ phase[r] \in Phase /\ resume[r] \in Resumed
  BY DEF ReviewTypeOK
<1> USE <1>t DEF github, jobs, queue, publisher, Known, Working
<1>1. CASE Trigger(r)
  BY <1>1 DEF Trigger, Enter
<1>2. ASSUME NEW first \in Resumed, NEW again, Rerun(r, first, again) PROVE Known(r)'
  BY <1>2 DEF Rerun, Enter, prepares_again
<1>3. CASE BeginRun(r)
  BY <1>3 DEF BeginRun, Resumed
<1>4. CASE CancelJob(r)
  BY <1>4 DEF CancelJob, anyway, starting
<1>5. CASE Start(r)
  <2>1. revision(pr) \in Revision
    BY DEF ReviewTypeOK, revision, Revision
  <2> QED
    BY <1>5, <2>1 DEF Start
<1>6. CASE Upload(r)
  BY <1>6 DEF Upload
<1>7. CASE Prepare(r)
  BY <1>7 DEF Prepare, anyway
<1>8. CASE JobDies(r)
  BY <1>8 DEF JobDies, starting
<1>9. CASE Check(r)
  BY <1>9 DEF Check, Refused
<1>10. CASE Write(r)
  BY <1>10 DEF Write, Refused
<1>11. ASSUME NEW v \in Reviewer, Review(r, v) PROVE Known(r)'
  BY <1>11 DEF Review, anyway
<1>12. CASE Publish(r)
  BY <1>12 DEF Publish, Revoke, Returns
<1>13. ASSUME NEW v \in Reviewer, Comment(r, v) PROVE Known(r)'
  BY <1>13 DEF Comment, Revoke, Returns
<1>14. CASE Post(r)
  BY <1>14 DEF Post, Revoke, Returns
<1>15. CASE Conclude(r)
  BY <1>15 DEF Conclude, Returns
<1> QED
  BY <1>1, <1>2, <1>3, <1>4, <1>5, <1>6, <1>7, <1>8, <1>9, <1>10, <1>11, <1>12, <1>13,
     <1>14, <1>15 DEF RunStep, Work

LEMMA NextKnown == ReviewTypeOK /\ RevisionsKnown /\ [Next]_vars => RevisionsKnown'
<1> SUFFICES ASSUME ReviewTypeOK, RevisionsKnown, [Next]_vars PROVE RevisionsKnown'
  OBVIOUS
<1>1. CASE PullRequest \/ UNCHANGED vars
  BY <1>1 DEF PullRequest, Push, MainMoves, CloseOrReopen, Becomes, jobs, queue,
     RevisionsKnown, Known, vars
<1>2. ASSUME NEW r \in Run, RunStep(r) PROVE RevisionsKnown'
  <2>1. Known(r)'
    BY <1>2, StepKnown DEF RevisionsKnown
  <2>2. ASSUME NEW s \in Run \ {r} PROVE Known(s)'
    BY <1>2, OthersStay DEF RevisionsKnown, Known, Stays, Working
  <2> QED
    BY <2>1, <2>2 DEF RevisionsKnown
<1> QED
  BY <1>1, <1>2, StepCases

-----------------------------------------------------------------------------
(* Reports, and what they become.                                          *)

LEMMA GivenGrows == [Next]_vars => given \subseteq given'
<1>1. CASE PullRequest \/ UNCHANGED vars
  BY <1>1 DEF PullRequest, Push, MainMoves, CloseOrReopen, Becomes, vars
<1>2. ASSUME NEW r \in Run, RunStep(r) PROVE given \subseteq given'
  <2>1. ASSUME NEW v \in Reviewer, Review(r, v) PROVE given \subseteq given'
    BY <2>1 DEF Review
  <2>2. ASSUME ~(\E v \in Reviewer : Review(r, v)) PROVE given' = given
    BY <1>2, <2>2 DEF RunStep, Work, Trigger, Rerun, BeginRun, CancelJob, JobDies, Start,
       Upload, Prepare, Check, Write, Publish, Comment, Post, Conclude
  <2> QED
    BY <2>1, <2>2
<1> QED
  BY <1>1, <1>2, StepCases

LEMMA ForgetsReports ==
    ASSUME ReviewTypeOK, NEW r \in Run, Reports(r), Forgets(r),
           artifact'[r] = artifact[r], given \subseteq given'
    PROVE  Reports(r)'
<1>1. results'[r] = NoResult
  BY DEF ReviewTypeOK, Forgets
<1> QED
  BY <1>1 DEF Reports, Said, NoResult

LEMMA ReviewReports ==
    ASSUME ReviewTypeOK, NEW r \in Run, NEW v \in Reviewer, Reports(r), Review(r, v),
           given \subseteq given'
    PROVE  Reports(r)'
<1>1. results' = results
  BY DEF Review, publisher
<1>2. \A w \in Reviewer : Said(results[r][w], w)'
  BY <1>1 DEF Reports, Said
<1>3. artifact \in [Run -> [Reviewer -> Report]]
  BY DEF ReviewTypeOK
<1>4. CASE UNCHANGED artifact
  BY <1>2, <1>4 DEF Reports, Said
<1>5. ASSUME NEW verdict, Record(r, v, verdict),
             verdict # "incomplete" =>
                 [of |-> manifest[r], reviewer |-> v, verdict |-> verdict] \in given'
      PROVE  Reports(r)'
  <2>1. \A w \in Reviewer : artifact'[r][w] =
           IF w = v THEN [of |-> manifest[r], verdict |-> verdict] ELSE artifact[r][w]
    BY <1>3, <1>5 DEF Record
  <2>2. \A w \in Reviewer : Said(artifact[r][w], w)'
    <3>1. Said([of |-> manifest[r], verdict |-> verdict], v)'
      BY <1>5 DEF Said, Review
    <3>2. ASSUME NEW w \in Reviewer \ {v} PROVE Said(artifact[r][w], w)'
      BY <2>1 DEF Reports, Said
    <3>3. artifact'[r][v] = [of |-> manifest'[r], verdict |-> verdict]
      BY <2>1 DEF Review
    <3>4. Said(artifact[r][v], v)'
      BY <3>1, <3>3 DEF Said
    <3> QED
      BY <3>2, <3>4
  <2> QED
    BY <1>2, <2>2 DEF Reports
<1>6. CASE \E verdict \in Verdict :
             /\ Record(r, v, verdict)
             /\ [of |-> manifest[r], reviewer |-> v, verdict |-> verdict] \in given'
  BY <1>5, <1>6
<1>7. CASE Record(r, v, "incomplete")
  BY <1>5, <1>7
<1> QED
  BY <1>4, <1>6, <1>7 DEF Review

LEMMA PublishReports ==
    ASSUME ReviewTypeOK, NEW r \in Run, Reports(r), Publish(r), given \subseteq given'
    PROVE  Reports(r)'
<1>1. artifact' = artifact
  BY DEF Publish, jobs
<1>2. CASE Forgets(r)
  BY <1>1, <1>2, ForgetsReports
<1>3. CASE \E got \in Downloads(r) : results' = [results EXCEPT ![r] = got]
  <2>1. PICK got \in Downloads(r) : results'[r] = got
    BY <1>3 DEF ReviewTypeOK
  <2>2. \A v \in Reviewer : got[v] \in {None, artifact[r][v]}
    BY DEF Downloads, NoResult
  <2> QED
    BY <1>1, <2>1, <2>2 DEF Reports, Said
<1> QED
  BY <1>2, <1>3 DEF Publish, Revoke, Returns

LEMMA NextReports ==
    ReviewTypeOK /\ ReportsAreGiven /\ [Next]_vars => ReportsAreGiven'
<1> SUFFICES ASSUME ReviewTypeOK, ReportsAreGiven, [Next]_vars PROVE ReportsAreGiven'
  OBVIOUS
<1>g. given \subseteq given'
  BY GivenGrows
<1>s. ASSUME NEW s \in Run, artifact'[s] = artifact[s], results'[s] = results[s]
      PROVE  Reports(s)'
  BY <1>g, <1>s DEF ReportsAreGiven, Reports, Said
<1>1. CASE PullRequest \/ UNCHANGED vars
  <2>1. artifact' = artifact /\ results' = results
    BY <1>1 DEF PullRequest, Push, MainMoves, CloseOrReopen, Becomes, jobs, publisher, vars
  <2> QED
    BY <1>s, <2>1 DEF ReportsAreGiven
<1>2. ASSUME NEW r \in Run, RunStep(r) PROVE ReportsAreGiven'
  <2>1. Reports(r)'
    <3>0. Reports(r)
      BY DEF ReportsAreGiven
    <3>1. ASSUME NEW v \in Reviewer, Review(r, v) PROVE Reports(r)'
      BY <1>g, <3>0, <3>1, ReviewReports
    <3>2. CASE Publish(r)
      BY <1>g, <3>0, <3>2, PublishReports
    <3>3. CASE Forgets(r) /\ artifact' = artifact
      BY <1>g, <3>0, <3>3, ForgetsReports
    <3>4. CASE artifact' = artifact /\ results' = results
      BY <1>s, <3>4
    <3>5. \/ Forgets(r) /\ artifact' = artifact
          \/ artifact' = artifact /\ results' = results
          \/ Publish(r) \/ \E v \in Reviewer : Review(r, v)
      BY <1>2 DEF RunStep, Work, Trigger, Rerun, BeginRun, CancelJob, JobDies, Start,
         Upload, Prepare, Check, Write, Comment, Post, Conclude, Revoke, Returns,
         publisher, jobs
    <3> QED
      BY <3>1, <3>2, <3>3, <3>4, <3>5
  <2>2. ASSUME NEW s \in Run \ {r} PROVE Reports(s)'
    BY <1>2, <1>s, OthersStay DEF Stays
  <2> QED
    BY <2>1, <2>2 DEF ReportsAreGiven
<1> QED
  BY <1>1, <1>2, StepCases

-----------------------------------------------------------------------------
(* A run that is late.                                                     *)

LEMMA PullRequestStays ==
    ASSUME NEW r \in Run, RunStep(r)
    PROVE  pr' = pr
  BY DEF RunStep, Work, Trigger, Rerun, BeginRun, CancelJob, JobDies, Start, Upload,
     Prepare, Check, Write, Review, Publish, Comment, Post, Conclude, github

\* The write about a revision that has gone is the last before the next check.
LEMMA WrittenStops ==
    ASSUME ReviewTypeOK, NEW r \in Run, Stopping(r), Written(r), pr' = pr, meta' = meta,
           phase[r] \in {"write", "post"}, phase'[r] \notin {"write", "post"}
    PROVE  Stopping(r)'
<1>1. late[r] = 0 /\ late'[r] = IF current(r) THEN 0 ELSE 1
  BY DEF ReviewTypeOK, Stopping, Written
<1>2. current(r)' <=> current(r)
  BY DEF current
<1> QED
  BY <1>1, <1>2 DEF Stopping

LEMMA StepStops ==
    ASSUME ReviewTypeOK, NEW r \in Run, Stopping(r), RunStep(r)
    PROVE  Stopping(r)'
<1>t. /\ DOMAIN phase = Run /\ DOMAIN late = Run /\ DOMAIN meta = Run
      /\ resume[r] \in Resumed
  BY DEF ReviewTypeOK
<1>p. pr' = pr
  BY PullRequestStays
<1>c. meta' = meta => (current(r)' <=> current(r))
  BY <1>p DEF current
<1>s. ASSUME UNCHANGED <<meta, late>>, phase'[r] \notin {"write", "post"} PROVE Stopping(r)'
  BY <1>c, <1>s DEF Stopping
<1>1. CASE Trigger(r)
  BY <1>1, <1>s, <1>t DEF Trigger, Enter
<1>2. ASSUME NEW first, NEW again, Rerun(r, first, again) PROVE Stopping(r)'
  BY <1>2, <1>s, <1>t DEF Rerun, Enter
<1>3. CASE BeginRun(r)
  BY <1>3, <1>s, <1>t DEF BeginRun, Resumed
<1>4. CASE CancelJob(r) \/ JobDies(r) \/ Upload(r) \/ Prepare(r)
  BY <1>4, <1>s, <1>t DEF CancelJob, anyway, JobDies, Upload, Prepare
<1>5. CASE Start(r)
  BY <1>5, <1>s, <1>t DEF Start, Stopping
<1>6. CASE Check(r)
  <2>1. CASE current(r) /\ phase' = [phase EXCEPT ![r] = "write"]
    BY <1>6, <1>c, <2>1 DEF Check, Stopping
  <2>2. CASE Refused(r)
    BY <1>6, <1>s, <1>t, <2>2 DEF Check, Refused
  <2> QED
    BY <1>6, <2>1, <2>2 DEF Check
<1>7. CASE Write(r)
  <2>1. phase[r] = "write" /\ meta' = meta /\ phase'[r] \notin {"write", "post"}
    BY <1>7, <1>t DEF Write, Refused
  <2>2. Written(r) \/ UNCHANGED late
    BY <1>7 DEF Write, Set
  <2> QED
    BY <1>p, <1>s, <2>1, <2>2, WrittenStops
<1>8. ASSUME NEW v \in Reviewer, Review(r, v) PROVE Stopping(r)'
  <2>1. UNCHANGED <<meta, late>> /\ phase'[r] \notin {"write", "post"}
    BY <1>8, <1>t DEF Review, anyway
  <2> QED
    BY <1>s, <2>1
<1>9. CASE Publish(r) \/ Conclude(r)
  BY <1>9, <1>s, <1>t DEF Publish, Conclude, Revoke, Returns
<1>10. ASSUME NEW v \in Reviewer, Comment(r, v) PROVE Stopping(r)'
  <2>1. UNCHANGED <<meta, late>>
    BY <1>10 DEF Comment
  <2>2. CASE still_current(r)
    BY <1>c, <2>1, <2>2 DEF Stopping, still_current
  <2>3. CASE ~still_current(r)
    BY <1>10, <1>s, <1>t, <2>1, <2>3 DEF Comment, Revoke, Returns
  <2> QED
    BY <2>2, <2>3
<1>11. CASE Post(r)
  <2>1. phase[r] = "post" /\ meta' = meta /\ phase'[r] \notin {"write", "post"}
    BY <1>11, <1>t DEF Post, Revoke, Returns
  <2>2. Written(r) \/ UNCHANGED late
    BY <1>11 DEF Post, Says
  <2> QED
    BY <1>p, <1>s, <2>1, <2>2, WrittenStops
<1> QED
  BY <1>1, <1>2, <1>3, <1>4, <1>5, <1>6, <1>7, <1>8, <1>9, <1>10, <1>11 DEF RunStep, Work

LEMMA NextStops == ReviewTypeOK /\ LateStops /\ [Next]_vars => LateStops'
<1> SUFFICES ASSUME ReviewTypeOK, LateStops, [Next]_vars PROVE LateStops'
  OBVIOUS
<1>1. ASSUME NEW p, Becomes(p) PROVE LateStops'
  <2>1. ASSUME NEW s \in Run PROVE Stopping(s)'
    <3>1. late'[s] = IF current(s)' THEN 0 ELSE late[s]
      BY <1>1 DEF Becomes, current
    <3>2. phase' = phase /\ Stopping(s)
      BY <1>1 DEF Becomes, LateStops
    <3> QED
      BY <3>1, <3>2 DEF Stopping
  <2> QED
    BY <2>1 DEF LateStops
<1>2. CASE UNCHANGED vars
  BY <1>2 DEF vars, LateStops, Stopping, current
<1>3. ASSUME NEW r \in Run, RunStep(r) PROVE LateStops'
  <2>1. Stopping(r)'
    BY <1>3, StepStops DEF LateStops
  <2>2. ASSUME NEW s \in Run \ {r} PROVE Stopping(s)'
    <3>1. Stays(s) /\ pr' = pr /\ Stopping(s)
      BY <1>3, OthersStay, PullRequestStays DEF LateStops
    <3>2. current(s)' <=> current(s)
      BY <3>1 DEF current, Stays
    <3> QED
      BY <3>1, <3>2 DEF Stopping, Stays
  <2> QED
    BY <2>1, <2>2 DEF LateStops
<1> QED
  BY <1>1, <1>2, <1>3, StepCases DEF PullRequest, Push, MainMoves, CloseOrReopen

-----------------------------------------------------------------------------
(* The comments of an attempt.                                             *)

LEMMA CommentsGrow ==
    ASSUME NEW r \in Run, RunStep(r)
    PROVE  \/ comments' = comments
           \/ Post(r) /\ comments' = comments \cup {comment(r, posting[r])}
  BY DEF RunStep, Work, Trigger, Rerun, BeginRun, CancelJob, JobDies, Start, Upload,
     Prepare, Check, Write, Review, Publish, Comment, Post, Says, Conclude, github

LEMMA OwnStays ==
    ASSUME NEW r \in Run, RunStep(r), NEW s \in Run, s # r
    PROVE  /\ \A c : c.run = s => (c \in comments' <=> c \in comments)
           /\ attempt'[s] = attempt[s] => Own(s)' = Own(s)
<1>1. \A c : c.run = s => (c \in comments' <=> c \in comments)
  BY CommentsGrow DEF comment
<1> QED
  BY <1>1 DEF Own

LEMMA StepFollows ==
    ASSUME ReviewTypeOK, NEW r \in Run, Follows(r), RunStep(r)
    PROVE  Follows(r)'
<1>t. /\ DOMAIN phase = Run /\ DOMAIN attempt = Run /\ DOMAIN intent = Run
      /\ DOMAIN todo = Run /\ DOMAIN posting = Run
      /\ resume[r] \in Resumed /\ attempt[r] \in Nat
  BY DEF ReviewTypeOK
<1> USE <1>t
<1>s. ASSUME UNCHANGED <<comments, attempt>>, Early(r)' => Early(r),
             phase'[r] \notin {"comment", "post"}
      PROVE  Follows(r)'
  BY <1>s DEF Follows, Own
<1>1. CASE Enter(r) /\ UNCHANGED comments
  <2>1. attempt'[r] = attempt[r] + 1 /\ phase'[r] = "queued"
    BY <1>1 DEF Enter
  <2>2. \A c \in comments : c.run = r => c.attempt \in Nat /\ c.attempt < attempt[r] + 1
    BY DEF Follows
  <2>3. Own(r)' = {}
    BY <1>1, <2>1, <2>2 DEF Own
  <2> QED
    BY <1>1, <2>1, <2>2, <2>3 DEF Follows
<1>2. CASE BeginRun(r) \/ CancelJob(r) \/ JobDies(r) \/ Upload(r) \/ Prepare(r) \/ Start(r)
  BY <1>2, <1>s DEF BeginRun, CancelJob, anyway, starting, JobDies, Upload, Prepare, Start,
     Early, Resumed, github, queue
<1>3. CASE Check(r) \/ Write(r)
  BY <1>3, <1>s DEF Check, Write, Refused, Early, github, queue
<1>4. ASSUME NEW v \in Reviewer, Review(r, v) PROVE Follows(r)'
  <2>1. phase[r] = "review" /\ phase'[r] \in {"review", "publish"}
    BY <1>4 DEF Review, anyway
  <2>2. UNCHANGED <<comments, attempt>>
    BY <1>4 DEF Review, github, queue
  <2> QED
    BY <1>s, <2>1, <2>2 DEF Early
<1>5. CASE Publish(r)
  <2>1. UNCHANGED <<comments, attempt>> /\ phase[r] = "publish"
    BY <1>5 DEF Publish, github, queue
  <2>2. CASE phase'[r] = "check" /\ intent'[r] # "pending"
    BY <1>s, <2>1, <2>2 DEF Early
  <2>3. CASE phase'[r] = "comment"
    <3>1. Own(r) = {} /\ Own(r)' = Own(r)
      BY <2>1 DEF Follows, Early, Own
    <3> QED
      BY <2>1, <2>3, <3>1 DEF Follows, Early
  <2> QED
    BY <1>5, <2>2, <2>3 DEF Publish, Revoke, Returns
<1>6. ASSUME NEW v \in Reviewer, Comment(r, v) PROVE Follows(r)'
  <2>1. UNCHANGED <<comments, attempt>> /\ phase[r] = "comment" /\ v \in todo[r]
    BY <1>6 DEF Comment, github, queue
  <2>2. CASE Revoke(r)
    BY <1>s, <2>1, <2>2 DEF Revoke, Returns, Early
  <2>3. CASE todo' = [todo EXCEPT ![r] = @ \ {v}]
    <3>1. Own(r)' = Own(r) /\ todo'[r] = todo[r] \ {v}
      BY <2>1, <2>3 DEF Own
    <3>2. \A c \in Own(r) : c.reviewer \notin todo[r]
      BY <2>1 DEF Follows
    <3>3. phase'[r] = "comment" \/ (phase'[r] = "post" /\ posting'[r] = v)
            \/ Revoke(r)
      BY <1>6 DEF Comment
    <3> QED
      BY <2>1, <2>2, <3>1, <3>2, <3>3 DEF Follows, Early
  <2> QED
    BY <1>6, <2>2, <2>3 DEF Comment
<1>7. CASE Post(r)
  <2>1. UNCHANGED attempt /\ phase[r] = "post"
    BY <1>7 DEF Post, queue
  <2>2. \/ comments' = comments
        \/ comments' = comments \cup {comment(r, posting[r])}
    BY <1>7 DEF Post, Says
  <2>3. \A c \in comments' : c.run = r => c.attempt \in Nat /\ c.attempt <= attempt'[r]
    BY <2>1, <2>2 DEF Follows, comment
  <2>4. CASE Revoke(r)
    BY <2>3, <2>4 DEF Revoke, Returns, Follows, Early
  <2>5. CASE Says(r) /\ phase' = [phase EXCEPT ![r] = "comment"] /\ UNCHANGED todo
    <3>1. \A c \in Own(r)' : c \in Own(r) \/ c.reviewer = posting[r]
      BY <2>1, <2>2 DEF Own, comment
    <3>2. \A c \in Own(r)' : c.reviewer \notin todo'[r]
      BY <2>1, <2>5, <3>1 DEF Follows
    <3> QED
      BY <2>3, <2>5, <3>2 DEF Follows, Early
  <2> QED
    BY <1>7, <2>4, <2>5 DEF Post
<1>8. CASE Conclude(r)
  BY <1>8, <1>s DEF Conclude, Returns, Early, github, queue
<1> QED
  BY <1>1, <1>2, <1>3, <1>4, <1>5, <1>6, <1>7, <1>8
  DEF RunStep, Work, Trigger, Rerun, github

LEMMA NextFollows ==
    ReviewTypeOK /\ CommentsFollowTodo /\ [Next]_vars => CommentsFollowTodo'
<1> SUFFICES ASSUME ReviewTypeOK, CommentsFollowTodo, [Next]_vars
             PROVE  CommentsFollowTodo'
  OBVIOUS
<1>1. CASE PullRequest \/ UNCHANGED vars
  <2>1. UNCHANGED <<comments, attempt, phase, intent, todo, posting>>
    BY <1>1 DEF PullRequest, Push, MainMoves, CloseOrReopen, Becomes, queue, publisher, vars
  <2> QED
    BY <2>1 DEF CommentsFollowTodo, Follows, Early, Own
<1>2. ASSUME NEW r \in Run, RunStep(r) PROVE CommentsFollowTodo'
  <2>1. Follows(r)'
    BY <1>2, StepFollows DEF CommentsFollowTodo
  <2>2. ASSUME NEW s \in Run \ {r} PROVE Follows(s)'
    <3>1. Stays(s) /\ Follows(s)
      BY <1>2, OthersStay DEF CommentsFollowTodo
    <3>2. /\ \A c : c.run = s => (c \in comments' <=> c \in comments)
          /\ Own(s)' = Own(s)
      BY <1>2, <3>1, OwnStays DEF Stays
    <3> QED
      BY <3>1, <3>2 DEF Follows, Stays, Early
  <2> QED
    BY <2>1, <2>2 DEF CommentsFollowTodo
<1> QED
  BY <1>1, <1>2, StepCases

-----------------------------------------------------------------------------
(* What stands behind a comment and behind a green status.                 *)

LEMMA NextTruthful ==
    ASSUME ReviewTypeOK, ReportsAreGiven, CommentsFollowTodo, CommentsAreTruthful, [Next]_vars
    PROVE  CommentsAreTruthful'
<1>g. given \subseteq given'
  BY GivenGrows
<1>1. CASE comments' = comments
  BY <1>g, <1>1 DEF CommentsAreTruthful
<1>2. ASSUME NEW r \in Run, Post(r), comments' = comments \cup {comment(r, posting[r])}
      PROVE  CommentsAreTruthful'
  <2> DEFINE v == posting[r]
  <2>1. v \in Reviewer
    BY <1>2 DEF Post, CommentsFollowTodo, Follows
  <2>2. Said(results[r][v], v)
    BY <2>1 DEF ReportsAreGiven, Reports
  <2>3. body(r, v) # "incomplete" =>
           [of |-> meta[r], reviewer |-> v, verdict |-> body(r, v)] \in given
    BY <2>2 DEF body, complete, Said
  <2>4. /\ comment(r, v).body = body(r, v) /\ comment(r, v).of = meta[r]
        /\ comment(r, v).reviewer = v
    BY DEF comment
  <2> HIDE DEF v
  <2> QED
    BY <1>g, <1>2, <2>3, <2>4 DEF CommentsAreTruthful, v
<1>3. CASE PullRequest \/ UNCHANGED vars
  BY <1>1, <1>3 DEF PullRequest, Push, MainMoves, CloseOrReopen, Becomes, vars
<1> QED
  BY <1>1, <1>2, <1>3, StepCases, CommentsGrow

LEMMA VisibleStays ==
    ASSUME NEW r, NEW x, Visible(r, x), comments \subseteq comments'
    PROVE  Visible(r, x)'
  BY DEF Visible

LEMMA CommentsOnlyGrow == [Next]_vars => comments \subseteq comments'
<1>1. CASE PullRequest \/ UNCHANGED vars
  BY <1>1 DEF PullRequest, Push, MainMoves, CloseOrReopen, Becomes, vars
<1> QED
  BY <1>1, StepCases, CommentsGrow

\* A publisher goes on with what it found.
LEMMA PublishingStays ==
    ASSUME NEW r, NEW left, Publishing(r), comments \subseteq comments',
           manifest'[r] = manifest[r], meta'[r] = meta[r], passed'[r] = passed[r],
           results'[r] = results[r], attempt'[r] = attempt[r],
           \A v \in Expected(r) \ todo'[r] :
               \/ v \in Expected(r) \ todo[r] /\ ~(phase[r] = "post" /\ v = posting[r])
               \/ (phase'[r] = "post" /\ v = posting'[r])
               \/ comment(r, v) \in comments'
    PROVE  Publishing(r)'
<1>1. Expected(r)' = Expected(r)
  BY DEF Expected
<1>2. \A v : comment(r, v)' = comment(r, v)
  BY DEF comment, body
<1>3. passed'[r] => assess(Expected(r)', results'[r], meta'[r])
  BY <1>1 DEF Publishing
<1> QED
  BY <1>1, <1>2, <1>3 DEF Publishing

\* All comments of a review that passed are there: they are clean.
LEMMA PassedIsVisible ==
    ASSUME NEW r, Publishing(r), passed[r], phase[r] = "comment", commented(r)
    PROVE  Visible(r, meta[r])
<1>1. \A v \in Expected(r) : comment(r, v) \in comments
  BY DEF Publishing, commented
<1>2. \A v \in Expected(r) : complete(results[r][v], meta[r]) /\ results[r][v].verdict = "clean"
  BY DEF Publishing, assess
<1>3. \A v \in Expected(r) : body(r, v) = "clean"
  BY <1>2 DEF body
<1>4. Expected(r) = Routed[meta[r]]
  BY DEF Publishing, Expected
<1>5. \A v : /\ comment(r, v).run = r /\ comment(r, v).reviewer = v
             /\ comment(r, v).of = meta[r] /\ comment(r, v).body = body(r, v)
  BY DEF comment
<1> QED
  BY <1>1, <1>3, <1>4, <1>5 DEF Visible

LEMMA StepEarned ==
    ASSUME ReviewTypeOK, NEW r \in Run, Earned(r), RunStep(r),
           comments \subseteq comments'
    PROVE  Earned(r)'
<1>t. /\ DOMAIN phase = Run /\ DOMAIN intent = Run /\ DOMAIN todo = Run
      /\ DOMAIN posting = Run /\ DOMAIN results = Run /\ DOMAIN passed = Run
      /\ DOMAIN meta = Run /\ resume[r] \in Resumed
  BY DEF ReviewTypeOK
<1> USE <1>t DEF github, jobs, queue, publisher
<1>e. ASSUME phase'[r] \notin {"comment", "post"},
             ~(phase'[r] \in {"check", "write"} /\ intent'[r] = "success")
      PROVE  Earned(r)'
  BY <1>e DEF Earned
<1>1. CASE Trigger(r)
  BY <1>1, <1>e DEF Trigger, Enter
<1>2. ASSUME NEW first, NEW again, Rerun(r, first, again) PROVE Earned(r)'
  BY <1>2, <1>e DEF Rerun, Enter
<1>3. CASE BeginRun(r) \/ CancelJob(r) \/ JobDies(r) \/ Upload(r) \/ Prepare(r) \/ Start(r)
  BY <1>3, <1>e DEF BeginRun, Resumed, CancelJob, anyway, JobDies, Upload, Prepare, Start
<1>4. CASE Check(r)
  <2>1. CASE Refused(r)
    BY <1>4, <1>e, <2>1 DEF Check, Refused
  <2>2. CASE phase' = [phase EXCEPT ![r] = "write"] /\ UNCHANGED intent
    BY <1>4, <2>2, VisibleStays DEF Check, Earned
  <2> QED
    BY <1>4, <2>1, <2>2 DEF Check
<1>5. CASE Write(r)
  BY <1>5, <1>e DEF Write, Refused
<1>6. ASSUME NEW v \in Reviewer, Review(r, v) PROVE Earned(r)'
  <2>1. phase'[r] \in {"review", "publish"}
    BY <1>6 DEF Review, anyway
  <2> QED
    BY <1>e, <2>1
<1>7. CASE Publish(r)
  <2>1. CASE phase'[r] = "check" /\ intent'[r] # "success"
    BY <1>e, <2>1
  <2>2. ASSUME NEW got, results' = [results EXCEPT ![r] = got],
               passed' = [passed EXCEPT ![r] =
                   /\ assess(Expected(r), got, meta[r])
                   /\ review_status(r) \in {"success", "skipped"}],
               todo' = [todo EXCEPT ![r] = Expected(r)],
               phase' = [phase EXCEPT ![r] = "comment"],
               manifest[r] = meta[r], UNCHANGED <<manifest, meta>>
        PROVE  Earned(r)'
    <3>1. Expected(r)' = Expected(r) /\ todo'[r] = Expected(r) /\ results'[r] = got
      BY <2>2 DEF Expected
    <3>2. passed'[r] => assess(Expected(r), got, meta[r])
      BY <2>2
    <3>3. Publishing(r)'
      BY <2>2, <3>1, <3>2 DEF Publishing
    <3> QED
      BY <2>2, <3>3 DEF Earned
  <2> QED
    BY <1>7, <2>1, <2>2 DEF Publish, Revoke, Returns
<1>8. ASSUME NEW v \in Reviewer, Comment(r, v) PROVE Earned(r)'
  <2>1. CASE Revoke(r)
    BY <1>e, <2>1 DEF Revoke, Returns
  <2>2. CASE /\ ~collides(r, v)
             /\ todo' = [todo EXCEPT ![r] = @ \ {v}]
             /\ IF matching(r, v) = {}
                THEN /\ posting' = [posting EXCEPT ![r] = v]
                     /\ phase' = [phase EXCEPT ![r] = "post"]
                ELSE UNCHANGED <<posting, phase>>
             /\ UNCHANGED <<passed, results>>
    <3>1. phase[r] = "comment" /\ Publishing(r) /\ todo'[r] = todo[r] \ {v}
      BY <1>8, <2>2 DEF Comment, Earned
    <3>2. UNCHANGED <<manifest, meta, passed, results, attempt>>
      BY <1>8, <2>2 DEF Comment
    <3>3. \/ phase'[r] = "post" /\ posting'[r] = v
          \/ phase'[r] = "comment" /\ comment(r, v) \in comments
      BY <2>2, <3>1 DEF collides, matching
    <3>4. Publishing(r)'
      BY <3>1, <3>2, <3>3, PublishingStays
    <3> QED
      BY <3>3, <3>4 DEF Earned
  <2> QED
    BY <1>8, <2>1, <2>2 DEF Comment
<1>9. CASE Post(r)
  <2>1. CASE Revoke(r)
    BY <1>e, <2>1 DEF Revoke, Returns
  <2>2. CASE Says(r) /\ phase' = [phase EXCEPT ![r] = "comment"]
             /\ UNCHANGED <<passed, results, todo>>
    <3>1. phase[r] = "post" /\ Publishing(r) /\ phase'[r] = "comment"
      BY <1>9, <2>2 DEF Post, Earned
    <3>2. UNCHANGED <<manifest, meta, attempt>> /\ comment(r, posting[r]) \in comments'
      BY <1>9, <2>2 DEF Post, Says
    <3>3. Publishing(r)'
      BY <2>2, <3>1, <3>2, PublishingStays
    <3> QED
      BY <3>1, <3>3 DEF Earned
  <2> QED
    BY <1>9, <2>1, <2>2 DEF Post
<1>10. CASE Conclude(r)
  <2>1. phase'[r] = "check" /\ meta' = meta /\ phase[r] = "comment" /\ commented(r)
    BY <1>10 DEF Conclude, Returns
  <2>2. intent'[r] = "success" => passed[r]
    BY <1>10 DEF Conclude
  <2>3. passed[r] => Visible(r, meta[r])
    BY <2>1, PassedIsVisible DEF Earned
  <2> QED
    BY <2>1, <2>2, <2>3, VisibleStays DEF Earned
<1> QED
  BY <1>1, <1>2, <1>3, <1>4, <1>5, <1>6, <1>7, <1>8, <1>9, <1>10 DEF RunStep, Work

LEMMA NextEarned ==
    ReviewTypeOK /\ SuccessIsEarned /\ [Next]_vars => SuccessIsEarned'
<1> SUFFICES ASSUME ReviewTypeOK, SuccessIsEarned, [Next]_vars PROVE SuccessIsEarned'
  OBVIOUS
<1>c. comments \subseteq comments'
  BY CommentsOnlyGrow
<1>s. ASSUME NEW s \in Run, Stays(s) PROVE Earned(s)'
  <2>1. Earned(s)
    BY DEF SuccessIsEarned
  <2>2. phase[s] \in {"comment", "post"} => Publishing(s)'
    BY <1>c, <1>s, <2>1, PublishingStays DEF Earned, Stays
  <2>3. meta'[s] = meta[s] /\ (Visible(s, meta[s]) => Visible(s, meta[s])')
    BY <1>c, <1>s, VisibleStays DEF Stays
  <2> QED
    BY <1>s, <2>1, <2>2, <2>3 DEF Earned, Stays
<1>1. CASE PullRequest \/ UNCHANGED vars
  <2>1. UNCHANGED <<comments, attempt, phase, intent, todo, posting, meta, manifest,
                    results, passed>>
    BY <1>1 DEF PullRequest, Push, MainMoves, CloseOrReopen, Becomes, queue, jobs,
       publisher, vars
  <2> QED
    BY <2>1 DEF SuccessIsEarned, Earned, Publishing, Visible, Expected, comment, body
<1>2. ASSUME NEW r \in Run, RunStep(r) PROVE SuccessIsEarned'
  <2>1. Earned(r)'
    BY <1>2, <1>c, StepEarned DEF SuccessIsEarned
  <2>2. ASSUME NEW s \in Run \ {r} PROVE Earned(s)'
    BY <1>2, <1>s, OthersStay
  <2> QED
    BY <2>1, <2>2 DEF SuccessIsEarned
<1> QED
  BY <1>1, <1>2, StepCases

LEMMA StatusChanges ==
    ASSUME NEW r \in Run, RunStep(r)
    PROVE  UNCHANGED status \/ (Write(r) /\ Set(r))
  BY DEF RunStep, Work, Trigger, Rerun, BeginRun, CancelJob, JobDies, Start, Upload,
     Prepare, Check, Write, Review, Publish, Comment, Post, Conclude, github

LEMMA NextVisible ==
    ASSUME ReviewTypeOK, RevisionsKnown, SuccessIsEarned, SuccessIsVisible, [Next]_vars
    PROVE  SuccessIsVisible'
<1>c. comments \subseteq comments'
  BY CommentsOnlyGrow
<1>v. SuccessIsVisible <=>
        \A h \in Head : status[h].state = "success" =>
            \E x \in Revision : x.head = h /\ Visible(status[h].run, x)
  BY DEF SuccessIsVisible, Visible
<1>w. SuccessIsVisible' <=>
        \A h \in Head : status'[h].state = "success" =>
            \E x \in Revision : x.head = h /\ Visible(status[h].run, x)'
  BY DEF SuccessIsVisible, Visible
<1>1. CASE UNCHANGED status
  BY <1>c, <1>v, <1>w, <1>1, VisibleStays
<1>2. ASSUME NEW r \in Run, Write(r), Set(r) PROVE SuccessIsVisible'
  <2> DEFINE new == [state |-> state_of(r), run |-> r]
  <2>1. /\ meta[r] \in Revision
        /\ intent[r] = "success" => Visible(r, meta[r])
    BY <1>2 DEF Write, RevisionsKnown, Known, Working, SuccessIsEarned, Earned
  <2>2. new.state = "success" => intent[r] = "success"
    BY DEF state_of
  <2>3. ASSUME NEW h \in Head
        PROVE  status'[h] = IF h = meta[r].head THEN new ELSE status[h]
    BY <1>2 DEF Set, ReviewTypeOK
  <2>4. ASSUME NEW h \in Head, status'[h].state = "success"
        PROVE  \E x \in Revision : x.head = h /\ Visible(status[h].run, x)'
    <3>1. CASE h = meta[r].head
      <4>1. status'[h].run = r /\ Visible(r, meta[r])
        BY <2>1, <2>2, <2>3, <2>4, <3>1
      <4>2. Visible(status[h].run, meta[r])'
        BY <1>c, <2>1, <4>1, VisibleStays, <1>2 DEF Write, Visible
      <4> QED
        BY <2>1, <3>1, <4>2, <1>2 DEF Write
    <3>2. CASE h # meta[r].head
      BY <1>c, <1>v, <2>3, <2>4, <3>2 DEF Visible
    <3> QED
      BY <3>1, <3>2
  <2> QED
    BY <1>w, <2>4
<1>3. CASE PullRequest \/ UNCHANGED vars
  BY <1>1, <1>3 DEF PullRequest, Push, MainMoves, CloseOrReopen, Becomes, vars
<1> QED
  BY <1>1, <1>2, <1>3, StepCases, StatusChanges

-----------------------------------------------------------------------------
LEMMA InitReview == Init => ReviewInv
<1> SUFFICES ASSUME Init PROVE ReviewInv
  OBVIOUS
<1>1. ReviewTypeOK
  BY InitTypes
<1>2. RevisionsKnown /\ LateStops
  BY DEF Init, Each, RevisionsKnown, Known, Working, LateStops, Stopping
<1>3. ReportsAreGiven
  BY DEF Init, Each, NoResult, ReportsAreGiven, Reports, Said
<1>4. CommentsFollowTodo /\ SuccessIsEarned
  BY DEF Init, Each, CommentsFollowTodo, Follows, Own, Early, SuccessIsEarned, Earned
<1>5. SuccessIsVisible /\ CommentsAreTruthful
  BY DEF Init, SuccessIsVisible, CommentsAreTruthful
<1> QED
  BY <1>1, <1>2, <1>3, <1>4, <1>5 DEF ReviewInv

LEMMA NextReview == ReviewInv /\ [Next]_vars => ReviewInv'
  BY NextTypes, NextKnown, NextReports, NextStops, NextFollows, NextEarned, NextVisible,
     NextTruthful DEF ReviewInv

\* Whatever happens to the pull request, its runs and their jobs, each run knows
\* what it is about, and what it has found and written is what it says.
THEOREM PublicationInvariant == Spec => []ReviewInv
  BY InitReview, NextReview, PTL DEF Spec

\* set_status: behind a green status there is, for every reviewer routed for the
\* revision, a comment without findings of the very run that the status links.
THEOREM PublicationSuccessIsVisible == Spec => []SuccessIsVisible
  BY PublicationInvariant, PTL DEF ReviewInv

\* publication_action: a comment that reports a review reports what its reviewer
\* said of that very revision, also when artifacts of earlier attempts are left.
THEOREM PublicationCommentsAreTruthful == Spec => []CommentsAreTruthful
  BY PublicationInvariant, PTL DEF ReviewInv

\* require_current: however often the pull request moves between a check and the
\* write after it, a run writes at most once about a revision that has gone.
THEOREM PublicationOneLateWrite == Spec => []OneLateWrite
<1>1. ReviewInv => OneLateWrite
  BY DEF ReviewInv, LateStops, Stopping, OneLateWrite
<1> QED
  BY <1>1, PublicationInvariant, PTL

\* marker: the comments of an earlier attempt never stop a later one.
THEOREM PublicationEarlierAttemptsDoNotBlock == Spec => []EarlierAttemptsDoNotBlock
<1>1. ReviewInv => EarlierAttemptsDoNotBlock
  <2> SUFFICES ASSUME ReviewInv, NEW r \in Run, NEW v \in Reviewer,
                      phase[r] = "comment", v \in todo[r]
               PROVE  ~collides(r, v)
    BY DEF EarlierAttemptsDoNotBlock
  <2>1. \A c \in Own(r) : c.reviewer # v
    BY DEF ReviewInv, CommentsFollowTodo, Follows
  <2> QED
    BY <2>1 DEF Own, collides, matching
<1> QED
  BY <1>1, PublicationInvariant, PTL

-----------------------------------------------------------------------------
(* How an attempt of a run ends, and that it comes to its end: what        *)
(* PendingSettles needs besides jobs that run.                             *)

\* start did not succeed before its own job is over.
Fresh(r) ==
    starting(r) \/ (phase[r] \in {"unused", "queued"} /\ resume[r] = "start")
        => start[r] # "success"

StartsAreFresh == \A r \in Run : Fresh(r)

LEMMA StepFresh ==
    ASSUME ReviewTypeOK, NEW r \in Run, Fresh(r), RunStep(r)
    PROVE  Fresh(r)'
<1>t. /\ DOMAIN phase = Run /\ DOMAIN resume = Run /\ DOMAIN start = Run
      /\ DOMAIN intent = Run /\ resume[r] \in Resumed
  BY DEF ReviewTypeOK
<1> USE <1>t DEF github, jobs, queue, publisher, Fresh, starting
<1>1. CASE Trigger(r)
  BY <1>1 DEF Trigger, Enter
<1>2. ASSUME NEW first, NEW again, Rerun(r, first, again) PROVE Fresh(r)'
  BY <1>2 DEF Rerun, Enter
<1>3. CASE BeginRun(r) \/ CancelJob(r) \/ JobDies(r)
  BY <1>3 DEF BeginRun, CancelJob, anyway, JobDies, Resumed
<1>4. CASE Start(r) \/ Upload(r) \/ Prepare(r)
  BY <1>4 DEF Start, Upload, Prepare, anyway
<1>5. CASE Check(r) \/ Write(r)
  BY <1>5 DEF Check, Write, Refused
<1>6. ASSUME NEW v \in Reviewer, Review(r, v) PROVE Fresh(r)'
  BY <1>6 DEF Review, anyway
<1>7. CASE Publish(r) \/ Post(r) \/ Conclude(r)
  BY <1>7 DEF Publish, Post, Conclude, Revoke, Returns
<1>8. ASSUME NEW v \in Reviewer, Comment(r, v) PROVE Fresh(r)'
  BY <1>8 DEF Comment, Revoke, Returns
<1> QED
  BY <1>1, <1>2, <1>3, <1>4, <1>5, <1>6, <1>7, <1>8 DEF RunStep, Work

LEMMA NextFresh == ReviewTypeOK /\ StartsAreFresh /\ [Next]_vars => StartsAreFresh'
<1> SUFFICES ASSUME ReviewTypeOK, StartsAreFresh, [Next]_vars PROVE StartsAreFresh'
  OBVIOUS
<1>1. CASE PullRequest \/ UNCHANGED vars
  BY <1>1 DEF PullRequest, Push, MainMoves, CloseOrReopen, Becomes, jobs, queue,
     StartsAreFresh, Fresh, starting, vars
<1>2. ASSUME NEW r \in Run, RunStep(r) PROVE StartsAreFresh'
  <2>1. Fresh(r)'
    BY <1>2, StepFresh DEF StartsAreFresh
  <2>2. ASSUME NEW s \in Run \ {r} PROVE Fresh(s)'
    BY <1>2, OthersStay DEF StartsAreFresh, Fresh, starting, Stays
  <2> QED
    BY <2>1, <2>2 DEF StartsAreFresh
<1> QED
  BY <1>1, <1>2, StepCases

\* The step that ends a run whose start succeeded.
EndsSettled(r) ==
    Active(r) /\ start[r] = "success" /\ current(r) /\ phase'[r] = "done" =>
        \E state \in {"success", "failure"} :
            status'[meta[r].head] = [state |-> state, run |-> r]

LEMMA WriteSettles ==
    ASSUME ReviewInv, NEW r \in Run, Write(r), ~Faults, intent[r] # "pending", current(r)
    PROVE  EndsSettled(r)
<1>1. status' = [status EXCEPT ![meta[r].head] = [state |-> state_of(r), run |-> r]]
  BY DEF Write, Set
<1>2. meta[r].head \in Head /\ DOMAIN status = Head
  BY DEF ReviewInv, ReviewTypeOK, current, revision, Revision
<1>3. state_of(r) \in {"success", "failure"}
  BY DEF state_of, ReviewInv, ReviewTypeOK, Intent
<1> QED
  BY <1>1, <1>2, <1>3 DEF EndsSettled

LEMMA StepSettles ==
    ASSUME ReviewInv, StartsAreFresh, ~Faults, NEW r \in Run, RunStep(r)
    PROVE  EndsSettled(r)
<1> SUFFICES ASSUME Active(r), start[r] = "success", current(r), phase'[r] = "done"
             PROVE  \E state \in {"success", "failure"} :
                        status'[meta[r].head] = [state |-> state, run |-> r]
  BY DEF EndsSettled
<1>t. DOMAIN phase = Run /\ phase[r] \in Phase /\ resume[r] \in Resumed
  BY DEF ReviewInv, ReviewTypeOK
<1>s. ~starting(r)
  BY DEF StartsAreFresh, Fresh
<1>1. ~Trigger(r) /\ \A first, again : ~Rerun(r, first, again)
  BY <1>t DEF Trigger, Rerun, Active
<1>2. ~BeginRun(r) /\ ~CancelJob(r) /\ ~JobDies(r)
  BY <1>s, <1>t DEF BeginRun, Active, CancelJob, anyway, JobDies
<1>3. ~Start(r) /\ ~Upload(r) /\ ~Prepare(r)
  BY <1>s, <1>t DEF Start, Upload, Prepare, anyway, starting
<1>4. ~Check(r)
  BY <1>t DEF Check
<1>5. \A v \in Reviewer : ~Review(r, v) /\ ~Comment(r, v)
  BY <1>t DEF Review, anyway, Comment, Revoke, Returns
<1>6. ~Publish(r) /\ ~Post(r) /\ ~Conclude(r)
  BY <1>t DEF Publish, Post, Conclude, Revoke, Returns
<1>7. Write(r)
  BY <1>1, <1>2, <1>3, <1>4, <1>5, <1>6 DEF RunStep, Work
<1>8. intent[r] # "pending"
  BY <1>7, <1>s DEF starting, Write
<1> QED
  BY <1>7, <1>8, WriteSettles DEF EndsSettled

\* While calls do not fail, a run whose start succeeded, cancelled or not, does
\* not end about the revision of the pull request without a status of its own
\* that says success or failure in the place of the pending one.
THEOREM PublicationEndsSettled == ~Faults => (Spec => [][\A r \in Run : EndsSettled(r)]_vars)
<1> SUFFICES ASSUME ~Faults PROVE Spec => [][\A r \in Run : EndsSettled(r)]_vars
  OBVIOUS
<1>1. Init => StartsAreFresh
  BY DEF Init, Each, StartsAreFresh, Fresh, starting
<1>2. ReviewInv /\ StartsAreFresh /\ [Next]_vars => (ReviewInv /\ StartsAreFresh)'
  BY NextReview, NextFresh DEF ReviewInv
<1>3. ReviewInv /\ StartsAreFresh /\ [Next]_vars => [\A r \in Run : EndsSettled(r)]_vars
  <2> SUFFICES ASSUME ReviewInv, StartsAreFresh, Next, NEW r \in Run
               PROVE  EndsSettled(r)
    OBVIOUS
  <2>1. CASE PullRequest
    BY <2>1 DEF PullRequest, Push, MainMoves, CloseOrReopen, Becomes, EndsSettled, Active
  <2>2. CASE RunStep(r)
    BY <2>2, StepSettles
  <2>3. ASSUME NEW s \in Run, RunStep(s), s # r PROVE EndsSettled(r)
    <3>1. phase'[r] = phase[r] \/ phase[r] = "queued"
      BY <2>3, OthersStay DEF ReviewInv, Stays
    <3> QED
      BY <3>1 DEF EndsSettled, Active
  <2>4. CASE UNCHANGED vars
    BY <2>4 DEF vars, EndsSettled, Active
  <2> QED
    BY <2>1, <2>2, <2>3, <2>4, StepCases
<1> QED
  BY <1>1, <1>2, <1>3, InitReview, PTL DEF Spec

\* How far an attempt of a run has come.
Setting(r) ==
    CASE intent[r] = "pending" -> 2 [] intent[r] = "revoke" -> 11 [] OTHER -> 9
Position(r) ==
    CASE phase[r] = "start" -> 1
      [] phase[r] = "check" -> Setting(r) [] phase[r] = "write" -> Setting(r) + 1
      [] phase[r] = "upload" -> 4 [] phase[r] = "prepare" -> 5
      [] phase[r] = "review" -> 6 [] phase[r] = "publish" -> 7
      [] phase[r] \in {"comment", "post"} -> 8
      [] phase[r] = "done" -> 13 [] OTHER -> 0

\* The reviewers that its matrix still runs.
Waiting(r) == {v \in Reviewer : job[r][v] = "todo"}

\* Fewer reviewers to wait for, or comments to write.
Fewer(r) ==
    \/ Waiting(r)' \subseteq Waiting(r) /\ Waiting(r)' # Waiting(r)
    \/ todo'[r] \subseteq todo[r] /\ todo'[r] # todo[r]
    \/ todo'[r] = todo[r] /\ phase[r] = "post" /\ phase'[r] = "comment"

GoesOn(r) ==
    /\ attempt'[r] = attempt[r] =>
          \/ Position(r)' > Position(r)
          \/ /\ Position(r)' = Position(r)
             /\ Waiting(r)' \subseteq Waiting(r) /\ todo'[r] \subseteq todo[r]
    /\ Work(r) => Position(r)' > Position(r) \/ Fewer(r)

JobTypes == job \in [Run -> [Reviewer -> {"todo", "success", "failure", "cancelled"}]]

\* The jobs of a run are its own, and are run again in another attempt only.
LEMMA StepJobs ==
    ASSUME ReviewTypeOK, JobTypes, NEW r \in Run, RunStep(r)
    PROVE  /\ JobTypes' /\ \A s \in Run \ {r} : job'[s] = job[s]
           /\ attempt'[r] = attempt[r] => Waiting(r)' \subseteq Waiting(r)
<1> USE DEF github, jobs, queue, publisher
<1>t. DOMAIN attempt = Run /\ attempt[r] \in Nat
  BY DEF ReviewTypeOK
<1>1. CASE job' = job
  BY <1>1 DEF JobTypes, Waiting
<1>2. ASSUME NEW first, NEW again, Rerun(r, first, again)
      PROVE  /\ JobTypes' /\ \A s \in Run \ {r} : job'[s] = job[s]
             /\ attempt'[r] # attempt[r]
  <2>1. attempt'[r] # attempt[r]
    BY <1>2, <1>t DEF Rerun, Enter
  <2>2. job' = [job EXCEPT ![r] = [v \in Reviewer |->
            IF v \in again \/ first \in {"start", "prepare"} THEN "todo" ELSE job[r][v]]]
    BY <1>2 DEF Rerun
  <2> QED
    BY <2>1, <2>2 DEF JobTypes
<1>3. CASE job' = [job EXCEPT ![r] = [v \in Reviewer |->
               IF job[r][v] = "todo" THEN "cancelled" ELSE job[r][v]]]
  BY <1>3 DEF JobTypes, Waiting
<1>4. ASSUME NEW v \in Reviewer, Review(r, v)
      PROVE  /\ JobTypes' /\ \A s \in Run \ {r} : job'[s] = job[s]
             /\ Waiting(r)' \subseteq Waiting(r)
  <2>1. PICK x \in {"success", "failure"} : job' = [job EXCEPT ![r][v] = x]
    BY <1>4 DEF Review
  <2> QED
    BY <2>1 DEF JobTypes, Waiting
<1>5. CASE CancelJob(r)
  BY <1>1, <1>3, <1>5 DEF CancelJob
<1>6. ASSUME ~CancelJob(r), \A first, again : ~Rerun(r, first, again),
             \A v \in Reviewer : ~Review(r, v)
      PROVE  job' = job
  BY <1>6 DEF RunStep, Work, Trigger, BeginRun, JobDies, Start, Upload, Prepare, Check,
     Write, Publish, Comment, Post, Conclude
<1> QED
  BY <1>1, <1>2, <1>4, <1>5, <1>6

LEMMA NextJobs == ReviewTypeOK /\ JobTypes /\ [Next]_vars => JobTypes'
<1>1. CASE PullRequest \/ UNCHANGED vars
  BY <1>1 DEF PullRequest, Push, MainMoves, CloseOrReopen, Becomes, jobs, vars, JobTypes
<1>2. ASSUME ReviewTypeOK, JobTypes, NEW r \in Run, RunStep(r) PROVE JobTypes'
  BY <1>2, StepJobs
<1> QED
  BY <1>1, <1>2, StepCases

\* A step of the run's own work brings it on.
Advances(r) ==
    \/ Position(r)' > Position(r)
    \/ Position(r)' = Position(r) /\ todo'[r] \subseteq todo[r] /\ Fewer(r)

LEMMA WorkGoesOn ==
    ASSUME ReviewTypeOK, JobTypes, NEW r \in Run, Work(r)
    PROVE  Advances(r)
<1>t. /\ DOMAIN phase = Run /\ DOMAIN intent = Run /\ DOMAIN todo = Run
      /\ phase[r] \in Phase /\ resume[r] \in Resumed /\ intent[r] \in Intent
      /\ todo[r] \in SUBSET Reviewer
  BY DEF ReviewTypeOK
<1> USE <1>t DEF github, jobs, queue, publisher, Advances, Position, Setting
<1>1. CASE BeginRun(r)
  BY <1>1 DEF BeginRun, Resumed
<1>2. CASE CancelJob(r)
  BY <1>2 DEF CancelJob, anyway, starting
<1>3. CASE Start(r)
  BY <1>3 DEF Start
<1>4. CASE Upload(r) \/ Prepare(r)
  BY <1>4 DEF Upload, Prepare, anyway
<1>5. CASE Check(r)
  BY <1>5 DEF Check, Refused, Intent
<1>6. CASE Write(r)
  BY <1>6 DEF Write, Refused, Intent
<1>7. ASSUME NEW v \in Reviewer, Review(r, v) PROVE Advances(r)
  <2>1. PICK x \in {"success", "failure"} : job' = [job EXCEPT ![r][v] = x]
    BY <1>7 DEF Review
  <2>2. v \in Waiting(r) /\ v \notin Waiting(r)' /\ Waiting(r)' \subseteq Waiting(r)
    BY <1>7, <2>1 DEF Review, JobTypes, Waiting
  <2>3. todo' = todo /\ phase[r] = "review" /\ phase'[r] \in {"review", "publish"}
    BY <1>7 DEF Review, anyway
  <2> QED
    BY <2>2, <2>3 DEF Fewer
<1>8. CASE Publish(r)
  BY <1>8 DEF Publish, Revoke, Returns
<1>9. ASSUME NEW v \in Reviewer, Comment(r, v) PROVE Advances(r)
  <2>1. CASE Revoke(r)
    BY <1>9, <2>1 DEF Comment, Revoke, Returns
  <2>2. CASE todo' = [todo EXCEPT ![r] = @ \ {v}] /\ phase'[r] \in {"comment", "post"}
    <3>1. phase[r] = "comment" /\ v \in todo[r]
      BY <1>9 DEF Comment
    <3> QED
      BY <2>2, <3>1 DEF Fewer
  <2> QED
    BY <1>9, <2>1, <2>2 DEF Comment
<1>10. CASE Post(r)
  <2>1. CASE Revoke(r)
    BY <1>10, <2>1 DEF Post, Revoke, Returns
  <2>2. CASE phase' = [phase EXCEPT ![r] = "comment"] /\ UNCHANGED todo
    BY <1>10, <2>2 DEF Post, Fewer
  <2> QED
    BY <1>10, <2>1, <2>2 DEF Post
<1>11. CASE Conclude(r)
  BY <1>11 DEF Conclude, Returns
<1> QED
  BY <1>1, <1>2, <1>3, <1>4, <1>5, <1>6, <1>7, <1>8, <1>9, <1>10, <1>11 DEF Work

LEMMA StepGoesOn ==
    ASSUME ReviewTypeOK, JobTypes, NEW r \in Run, RunStep(r)
    PROVE  GoesOn(r)
<1>t. /\ DOMAIN phase = Run /\ DOMAIN attempt = Run
      /\ phase[r] \in Phase /\ attempt[r] \in Nat
  BY DEF ReviewTypeOK
<1>w. attempt'[r] = attempt[r] => Waiting(r)' \subseteq Waiting(r)
  BY StepJobs
<1>1. ASSUME Trigger(r) \/ \E first, again : Rerun(r, first, again)
      PROVE  attempt'[r] # attempt[r]
  BY <1>1, <1>t DEF Trigger, Rerun, Enter
<1>2. ASSUME JobDies(r) PROVE Position(r)' > Position(r)
  BY <1>2, <1>t DEF JobDies, Position, Setting
<1>3. CASE Work(r)
  BY <1>3, <1>w, WorkGoesOn DEF GoesOn, Advances
<1>4. Work(r) => Advances(r)
  BY WorkGoesOn
<1> QED
  BY <1>1, <1>2, <1>3, <1>4 DEF GoesOn, Advances, RunStep

\* Within an attempt no run goes back, whatever the pull request, other runs and
\* faults do, and each step of its jobs brings it on: to a later phase, to fewer
\* reviewers that have not ended, or to fewer comments that are not written.
THEOREM PublicationNeverReturns == Spec => [][\A r \in Run : GoesOn(r)]_vars
<1>1. Init => JobTypes
  BY DEF Init, Each, JobTypes
<1>2. ReviewInv /\ JobTypes /\ [Next]_vars => (ReviewInv /\ JobTypes)'
  BY NextReview, NextJobs DEF ReviewInv
<1>3. ReviewInv /\ JobTypes /\ [Next]_vars => [\A r \in Run : GoesOn(r)]_vars
  <2> SUFFICES ASSUME ReviewInv, JobTypes, Next, NEW r \in Run, ~UNCHANGED vars
               PROVE  GoesOn(r)
    OBVIOUS
  <2>w. Work(r) => Position(r)' > Position(r) \/ Fewer(r)
    BY WorkGoesOn DEF ReviewInv, Advances
  <2>1. CASE PullRequest
    <3>1. UNCHANGED <<phase, intent, job, todo>>
      BY <2>1 DEF PullRequest, Push, MainMoves, CloseOrReopen, Becomes, jobs, publisher
    <3> QED
      BY <2>w, <3>1 DEF GoesOn, Position, Setting, Waiting
  <2>2. CASE RunStep(r)
    BY <2>2, StepGoesOn DEF ReviewInv
  <2>3. ASSUME NEW s \in Run, RunStep(s), s # r PROVE GoesOn(r)
    <3>1. Stays(r) /\ job'[r] = job[r]
      BY <2>3, OthersStay, StepJobs DEF ReviewInv
    <3> QED
      BY <2>w, <3>1 DEF GoesOn, Stays, Position, Setting, Waiting
  <2> QED
    BY <2>1, <2>2, <2>3, StepCases
<1> QED
  BY <1>1, <1>2, <1>3, InitReview, PTL DEF Spec

\* Before its reviewers begin, all of them are to be run.
Unreviewed(r) ==
    \/ starting(r) \/ phase[r] \in {"unused", "prepare"}
    \/ phase[r] = "queued" /\ resume[r] \in {"start", "prepare"}

\* A matrix that is to run, or is running, has somebody to run.
Runs(r) ==
    /\ Unreviewed(r) => Waiting(r) = Reviewer
    /\ phase[r] = "unused" => resume[r] = "start"
    /\ phase[r] = "review" \/ (phase[r] = "queued" /\ resume[r] = "review") =>
          \E v \in Expected(r) : v \in Reviewer /\ job[r][v] = "todo"

MatrixRuns == \A r \in Run : phase[r] = "review" => \E v \in Expected(r) : job[r][v] = "todo"

LEMMA StepRuns ==
    ASSUME ReviewTypeOK, RevisionsKnown, JobTypes, NEW r \in Run, Runs(r), RunStep(r)
    PROVE  Runs(r)'
<1>t. /\ DOMAIN phase = Run /\ DOMAIN resume = Run /\ DOMAIN intent = Run
      /\ DOMAIN manifest = Run /\ DOMAIN job = Run /\ DOMAIN job[r] = Reviewer
      /\ phase[r] \in Phase /\ resume[r] \in Resumed
  BY DEF ReviewTypeOK, JobTypes
<1>e. \A x \in Revision : Routed[x] \subseteq Reviewer
  OBVIOUS
<1> USE <1>t DEF github, jobs, queue, publisher, Runs, Unreviewed, Waiting, Expected, starting
<1>1. CASE Trigger(r)
  BY <1>1 DEF Trigger, Enter
<1>2. ASSUME NEW first \in Resumed, NEW again \in SUBSET Reviewer, Rerun(r, first, again)
      PROVE  Runs(r)'
  <2>1. /\ phase'[r] = "queued" /\ resume'[r] = first /\ manifest' = manifest
        /\ first = "review" => again # {} /\ again \subseteq Expected(r)
        /\ job'[r] = [v \in Reviewer |->
               IF v \in again \/ first \in {"start", "prepare"} THEN "todo" ELSE job[r][v]]
    BY <1>2 DEF Rerun, Enter
  <2> QED
    BY <2>1
<1>3. CASE BeginRun(r)
  BY <1>3 DEF BeginRun, Resumed
<1>4. CASE CancelJob(r) \/ JobDies(r)
  BY <1>4 DEF CancelJob, anyway, JobDies
<1>5. CASE Start(r) \/ Upload(r)
  BY <1>5 DEF Start, Upload
<1>6. CASE Prepare(r)
  <2>1. Waiting(r) = Reviewer /\ phase[r] = "prepare" /\ job' = job
    BY <1>6 DEF Prepare
  <2>2. phase'[r] \in {"publish", "review"}
    BY <1>6 DEF Prepare, anyway
  <2>3. ASSUME phase'[r] = "review"
        PROVE  \E v \in Expected(r)' : v \in Reviewer /\ job'[r][v] = "todo"
    <3>1. manifest'[r] = meta[r] /\ Routed[meta[r]] # {}
      BY <1>6, <2>3 DEF Prepare, anyway
    <3>2. meta[r] \in Revision
      BY <2>1 DEF RevisionsKnown, Known, Working
    <3>3. Routed[meta[r]] \subseteq Reviewer
      BY <1>e, <3>2
    <3> QED
      BY <2>1, <3>1, <3>3
  <2> QED
    BY <2>2, <2>3
<1>7. CASE Check(r) \/ Write(r)
  BY <1>7 DEF Check, Write, Refused
<1>8. ASSUME NEW v \in Reviewer, Review(r, v) PROVE Runs(r)'
  <2>1. PICK x \in {"success", "failure"} : job' = [job EXCEPT ![r][v] = x]
    BY <1>8 DEF Review
  <2>2. /\ manifest' = manifest /\ phase[r] = "review"
        /\ phase'[r] = "review" => \E w \in Expected(r) : job'[r][w] = "todo"
        /\ phase'[r] \in {"review", "publish"}
    BY <1>8 DEF Review, anyway
  <2>3. Expected(r) \subseteq Reviewer
    BY <1>e, <2>2 DEF RevisionsKnown, Known
  <2> QED
    BY <2>2, <2>3
<1>9. CASE Publish(r) \/ Post(r) \/ Conclude(r)
  BY <1>9 DEF Publish, Post, Conclude, Revoke, Returns
<1>10. ASSUME NEW v \in Reviewer, Comment(r, v) PROVE Runs(r)'
  BY <1>10 DEF Comment, Revoke, Returns
<1> QED
  BY <1>1, <1>2, <1>3, <1>4, <1>5, <1>6, <1>7, <1>8, <1>9, <1>10 DEF RunStep, Work

LEMMA NextRuns ==
    ASSUME ReviewTypeOK, RevisionsKnown, JobTypes, \A r \in Run : Runs(r), [Next]_vars
    PROVE  \A r \in Run : Runs(r)'
<1>1. CASE PullRequest \/ UNCHANGED vars
  <2>1. UNCHANGED <<phase, resume, intent, manifest, job>>
    BY <1>1 DEF PullRequest, Push, MainMoves, CloseOrReopen, Becomes, jobs, queue, vars
  <2> QED
    BY <2>1 DEF Runs, Unreviewed, Waiting, Expected, starting
<1>2. ASSUME NEW s \in Run, RunStep(s) PROVE \A r \in Run : Runs(r)'
  <2>1. Runs(s)'
    BY <1>2, StepRuns
  <2>2. ASSUME NEW r \in Run \ {s} PROVE Runs(r)'
    <3>1. Stays(r) /\ job'[r] = job[r]
      BY <1>2, OthersStay, StepJobs
    <3> QED
      BY <3>1 DEF Stays, Runs, Unreviewed, Waiting, Expected, starting
  <2> QED
    BY <2>1, <2>2
<1> QED
  BY <1>1, <1>2, StepCases

\* The matrix never hangs: whichever jobs somebody has run again, after whatever
\* failures and cancellations, a run that is in its reviews has a reviewer of its
\* context that has yet to end.
THEOREM PublicationMatrixRuns == Spec => []MatrixRuns
<1> DEFINE Inv == ReviewInv /\ JobTypes /\ \A r \in Run : Runs(r)
<1>1. Init => Inv
  <2> SUFFICES ASSUME Init PROVE Inv
    OBVIOUS
  <2>1. JobTypes /\ \A r \in Run : Runs(r)
    BY DEF Init, Each, JobTypes, Runs, Unreviewed, Waiting
  <2> QED
    BY <2>1, InitReview
<1>2. Inv /\ [Next]_vars => Inv'
  BY NextReview, NextJobs, NextRuns DEF ReviewInv
<1>3. Inv => MatrixRuns
  BY DEF Runs, MatrixRuns
<1> QED
  BY <1>1, <1>2, <1>3, PTL DEF Spec
=============================================================================
