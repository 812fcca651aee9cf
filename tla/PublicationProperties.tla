------------------------- MODULE PublicationProperties -------------------------
(* What the published reviews promise to those who merge.                  *)
EXTENDS ReviewPublication

\* "All expected reviews completed without blocking findings": behind a green
\* status there is, for some base, a comment of every reviewer routed for that
\* revision, of the run that the status links and without a blocking finding,
\* although artifacts outlive attempts and downloads may be incomplete.
SuccessIsVisible ==
    \A h \in Head : status[h].state = "success" =>
        \E x \in Revision :
            /\ x.head = h
            /\ \A v \in Routed[x] : \E c \in comments :
                  /\ c.run = status[h].run /\ c.reviewer = v
                  /\ c.of = x /\ c.body = "clean"

\* A comment that reports a review reports what that reviewer said of that
\* very revision: never of the one before the pull request moved.
CommentsAreTruthful ==
    \A c \in comments : c.body # "incomplete" =>
        [of |-> c.of, reviewer |-> c.reviewer, verdict |-> c.body] \in given

\* "Refusing to publish results for a superseded PR revision": between the
\* check and the write the pull request can move, but a run then writes no
\* second time about a revision it has left.
OneLateWrite == \A r \in Run : late[r] <= 1

\* "Failed-jobs reruns reuse start's metadata artifact": the comments of an
\* earlier attempt never stop a later one from publishing.
EarlierAttemptsDoNotBlock ==
    \A r \in Run, v \in Reviewer :
        phase[r] = "comment" /\ v \in todo[r] => ~collides(r, v)

\* "A failed publisher must revoke any earlier green status for the same head":
\* also if it fails because main has moved.
FailedPublisherRevokes ==
    [][\A r \in Run :
          intent[r] = "revoke" /\ phase[r] # "done" /\ phase'[r] = "done"
          /\ pr.open /\ pr.head = meta[r].head
          => status'[meta[r].head].state # "success"]_vars

\* If GitHub runs its jobs and answers its calls, and the pull request stays
\* what it is, then the pending status of a run in progress is settled: also if
\* the run is cancelled.
PendingSettles ==
    \A r \in Run :
        LET pending == status[meta[r].head] = [state |-> "pending", run |-> r]
        IN  [](Active(r) /\ start[r] = "success" /\ []current(r)
               => <>(current(r) /\ ~pending))
=============================================================================
