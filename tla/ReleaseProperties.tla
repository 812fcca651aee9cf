---------------------------- MODULE ReleaseProperties ----------------------------
(* What a local release promises to who reads its record or owns the machine. *)
EXTENDS LocalRelease

Recorded == output = "record" /\ mode = "deploy-local"

\* "Cleanup must finish before publishing success" (release/local.py:141), and
\* a success record describes what was deployed: the class on the chain is the
\* one that was planned, and the one whose hashes and whose source are in the
\* record, however the checkout was edited and built meanwhile.  (With a third
\* edit the source can be another one at both looks, and this one in between.)
\* A record that CI accepts is of a devnet of this release, not of a program
\* that took its port.  No record takes the place of another's file, whenever
\* that appeared.
RecordIsTruthful ==
    /\ output = "record" => ~foreign
    /\ Recorded =>
        /\ server = "exited" /\ secrets = {}
        /\ deployed = record.class
        /\ edits < 3 => record.class = record.artifact /\ record.class = record.source
        /\ checked => ~taken

\* The devnet has ended and no private file is left, when the release has ended.
DevnetGone ==
    pc \in Ended =>
        \/ server # "running" /\ secrets = {}
        \/ hit \cap {"popen", "ignore"} # {}

\* SIGINT and SIGTERM do again what they did before, when the block of the devnet
\* is over or something before it failed: a later signal ends the release and is
\* not taken for one to the devnet.
HandlersReturn ==
    pc \in {"stopped", "publish", "link", "done", "raised"} =>
        \/ \A s \in Signals : handler[s] = "default"
        \/ hit \cap {"install", "ignore"} # {}

\* "Bounded owned-server cleanup on normal exit, SIGINT and SIGTERM"
\* (integration/server.py:1): whatever is raised at which label, and however many
\* signals come, devnet and private files go and the signal handlers come back.
\* Except when a signal came in one of these places: for both, in the finally
\* block before both signals are ignored; for the devnet, between its start and
\* the assignment that makes it known; for the handlers, while they were being
\* installed (server.py:19: one is in place before it is in previous).
CleanupUnlessInterrupted == DevnetGone /\ HandlersReturn

\* A release ends, also if its devnet does not heed SIGTERM.
ReleaseEnds == <>(pc \in Ended)
=============================================================================
