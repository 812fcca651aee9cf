----------------------------- MODULE ReviewExecution -----------------------------
(***************************************************************************)
(* execute of scripts/review_runtime.py: the checks before a review, the    *)
(* canary test of the sandbox, one process for a prompt that fits one       *)
(* message and the turns of ReviewTurns for a longer one, and the record    *)
(* that the publisher reads.                                                *)
(***************************************************************************)
EXTENDS ReviewTurns

VARIABLES
    provider,
    given,      \* the whole prompt was given to one process
    job_status, \* of the record in memory
    record      \* result.json

execution == <<provider, given, job_status, record>>
vars == <<phase, turn, clock, failing, native, child, pipes, stdin, code, aliases,
          helper, limit, prompt, thread, helpers, history, final, stream, read,
          book, rows, provider, given, job_status, record>>

turns == <<turn, clock, process, conversation, validation>>

Init ==
    /\ TurnsInit
    /\ phase = "start"
    /\ provider \in {"codex", "claude"}
    /\ given = FALSE /\ job_status = "failure" /\ record = "none"

\* Outside of the trusted matrix nothing is recorded; every later check that
\* fails, also one of the credentials, is a failure that is.
Refuse ==
    /\ phase = "start"
    /\ phase' \in {"done", "raised"}
    /\ UNCHANGED <<failing, turns, execution>>

Prepare ==
    /\ phase = "start"
    /\ phase' = IF provider = "codex" THEN "sandbox" ELSE "short"
    /\ UNCHANGED <<failing, turns, execution>>

\* preflight_codex and the format of the session.
Preflight(passes) ==
    /\ phase = "sandbox"
    /\ phase' = IF ~passes THEN "raised"
                ELSE IF prompt.chars > Native THEN "long" ELSE "short"
    /\ UNCHANGED <<failing, turns, execution>>

Ask ==
    /\ phase = "short"
    /\ phase' = "asked" /\ given' = TRUE
    /\ UNCHANGED <<failing, turns, provider, job_status, record>>

\* subprocess.run: exit code, time, compaction (codex) and answer.
Answered(good) ==
    /\ phase = "asked"
    /\ phase' = IF good THEN "verdict" ELSE "raised"
    /\ UNCHANGED <<failing, turns, execution>>

Update ==
    /\ phase = "verdict"
    /\ phase' = "closing" /\ job_status' = "success"
    /\ UNCHANGED <<failing, turns, provider, given, record>>

\* The finally block, behind the removal of the private directory.
Save ==
    /\ phase \in {"raised", "closing"}
    /\ phase' = "done" /\ record' = job_status
    /\ UNCHANGED <<failing, turns, provider, given, job_status>>

Execute ==
    \/ Refuse \/ Prepare \/ Ask \/ Update \/ Save
    \/ \E passes \in BOOLEAN : Preflight(passes)
    \/ \E good \in BOOLEAN : Answered(good)

Next ==
    \/ TurnsStep /\ UNCHANGED execution
    \/ Execute

Spec ==
    /\ Init /\ [][Next]_vars
    /\ TurnsFairness /\ WF_phase(Execute)
=============================================================================
