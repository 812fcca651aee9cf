-------------------------- MODULE SessionProperties --------------------------
(* What the outcome of a submission tells the application about the        *)
(* registry.                                                               *)
EXTENDS SubmissionSession

\* The wallet executed with another account than the one validated, and that
\* matters to the call.
Switched == caller # destination /\ call.kind # "revoke"

\* A successful receipt reads back as matched unless somebody else changed
\* the address or one of the watched pairs, or the wallet switched: what
\* signedEffect and unsignedSubmit expect is what the contract does.
MismatchExplained ==
    result = "mismatch" => interfered \/ Switched

\* A validated submission is reverted only for a reason that arose later:
\* interference, a switched wallet, the deadline, or a list filled up.
RevertExplained ==
    [][result # "execution-reverted" /\ result' = "execution-reverted" =>
          \/ interfered
          \/ Switched
          \/ /\ call.kind \in {"link", "move", "revoke"}
             /\ block_timestamp > call.deadline
          \/ /\ call.kind \in {"link", "move"}
             /\ ~has_next_count(count(destination))]_allvars

\* A matched readback of a signed request or an unlink means that the change
\* was this submission's and the only one: nobody else touched the address
\* since validation, though others were free to.  (A cancellation may match
\* because the account itself cancelled elsewhere.)
MatchedIsOurs ==
    result = "matched" /\ call.kind # "invalidate_pending_incoming" =>
        ~interfered /\ ~Switched
=============================================================================
