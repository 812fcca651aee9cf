-------------------------------- MODULE SetupRun --------------------------------
(***************************************************************************)
(* Runs of one of the setup scripts on one checkout: started, killed at    *)
(* any step, started again, also while another one runs.  What a script    *)
(* does is in ToolSetup, ReferenceSetup and ConsumerSetup.                 *)
(***************************************************************************)
EXTENDS Naturals

CONSTANTS
    Process,
    MaxRuns,    \* bound on the number of runs
    None

\* The exceptions, by their causes; "outside" is the network or a program.
Reason == {"outside", "race", "digest", "unmanaged", "missing", "another setup", "version"}

ASSUME RunAssumption == MaxRuns \in Nat /\ None \notin Reason

VARIABLES
    pc,         \* where a process is in its script
    runs,
    met,        \* history: another run was active during this one
    why,        \* the exception that ended a run
    litter      \* history: what no run can clean up, by how it came about

run == <<pc, runs, met, why, litter>>

Outcome == {"idle", "reported", "failed"}
Active(p) == pc[p] \notin Outcome

RunInit ==
    /\ pc = [p \in Process |-> "idle"]
    /\ runs = 0
    /\ met = [p \in Process |-> FALSE]
    /\ why = [p \in Process |-> None]

Begin(p, first) ==
    /\ ~Active(p) /\ runs < MaxRuns
    /\ runs' = runs + 1
    /\ pc' = [pc EXCEPT ![p] = first]
    /\ met' = [q \in Process |->
                  IF q = p THEN \E x \in Process : Active(x)
                  ELSE met[q] \/ Active(q)]
    /\ why' = [why EXCEPT ![p] = None]
    /\ UNCHANGED litter

\* A run is killed, and leaves what is called w, if anything.
Kill(p, w) ==
    /\ Active(p)
    /\ pc' = [pc EXCEPT ![p] = "idle"]
    /\ litter' = litter \cup w
    /\ UNCHANGED <<runs, met, why>>

Goto(p, label) ==
    /\ pc' = [pc EXCEPT ![p] = label]
    /\ UNCHANGED <<runs, met, why, litter>>

FailLeaving(p, reason, w) ==
    /\ pc' = [pc EXCEPT ![p] = "failed"]
    /\ why' = [why EXCEPT ![p] = reason]
    /\ litter' = litter \cup w
    /\ UNCHANGED <<runs, met>>

Fail(p, reason) == FailLeaving(p, reason, {})
=============================================================================
