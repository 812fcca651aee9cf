----------------------------- MODULE ReferenceSetup -----------------------------
(***************************************************************************)
(* scripts/setup_reference.py: the environment of the independent oracle   *)
(* is removed, if it is owned, claimed by a marker, built in place and     *)
(* filled from hash-locked wheels.                                         *)
(***************************************************************************)
EXTENDS SetupRun, FiniteSets

VARIABLES
    environment,    \* the entries of the directory, None if there is none
    listed,         \* what a removal has still to remove
    wheel           \* the wheels in the cache

reference == <<environment, listed, wheel>>

Entry == {"marker", "python", "packages", "other"}

ASSUME ReferenceAssumption == \A e \in SUBSET Entry : None # e

ReferenceInit ==
    /\ environment \in {None, {}, {"other"}, {"marker", "python", "packages"}}
    /\ listed = [p \in Process |-> {}]
    /\ wheel \in {"absent", "bad"}

ReferenceAbsent ==
    environment = None /\ listed = [p \in Process |-> {}] /\ wheel = "absent"

entries == IF environment = None THEN {} ELSE environment

\* A directory that nobody owns any more.
disowned(e) == e # None /\ "marker" \notin e

BeginReference(p) ==
    /\ Begin(p, "interpreter")
    /\ UNCHANGED reference

\* The lock and the interpreter that setup.py exposes are checked first.
Interpreter(p) ==
    /\ pc[p] = "interpreter"
    /\ \/ Goto(p, "check") \/ Fail(p, "outside")
    /\ UNCHANGED reference
-----------------------------------------------------------------------------
(* create_environment.                                                     *)

\* Mutant: an owned environment is taken for a complete one.
M_after_check == "inspect"
after_check == "remove"

Check(p) ==
    /\ pc[p] = "check"
    /\ \/ environment = None /\ Goto(p, "stage") /\ UNCHANGED listed
       \/ disowned(environment) /\ Fail(p, "unmanaged") /\ UNCHANGED listed
       \/ /\ "marker" \in entries
          /\ listed' = [listed EXCEPT ![p] = environment]
          /\ Goto(p, after_check)
    /\ UNCHANGED <<environment, wheel>>

\* The entries go in any order, the marker too.  One that another run removed
\* is an error or, of late, none.
Remove(p, e) ==
    /\ pc[p] = "remove" /\ e \in listed[p]
    /\ environment' = IF environment = None THEN None ELSE environment \ {e}
    /\ \/ listed' = [listed EXCEPT ![p] = @ \ {e}] /\ UNCHANGED run
       \/ /\ e \notin entries
          /\ FailLeaving(p, "race", IF disowned(environment) THEN {"removal"} ELSE {})
          /\ listed' = [listed EXCEPT ![p] = {}]
    /\ UNCHANGED wheel

\* The directory itself goes if it is empty.
Removed(p) ==
    /\ pc[p] = "remove" /\ listed[p] = {}
    /\ \/ environment = {} /\ environment' = None /\ Goto(p, "stage")
       \/ /\ environment # {}
          /\ FailLeaving(p, "race", IF disowned(environment) THEN {"removal"} ELSE {})
          /\ UNCHANGED environment
    /\ UNCHANGED <<listed, wheel>>

Stage(p) ==
    /\ pc[p] = "stage"
    /\ \/ environment = None /\ Goto(p, "rename")
       \/ environment # None /\ Fail(p, "unmanaged")
    /\ UNCHANGED reference

\* Mutant: the marker is written when the environment is complete.
M_staged == {}
staged == {"marker"}

\* The staged directory gets its name, also over an empty directory.
Rename(p) ==
    /\ pc[p] = "rename"
    /\ \/ entries = {} /\ environment' = staged /\ Goto(p, "venv")
       \/ entries # {} /\ Fail(p, "race") /\ UNCHANGED environment
    /\ UNCHANGED <<listed, wheel>>

\* The venv module makes the directory that another run has removed.
Venv(p) ==
    /\ pc[p] = "venv"
    /\ \/ /\ environment' = entries \cup {"python"}
          /\ pc' = [pc EXCEPT ![p] = "wheels"]
          /\ litter' = litter \cup (IF "marker" \in entries THEN {} ELSE {"venv"})
          /\ UNCHANGED <<runs, met, why>>
       \/ Fail(p, "outside") /\ UNCHANGED environment
    /\ UNCHANGED <<listed, wheel>>
-----------------------------------------------------------------------------
(* wheel, main.                                                            *)

Wheels(p) ==
    /\ pc[p] = "wheels"
    /\ \/ wheel = "absent" /\ wheel' = "good" /\ UNCHANGED run
       \/ wheel = "absent" /\ Fail(p, "outside") /\ UNCHANGED wheel
       \/ wheel = "good" /\ Goto(p, "install") /\ UNCHANGED wheel
       \/ wheel = "bad" /\ Fail(p, "digest") /\ UNCHANGED wheel
    /\ UNCHANGED <<environment, listed>>

Install(p) ==
    /\ pc[p] = "install"
    /\ \/ /\ "python" \in entries
          /\ environment' = environment \cup {"packages"}
          /\ Goto(p, "inspect")
       \/ "python" \notin entries /\ Fail(p, "race") /\ UNCHANGED environment
       \/ Fail(p, "outside") /\ UNCHANGED environment
    /\ UNCHANGED <<listed, wheel>>

\* pip check finds nothing wrong with an environment without packages.
Inspect(p) ==
    /\ pc[p] = "inspect"
    /\ \/ "python" \in entries /\ Goto(p, "reported")
       \/ "python" \notin entries /\ Fail(p, "race")
    /\ UNCHANGED reference

KillReference(p) ==
    /\ Kill(p, IF pc[p] = "remove" /\ disowned(environment) THEN {"removal"} ELSE {})
    /\ listed' = [listed EXCEPT ![p] = {}]
    /\ UNCHANGED <<environment, wheel>>

ReferenceStep ==
    \E p \in Process :
        \/ BeginReference(p) \/ Interpreter(p) \/ Check(p)
        \/ \E e \in Entry : Remove(p, e)
        \/ Removed(p) \/ Stage(p) \/ Rename(p) \/ Venv(p)
        \/ Wheels(p) \/ Install(p) \/ Inspect(p) \/ KillReference(p)
=============================================================================
