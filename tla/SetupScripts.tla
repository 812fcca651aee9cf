------------------------------ MODULE SetupScripts ------------------------------
(* The three setup scripts: the runs of a behaviour are runs of one of them, *)
(* as no two of them write the same files.                                   *)
EXTENDS ToolSetup, ReferenceSetup, ConsumerSetup

VARIABLE script

vars == <<script, pc, runs, met, why, litter, want, at, cache, store, link, new,
          environment, listed, wheel, home, package, installation>>

\* What was there before the first run: nothing, or what no run may touch.
Init ==
    /\ RunInit
    /\ \/ /\ script = "tools" /\ ReferenceAbsent /\ ConsumerAbsent
          /\ \/ ToolsAbsent /\ litter = {}
             \/ ToolsFound /\ litter = {"found"}
       \/ /\ script = "reference" /\ ToolsAbsent /\ ConsumerAbsent
          /\ ReferenceInit
          /\ litter = IF disowned(environment) \/ wheel = "bad" THEN {"found"} ELSE {}
       \/ /\ script = "consumer" /\ ToolsAbsent /\ ReferenceAbsent
          /\ ConsumerInit
          /\ litter = IF home = "foreign" THEN {"found"} ELSE {}

Next ==
    \/ script = "tools" /\ ToolStep /\ UNCHANGED <<script, reference, consumer>>
    \/ script = "reference" /\ ReferenceStep /\ UNCHANGED <<script, tools, consumer>>
    \/ script = "consumer" /\ ConsumerStep /\ UNCHANGED <<script, tools, reference>>

Spec == Init /\ [][Next]_vars
=============================================================================
