------------------------------ MODULE ConsumerSetup ------------------------------
(***************************************************************************)
(* scripts/integration/setup_consumer_typescript.py: the older compiler is *)
(* installed below a directory that a marker claims, and a record is       *)
(* written beside it.                                                      *)
(***************************************************************************)
EXTENDS SetupRun

VARIABLES
    home,           \* the directory: none, made, owned (marked) or foreign
    package,        \* the compiler in it: none, complete, partial
    installation    \* whether installation.json is there

consumer == <<home, package, installation>>

ConsumerInit ==
    /\ \/ home \in {"none", "foreign"} /\ package = "none"
       \/ home = "owned" /\ package = "complete"
    /\ installation = (package = "complete")

ConsumerAbsent == home = "none" /\ package = "none" /\ installation = FALSE

BeginConsumer(p) ==
    /\ Begin(p, "claim")
    /\ UNCHANGED consumer

Claim(p) ==
    /\ pc[p] = "claim"
    /\ \/ home = "none" /\ home' = "made" /\ Goto(p, "mark")
       \/ home = "owned" /\ Goto(p, "download") /\ UNCHANGED home
       \/ home \in {"made", "foreign"} /\ Fail(p, "unmanaged") /\ UNCHANGED home
    /\ UNCHANGED <<package, installation>>

Mark(p) ==
    /\ pc[p] = "mark"
    /\ home' = "owned"
    /\ Goto(p, "download")
    /\ UNCHANGED <<package, installation>>

\* The archive is read, verified, unpacked in a directory of its own, and run.
Download(p) ==
    /\ pc[p] = "download"
    /\ \/ Goto(p, "look") \/ Fail(p, "outside")
    /\ UNCHANGED consumer

Look(p) ==
    /\ pc[p] = "look"
    /\ Goto(p, IF package = "none" THEN "rename" ELSE "remove")
    /\ UNCHANGED consumer

\* A removal takes its time, and stops at what another run has removed.
RemovePackage(p) ==
    /\ pc[p] = "remove"
    /\ \/ package # "none" /\ package' = "partial" /\ Goto(p, "clear")
       \/ package = "none" /\ Fail(p, "race") /\ UNCHANGED package
    /\ UNCHANGED <<home, installation>>

ClearPackage(p) ==
    /\ pc[p] = "clear"
    /\ \/ package = "partial" /\ package' = "none" /\ Goto(p, "rename")
       \/ package # "partial" /\ Fail(p, "race") /\ UNCHANGED package
    /\ UNCHANGED <<home, installation>>

RenamePackage(p) ==
    /\ pc[p] = "rename"
    /\ \/ package = "none" /\ package' = "complete" /\ Goto(p, "record")
       \/ package # "none" /\ Fail(p, "race") /\ UNCHANGED package
    /\ UNCHANGED <<home, installation>>

Record(p) ==
    /\ pc[p] = "record"
    /\ installation' = TRUE
    /\ Goto(p, "reported")
    /\ UNCHANGED <<home, package>>

KillConsumer(p) ==
    /\ Kill(p, IF pc[p] = "mark" THEN {"claim"} ELSE {})
    /\ UNCHANGED consumer

ConsumerStep ==
    \E p \in Process :
        \/ BeginConsumer(p) \/ Claim(p) \/ Mark(p) \/ Download(p) \/ Look(p)
        \/ RemovePackage(p) \/ ClearPackage(p) \/ RenamePackage(p) \/ Record(p)
        \/ KillConsumer(p)
=============================================================================
