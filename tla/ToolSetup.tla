------------------------------- MODULE ToolSetup -------------------------------
(***************************************************************************)
(* scripts/setup.py: one component of the toolchain is downloaded into a   *)
(* cache, unpacked into a store of versions, and exposed by links that its *)
(* probe runs.  A component may have several links (npm and npx).          *)
(***************************************************************************)
EXTENDS SetupRun

CONSTANTS
    Version,
    Links       \* how many links the component has; the first is probed

ASSUME LinksAssumption ==
    /\ Links \in Nat \ {0}
    /\ None \notin Version /\ "foreign" \notin Version /\ None # "foreign"

VARIABLES
    want,       \* the version a run installs
    at,         \* the link it is about
    cache,      \* the archive under a version's digest
    store,      \* the directory of a version
    link,       \* where a link of the bin directory points
    new         \* the same of the temporary name beside it

tools == <<want, at, cache, store, link, new>>
files == <<cache, store, link, new>>

ToolsAbsent ==
    /\ want = [p \in Process |-> None]
    /\ at = [p \in Process |-> 1]
    /\ cache = [v \in Version |-> "absent"]
    /\ store = [v \in Version |-> "absent"]
    /\ link = [l \in 1 .. Links |-> None]
    /\ new = [l \in 1 .. Links |-> None]

\* An archive or a directory that is not what its name says, a directory that
\* lost its executables, an executable that is not a link.
ToolsFound ==
    /\ want = [p \in Process |-> None]
    /\ at = [p \in Process |-> 1]
    /\ \E v \in Version, l \in 1 .. Links,
          kind \in {"archive", "directory", "hollow", "executable"} :
          /\ cache = [x \in Version |-> IF x = v /\ kind = "archive" THEN "bad" ELSE "absent"]
          /\ store = [x \in Version |->
                         IF x # v THEN "absent"
                         ELSE IF kind = "directory" THEN "foreign"
                         ELSE IF kind = "hollow" THEN "hollow" ELSE "absent"]
          /\ link = [x \in 1 .. Links |->
                        IF x = l /\ kind = "executable" THEN "foreign" ELSE None]
          /\ new = [x \in 1 .. Links |-> None]

BeginTools(p, v) ==
    /\ Begin(p, "cache")
    /\ want' = [want EXCEPT ![p] = v]
    /\ at' = [at EXCEPT ![p] = 1]
    /\ UNCHANGED files
-----------------------------------------------------------------------------
(* download, install.                                                      *)

Cached(p) ==
    /\ pc[p] = "cache"
    /\ \/ cache[want[p]] = "absent" /\ Goto(p, "fetch")
       \/ cache[want[p]] = "good" /\ Goto(p, "store")
       \/ cache[want[p]] = "bad" /\ Fail(p, "digest")
    /\ UNCHANGED tools

\* What arrives is verified under a name of its own.
Fetch(p) ==
    /\ pc[p] = "fetch"
    /\ \/ Goto(p, "store") /\ cache' = [cache EXCEPT ![want[p]] = "good"]
       \/ Fail(p, "outside") /\ UNCHANGED cache
    /\ UNCHANGED <<want, at, store, link, new>>

\* Mutant: the marker is not compared.
M_managed(v) == store[v] # "absent"
managed(v) == store[v] \in {"complete", "hollow"}

Reuse(p) ==
    /\ pc[p] = "store"
    /\ \/ store[want[p]] = "absent" /\ Goto(p, "unpack")
       \/ managed(want[p]) /\ Goto(p, "expose")
       \/ store[want[p]] # "absent" /\ ~managed(want[p]) /\ Fail(p, "unmanaged")
    /\ UNCHANGED tools

\* Unpacked and marked in a private directory, which gets its name at once,
\* unless another run was first.
Unpack(p) ==
    /\ pc[p] = "unpack"
    /\ \/ /\ store[want[p]] = "absent"
          /\ store' = [store EXCEPT ![want[p]] = "complete"]
          /\ Goto(p, "expose")
       \/ store[want[p]] # "absent" /\ Fail(p, "race") /\ UNCHANGED store
    /\ UNCHANGED <<want, at, cache, link, new>>
-----------------------------------------------------------------------------
(* expose, probe_version.                                                  *)

executable(v) == store[v] \in {"complete", "foreign"}

Expose(p) ==
    /\ pc[p] = "expose"
    /\ \/ ~executable(want[p]) /\ Fail(p, "missing")
       \/ /\ executable(want[p]) /\ link[at[p]] = "foreign"
          /\ Fail(p, "unmanaged")
       \/ /\ executable(want[p]) /\ link[at[p]] # "foreign" /\ new[at[p]] # None
          /\ Fail(p, "another setup")
       \/ /\ executable(want[p]) /\ link[at[p]] # "foreign" /\ new[at[p]] = None
          /\ Goto(p, "link")
    /\ UNCHANGED tools

Link(p) ==
    /\ pc[p] = "link"
    /\ \/ /\ new[at[p]] = None
          /\ new' = [new EXCEPT ![at[p]] = want[p]]
          /\ Goto(p, "replace")
       \/ new[at[p]] # None /\ Fail(p, "race") /\ UNCHANGED new
    /\ UNCHANGED <<want, at, cache, store, link>>

Replace(p) ==
    /\ pc[p] = "replace"
    /\ link' = [link EXCEPT ![at[p]] = new[at[p]]]
    /\ new' = [new EXCEPT ![at[p]] = None]
    /\ IF at[p] < Links
       THEN Goto(p, "expose") /\ at' = [at EXCEPT ![p] = @ + 1]
       ELSE Goto(p, "probe") /\ UNCHANGED at
    /\ UNCHANGED <<want, cache, store>>

\* The probe runs whatever the link leads to by now.
Probe(p) ==
    /\ pc[p] = "probe"
    /\ \/ link[1] = want[p] /\ Goto(p, "reported")
       \/ link[1] # want[p] /\ Fail(p, "version")
       \/ Fail(p, "outside")
    /\ UNCHANGED tools

KillTools(p) ==
    /\ Kill(p, IF pc[p] = "replace" THEN {"link"} ELSE {})
    /\ UNCHANGED tools

ToolStep ==
    \E p \in Process :
        \/ \E v \in Version : BeginTools(p, v)
        \/ Cached(p) \/ Fetch(p) \/ Reuse(p) \/ Unpack(p)
        \/ Expose(p) \/ Link(p) \/ Replace(p) \/ Probe(p) \/ KillTools(p)
=============================================================================
