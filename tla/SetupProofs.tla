------------------------------ MODULE SetupProofs ------------------------------
(***************************************************************************)
(* What is exposed is complete, what is reported is installed and what is  *)
(* refused has a cause: for any number of processes, versions and links,   *)
(* and of runs that are killed anywhere.                                   *)
(***************************************************************************)
EXTENDS SetupProperties, TLAPS

\* The labels of setup.py behind which the archive of a run's version is good,
\* and those behind which its directory is.
Verified == {"store", "unpack", "expose", "link", "replace"}
ToolLabel == Verified \cup {"cache", "fetch", "probe"} \cup Outcome

ToolFilesOK ==
    /\ cache \in [Version -> {"absent", "good", "bad"}]
    /\ store \in [Version -> {"absent", "complete", "hollow", "foreign"}]
    /\ link \in [1 .. Links -> Version \cup {None, "foreign"}]
    /\ new \in [1 .. Links -> Version \cup {None}]
    /\ at \in [Process -> 1 .. Links]
    /\ want \in [Process -> Version \cup {None}]

\* Where a run of setup.py is says what it has found or made.
Progress ==
    /\ pc \in [Process -> ToolLabel]
    /\ \A p \in Process :
          /\ Active(p) => want[p] \in Version
          /\ pc[p] \in Verified => cache[want[p]] = "good"
          /\ pc[p] = "expose" => store[want[p]] \in {"complete", "hollow"}
          /\ pc[p] \in {"link", "replace"} => store[want[p]] = "complete"

SetupInv ==
    /\ ToolFilesOK
    /\ ExposedIsComplete
    /\ script = "tools" => Progress

-----------------------------------------------------------------------------
\* Nothing a setup script finds at the beginning is exposed.
LEMMA SetupInit == Init => SetupInv
<1> SUFFICES ASSUME Init PROVE SetupInv
  OBVIOUS
<1> USE LinksAssumption
<1>1. ToolsAbsent \/ ToolsFound
  BY DEF Init
<1>2. ToolFilesOK
  BY <1>1 DEF ToolsAbsent, ToolsFound, ToolFilesOK
<1>3. ExposedIsComplete
  BY <1>1 DEF ToolsAbsent, ToolsFound, ExposedIsComplete
<1>4. script = "tools" => Progress
  BY DEF Init, RunInit, Progress, ToolLabel, Outcome, Active, Verified
<1> QED
  BY <1>2, <1>3, <1>4 DEF SetupInv

\* A step of setup.py keeps the invariant: a link is made for a version whose
\* directory is complete, and a complete version stays so.
LEMMA ToolStepKeeps ==
    ASSUME SetupInv, script = "tools", script' = script, ToolStep
    PROVE  SetupInv'
<1> USE LinksAssumption DEF SetupInv
<1> PICK p \in Process :
        \/ \E v \in Version : BeginTools(p, v)
        \/ Cached(p) \/ Fetch(p) \/ Reuse(p) \/ Unpack(p)
        \/ Expose(p) \/ Link(p) \/ Replace(p) \/ Probe(p) \/ KillTools(p)
  BY DEF ToolStep
<1>1. ASSUME NEW v \in Version, BeginTools(p, v) PROVE SetupInv'
  <2>1. ToolFilesOK' /\ ExposedIsComplete'
    BY <1>1 DEF BeginTools, files, ToolFilesOK, ExposedIsComplete
  <2>2. Progress'
    BY <1>1 DEF BeginTools, Begin, files, Progress, ToolLabel, Verified, Outcome, Active,
                ToolFilesOK
  <2> QED
    BY <2>1, <2>2
<1>2. CASE Cached(p)
  <2>1. ToolFilesOK' /\ ExposedIsComplete'
    BY <1>2 DEF Cached, tools, ToolFilesOK, ExposedIsComplete
  <2>2. Progress'
    BY <1>2 DEF Cached, Goto, Fail, FailLeaving, tools, Progress, ToolLabel, Verified,
                Outcome, Active
  <2> QED
    BY <2>1, <2>2
<1>3. CASE Fetch(p)
  <2>0. want[p] \in Version
    BY <1>3 DEF Fetch, Progress, Active, Outcome
  <2>1. ToolFilesOK' /\ ExposedIsComplete'
    BY <1>3, <2>0 DEF Fetch, ToolFilesOK, ExposedIsComplete
  <2>2. Progress'
    <3>1. \A q \in Process : cache[want[q]] = "good" /\ want[q] \in Version
              => cache'[want[q]] = "good"
      BY <1>3, <2>0 DEF Fetch, ToolFilesOK
    <3>2. CASE Goto(p, "store") /\ cache' = [cache EXCEPT ![want[p]] = "good"]
      <4>1. cache'[want[p]] = "good"
        BY <2>0, <3>2 DEF ToolFilesOK
      <4> QED
        BY <1>3, <3>1, <3>2, <4>1 DEF Fetch, Goto, Progress, ToolLabel, Verified, Outcome,
                                      Active
    <3>3. CASE Fail(p, "outside") /\ UNCHANGED cache
      BY <1>3, <3>3 DEF Fetch, Fail, FailLeaving, Progress, ToolLabel, Verified, Outcome,
                        Active
    <3> QED
      BY <1>3, <3>2, <3>3 DEF Fetch
  <2> QED
    BY <2>1, <2>2
<1>4. CASE Reuse(p)
  <2>1. ToolFilesOK' /\ ExposedIsComplete'
    BY <1>4 DEF Reuse, tools, ToolFilesOK, ExposedIsComplete
  <2>2. Progress'
    BY <1>4 DEF Reuse, managed, Goto, Fail, FailLeaving, tools, Progress, ToolLabel,
                Verified, Outcome, Active
  <2> QED
    BY <2>1, <2>2
<1>5. CASE Unpack(p)
  <2>0. want[p] \in Version
    BY <1>5 DEF Unpack, Progress, Active, Outcome
  <2>1. ToolFilesOK' /\ ExposedIsComplete'
    BY <1>5, <2>0 DEF Unpack, ToolFilesOK, ExposedIsComplete
  <2>2. Progress'
    <3>1. CASE store[want[p]] = "absent" /\ Goto(p, "expose")
      BY <1>5, <2>0, <3>1 DEF Unpack, Goto, Progress, ToolLabel, Verified, Outcome, Active,
                              ToolFilesOK
    <3>2. CASE Fail(p, "race") /\ UNCHANGED store
      BY <1>5, <2>0, <3>2 DEF Unpack, Fail, FailLeaving, Progress, ToolLabel, Verified,
                              Outcome, Active
    <3> QED
      BY <1>5, <3>1, <3>2 DEF Unpack
  <2> QED
    BY <2>1, <2>2
<1>6. CASE Expose(p)
  <2>1. ToolFilesOK' /\ ExposedIsComplete'
    BY <1>6 DEF Expose, tools, ToolFilesOK, ExposedIsComplete
  <2>2. Progress'
    BY <1>6 DEF Expose, executable, Goto, Fail, FailLeaving, tools, Progress, ToolLabel,
                Verified, Outcome, Active
  <2> QED
    BY <2>1, <2>2
<1>7. CASE Link(p)
  <2>0. /\ want[p] \in Version /\ at[p] \in 1 .. Links
        /\ store[want[p]] = "complete" /\ cache[want[p]] = "good"
    BY <1>7 DEF Link, Progress, Active, Outcome, Verified, ToolFilesOK
  <2>1. ToolFilesOK' /\ ExposedIsComplete'
    <3>1. ToolFilesOK'
      BY <1>7, <2>0 DEF Link, ToolFilesOK
    <3>2. ExposedIsComplete'
      BY <1>7, <2>0 DEF Link, ToolFilesOK, ExposedIsComplete
    <3> QED
      BY <3>1, <3>2
  <2>2. Progress'
    BY <1>7 DEF Link, Goto, Fail, FailLeaving, Progress, ToolLabel, Verified, Outcome,
                Active
  <2> QED
    BY <2>1, <2>2
<1>8. CASE Replace(p)
  <2>0. at[p] \in 1 .. Links /\ new[at[p]] \in Version \cup {None}
    BY <1>8 DEF ToolFilesOK
  <2>1. at' \in [Process -> 1 .. Links]
    <3>1. CASE at[p] < Links /\ at' = [at EXCEPT ![p] = at[p] + 1]
      <4>1. at[p] + 1 \in 1 .. Links
        BY <2>0, <3>1
      <4> QED
        BY <3>1, <4>1 DEF ToolFilesOK
    <3>2. CASE UNCHANGED at
      BY <3>2 DEF ToolFilesOK
    <3> QED
      BY <1>8, <3>1, <3>2 DEF Replace
  <2>2. ToolFilesOK' /\ ExposedIsComplete'
    BY <1>8, <2>0, <2>1 DEF Replace, ToolFilesOK, ExposedIsComplete
  <2>3. Progress'
    BY <1>8 DEF Replace, Goto, Progress, ToolLabel, Verified, Outcome, Active
  <2> QED
    BY <2>2, <2>3
<1>9. CASE Probe(p)
  <2>1. ToolFilesOK' /\ ExposedIsComplete'
    BY <1>9 DEF Probe, tools, ToolFilesOK, ExposedIsComplete
  <2>2. Progress'
    BY <1>9 DEF Probe, Goto, Fail, FailLeaving, tools, Progress, ToolLabel, Verified,
                Outcome, Active
  <2> QED
    BY <2>1, <2>2
<1>10. CASE KillTools(p)
  <2>1. ToolFilesOK' /\ ExposedIsComplete'
    BY <1>10 DEF KillTools, tools, ToolFilesOK, ExposedIsComplete
  <2>2. Progress'
    BY <1>10 DEF KillTools, Kill, tools, Progress, ToolLabel, Verified, Outcome, Active
  <2> QED
    BY <2>1, <2>2
<1> QED
  BY <1>1, <1>2, <1>3, <1>4, <1>5, <1>6, <1>7, <1>8, <1>9, <1>10

\* The other scripts, and no step at all, touch nothing the invariant is about.
LEMMA SetupStep == SetupInv /\ [Next]_vars => SetupInv'
<1> SUFFICES ASSUME SetupInv, [Next]_vars PROVE SetupInv'
  OBVIOUS
<1>1. CASE script = "tools" /\ ToolStep /\ UNCHANGED script
  BY <1>1, ToolStepKeeps
<1>2. CASE script # "tools" /\ UNCHANGED <<script, tools>>
  BY <1>2 DEF SetupInv, tools, ToolFilesOK, ExposedIsComplete
<1>3. CASE UNCHANGED vars
  BY <1>3 DEF SetupInv, vars, ToolFilesOK, ExposedIsComplete, Progress, Active
<1> QED
  BY <1>1, <1>2, <1>3 DEF Next

\* Whatever was killed when, and however many setups overlapped: an exposed
\* link, and the temporary one beside it, leads to a version that was unpacked
\* as a whole from a verified archive.
THEOREM SetupExposedIsComplete == Spec => []ExposedIsComplete
<1>1. SetupInv => ExposedIsComplete
  BY DEF SetupInv
<1> QED
  BY <1>1, SetupInit, SetupStep, PTL DEF Spec
-----------------------------------------------------------------------------
(* Refusals and reports.                                                   *)

\* What only a run that met no other may rely on.
Alone(p) == Active(p) /\ ~met[p]

RunOK ==
    /\ pc = [p \in Process |-> pc[p]]
    /\ why = [p \in Process |-> why[p]]
    /\ met \in [Process -> BOOLEAN]
    /\ \A p, q \in Process : p # q /\ Active(p) /\ Active(q) => met[p]

\* What was found stays known as such; a temporary link is of a run that is
\* about to rename it, or of one that was killed there.
ToolTraces ==
    /\ \A v \in Version : store[v] \in {"foreign", "hollow"} \/ cache[v] = "bad"
                              => "found" \in litter
    /\ \A l \in 1 .. Links : link[l] = "foreign" => "found" \in litter
    /\ \A l \in 1 .. Links : new[l] # None =>
          "link" \in litter \/ \E p \in Process : pc[p] = "replace" /\ at[p] = l

ToolAlone ==
    \A p \in Process : Alone(p) =>
        /\ pc[p] = "unpack" => store[want[p]] = "absent"
        /\ pc[p] = "link" => new[at[p]] = None
        /\ pc[p] = "replace" => new[at[p]] = want[p]
        /\ pc[p] \in {"cache", "fetch", "store", "unpack"} => at[p] = 1
        /\ pc[p] \in {"expose", "link", "replace"} =>
              \A l \in 1 .. Links : l < at[p] => link[l] = want[p]
        /\ pc[p] = "probe" => \A l \in 1 .. Links : link[l] = want[p]

\* An environment without its marker is being removed, or was left by one of
\* the runs that are named.
ReferenceTraces ==
    /\ environment = None \/ environment \in SUBSET Entry
    /\ listed \in [Process -> SUBSET Entry]
    /\ wheel = "bad" => "found" \in litter
    /\ disowned(environment) =>
          \/ litter \cap {"found", "removal", "venv"} # {}
          \/ \E p \in Process : pc[p] = "remove"

ReferenceAlone ==
    \A p \in Process : Alone(p) =>
        /\ pc[p] = "remove" => environment # None /\ listed[p] = environment
        /\ pc[p] \in {"stage", "rename"} => environment = None
        /\ pc[p] = "venv" => "marker" \in entries
        /\ pc[p] \in {"wheels", "install"} => {"marker", "python"} \subseteq entries
        /\ pc[p] = "inspect" => {"marker", "python", "packages"} \subseteq entries

ConsumerTraces ==
    /\ home \in {"none", "made", "owned", "foreign"}
    /\ package \in {"none", "partial", "complete"}
    /\ home = "foreign" => "found" \in litter
    /\ home = "made" => "claim" \in litter \/ \E p \in Process : pc[p] = "mark"

ConsumerAlone ==
    \A p \in Process : Alone(p) =>
        /\ pc[p] = "remove" => package # "none"
        /\ pc[p] = "clear" => package = "partial"
        /\ pc[p] = "rename" => package = "none"
        /\ pc[p] = "record" => package = "complete"

RunInv ==
    /\ RunOK /\ RefusalExplained
    /\ script \in {"tools", "reference", "consumer"}
    /\ script = "tools" => ToolTraces /\ ToolAlone
    /\ script = "reference" => ReferenceTraces /\ ReferenceAlone
    /\ script = "consumer" => ConsumerTraces /\ ConsumerAlone

\* A refusal that has its cause keeps it.
Explained(w, m, l) ==
    /\ w \in {"race", "version"} => m
    /\ w = "another setup" => m \/ "link" \in l
    /\ w = "unmanaged" => m \/ l \cap {"found", "claim", "removal", "venv"} # {}
    /\ w \in {"missing", "digest"} => "found" \in l

\* What every step of a run does to the others, none of which is alone then.
Moves(p) ==
    /\ Active(p) /\ met' = met /\ litter \subseteq litter'
    /\ pc' = [q \in Process |-> pc'[q]] /\ why' = [q \in Process |-> why'[q]]
    /\ \A q \in Process \ {p} : pc'[q] = pc[q] /\ why'[q] = why[q]

\* A run goes on to its next label.
LEMMA GotoMoves ==
    ASSUME RunOK, NEW p \in Process, NEW label, Active(p), Goto(p, label)
    PROVE  Moves(p) /\ pc'[p] = label /\ why' = why /\ litter' = litter
BY DEF RunOK, Goto, Moves

\* An exception ends the run, and leaves what is called w.
LEMMA FailMoves ==
    ASSUME RunOK, NEW p \in Process, NEW reason, NEW w, Active(p), FailLeaving(p, reason, w)
    PROVE  Moves(p) /\ pc'[p] = "failed" /\ why'[p] = reason /\ litter' = litter \cup w
BY DEF RunOK, FailLeaving, Moves

\* Most leave nothing.
LEMMA FailStays ==
    ASSUME RunOK, NEW p \in Process, NEW reason, Active(p), Fail(p, reason)
    PROVE  Moves(p) /\ pc'[p] = "failed" /\ why'[p] = reason /\ litter' = litter
<1>1. Moves(p) /\ pc'[p] = "failed" /\ why'[p] = reason /\ litter' = litter \cup {}
  BY FailMoves DEF Fail
<1> QED
  BY <1>1

\* A kill ends it without a reason.
LEMMA KillMoves ==
    ASSUME RunOK, NEW p \in Process, NEW w, Kill(p, w)
    PROVE  Moves(p) /\ pc'[p] = "idle" /\ why' = why /\ litter' = litter \cup w
BY DEF RunOK, Kill, Moves

\* A step of one run leaves at most that one alone.
LEMMA MoveKeeps ==
    ASSUME RunOK, RefusalExplained, NEW p \in Process, Moves(p),
           why'[p] = why[p] \/ Explained(why'[p], met[p], litter')
    PROVE  /\ RunOK' /\ RefusalExplained'
           /\ \A q \in Process : Alone(q)' => q = p /\ Alone(p)
<1>1. \A q \in Process \ {p} : Active(q)' <=> Active(q)
  BY DEF Moves, Active
<1>2. RunOK'
  BY <1>1 DEF RunOK, Moves
<1>3. RefusalExplained'
  BY DEF RefusalExplained, Explained, Moves
<1>4. ASSUME NEW q \in Process, Alone(q)' PROVE q = p /\ Alone(p)
  <2>1. q = p
    BY <1>1, <1>4 DEF Alone, Moves, RunOK
  <2> QED
    BY <1>4, <2>1 DEF Alone, Moves
<1> QED
  BY <1>2, <1>3, <1>4

\* A run that begins is alone if no other one is active, which it leaves so.
LEMMA BeginKeeps ==
    ASSUME RunOK, RefusalExplained, NEW p \in Process, NEW first, first \notin Outcome,
           Begin(p, first)
    PROVE  /\ RunOK' /\ RefusalExplained' /\ litter' = litter
           /\ pc'[p] = first /\ \A q \in Process \ {p} : pc'[q] = pc[q]
           /\ ~Active(p)
           /\ \A q \in Process : Alone(q)' => q = p /\ \A x \in Process : ~Active(x)
<1> USE RunAssumption
<1>1. /\ ~Active(p) /\ litter' = litter
      /\ pc' = [pc EXCEPT ![p] = first] /\ why' = [why EXCEPT ![p] = None]
      /\ met' = [q \in Process |-> IF q = p THEN \E x \in Process : Active(x)
                                            ELSE met[q] \/ Active(q)]
  BY DEF Begin
<1>2. /\ pc'[p] = first /\ \A q \in Process \ {p} : pc'[q] = pc[q]
      /\ why'[p] = None /\ \A q \in Process \ {p} : why'[q] = why[q]
      /\ pc' = [q \in Process |-> pc'[q]] /\ why' = [q \in Process |-> why'[q]]
  BY <1>1 DEF RunOK
<1>3. \A q \in Process \ {p} : Active(q)' <=> Active(q)
  BY <1>2 DEF Active
<1>4. /\ met' \in [Process -> BOOLEAN]
      /\ met'[p] <=> \E x \in Process : Active(x)
      /\ \A q \in Process \ {p} : met'[q] <=> met[q] \/ Active(q)
  <2>1. met \in [Process -> BOOLEAN] /\ \A q \in Process : Active(q) \in BOOLEAN
    BY DEF RunOK, Active
  <2> QED
    BY <1>1, <2>1
<1>5. RunOK'
  <2>1. ASSUME NEW x \in Process, NEW y \in Process, x # y, Active(x)', Active(y)'
        PROVE  met'[x]
    BY <1>3, <1>4, <2>1
  <2> QED
    BY <1>2, <1>4, <2>1 DEF RunOK
<1>6. RefusalExplained'
  <2> SUFFICES ASSUME NEW q \in Process PROVE Explained(why'[q], met'[q], litter')
    BY DEF RefusalExplained, Explained
  <2>1. CASE q = p
    BY <1>2, <2>1 DEF Explained, Reason
  <2>2. CASE q # p
    BY <1>1, <1>2, <1>4, <2>2 DEF RefusalExplained, Explained
  <2> QED
    BY <2>1, <2>2
<1>7. ASSUME NEW q \in Process, Alone(q)' PROVE q = p /\ \A x \in Process : ~Active(x)
  BY <1>3, <1>4, <1>7 DEF Alone
<1> QED
  BY <1>1, <1>2, <1>5, <1>6, <1>7
-----------------------------------------------------------------------------
(* setup.py.                                                               *)

\* A step of setup.py that a run takes on its own account.
ToolRuns(p) ==
    \/ Cached(p) \/ Fetch(p) \/ Reuse(p) \/ Unpack(p)
    \/ Expose(p) \/ Link(p) \/ Replace(p) \/ Probe(p) \/ KillTools(p)

ToolRunKept ==
    /\ RunOK' /\ RefusalExplained' /\ ToolTraces' /\ ToolAlone'
    /\ \A p \in Process : pc[p] # "reported" /\ pc'[p] = "reported" =>
          met[p] \/ \A l \in 1 .. Links : link[l] = want[p]

\* What is left to show of a step: its traces, and what it leaves its own run.
LEMMA ToolRunKeeps ==
    ASSUME RunOK, RefusalExplained, NEW p \in Process, Moves(p),
           why'[p] = why[p] \/ Explained(why'[p], met[p], litter'),
           ToolTraces',
           Alone(p) /\ Active(p)' =>
              /\ pc'[p] = "unpack" => store'[want'[p]] = "absent"
              /\ pc'[p] = "link" => new'[at'[p]] = None
              /\ pc'[p] = "replace" => new'[at'[p]] = want'[p]
              /\ pc'[p] \in {"cache", "fetch", "store", "unpack"} => at'[p] = 1
              /\ pc'[p] \in {"expose", "link", "replace"} =>
                    \A l \in 1 .. Links : l < at'[p] => link'[l] = want'[p]
              /\ pc'[p] = "probe" => \A l \in 1 .. Links : link'[l] = want'[p],
           pc'[p] = "reported" => met[p] \/ \A l \in 1 .. Links : link[l] = want[p]
    PROVE  ToolRunKept
<1>1. RunOK' /\ RefusalExplained' /\ \A q \in Process : Alone(q)' => q = p /\ Alone(p)
  BY MoveKeeps
<1>2. ToolAlone'
  BY <1>1 DEF ToolAlone, Alone
<1>3. \A q \in Process \ {p} : pc'[q] = pc[q]
  BY DEF Moves
<1> QED
  BY <1>1, <1>2, <1>3 DEF ToolRunKept

\* The temporary links of the others, and of those killed, are still theirs.
LEMMA ToolTracesKept ==
    ASSUME ToolTraces, NEW p \in Process, Moves(p), UNCHANGED <<store, cache, link, new, at>>,
           pc[p] = "replace" => "link" \in litter'
    PROVE  ToolTraces'
<1>1. ASSUME NEW l \in 1 .. Links, new'[l] # None
      PROVE  "link" \in litter' \/ \E q \in Process : pc'[q] = "replace" /\ at'[q] = l
  <2>1. CASE "link" \in litter
    BY <2>1 DEF Moves
  <2>2. ASSUME NEW q \in Process, pc[q] = "replace", at[q] = l
        PROVE  "link" \in litter' \/ (pc'[q] = "replace" /\ at'[q] = l)
    BY <2>2 DEF Moves
  <2> QED
    BY <1>1, <2>1, <2>2 DEF ToolTraces
<1> QED
  BY <1>1 DEF ToolTraces, Moves

\* Every step of setup.py keeps what its runs rely on and what explains them.
LEMMA ToolRunsKeep ==
    ASSUME SetupInv, RunInv, script = "tools", NEW p \in Process, ToolRuns(p)
    PROVE  ToolRunKept
<1> USE LinksAssumption, RunAssumption DEF SetupInv, RunInv
<1>1. CASE Cached(p)
  <2>0. Active(p) /\ pc[p] = "cache" /\ UNCHANGED <<want, at, store, link, new, cache>>
    BY <1>1 DEF Cached, Active, Outcome, tools
  <2>1. /\ Moves(p) /\ pc'[p] \in {"fetch", "store", "failed"}
        /\ why'[p] = why[p] \/ (why'[p] = "digest" /\ "found" \in litter')
    <3>1. CASE cache[want[p]] = "absent" /\ Goto(p, "fetch")
      BY <2>0, <3>1, GotoMoves
    <3>2. CASE cache[want[p]] = "good" /\ Goto(p, "store")
      BY <2>0, <3>2, GotoMoves
    <3>3. CASE cache[want[p]] = "bad" /\ Fail(p, "digest")
      <4>1. want[p] \in Version
        BY <2>0 DEF Progress
      <4>2. Moves(p) /\ pc'[p] = "failed" /\ why'[p] = "digest" /\ litter \subseteq litter'
        BY <2>0, <3>3, FailStays
      <4>3. "found" \in litter
        BY <3>3, <4>1 DEF ToolTraces
      <4> QED
        BY <4>2, <4>3
    <3> QED
      BY <1>1, <3>1, <3>2, <3>3 DEF Cached
  <2>2. ToolTraces'
    BY <2>0, <2>1, ToolTracesKept
  <2>3. Alone(p) => at[p] = 1
    BY <2>0 DEF ToolAlone
  <2> QED
    BY <2>0, <2>1, <2>2, <2>3, ToolRunKeeps DEF Explained
<1>2. CASE Fetch(p)
  <2>0. /\ Active(p) /\ pc[p] = "fetch" /\ UNCHANGED <<want, at, store, link, new>>
        /\ want[p] \in Version
    BY <1>2 DEF Fetch, Active, Outcome, Progress
  <2>1. /\ Moves(p) /\ pc'[p] \in {"store", "failed"} /\ litter' = litter
        /\ why'[p] \in {why[p], "outside"}
    BY <1>2, <2>0, GotoMoves, FailStays DEF Fetch
  <2>2. \A v \in Version : cache'[v] = "bad" => cache[v] = "bad"
    BY <1>2, <2>0 DEF Fetch, ToolFilesOK
  <2>3. \A q \in Process : pc[q] = "replace" => pc'[q] = "replace"
    BY <2>0, <2>1 DEF Moves
  <2>4. ToolTraces'
    BY <2>0, <2>1, <2>2, <2>3 DEF ToolTraces
  <2>5. Alone(p) => at[p] = 1
    BY <2>0 DEF ToolAlone
  <2> QED
    BY <2>0, <2>1, <2>4, <2>5, ToolRunKeeps DEF Explained
<1>3. CASE Reuse(p)
  <2>0. /\ Active(p) /\ pc[p] = "store" /\ UNCHANGED <<want, at, store, link, new, cache>>
        /\ want[p] \in Version
    BY <1>3 DEF Reuse, Active, Outcome, tools, Progress
  <2>1. /\ Moves(p) /\ pc'[p] \in {"unpack", "expose", "failed"}
        /\ pc'[p] = "unpack" => store[want[p]] = "absent"
        /\ why'[p] = why[p] \/ (why'[p] = "unmanaged" /\ "found" \in litter')
    <3>1. CASE store[want[p]] = "absent" /\ Goto(p, "unpack")
      BY <2>0, <3>1, GotoMoves
    <3>2. CASE managed(want[p]) /\ Goto(p, "expose")
      BY <2>0, <3>2, GotoMoves
    <3>3. CASE store[want[p]] # "absent" /\ ~managed(want[p]) /\ Fail(p, "unmanaged")
      <4>1. Moves(p) /\ pc'[p] = "failed" /\ why'[p] = "unmanaged" /\ litter \subseteq litter'
        BY <2>0, <3>3, FailStays
      <4>2. store[want[p]] = "foreign"
        BY <2>0, <3>3 DEF managed, ToolFilesOK
      <4> QED
        BY <2>0, <4>1, <4>2 DEF ToolTraces
    <3> QED
      BY <1>3, <3>1, <3>2, <3>3 DEF Reuse
  <2>2. ToolTraces'
    BY <2>0, <2>1, ToolTracesKept
  <2>3. Alone(p) => at[p] = 1
    BY <2>0 DEF ToolAlone
  <2>4. \A l \in 1 .. Links : ~(l < 1)
    OBVIOUS
  <2> QED
    BY <2>0, <2>1, <2>2, <2>3, <2>4, ToolRunKeeps DEF Explained
<1>4. CASE Unpack(p)
  <2>0. /\ Active(p) /\ pc[p] = "unpack" /\ UNCHANGED <<want, at, link, new, cache>>
        /\ want[p] \in Version
    BY <1>4 DEF Unpack, Active, Outcome, Progress
  <2>1. Alone(p) => at[p] = 1 /\ store[want[p]] = "absent"
    BY <2>0 DEF ToolAlone
  <2>2. /\ Moves(p) /\ pc'[p] \in {"expose", "failed"} /\ litter' = litter
        /\ why'[p] = why[p] \/ (why'[p] = "race" /\ met[p])
        /\ \A v \in Version : store'[v] \in {store[v], "complete"}
    <3>1. CASE store[want[p]] = "absent" /\ Goto(p, "expose")
      BY <1>4, <2>0, <3>1, GotoMoves DEF Unpack, ToolFilesOK
    <3>2. CASE store[want[p]] # "absent" /\ Fail(p, "race") /\ UNCHANGED store
      BY <2>0, <2>1, <3>2, FailStays DEF Alone
    <3> QED
      BY <1>4, <3>1, <3>2 DEF Unpack, Goto, Fail, FailLeaving
  <2>3. \A q \in Process : pc[q] = "replace" => pc'[q] = "replace"
    BY <2>0, <2>2 DEF Moves
  <2>4. ToolTraces'
    BY <2>0, <2>2, <2>3 DEF ToolTraces
  <2>5. \A l \in 1 .. Links : ~(l < 1)
    OBVIOUS
  <2> QED
    BY <2>0, <2>1, <2>2, <2>4, <2>5, ToolRunKeeps DEF Explained
<1>5. CASE Expose(p)
  <2>0. /\ Active(p) /\ pc[p] = "expose" /\ UNCHANGED <<want, at, store, link, new, cache>>
        /\ want[p] \in Version /\ at[p] \in 1 .. Links
    BY <1>5 DEF Expose, Active, Outcome, tools, Progress, ToolFilesOK
  <2>1. /\ Moves(p) /\ pc'[p] \in {"link", "failed"} /\ litter' = litter
        /\ pc'[p] = "link" => new[at[p]] = None
        /\ why'[p] = why[p] \/ Explained(why'[p], met[p], litter')
    <3>1. CASE ~executable(want[p]) /\ Fail(p, "missing")
      <4>1. "found" \in litter
        BY <2>0, <3>1 DEF Progress, executable, ToolTraces
      <4>2. Moves(p) /\ pc'[p] = "failed" /\ why'[p] = "missing" /\ litter' = litter
        BY <2>0, <3>1, FailStays
      <4>3. Explained(why'[p], met[p], litter')
        BY <4>1, <4>2 DEF Explained
      <4> QED
        BY <4>2, <4>3
    <3>2. CASE link[at[p]] = "foreign" /\ Fail(p, "unmanaged")
      <4>1. "found" \in litter
        BY <2>0, <3>2 DEF ToolTraces
      <4>2. Moves(p) /\ pc'[p] = "failed" /\ why'[p] = "unmanaged" /\ litter' = litter
        BY <2>0, <3>2, FailStays
      <4>3. Explained(why'[p], met[p], litter')
        BY <4>1, <4>2 DEF Explained
      <4> QED
        BY <4>2, <4>3
    <3>3. CASE new[at[p]] # None /\ Fail(p, "another setup")
      <4>1. ASSUME NEW q \in Process, pc[q] = "replace" PROVE met[p]
        BY <2>0, <4>1 DEF RunOK, Active, Outcome
      <4>2. met[p] \/ "link" \in litter
        BY <2>0, <3>3, <4>1 DEF ToolTraces
      <4>3. Moves(p) /\ pc'[p] = "failed" /\ why'[p] = "another setup" /\ litter' = litter
        BY <2>0, <3>3, FailStays
      <4>4. Explained(why'[p], met[p], litter')
        BY <4>2, <4>3 DEF Explained
      <4> QED
        BY <4>3, <4>4
    <3>4. CASE new[at[p]] = None /\ Goto(p, "link")
      BY <2>0, <3>4, GotoMoves
    <3> QED
      BY <1>5, <3>1, <3>2, <3>3, <3>4 DEF Expose
  <2>2. ToolTraces'
    BY <2>0, <2>1, ToolTracesKept
  <2>3. Alone(p) => \A l \in 1 .. Links : l < at[p] => link[l] = want[p]
    BY <2>0 DEF ToolAlone
  <2> QED
    BY <2>0, <2>1, <2>2, <2>3, ToolRunKeeps
<1>6. CASE Link(p)
  <2>0. /\ Active(p) /\ pc[p] = "link" /\ UNCHANGED <<want, at, store, link, cache>>
        /\ at[p] \in 1 .. Links
    BY <1>6 DEF Link, Active, Outcome, ToolFilesOK
  <2>1. Alone(p) => /\ new[at[p]] = None
                    /\ \A l \in 1 .. Links : l < at[p] => link[l] = want[p]
    BY <2>0 DEF ToolAlone
  <2>2. /\ Moves(p) /\ pc'[p] \in {"replace", "failed"} /\ litter' = litter
        /\ pc'[p] = "replace" => new' = [new EXCEPT ![at[p]] = want[p]]
        /\ pc'[p] = "failed" => new' = new
        /\ why'[p] = why[p] \/ (why'[p] = "race" /\ met[p])
    <3>1. CASE new' = [new EXCEPT ![at[p]] = want[p]] /\ Goto(p, "replace")
      BY <2>0, <3>1, GotoMoves
    <3>2. CASE new[at[p]] # None /\ Fail(p, "race") /\ UNCHANGED new
      BY <2>0, <2>1, <3>2, FailStays DEF Alone
    <3> QED
      BY <1>6, <3>1, <3>2 DEF Link
  <2>3. \A q \in Process : pc[q] = "replace" => pc'[q] = "replace"
    BY <2>0, <2>2 DEF Moves
  <2>4. \A l \in 1 .. Links : new'[l] = new[l] \/ (pc'[p] = "replace" /\ l = at[p])
    BY <2>2 DEF ToolFilesOK
  <2>5. ToolTraces'
    BY <2>0, <2>2, <2>3, <2>4 DEF ToolTraces
  <2>6. pc'[p] = "replace" => new'[at[p]] = want[p]
    BY <2>0, <2>2 DEF ToolFilesOK
  <2> QED
    BY <2>0, <2>1, <2>2, <2>5, <2>6, ToolRunKeeps DEF Explained
<1>7. CASE Replace(p)
  <2>0. /\ Active(p) /\ pc[p] = "replace" /\ UNCHANGED <<want, store, cache>>
        /\ at[p] \in 1 .. Links
        /\ link' = [link EXCEPT ![at[p]] = new[at[p]]]
        /\ new' = [new EXCEPT ![at[p]] = None]
    BY <1>7 DEF Replace, Active, Outcome, ToolFilesOK
  <2>1. /\ Moves(p) /\ litter' = litter /\ why' = why
        /\ \/ /\ at[p] < Links /\ pc'[p] = "expose"
              /\ at' = [at EXCEPT ![p] = at[p] + 1]
           \/ /\ at[p] = Links /\ pc'[p] = "probe"
              /\ at' = at
    <3>1. CASE at[p] < Links
      BY <1>7, <2>0, <3>1, GotoMoves DEF Replace
    <3>2. CASE ~(at[p] < Links)
      <4>1. at[p] = Links
        BY <2>0, <3>2
      <4> QED
        BY <1>7, <2>0, <3>2, <4>1, GotoMoves DEF Replace
    <3> QED
      BY <3>1, <3>2
  <2>2. /\ \A l \in 1 .. Links : l # at[p] => link'[l] = link[l] /\ new'[l] = new[l]
        /\ link'[at[p]] = new[at[p]] /\ new'[at[p]] = None /\ link'[at[p]] # "foreign"
    BY <2>0 DEF ToolFilesOK
  <2>3. \A q \in Process \ {p} : pc'[q] = pc[q] /\ at'[q] = at[q]
    BY <2>1 DEF Moves, ToolFilesOK
  <2>4. ToolTraces'
    <3>1. ASSUME NEW l \in 1 .. Links, new'[l] # None
          PROVE  "link" \in litter' \/ \E q \in Process : pc'[q] = "replace" /\ at'[q] = l
      <4>1. l # at[p] /\ new[l] # None
        BY <2>2, <3>1
      <4>2. ASSUME NEW q \in Process, pc[q] = "replace", at[q] = l
            PROVE  pc'[q] = "replace" /\ at'[q] = l
        BY <2>3, <4>1, <4>2
      <4> QED
        BY <2>1, <4>1, <4>2 DEF ToolTraces
    <3>2. \A l \in 1 .. Links : link'[l] = "foreign" => "found" \in litter'
      BY <2>1, <2>2 DEF ToolTraces
    <3> QED
      BY <2>0, <2>1, <3>1, <3>2 DEF ToolTraces
  <2>5. ASSUME Alone(p)
        PROVE  \A l \in 1 .. Links : l <= at[p] => link'[l] = want[p]
    <3>1. /\ new[at[p]] = want[p]
          /\ \A l \in 1 .. Links : l < at[p] => link[l] = want[p]
      BY <2>0, <2>5 DEF ToolAlone
    <3> SUFFICES ASSUME NEW l \in 1 .. Links, l <= at[p] PROVE link'[l] = want[p]
      OBVIOUS
    <3>2. l = at[p] \/ (l < at[p] /\ l # at[p])
      BY <2>0
    <3> QED
      BY <2>2, <3>1, <3>2
  <2>6. /\ pc'[p] = "expose" => \A l \in 1 .. Links : l < at'[p] => l <= at[p]
        /\ pc'[p] = "probe" => \A l \in 1 .. Links : l <= at[p]
    <3>1. pc'[p] = "expose" => at'[p] = at[p] + 1
      BY <2>1 DEF ToolFilesOK
    <3> QED
      BY <2>0, <2>1, <3>1
  <2> QED
    BY <2>0, <2>1, <2>4, <2>5, <2>6, ToolRunKeeps
<1>8. CASE Probe(p)
  <2>0. /\ Active(p) /\ pc[p] = "probe" /\ UNCHANGED <<want, at, store, link, new, cache>>
    BY <1>8 DEF Probe, Active, Outcome, tools
  <2>1. Alone(p) => \A l \in 1 .. Links : link[l] = want[p]
    BY <2>0 DEF ToolAlone
  <2>2. /\ Moves(p) /\ pc'[p] \in {"reported", "failed"} /\ litter' = litter
        /\ why'[p] \in {why[p], "outside"} \/ (why'[p] = "version" /\ met[p])
    <3>1. CASE link[1] # want[p] /\ Fail(p, "version")
      <4>1. met[p]
        BY <2>0, <2>1, <3>1 DEF Alone
      <4> QED
        BY <2>0, <3>1, <4>1, FailStays
    <3>2. CASE Goto(p, "reported")
      BY <2>0, <3>2, GotoMoves
    <3>3. CASE Fail(p, "outside")
      BY <2>0, <3>3, FailStays
    <3> QED
      BY <1>8, <3>1, <3>2, <3>3 DEF Probe
  <2>3. ToolTraces'
    BY <2>0, <2>2, ToolTracesKept
  <2>4. ~Active(p)'
    BY <2>2 DEF Active, Outcome
  <2>5. met[p] \/ Alone(p)
    BY <2>0 DEF Alone
  <2> QED
    BY <2>1, <2>2, <2>3, <2>4, <2>5, ToolRunKeeps DEF Explained
<1>9. CASE KillTools(p)
  <2>0. UNCHANGED <<want, at, store, link, new, cache>>
    BY <1>9 DEF KillTools, tools
  <2>1. /\ Moves(p) /\ pc'[p] = "idle" /\ why' = why
        /\ pc[p] = "replace" => "link" \in litter'
    BY <1>9, KillMoves DEF KillTools
  <2>2. ToolTraces'
    BY <2>0, <2>1, ToolTracesKept
  <2>3. ~Active(p)'
    BY <2>1 DEF Active, Outcome
  <2> QED
    BY <2>1, <2>2, <2>3, ToolRunKeeps
<1> QED
  BY <1>1, <1>2, <1>3, <1>4, <1>5, <1>6, <1>7, <1>8, <1>9 DEF ToolRuns

\* So does a run that begins: only alone, with nothing under way.
LEMMA ToolRunBegins ==
    ASSUME SetupInv, RunInv, script = "tools", NEW p \in Process, NEW v \in Version,
           BeginTools(p, v)
    PROVE  ToolRunKept
<1> USE LinksAssumption DEF SetupInv, RunInv
<1>1. /\ RunOK' /\ RefusalExplained' /\ litter' = litter
      /\ pc'[p] = "cache" /\ \A q \in Process \ {p} : pc'[q] = pc[q]
      /\ ~Active(p)
      /\ \A q \in Process : Alone(q)' => q = p
  BY BeginKeeps DEF BeginTools, Outcome
<1>2. UNCHANGED <<cache, store, link, new>> /\ at' = [at EXCEPT ![p] = 1]
  BY DEF BeginTools, files
<1>3. /\ at'[p] = 1 /\ \A q \in Process \ {p} : at'[q] = at[q]
      /\ pc[p] # "replace"
  BY <1>1, <1>2 DEF ToolFilesOK, Active, Outcome
<1>4. ToolTraces'
  <2>1. ASSUME NEW q \in Process, pc[q] = "replace"
        PROVE  pc'[q] = "replace" /\ at'[q] = at[q]
    BY <1>1, <1>3, <2>1
  <2> QED
    BY <1>1, <1>2, <2>1 DEF ToolTraces
<1>5. ToolAlone'
  BY <1>1, <1>3 DEF ToolAlone
<1> QED
  BY <1>1, <1>4, <1>5 DEF ToolRunKept
-----------------------------------------------------------------------------
(* setup_reference.py.                                                     *)

\* A step of setup_reference.py that a run takes on its own account.
ReferenceRuns(p) ==
    \/ Interpreter(p) \/ Check(p) \/ (\E e \in Entry : Remove(p, e))
    \/ Removed(p) \/ Stage(p) \/ Rename(p) \/ Venv(p)
    \/ Wheels(p) \/ Install(p) \/ Inspect(p) \/ KillReference(p)

ReferenceRunKept ==
    /\ RunOK' /\ RefusalExplained' /\ ReferenceTraces' /\ ReferenceAlone'
    /\ \A p \in Process : pc[p] # "reported" /\ pc'[p] = "reported" =>
          met[p] \/ {"marker", "python", "packages"} \subseteq entries

\* What is left to show of a step: its traces, and what it leaves its own run.
LEMMA ReferenceRunKeeps ==
    ASSUME RunOK, RefusalExplained, NEW p \in Process, Moves(p),
           why'[p] = why[p] \/ Explained(why'[p], met[p], litter'),
           ReferenceTraces',
           Alone(p) /\ Active(p)' =>
              /\ pc'[p] = "remove" => environment' # None /\ listed'[p] = environment'
              /\ pc'[p] \in {"stage", "rename"} => environment' = None
              /\ pc'[p] = "venv" => "marker" \in entries'
              /\ pc'[p] \in {"wheels", "install"} => {"marker", "python"} \subseteq entries'
              /\ pc'[p] = "inspect" => {"marker", "python", "packages"} \subseteq entries',
           pc'[p] = "reported" =>
              met[p] \/ {"marker", "python", "packages"} \subseteq entries
    PROVE  ReferenceRunKept
<1>1. RunOK' /\ RefusalExplained' /\ \A q \in Process : Alone(q)' => q = p /\ Alone(p)
  BY MoveKeeps
<1>2. ReferenceAlone'
  BY <1>1 DEF ReferenceAlone, Alone
<1>3. \A q \in Process \ {p} : pc'[q] = pc[q]
  BY DEF Moves
<1> QED
  BY <1>1, <1>2, <1>3 DEF ReferenceRunKept

\* An environment that others lost stays so, while they or what they left
\* explain it.
LEMMA ReferenceTracesKept ==
    ASSUME ReferenceTraces, NEW p \in Process, Moves(p),
           environment' = None \/ environment' \in SUBSET Entry,
           listed' \in [Process -> SUBSET Entry],
           wheel' = "bad" => wheel = "bad",
           disowned(environment)' =>
              \/ litter' \cap {"found", "removal", "venv"} # {}
              \/ pc'[p] = "remove"
              \/ disowned(environment) /\ pc[p] # "remove"
    PROVE  ReferenceTraces'
<1>1. ASSUME disowned(environment)'
      PROVE  \/ litter' \cap {"found", "removal", "venv"} # {}
             \/ \E q \in Process : pc'[q] = "remove"
  <2>1. CASE pc'[p] = "remove"
    BY <2>1
  <2>2. CASE disowned(environment) /\ pc[p] # "remove"
    <3>1. CASE litter \cap {"found", "removal", "venv"} # {}
      BY <3>1 DEF Moves
    <3>2. ASSUME NEW q \in Process, pc[q] = "remove" PROVE pc'[q] = "remove"
      BY <2>2, <3>2 DEF Moves
    <3> QED
      BY <2>2, <3>1, <3>2 DEF ReferenceTraces
  <2> QED
    BY <1>1, <2>1, <2>2
<1>2. wheel' = "bad" => "found" \in litter'
  BY DEF ReferenceTraces, Moves
<1> QED
  BY <1>1, <1>2 DEF ReferenceTraces

\* Every step of setup_reference.py keeps what its runs rely on and what
\* explains them.
LEMMA ReferenceRunsKeep ==
    ASSUME RunInv, script = "reference", NEW p \in Process, ReferenceRuns(p)
    PROVE  ReferenceRunKept
<1> USE ReferenceAssumption, RunAssumption DEF RunInv
<1>0. /\ environment = None \/ environment \in SUBSET Entry
      /\ listed \in [Process -> SUBSET Entry]
      /\ entries \in SUBSET Entry /\ (environment # None => entries = environment)
  BY DEF ReferenceTraces, entries
<1>1. CASE Interpreter(p)
  <2>0. Active(p) /\ pc[p] = "interpreter" /\ UNCHANGED <<environment, listed, wheel>>
    BY <1>1 DEF Interpreter, Active, Outcome, reference
  <2>1. Moves(p) /\ pc'[p] \in {"check", "failed"} /\ why'[p] \in {why[p], "outside"}
    BY <1>1, <2>0, GotoMoves, FailStays DEF Interpreter
  <2>2. ReferenceTraces'
    BY <1>0, <2>0, <2>1, ReferenceTracesKept DEF disowned
  <2> QED
    BY <2>1, <2>2, ReferenceRunKeeps DEF Explained
<1>2. CASE Check(p)
  <2>0. Active(p) /\ pc[p] = "check" /\ UNCHANGED <<environment, wheel>>
    BY <1>2 DEF Check, Active, Outcome
  <2>1. CASE environment = None /\ Goto(p, "stage") /\ UNCHANGED listed
    <3>1. Moves(p) /\ pc'[p] = "stage" /\ why' = why
      BY <2>0, <2>1, GotoMoves
    <3>2. ReferenceTraces'
      BY <1>0, <2>0, <2>1, <3>1, ReferenceTracesKept DEF disowned
    <3> QED
      BY <2>0, <2>1, <3>1, <3>2, ReferenceRunKeeps
  <2>2. CASE disowned(environment) /\ Fail(p, "unmanaged") /\ UNCHANGED listed
    <3>1. Moves(p) /\ pc'[p] = "failed" /\ why'[p] = "unmanaged" /\ litter' = litter
      BY <2>0, <2>2, FailStays
    <3>2. ASSUME NEW q \in Process, pc[q] = "remove" PROVE met[p]
      BY <2>0, <3>2 DEF RunOK, Active, Outcome
    <3>3. met[p] \/ litter \cap {"found", "removal", "venv"} # {}
      BY <2>2, <3>2 DEF ReferenceTraces
    <3>4. Explained(why'[p], met[p], litter')
      BY <3>1, <3>3 DEF Explained
    <3>5. ReferenceTraces'
      BY <1>0, <2>0, <2>2, <3>1, ReferenceTracesKept DEF disowned
    <3>6. ~Active(p)'
      BY <3>1 DEF Active, Outcome
    <3> QED
      BY <3>1, <3>4, <3>5, <3>6, ReferenceRunKeeps
  <2>3. CASE /\ "marker" \in entries
             /\ listed' = [listed EXCEPT ![p] = environment]
             /\ Goto(p, after_check)
    <3>1. Moves(p) /\ pc'[p] = "remove" /\ why' = why
      BY <2>0, <2>3, GotoMoves DEF after_check
    <3>2. environment # None
      BY <2>3 DEF entries
    <3>3. listed' \in [Process -> SUBSET Entry] /\ listed'[p] = environment
      BY <1>0, <2>3, <3>2
    <3>4. ReferenceTraces'
      BY <1>0, <2>0, <3>1, <3>3, ReferenceTracesKept DEF disowned
    <3> QED
      BY <2>0, <3>1, <3>2, <3>3, <3>4, ReferenceRunKeeps
  <2> QED
    BY <1>2, <2>1, <2>2, <2>3 DEF Check
<1>3. ASSUME NEW e \in Entry, Remove(p, e) PROVE ReferenceRunKept
  <2>0. /\ Active(p) /\ pc[p] = "remove" /\ e \in listed[p] /\ UNCHANGED wheel
        /\ environment' = IF environment = None THEN None ELSE environment \ {e}
    BY <1>3 DEF Remove, Active, Outcome
  <2>1. environment' = None \/ environment' \in SUBSET Entry
    BY <1>0, <2>0
  <2>2. Alone(p) => environment # None /\ listed[p] = environment
    BY <2>0 DEF ReferenceAlone
  <2>3. CASE listed' = [listed EXCEPT ![p] = listed[p] \ {e}] /\ UNCHANGED run
    <3>1. Moves(p) /\ pc' = pc /\ why' = why
      BY <2>0, <2>3 DEF run, Moves, RunOK
    <3>2. listed' \in [Process -> SUBSET Entry] /\ listed'[p] = listed[p] \ {e}
      BY <1>0, <2>3
    <3>3. ReferenceTraces'
      BY <2>0, <2>1, <3>1, <3>2, ReferenceTracesKept
    <3>4. Alone(p) => environment' # None /\ listed'[p] = environment'
      BY <1>0, <2>0, <2>1, <2>2, <3>2
    <3> QED
      BY <2>0, <3>1, <3>3, <3>4, ReferenceRunKeeps
  <2>4. CASE /\ e \notin entries
             /\ FailLeaving(p, "race", IF disowned(environment) THEN {"removal"} ELSE {})
             /\ listed' = [listed EXCEPT ![p] = {}]
    <3>1. /\ Moves(p) /\ pc'[p] = "failed" /\ why'[p] = "race"
          /\ disowned(environment) => "removal" \in litter'
      BY <2>0, <2>4, FailMoves
    <3>2. met[p]
      BY <1>0, <2>0, <2>2, <2>4 DEF Alone
    <3>3. listed' \in [Process -> SUBSET Entry]
      BY <1>0, <2>4
    <3>4. environment' = environment
      BY <1>0, <2>0, <2>4
    <3>5. ReferenceTraces'
      BY <1>0, <2>0, <3>1, <3>3, <3>4, ReferenceTracesKept DEF disowned
    <3>6. Explained(why'[p], met[p], litter')
      BY <3>1, <3>2 DEF Explained
    <3> QED
      BY <3>1, <3>2, <3>5, <3>6, ReferenceRunKeeps DEF Alone
  <2> QED
    BY <1>3, <2>3, <2>4 DEF Remove
<1>4. CASE Removed(p)
  <2>0. Active(p) /\ pc[p] = "remove" /\ listed[p] = {} /\ UNCHANGED <<listed, wheel>>
    BY <1>4 DEF Removed, Active, Outcome
  <2>1. CASE environment = {} /\ environment' = None /\ Goto(p, "stage")
    <3>1. Moves(p) /\ pc'[p] = "stage" /\ why' = why
      BY <2>0, <2>1, GotoMoves
    <3>2. ReferenceTraces'
      BY <1>0, <2>0, <2>1, <3>1, ReferenceTracesKept DEF disowned
    <3> QED
      BY <2>1, <3>1, <3>2, ReferenceRunKeeps
  <2>2. CASE /\ environment # {}
             /\ FailLeaving(p, "race", IF disowned(environment) THEN {"removal"} ELSE {})
             /\ UNCHANGED environment
    <3>1. /\ Moves(p) /\ pc'[p] = "failed" /\ why'[p] = "race"
          /\ disowned(environment) => "removal" \in litter'
      BY <2>0, <2>2, FailMoves
    <3>2. met[p]
      BY <2>0, <2>2 DEF ReferenceAlone, Alone
    <3>3. ReferenceTraces'
      BY <1>0, <2>0, <2>2, <3>1, ReferenceTracesKept DEF disowned
    <3>4. Explained(why'[p], met[p], litter')
      BY <3>1, <3>2 DEF Explained
    <3> QED
      BY <3>1, <3>2, <3>3, <3>4, ReferenceRunKeeps DEF Alone
  <2> QED
    BY <1>4, <2>1, <2>2 DEF Removed
<1>5. CASE Stage(p)
  <2>0. Active(p) /\ pc[p] = "stage" /\ UNCHANGED <<environment, listed, wheel>>
    BY <1>5 DEF Stage, Active, Outcome, reference
  <2>1. Alone(p) => environment = None
    BY <2>0 DEF ReferenceAlone
  <2>2. /\ Moves(p) /\ pc'[p] \in {"rename", "failed"}
        /\ why'[p] = why[p] \/ (why'[p] = "unmanaged" /\ met[p])
    <3>1. CASE Goto(p, "rename")
      BY <2>0, <3>1, GotoMoves
    <3>2. CASE environment # None /\ Fail(p, "unmanaged")
      BY <2>0, <2>1, <3>2, FailStays DEF Alone
    <3> QED
      BY <1>5, <3>1, <3>2 DEF Stage
  <2>3. ReferenceTraces'
    BY <1>0, <2>0, <2>2, ReferenceTracesKept DEF disowned
  <2> QED
    BY <2>0, <2>1, <2>2, <2>3, ReferenceRunKeeps DEF Explained
<1>6. CASE Rename(p)
  <2>0. Active(p) /\ pc[p] = "rename" /\ UNCHANGED <<listed, wheel>>
    BY <1>6 DEF Rename, Active, Outcome
  <2>1. Alone(p) => entries = {}
    BY <2>0 DEF ReferenceAlone, entries
  <2>2. CASE environment' = staged /\ Goto(p, "venv")
    <3>1. Moves(p) /\ pc'[p] = "venv" /\ why' = why
      BY <2>0, <2>2, GotoMoves
    <3>2. /\ environment' \in SUBSET Entry /\ environment' # None /\ "marker" \in environment'
          /\ "marker" \in entries'
      BY <2>2 DEF staged, Entry, entries
    <3>3. ReferenceTraces'
      BY <1>0, <2>0, <3>1, <3>2, ReferenceTracesKept DEF disowned
    <3> QED
      BY <3>1, <3>2, <3>3, ReferenceRunKeeps
  <2>3. CASE entries # {} /\ Fail(p, "race") /\ UNCHANGED environment
    <3>1. Moves(p) /\ pc'[p] = "failed" /\ why'[p] = "race"
      BY <2>0, <2>3, FailStays
    <3>2. met[p]
      BY <2>0, <2>1, <2>3 DEF Alone
    <3>3. ReferenceTraces'
      BY <1>0, <2>0, <2>3, <3>1, ReferenceTracesKept DEF disowned
    <3>4. Explained(why'[p], met[p], litter')
      BY <3>1, <3>2 DEF Explained
    <3> QED
      BY <3>1, <3>2, <3>3, <3>4, ReferenceRunKeeps DEF Alone
  <2> QED
    BY <1>6, <2>2, <2>3 DEF Rename
<1>7. CASE Venv(p)
  <2>0. Active(p) /\ pc[p] = "venv" /\ UNCHANGED <<listed, wheel>>
    BY <1>7 DEF Venv, Active, Outcome
  <2>1. Alone(p) => "marker" \in entries
    BY <2>0 DEF ReferenceAlone
  <2>2. CASE /\ environment' = entries \cup {"python"}
             /\ pc' = [pc EXCEPT ![p] = "wheels"]
             /\ litter' = litter \cup (IF "marker" \in entries THEN {} ELSE {"venv"})
             /\ UNCHANGED <<runs, met, why>>
    <3>1. Moves(p) /\ pc'[p] = "wheels" /\ why' = why
      BY <2>0, <2>2 DEF Moves, RunOK
    <3>2. /\ environment' \in SUBSET Entry /\ entries' = entries \cup {"python"}
          /\ "marker" \in entries \/ "venv" \in litter'
      BY <1>0, <2>2 DEF Entry, entries
    <3>3. disowned(environment)' => "venv" \in litter'
      BY <2>2, <3>2 DEF disowned
    <3>4. ReferenceTraces'
      BY <1>0, <2>0, <3>1, <3>2, <3>3, ReferenceTracesKept
    <3> QED
      BY <2>1, <3>1, <3>2, <3>4, ReferenceRunKeeps
  <2>3. CASE Fail(p, "outside") /\ UNCHANGED environment
    <3>1. Moves(p) /\ pc'[p] = "failed" /\ why'[p] = "outside"
      BY <2>0, <2>3, FailStays
    <3>2. ReferenceTraces'
      BY <1>0, <2>0, <2>3, <3>1, ReferenceTracesKept DEF disowned
    <3> QED
      BY <3>1, <3>2, ReferenceRunKeeps DEF Explained
  <2> QED
    BY <1>7, <2>2, <2>3 DEF Venv
<1>8. CASE Wheels(p)
  <2>0. Active(p) /\ pc[p] = "wheels" /\ UNCHANGED <<environment, listed>>
    BY <1>8 DEF Wheels, Active, Outcome
  <2>1. Alone(p) => {"marker", "python"} \subseteq entries
    BY <2>0 DEF ReferenceAlone
  <2>2. /\ Moves(p) /\ pc'[p] \in {"wheels", "install", "failed"} /\ wheel' \in {wheel, "good"}
        /\ \/ why'[p] \in {why[p], "outside"}
           \/ why'[p] = "digest" /\ "found" \in litter'
    <3>1. CASE wheel' = "good" /\ UNCHANGED run
      BY <2>0, <3>1 DEF run, Moves, RunOK
    <3>2. CASE Fail(p, "outside") /\ UNCHANGED wheel
      BY <2>0, <3>2, FailStays
    <3>3. CASE Goto(p, "install") /\ UNCHANGED wheel
      BY <2>0, <3>3, GotoMoves
    <3>4. CASE wheel = "bad" /\ Fail(p, "digest") /\ UNCHANGED wheel
      <4>1. "found" \in litter
        BY <3>4 DEF ReferenceTraces
      <4> QED
        BY <2>0, <3>4, <4>1, FailStays
    <3> QED
      BY <1>8, <3>1, <3>2, <3>3, <3>4 DEF Wheels
  <2>3. ReferenceTraces'
    BY <1>0, <2>0, <2>2, ReferenceTracesKept DEF disowned
  <2>4. entries' = entries
    BY <2>0 DEF entries
  <2> QED
    BY <2>0, <2>1, <2>2, <2>3, <2>4, ReferenceRunKeeps DEF Explained
<1>9. CASE Install(p)
  <2>0. Active(p) /\ pc[p] = "install" /\ UNCHANGED <<listed, wheel>>
    BY <1>9 DEF Install, Active, Outcome
  <2>1. Alone(p) => {"marker", "python"} \subseteq entries
    BY <2>0 DEF ReferenceAlone
  <2>2. CASE /\ "python" \in entries
             /\ environment' = environment \cup {"packages"}
             /\ Goto(p, "inspect")
    <3>1. Moves(p) /\ pc'[p] = "inspect" /\ why' = why
      BY <2>0, <2>2, GotoMoves
    <3>2. environment # None /\ environment \in SUBSET Entry /\ entries = environment
      BY <1>0, <2>2 DEF entries
    <3>3. /\ environment' \in SUBSET Entry /\ entries' = entries \cup {"packages"}
          /\ disowned(environment)' => disowned(environment)
      BY <2>2, <3>2 DEF Entry, entries, disowned
    <3>4. ReferenceTraces'
      BY <1>0, <2>0, <3>1, <3>3, ReferenceTracesKept
    <3> QED
      BY <2>1, <3>1, <3>3, <3>4, ReferenceRunKeeps
  <2>3. CASE "python" \notin entries /\ Fail(p, "race") /\ UNCHANGED environment
    <3>1. Moves(p) /\ pc'[p] = "failed" /\ why'[p] = "race"
      BY <2>0, <2>3, FailStays
    <3>2. met[p]
      BY <2>0, <2>1, <2>3 DEF Alone
    <3>3. ReferenceTraces'
      BY <1>0, <2>0, <2>3, <3>1, ReferenceTracesKept DEF disowned
    <3>4. Explained(why'[p], met[p], litter')
      BY <3>1, <3>2 DEF Explained
    <3> QED
      BY <3>1, <3>2, <3>3, <3>4, ReferenceRunKeeps DEF Alone
  <2>4. CASE Fail(p, "outside") /\ UNCHANGED environment
    <3>1. Moves(p) /\ pc'[p] = "failed" /\ why'[p] = "outside"
      BY <2>0, <2>4, FailStays
    <3>2. ReferenceTraces'
      BY <1>0, <2>0, <2>4, <3>1, ReferenceTracesKept DEF disowned
    <3> QED
      BY <3>1, <3>2, ReferenceRunKeeps DEF Explained
  <2> QED
    BY <1>9, <2>2, <2>3, <2>4 DEF Install
<1>10. CASE Inspect(p)
  <2>0. Active(p) /\ pc[p] = "inspect" /\ UNCHANGED <<environment, listed, wheel>>
    BY <1>10 DEF Inspect, Active, Outcome, reference
  <2>1. Alone(p) => {"marker", "python", "packages"} \subseteq entries
    BY <2>0 DEF ReferenceAlone
  <2>2. /\ Moves(p) /\ pc'[p] \in {"reported", "failed"}
        /\ why'[p] = why[p] \/ (why'[p] = "race" /\ met[p])
    <3>1. CASE Goto(p, "reported")
      BY <2>0, <3>1, GotoMoves
    <3>2. CASE "python" \notin entries /\ Fail(p, "race")
      BY <2>0, <2>1, <3>2, FailStays DEF Alone
    <3> QED
      BY <1>10, <3>1, <3>2 DEF Inspect
  <2>3. ReferenceTraces'
    BY <1>0, <2>0, <2>2, ReferenceTracesKept DEF disowned
  <2>4. met[p] \/ Alone(p)
    BY <2>0 DEF Alone
  <2> QED
    BY <2>1, <2>2, <2>3, <2>4, ReferenceRunKeeps DEF Explained
<1>11. CASE KillReference(p)
  <2>0. /\ UNCHANGED <<environment, wheel>> /\ listed' = [listed EXCEPT ![p] = {}]
        /\ Kill(p, IF pc[p] = "remove" /\ disowned(environment) THEN {"removal"} ELSE {})
    BY <1>11 DEF KillReference
  <2>1. /\ Moves(p) /\ pc'[p] = "idle" /\ why' = why
        /\ pc[p] = "remove" /\ disowned(environment) => "removal" \in litter'
    BY <2>0, KillMoves
  <2>2. listed' \in [Process -> SUBSET Entry]
    BY <1>0, <2>0
  <2>3. ReferenceTraces'
    BY <1>0, <2>0, <2>1, <2>2, ReferenceTracesKept DEF disowned
  <2> QED
    BY <2>1, <2>3, ReferenceRunKeeps
<1> QED
  BY <1>1, <1>2, <1>3, <1>4, <1>5, <1>6, <1>7, <1>8, <1>9, <1>10, <1>11 DEF ReferenceRuns

\* So does a run that begins.
LEMMA ReferenceRunBegins ==
    ASSUME RunInv, script = "reference", NEW p \in Process, BeginReference(p)
    PROVE  ReferenceRunKept
<1> USE DEF RunInv
<1>1. /\ RunOK' /\ RefusalExplained' /\ litter' = litter
      /\ pc'[p] = "interpreter" /\ \A q \in Process \ {p} : pc'[q] = pc[q]
      /\ ~Active(p)
      /\ \A q \in Process : Alone(q)' => q = p
  BY BeginKeeps DEF BeginReference, Outcome
<1>2. UNCHANGED <<environment, listed, wheel>> /\ pc[p] # "remove"
  BY <1>1 DEF BeginReference, reference, Active, Outcome
<1>3. ReferenceTraces'
  BY <1>1, <1>2 DEF ReferenceTraces, disowned
<1>4. ReferenceAlone'
  BY <1>1 DEF ReferenceAlone
<1> QED
  BY <1>1, <1>3, <1>4 DEF ReferenceRunKept
-----------------------------------------------------------------------------
(* setup_consumer_typescript.py.                                           *)

\* A step of setup_consumer_typescript.py that a run takes on its own account.
ConsumerRuns(p) ==
    \/ Claim(p) \/ Mark(p) \/ Download(p) \/ Look(p)
    \/ RemovePackage(p) \/ ClearPackage(p) \/ RenamePackage(p) \/ Record(p)
    \/ KillConsumer(p)

ConsumerRunKept ==
    /\ RunOK' /\ RefusalExplained' /\ ConsumerTraces' /\ ConsumerAlone'
    /\ \A p \in Process : pc[p] # "reported" /\ pc'[p] = "reported" =>
          met[p] \/ package = "complete"

\* What is left to show of a step: its traces, and what it leaves its own run.
LEMMA ConsumerRunKeeps ==
    ASSUME RunOK, RefusalExplained, NEW p \in Process, Moves(p),
           why'[p] = why[p] \/ Explained(why'[p], met[p], litter'),
           ConsumerTraces',
           Alone(p) /\ Active(p)' =>
              /\ pc'[p] = "remove" => package' # "none"
              /\ pc'[p] = "clear" => package' = "partial"
              /\ pc'[p] = "rename" => package' = "none"
              /\ pc'[p] = "record" => package' = "complete",
           pc'[p] = "reported" => met[p] \/ package = "complete"
    PROVE  ConsumerRunKept
<1>1. RunOK' /\ RefusalExplained' /\ \A q \in Process : Alone(q)' => q = p /\ Alone(p)
  BY MoveKeeps
<1>2. ConsumerAlone'
  BY <1>1 DEF ConsumerAlone, Alone
<1>3. \A q \in Process \ {p} : pc'[q] = pc[q]
  BY DEF Moves
<1> QED
  BY <1>1, <1>2, <1>3 DEF ConsumerRunKept

\* A directory without its marker is still of whoever is about to write it, or
\* was killed there.
LEMMA ConsumerTracesKept ==
    ASSUME ConsumerTraces, NEW p \in Process, Moves(p), home' = home,
           package' \in {"none", "partial", "complete"},
           pc[p] = "mark" => "claim" \in litter'
    PROVE  ConsumerTraces'
<1>1. ASSUME home' = "made"
      PROVE  "claim" \in litter' \/ \E q \in Process : pc'[q] = "mark"
  <2>1. CASE "claim" \in litter
    BY <2>1 DEF Moves
  <2>2. ASSUME NEW q \in Process, pc[q] = "mark"
        PROVE  "claim" \in litter' \/ pc'[q] = "mark"
    BY <2>2 DEF Moves
  <2> QED
    BY <1>1, <2>1, <2>2 DEF ConsumerTraces
<1> QED
  BY <1>1 DEF ConsumerTraces, Moves

\* Every step of setup_consumer_typescript.py keeps what its runs rely on and
\* what explains them.
LEMMA ConsumerRunsKeep ==
    ASSUME RunInv, script = "consumer", NEW p \in Process, ConsumerRuns(p)
    PROVE  ConsumerRunKept
<1> USE RunAssumption DEF RunInv
<1>0. package \in {"none", "partial", "complete"}
  BY DEF ConsumerTraces
<1>1. CASE Claim(p)
  <2>0. Active(p) /\ pc[p] = "claim" /\ UNCHANGED package
    BY <1>1 DEF Claim, Active, Outcome
  <2>1. CASE home = "none" /\ home' = "made" /\ Goto(p, "mark")
    <3>1. Moves(p) /\ pc'[p] = "mark" /\ why' = why
      BY <2>0, <2>1, GotoMoves
    <3>2. ConsumerTraces'
      BY <1>0, <2>0, <2>1, <3>1 DEF ConsumerTraces
    <3> QED
      BY <3>1, <3>2, ConsumerRunKeeps
  <2>2. CASE Goto(p, "download") /\ UNCHANGED home
    <3>1. Moves(p) /\ pc'[p] = "download" /\ why' = why
      BY <2>0, <2>2, GotoMoves
    <3>2. ConsumerTraces'
      BY <1>0, <2>0, <2>2, <3>1, ConsumerTracesKept
    <3> QED
      BY <3>1, <3>2, ConsumerRunKeeps
  <2>3. CASE home \in {"made", "foreign"} /\ Fail(p, "unmanaged") /\ UNCHANGED home
    <3>1. Moves(p) /\ pc'[p] = "failed" /\ why'[p] = "unmanaged" /\ litter' = litter
      BY <2>0, <2>3, FailStays
    <3>2. ASSUME NEW q \in Process, pc[q] = "mark" PROVE met[p]
      BY <2>0, <3>2 DEF RunOK, Active, Outcome
    <3>3. met[p] \/ litter \cap {"found", "claim"} # {}
      BY <2>3, <3>2 DEF ConsumerTraces
    <3>4. Explained(why'[p], met[p], litter')
      BY <3>1, <3>3 DEF Explained
    <3>5. ConsumerTraces'
      BY <1>0, <2>0, <2>3, <3>1, ConsumerTracesKept
    <3> QED
      BY <3>1, <3>4, <3>5, ConsumerRunKeeps
  <2> QED
    BY <1>1, <2>1, <2>2, <2>3 DEF Claim
<1>2. CASE Mark(p)
  <2>0. Active(p) /\ pc[p] = "mark" /\ UNCHANGED package /\ home' = "owned"
    BY <1>2 DEF Mark, Active, Outcome
  <2>1. Moves(p) /\ pc'[p] = "download" /\ why' = why
    BY <1>2, <2>0, GotoMoves DEF Mark
  <2>2. ConsumerTraces'
    BY <1>0, <2>0, <2>1 DEF ConsumerTraces
  <2> QED
    BY <2>1, <2>2, ConsumerRunKeeps
<1>3. CASE Download(p)
  <2>0. Active(p) /\ pc[p] = "download" /\ UNCHANGED <<home, package>>
    BY <1>3 DEF Download, Active, Outcome, consumer
  <2>1. Moves(p) /\ pc'[p] \in {"look", "failed"} /\ why'[p] \in {why[p], "outside"}
    BY <1>3, <2>0, GotoMoves, FailStays DEF Download
  <2>2. ConsumerTraces'
    BY <1>0, <2>0, <2>1, ConsumerTracesKept
  <2> QED
    BY <2>1, <2>2, ConsumerRunKeeps DEF Explained
<1>4. CASE Look(p)
  <2>0. Active(p) /\ pc[p] = "look" /\ UNCHANGED <<home, package>>
    BY <1>4 DEF Look, Active, Outcome, consumer
  <2>1. /\ Moves(p) /\ why' = why
        /\ pc'[p] = IF package = "none" THEN "rename" ELSE "remove"
    BY <1>4, <2>0, GotoMoves DEF Look
  <2>2. ConsumerTraces'
    BY <1>0, <2>0, <2>1, ConsumerTracesKept
  <2> QED
    BY <2>0, <2>1, <2>2, ConsumerRunKeeps
<1>5. CASE RemovePackage(p)
  <2>0. Active(p) /\ pc[p] = "remove" /\ UNCHANGED home
    BY <1>5 DEF RemovePackage, Active, Outcome
  <2>1. Alone(p) => package # "none"
    BY <2>0 DEF ConsumerAlone
  <2>2. /\ Moves(p) /\ pc'[p] \in {"clear", "failed"}
        /\ package' \in {package, "partial"} /\ (pc'[p] = "clear" => package' = "partial")
        /\ why'[p] = why[p] \/ (why'[p] = "race" /\ met[p])
    <3>1. CASE package' = "partial" /\ Goto(p, "clear")
      BY <2>0, <3>1, GotoMoves
    <3>2. CASE package = "none" /\ Fail(p, "race") /\ UNCHANGED package
      BY <2>0, <2>1, <3>2, FailStays DEF Alone
    <3> QED
      BY <1>5, <3>1, <3>2 DEF RemovePackage
  <2>3. ConsumerTraces'
    BY <1>0, <2>0, <2>2, ConsumerTracesKept
  <2> QED
    BY <2>2, <2>3, ConsumerRunKeeps DEF Explained
<1>6. CASE ClearPackage(p)
  <2>0. Active(p) /\ pc[p] = "clear" /\ UNCHANGED home
    BY <1>6 DEF ClearPackage, Active, Outcome
  <2>1. Alone(p) => package = "partial"
    BY <2>0 DEF ConsumerAlone
  <2>2. /\ Moves(p) /\ pc'[p] \in {"rename", "failed"}
        /\ package' \in {package, "none"} /\ (pc'[p] = "rename" => package' = "none")
        /\ why'[p] = why[p] \/ (why'[p] = "race" /\ met[p])
    <3>1. CASE package' = "none" /\ Goto(p, "rename")
      BY <2>0, <3>1, GotoMoves
    <3>2. CASE package # "partial" /\ Fail(p, "race") /\ UNCHANGED package
      BY <2>0, <2>1, <3>2, FailStays DEF Alone
    <3> QED
      BY <1>6, <3>1, <3>2 DEF ClearPackage
  <2>3. ConsumerTraces'
    BY <1>0, <2>0, <2>2, ConsumerTracesKept
  <2> QED
    BY <2>2, <2>3, ConsumerRunKeeps DEF Explained
<1>7. CASE RenamePackage(p)
  <2>0. Active(p) /\ pc[p] = "rename" /\ UNCHANGED home
    BY <1>7 DEF RenamePackage, Active, Outcome
  <2>1. Alone(p) => package = "none"
    BY <2>0 DEF ConsumerAlone
  <2>2. /\ Moves(p) /\ pc'[p] \in {"record", "failed"}
        /\ package' \in {package, "complete"} /\ (pc'[p] = "record" => package' = "complete")
        /\ why'[p] = why[p] \/ (why'[p] = "race" /\ met[p])
    <3>1. CASE package' = "complete" /\ Goto(p, "record")
      BY <2>0, <3>1, GotoMoves
    <3>2. CASE package # "none" /\ Fail(p, "race") /\ UNCHANGED package
      BY <2>0, <2>1, <3>2, FailStays DEF Alone
    <3> QED
      BY <1>7, <3>1, <3>2 DEF RenamePackage
  <2>3. ConsumerTraces'
    BY <1>0, <2>0, <2>2, ConsumerTracesKept
  <2> QED
    BY <2>2, <2>3, ConsumerRunKeeps DEF Explained
<1>8. CASE Record(p)
  <2>0. Active(p) /\ pc[p] = "record" /\ UNCHANGED <<home, package>>
    BY <1>8 DEF Record, Active, Outcome
  <2>1. Alone(p) => package = "complete"
    BY <2>0 DEF ConsumerAlone
  <2>2. Moves(p) /\ pc'[p] = "reported" /\ why' = why
    BY <1>8, <2>0, GotoMoves DEF Record
  <2>3. ConsumerTraces'
    BY <1>0, <2>0, <2>2, ConsumerTracesKept
  <2>4. met[p] \/ Alone(p)
    BY <2>0 DEF Alone
  <2> QED
    BY <2>1, <2>2, <2>3, <2>4, ConsumerRunKeeps
<1>9. CASE KillConsumer(p)
  <2>0. UNCHANGED <<home, package>>
    BY <1>9 DEF KillConsumer, consumer
  <2>1. /\ Moves(p) /\ pc'[p] = "idle" /\ why' = why
        /\ pc[p] = "mark" => "claim" \in litter'
    BY <1>9, KillMoves DEF KillConsumer
  <2>2. ConsumerTraces'
    BY <1>0, <2>0, <2>1, ConsumerTracesKept
  <2> QED
    BY <2>1, <2>2, ConsumerRunKeeps
<1> QED
  BY <1>1, <1>2, <1>3, <1>4, <1>5, <1>6, <1>7, <1>8, <1>9 DEF ConsumerRuns

\* So does a run that begins.
LEMMA ConsumerRunBegins ==
    ASSUME RunInv, script = "consumer", NEW p \in Process, BeginConsumer(p)
    PROVE  ConsumerRunKept
<1> USE DEF RunInv
<1>1. /\ RunOK' /\ RefusalExplained' /\ litter' = litter
      /\ pc'[p] = "claim" /\ \A q \in Process \ {p} : pc'[q] = pc[q]
      /\ ~Active(p)
      /\ \A q \in Process : Alone(q)' => q = p
  BY BeginKeeps DEF BeginConsumer, Outcome
<1>2. UNCHANGED <<home, package>> /\ pc[p] # "mark"
  BY <1>1 DEF BeginConsumer, consumer, Active, Outcome
<1>3. ConsumerTraces'
  BY <1>1, <1>2 DEF ConsumerTraces
<1>4. ConsumerAlone'
  BY <1>1 DEF ConsumerAlone
<1> QED
  BY <1>1, <1>3, <1>4 DEF ConsumerRunKept
-----------------------------------------------------------------------------
(* The three together.                                                     *)

\* What one step of the scripts must show: the invariant, and that a report is
\* of something installed.
StepKept ==
    /\ RunInv'
    /\ \A p \in Process :
          pc[p] # "reported" /\ pc'[p] = "reported" => met[p] \/ Installed(p)

\* What was found at the beginning is litter of that name.
LEMMA RunInvInit == Init => RunInv
<1> SUFFICES ASSUME Init PROVE RunInv
  OBVIOUS
<1> USE LinksAssumption, RunAssumption, ReferenceAssumption
<1>1. /\ pc = [p \in Process |-> "idle"] /\ met = [p \in Process |-> FALSE]
      /\ why = [p \in Process |-> None] /\ \A p \in Process : ~Active(p)
  BY DEF Init, RunInit, Active, Outcome
<1>2. RunOK /\ RefusalExplained
  BY <1>1 DEF RunOK, RefusalExplained, Reason
<1>3. CASE script = "tools" /\ ((ToolsAbsent /\ litter = {}) \/ (ToolsFound /\ litter = {"found"}))
  <2>1. ToolTraces
    BY <1>3 DEF ToolsAbsent, ToolsFound, ToolTraces
  <2> QED
    BY <1>1, <1>2, <1>3, <2>1 DEF RunInv, ToolAlone, Alone
<1>4. CASE /\ script = "reference" /\ ReferenceInit
           /\ litter = IF disowned(environment) \/ wheel = "bad" THEN {"found"} ELSE {}
  <2>1. environment = None \/ environment \in SUBSET Entry
    BY <1>4 DEF ReferenceInit, Entry
  <2>2. listed \in [Process -> SUBSET Entry]
    BY <1>4 DEF ReferenceInit
  <2>3. ReferenceTraces
    BY <1>4, <2>1, <2>2 DEF ReferenceTraces
  <2> QED
    BY <1>1, <1>2, <1>4, <2>3 DEF RunInv, ReferenceAlone, Alone
<1>5. CASE /\ script = "consumer" /\ ConsumerInit
           /\ litter = IF home = "foreign" THEN {"found"} ELSE {}
  <2>1. ConsumerTraces
    BY <1>5 DEF ConsumerInit, ConsumerTraces
  <2> QED
    BY <1>1, <1>2, <1>5, <2>1 DEF RunInv, ConsumerAlone, Alone
<1> QED
  BY <1>3, <1>4, <1>5 DEF Init

\* Every step keeps it, whichever script runs.
LEMMA RunInvStep ==
    ASSUME SetupInv, RunInv, [Next]_vars
    PROVE  StepKept
<1>1. CASE script = "tools" /\ ToolStep /\ UNCHANGED script
  <2>1. ToolRunKept
    <3> PICK p \in Process : (\E v \in Version : BeginTools(p, v)) \/ ToolRuns(p)
      BY <1>1 DEF ToolStep, ToolRuns
    <3> QED
      BY <1>1, ToolRunBegins, ToolRunsKeep
  <2>2. DOMAIN link = 1 .. Links
    BY DEF SetupInv, ToolFilesOK
  <2> QED
    BY <1>1, <2>1, <2>2 DEF ToolRunKept, StepKept, RunInv, Installed
<1>2. CASE script = "reference" /\ ReferenceStep /\ UNCHANGED script
  <2>1. ReferenceRunKept
    <3> PICK p \in Process : BeginReference(p) \/ ReferenceRuns(p)
      BY <1>2 DEF ReferenceStep, ReferenceRuns
    <3> QED
      BY <1>2, ReferenceRunBegins, ReferenceRunsKeep
  <2> QED
    BY <1>2, <2>1 DEF ReferenceRunKept, StepKept, RunInv, Installed
<1>3. CASE script = "consumer" /\ ConsumerStep /\ UNCHANGED script
  <2>1. ConsumerRunKept
    <3> PICK p \in Process : BeginConsumer(p) \/ ConsumerRuns(p)
      BY <1>3 DEF ConsumerStep, ConsumerRuns
    <3> QED
      BY <1>3, ConsumerRunBegins, ConsumerRunsKeep
  <2> QED
    BY <1>3, <2>1 DEF ConsumerRunKept, StepKept, RunInv, Installed
<1>4. CASE UNCHANGED vars
  <2>1. RunOK' /\ RefusalExplained' /\ (\A p \in Process : Alone(p)' <=> Alone(p))
    BY <1>4 DEF vars, RunInv, RunOK, RefusalExplained, Alone, Active
  <2>2. /\ ToolTraces => ToolTraces'
        /\ ReferenceTraces => ReferenceTraces'
        /\ ConsumerTraces => ConsumerTraces'
    BY <1>4 DEF vars, ToolTraces, ReferenceTraces, ConsumerTraces, disowned
  <2>3. ToolAlone => ToolAlone'
    BY <1>4, <2>1 DEF vars, ToolAlone
  <2>4. ReferenceAlone => ReferenceAlone'
    BY <1>4, <2>1 DEF vars, ReferenceAlone, entries
  <2>5. ConsumerAlone => ConsumerAlone'
    BY <1>4, <2>1 DEF vars, ConsumerAlone
  <2>6. script' = script /\ pc' = pc
    BY <1>4 DEF vars
  <2> QED
    BY <2>1, <2>2, <2>3, <2>4, <2>5, <2>6 DEF StepKept, RunInv
<1> QED
  BY <1>1, <1>2, <1>3, <1>4 DEF Next

\* However many setups overlap and wherever they are killed, a script refuses
\* only what was there before the first of them, what one of four kinds of
\* killed run left, or what another run is changing meanwhile.
THEOREM SetupRefusalExplained == Spec => []RefusalExplained
<1>1. RunInv => RefusalExplained
  BY DEF RunInv
<1>2. SetupInv /\ RunInv /\ [Next]_vars => RunInv'
  BY RunInvStep DEF StepKept
<1> QED
  BY <1>1, <1>2, SetupInit, SetupStep, RunInvInit, PTL DEF Spec

\* A script reports only what is installed as a whole, unless another run came
\* in between.
THEOREM SetupReportedIsInstalled == Spec => ReportedIsInstalled
<1> DEFINE Reported == \A p \in Process :
        pc[p] # "reported" /\ pc'[p] = "reported" => met[p] \/ Installed(p)
<1>1. SetupInv /\ RunInv /\ [Next]_vars => RunInv' /\ [Reported]_vars
  BY RunInvStep DEF StepKept
<1> QED
  BY <1>1, SetupInit, SetupStep, RunInvInit, PTL DEF Spec, ReportedIsInstalled
=============================================================================
