----------------------------- MODULE SetupProperties -----------------------------
(* What the setup scripts promise to who runs them, and what their users run. *)
EXTENDS SetupScripts

\* "A private temporary directory prevents partial extraction from becoming
\* active": whatever was killed when, an exposed link leads to a version that
\* was unpacked as a whole from a verified archive and marked.
ExposedIsComplete ==
    \A l \in DOMAIN link : \A v \in Version :
        v \in {link[l], new[l]} => store[v] = "complete" /\ cache[v] = "good"

\* What a script reports, the environment or the tool, is there as a whole,
\* unless another run of it came in between: also after runs that were killed
\* half way, over whatever they left.
Installed(p) ==
    CASE script = "tools" -> \A l \in DOMAIN link : link[l] = want[p]
      [] script = "reference" ->
             {"marker", "python", "packages"} \subseteq entries
      [] script = "consumer" -> package = "complete"

ReportedIsInstalled ==
    [][\A p \in Process :
          pc[p] # "reported" /\ pc'[p] = "reported" => met[p] \/ Installed(p)]_vars

\* A script can be run again after it failed or was killed.  It refuses what
\* was there before the first run; beyond that only if another run is active,
\* or because of what a run left that was killed in one of four places: between
\* the two steps of a link, between the directory of the compiler and its
\* marker, or while an environment was removed whose marker went first, or that
\* another run was building.
RefusalExplained ==
    \A p \in Process :
        /\ why[p] \in {"race", "version"} => met[p]
        /\ why[p] = "another setup" => met[p] \/ "link" \in litter
        /\ why[p] = "unmanaged" =>
               met[p] \/ litter \cap {"found", "claim", "removal", "venv"} # {}
        /\ why[p] \in {"missing", "digest"} => "found" \in litter
=============================================================================
