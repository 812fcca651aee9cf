--------------------------- MODULE WalletProperties ---------------------------
(* What one signing attempt promises.                                      *)
EXTENDS WalletSigning

\* "a late selection response can never open a new signing prompt"
\* (packages/sdk/src/adapters.ts:30): once the caller has its failure no prompt
\* opens, whatever answers still arrive.  Before that it opens, and a signature
\* is returned, only for the right account on the right chain, unless the event
\* that says otherwise is still on its way.
UnderSelection ==
    [][/\ step # "prompt" /\ step' = "prompt" =>
              /\ outcome = None
              /\ undelivered # << >> \/ (account = Selected /\ chain = Wanted)
       /\ race = None /\ race' = "signed" =>
              \/ undelivered # << >>
              \/ account = Selected /\ chain = Wanted /\ attempt = "active"]_vars

\* At the end the wallet holds only the listeners it refused to remove; after
\* a success, none.
ListenersRemoved ==
    outcome # None =>
        /\ registered \subseteq stubborn
        /\ outcome = "signed" => registered = {}

\* An event that voids the attempt ends it, though the prompt stays open.
EventSettles == (invalidated \/ attempt = "cancelled") ~> outcome # None
=============================================================================
