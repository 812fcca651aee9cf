---------------------------- MODULE WalletSigning ----------------------------
(***************************************************************************)
(* signWithProvider (packages/sdk/src/adapters.ts): one signature asked of *)
(* an injected Ethereum wallet.  Three listeners exist for this attempt;   *)
(* each request to the wallet is answered late or never, and the wallet    *)
(* switches account or chain, or disconnects, at any time.  The wallet     *)
(* changes first and its event arrives later, in order.  An event for      *)
(* which no listener is registered is lost.                                *)
(*                                                                         *)
(* The client's own attempt (AccountAttempt) appears as its assertActive   *)
(* and its cancelled promise.                                              *)
(***************************************************************************)
EXTENDS Naturals, Sequences

CONSTANTS
    Account,      \* accounts of the Ethereum wallet
    Selected,     \* the one the request is for
    Chain,        \* chains of the wallet
    Wanted,       \* the chain of the deployment
    NoAccount,    \* the wallet exposes no account
    MaxChanges,   \* bound on the changes of the wallet
    None

ASSUME WalletAssumption ==
    /\ Selected \in Account
    /\ Wanted \in Chain
    /\ NoAccount \notin Account
    /\ None \notin Account \cup Chain \cup {NoAccount, "ok", "failed", "signed"}
    /\ "failed" \notin Account \cup Chain
    /\ MaxChanges \in Nat

Listener == {"accountsChanged", "chainChanged", "disconnect"}
Event == [name : {"accountsChanged"}, value : Account \cup {NoAccount}]
    \cup [name : {"chainChanged"}, value : Chain]
    \cup [name : {"disconnect"}, value : {None}]

\* Requests in order; the second selection follows the signature.
Request == {"before", "accounts", "chain", "prompt", "accounts_again",
            "chain_again", "recover", "after"}
Following ==
    [before |-> "accounts", accounts |-> "chain", chain |-> "prompt",
     prompt |-> "accounts_again", accounts_again |-> "chain_again",
     chain_again |-> "recover", recover |-> "after"]

VARIABLES
    account, chain,   \* the wallet
    undelivered,      \* its events on the way
    changes,          \* number of changes so far
    registered,       \* listeners the wallet holds
    stubborn,         \* listeners it will refuse to remove
    installed,        \* listeners to remove at the end
    attempt,          \* the client's attempt: active, stale or cancelled
    invalidated,
    step, reply,      \* the request awaited, and its answer
    race, outcome     \* first promise to settle; what the caller got

wallet == <<account, chain, undelivered, changes, stubborn>>
vars == <<account, chain, undelivered, changes, registered, stubborn, installed,
          attempt, invalidated, step, reply, race, outcome>>

Init ==
    /\ account \in Account \cup {NoAccount}
    /\ chain \in Chain
    /\ undelivered = << >>
    /\ changes = 0
    /\ registered = {}
    /\ stubborn \in SUBSET Listener
    /\ installed = {}
    /\ attempt = "active"
    /\ invalidated = FALSE
    /\ step = "installing"
    /\ reply = None
    /\ race = None
    /\ outcome = None

-----------------------------------------------------------------------------
(* The wallet and the client's attempt.                                    *)

Emit(name, value) ==
    /\ changes < MaxChanges
    /\ changes' = changes + 1
    /\ undelivered' = Append(undelivered, [name |-> name, value |-> value])
    /\ UNCHANGED <<registered, stubborn, installed, attempt, invalidated, step,
                   reply, race, outcome>>

SwitchAccount(a) ==
    account' = a /\ UNCHANGED chain /\ Emit("accountsChanged", a)
SwitchChain(c) ==
    chain' = c /\ UNCHANGED account /\ Emit("chainChanged", c)
Disconnect ==
    UNCHANGED <<account, chain>> /\ Emit("disconnect", None)

\* What a handler makes of its event.
invalidates(event) ==
    \/ event.name = "accountsChanged" /\ event.value # Selected
    \/ event.name = "chainChanged" /\ event.value # Wanted
    \/ event.name = "disconnect"

racing == step # "installing"
\* Mutant: the promise that the race waits for is not rejected.
M_lose(unless) == race
lose(unless) == IF race = None /\ racing /\ ~unless THEN "failed" ELSE race

invalidation(event) == invalidated \/ invalidates(event)

Deliver ==
    LET event == Head(undelivered)
        heard == event.name \in registered
    IN  /\ undelivered # << >>
        /\ undelivered' = Tail(undelivered)
        /\ invalidated' = IF heard THEN invalidation(event) ELSE invalidated
        /\ race' = lose(~(heard /\ invalidates(event)))
        /\ UNCHANGED <<account, chain, changes, stubborn, registered, installed,
                       attempt, step, reply, outcome>>

\* The client's account changes: its listener is told, or only assertActive
\* will notice.
AttemptCancelled ==
    /\ attempt # "cancelled"
    /\ attempt' = "cancelled"
    /\ race' = lose(FALSE)
    /\ UNCHANGED <<wallet, registered, installed, invalidated, step, reply,
                   outcome>>

AttemptStale ==
    /\ attempt = "active"
    /\ attempt' = "stale"
    /\ UNCHANGED <<wallet, registered, installed, invalidated, step, reply,
                   race, outcome>>
-----------------------------------------------------------------------------
(* Registration; it may emit an event at once, or throw half way.          *)

Install(l) ==
    /\ step = "installing"
    /\ race = None
    /\ l \notin installed
    /\ l = "chainChanged" => "accountsChanged" \in installed
    /\ l = "disconnect" => "chainChanged" \in installed
    /\ installed' = installed \cup {l}
    /\ registered' = registered \cup {l}
    /\ UNCHANGED <<wallet, attempt, invalidated, step, reply, race, outcome>>

InstallFails(l, kept) ==
    /\ step = "installing"
    /\ race = None
    /\ l \notin installed
    /\ l = "chainChanged" => "accountsChanged" \in installed
    /\ l = "disconnect" => "chainChanged" \in installed
    /\ installed' = installed \cup {l}
    /\ registered' = IF kept THEN registered \cup {l} ELSE registered
    /\ race' = "failed"
    /\ UNCHANGED <<wallet, attempt, invalidated, step, reply, outcome>>

\* Mutant: the client's attempt is not asked.
M_active_own(s) == ~invalidated
\* active() as called on entering s.
active(s) == attempt = "active" /\ ~invalidated

ready == installed = Listener

\* All three listeners are there, and sign() runs up to its first await.
Begin ==
    /\ step = "installing"
    /\ race = None
    /\ ready
    /\ IF active("before")
       THEN step' = "before" /\ UNCHANGED race
       ELSE step' = "ended" /\ race' = "failed"
    /\ UNCHANGED <<wallet, registered, installed, attempt, invalidated, reply,
                   outcome>>

\* A request is answered; the wallet tells what it has selected now, and
\* signs with any key.
Answer ==
    /\ step \in Request
    /\ reply = None
    /\ \/ step \in {"accounts", "accounts_again"} /\ reply' = account
       \/ step \in {"chain", "chain_again"} /\ reply' = chain
       \/ step = "prompt" /\ reply' \in Account
       \/ step \in {"before", "recover", "after"} /\ reply' = "ok"
       \/ reply' = "failed"
    /\ UNCHANGED <<wallet, registered, installed, attempt, invalidated, step,
                   race, outcome>>

\* A signature by another key is refused when it is recovered.
acceptable ==
    \/ step \in {"accounts", "accounts_again"} /\ reply = Selected
    \/ step \in {"chain", "chain_again"} /\ reply = Wanted
    \/ step \in {"before", "recover", "after"} /\ reply = "ok"
    \/ step = "prompt" /\ reply = Selected

\* sign() goes on to its next request, or has its result.
Proceed ==
    LET next == IF step = "after" THEN "ended" ELSE Following[step]
    IN  /\ step \in Request
        /\ acceptable
        /\ active(next)
        /\ step' = next
        /\ reply' = None
        /\ race' = IF step = "after" /\ race = None THEN "signed" ELSE race
        /\ UNCHANGED <<wallet, registered, installed, attempt, invalidated,
                       outcome>>

\* A request failed, an answer is refused, or active() throws.  A stale
\* attempt that notices cancels itself.
Stop ==
    /\ step \in Request
    /\ reply # None
    /\ ~acceptable \/ attempt # "active" \/ invalidated
    /\ attempt' = IF attempt = "stale" /\ reply # "failed" THEN "cancelled"
                  ELSE attempt
    /\ step' = "ended"
    /\ reply' = None
    /\ race' = lose(FALSE)
    /\ UNCHANGED <<wallet, registered, installed, invalidated, outcome>>

\* Mutant: cleanup ends at the first listener that cannot be removed.
M_removable == IF stubborn \cap installed = {} THEN installed ELSE {}
removable == installed \ stubborn

\* The caller's promise: a failure voids what still runs, and every installed
\* listener is removed, or a removal that fails turns the result into one.
Resolve ==
    /\ race # None
    /\ outcome = None
    /\ invalidated' = (invalidated \/ race = "failed")
    /\ registered' = registered \ removable
    /\ outcome' = IF installed \cap stubborn # {} THEN "failed" ELSE race
    /\ UNCHANGED <<wallet, installed, attempt, step, reply, race>>

Next ==
    \/ \E a \in Account \cup {NoAccount} : SwitchAccount(a)
    \/ \E c \in Chain : SwitchChain(c)
    \/ Disconnect
    \/ Deliver
    \/ AttemptCancelled
    \/ AttemptStale
    \/ \E l \in Listener : Install(l) \/ \E kept \in BOOLEAN : InstallFails(l, kept)
    \/ Begin
    \/ Answer
    \/ Proceed
    \/ Stop
    \/ Resolve

\* Registration is one synchronous loop, and the event loop runs the
\* continuation of a settled race.  Nothing makes the wallet answer.
Fairness ==
    /\ WF_vars(\E l \in Listener : Install(l))
    /\ WF_vars(Begin)
    /\ WF_vars(Resolve)

Spec == Init /\ [][Next]_vars /\ Fairness
=============================================================================
