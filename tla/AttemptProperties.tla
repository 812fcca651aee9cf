-------------------------- MODULE AttemptProperties --------------------------
(* What the attempts of the SDK client promise to their callers.           *)
EXTENDS AccountAttempt

\* Every variable has its type; an accepted account is on the trusted chain.
TypeOK ==
    /\ generation \in 0 .. MaxGeneration
    /\ selected \in Identity
    /\ listeners \subseteq Attempt
    /\ captured \in [Attempt -> 0 .. MaxGeneration]
    /\ invalidated \in [Attempt -> Reason \cup {"account-changed", None}]
    /\ unsubscribe \in [Attempt -> BOOLEAN]
    /\ finished \in [Attempt -> BOOLEAN]
    /\ step \in [Attempt -> Step]
    /\ reply \in [Attempt -> Identity \cup {"ok", "failed", None}]
    /\ destination \in [Attempt -> Trusted \cup {None}]
    /\ race \in [Attempt -> Outcome \cup {None}]
    /\ outcome \in [Attempt -> Outcome \cup {None}]

\* "Changes cancel pending work before execution" (packages/sdk/README.md):
\* when account.execute is called, the account found first is the selected
\* one, and nothing changed since the attempt began, not even away and back.
\* An operation that lost the race goes on in the background, but never gets
\* that far: what was reported as failed is not executed.
ExecuteUnchanged ==
    [][\A a \in Attempt :
          step[a] # "execute" /\ step'[a] = "execute" =>
              /\ outcome[a] = None
              /\ generation = captured[a]
              /\ selected = destination[a]
              /\ selected \in Trusted]_vars

\* A prepared or signed request is handed out only if nothing changed up to
\* the moment the caller gets it, which is later than the last answer.
ResultUnchanged ==
    [][\A a \in Attempt \ Submitting :
          outcome[a] = None /\ outcome'[a] = "done" =>
              /\ generation = captured[a]
              /\ destination[a] \in {None, selected}]_vars

\* Once the transaction is with the wallet no change of account decides the
\* attempt, and once its hash is known the caller gets a result with that
\* hash, whatever happens to the account, the node or the readback.
HashReported ==
    \A a \in Submitting :
        /\ step[a] \in {"execute", "wait", "readback"} =>
               race[a] = None /\ outcome[a] = None
        /\ outcome[a] # None /\ race[a] \in WithHash => outcome[a] \in WithHash

\* An attempt that succeeded has removed its listener.
SuccessLeavesNoListener ==
    \A a \in listeners : outcome[a] \notin WithHash

\* A change ends an attempt at once, even while a wallet prompt or a node
\* never answers.
CancellationSettles ==
    \A a \in Attempt : invalidated[a] # None ~> outcome[a] # None
=============================================================================
