-------------------------- MODULE SubmissionSession --------------------------
(***************************************************************************)
(* One submission by the SDK client (packages/sdk/src/client.ts) against a *)
(* registry that other accounts keep changing: prepare a request at one    *)
(* block, validate it at a later one and compute what it will change,      *)
(* simulate, execute, wait for the receipt, and read back at its block.    *)
(*                                                                         *)
(* A snapshot reads one block, so it is one step.  A batch is a set of     *)
(* requests for different Ethereum addresses validated at one block; what  *)
(* it expects of one address does not involve another, so one stands for   *)
(* all.  Which account the wallet executes with is only known to be the    *)
(* destination up to the call of account.execute (AccountAttempt).         *)
(***************************************************************************)
EXTENDS AddressRegistry

CONSTANTS NoCall, NoResult

VARIABLES
    stage,
    call,         \* what is submitted: a signed request or an unsigned call
    destination,  \* the account found before and after validation
    expected,     \* the association and nonces at the receipt block
    caller,       \* the account that the wallet executed with
    observed,     \* the same, as the receipt block has it
    result,
    interfered    \* history: somebody else changed what is expected

session == <<stage, call, destination, expected, caller, observed, result>>
allvars == <<vars, session, interfered>>

Stage == {"idle", "prepared", "validated", "simulated", "sent", "included",
          "sealed", "ended"}
Outcome == {"expired", "stale-request", "simulation-failed", "provider",
            "execution-reverted", "confirmation-unavailable", "unavailable",
            "matched", "mismatch"}

ASSUME ResultAssumption == NoResult \notin Outcome

\* Unsigned calls; the other calls are the signed requests.
UnsignedCall ==
    [kind : {"unlink", "invalidate_pending_incoming"},
     ethereum_address : EthAddress]

InitSession ==
    /\ Init
    /\ stage = "idle"
    /\ call = NoCall
    /\ destination = ZeroAccount
    /\ expected = NoCall
    /\ caller = ZeroAccount
    /\ observed = NoCall
    /\ result = NoResult
    /\ interfered = FALSE

eth == call.ethereum_address
pair(a, e) == recipient_nonce[<<a, e>>]

\* What a block says of an address and some of its pairs.
association(e, accounts) ==
    [current |-> current(e), ethereum_nonce |-> ethereum_nonce[e],
     pairs |-> [a \in accounts |-> pair(a, e)]]

End(outcome) ==
    /\ stage' = "ended"
    /\ result' = outcome
    /\ UNCHANGED <<call, destination, expected, caller, observed>>

-----------------------------------------------------------------------------
(* Prepare: the request names the nonces and the link of a snapshot.       *)

requested(operation, e, a, deadline) ==
    CASE operation = "link" ->
           [kind |-> "link", ethereum_address |-> e, account_address |-> a,
            ethereum_nonce |-> ethereum_nonce[e],
            recipient_nonce |-> pair(a, e), deadline |-> deadline]
      [] operation = "move" ->
           [kind |-> "move", ethereum_address |-> e, account_address |-> a,
            previous_account_address |-> current(e),
            ethereum_nonce |-> ethereum_nonce[e],
            recipient_nonce |-> pair(a, e), deadline |-> deadline]
      [] operation = "revoke" ->
           [kind |-> "revoke", ethereum_address |-> e,
            current_account_address |-> current(e),
            ethereum_nonce |-> ethereum_nonce[e], deadline |-> deadline]

Prepare(operation, e, a, deadline) ==
    /\ stage = "idle"
    /\ e # ZeroEth
    /\ a # ZeroAccount
    /\ deadline # 0
    /\ deadline >= block_timestamp
    /\ operation = "link" => current(e) = ZeroAccount
    /\ operation = "move" => current(e) \notin {ZeroAccount, a}
    /\ call' = requested(operation, e, a, deadline)
    /\ destination' = a
    /\ stage' = "prepared"
    /\ UNCHANGED <<vars, expected, caller, observed, result, interfered>>

\* The link that the prepared request was made for.
prepared_current ==
    CASE call.kind = "link" -> ZeroAccount
      [] call.kind = "move" -> call.previous_account_address
      [] call.kind = "revoke" -> call.current_account_address

\* The prepared request is current at the validated block.
still_current ==
    /\ ethereum_nonce[eth] = call.ethereum_nonce
    /\ current(eth) = prepared_current
    /\ call.kind # "revoke" =>
           pair(call.account_address, eth) = call.recipient_nonce

ValidateFails ==
    /\ stage = "prepared"
    /\ \/ block_timestamp > call.deadline /\ End("expired")
       \/ /\ block_timestamp <= call.deadline
          /\ ~still_current
          /\ End("stale-request")
    /\ UNCHANGED <<vars, interfered>>

\* The pairs whose nonces the call will advance.
\* Mutant: the account that gets the address is forgotten.
M_advanced_pairs(r) ==
    IF current(r.ethereum_address) # ZeroAccount
    THEN {current(r.ethereum_address)} ELSE {}
advanced_pairs(r) ==
    (IF current(r.ethereum_address) # ZeroAccount
     THEN {current(r.ethereum_address)} ELSE {})
    \cup (IF r.kind = "revoke" THEN {} ELSE {r.account_address})

\* Mutant: the previous account's nonce is expected to stay.
M_signedEffect(r) ==
    [current |-> IF r.kind = "revoke" THEN ZeroAccount ELSE r.account_address,
     ethereum_nonce |-> next_nonce(ethereum_nonce[r.ethereum_address]),
     pairs |-> [a \in advanced_pairs(r) |->
                   IF a = current(r.ethereum_address)
                   THEN pair(a, r.ethereum_address)
                   ELSE next_nonce(pair(a, r.ethereum_address))]]
signedEffect(r) ==
    [current |-> IF r.kind = "revoke" THEN ZeroAccount ELSE r.account_address,
     ethereum_nonce |-> next_nonce(ethereum_nonce[r.ethereum_address]),
     pairs |-> [a \in advanced_pairs(r) |->
                   next_nonce(pair(a, r.ethereum_address))]]

\* Expected nonces must fit their width.
fits(effect) ==
    /\ effect.ethereum_nonce <= MaxNonce
    /\ \A a \in DOMAIN effect.pairs : effect.pairs[a] <= MaxNonce

Validate ==
    /\ stage = "prepared"
    /\ block_timestamp <= call.deadline
    /\ still_current
    /\ fits(signedEffect(call))
    /\ expected' = signedEffect(call)
    /\ stage' = "validated"
    /\ UNCHANGED <<vars, call, destination, caller, observed, result,
                   interfered>>

ValidateTooLarge ==
    /\ stage = "prepared"
    /\ block_timestamp <= call.deadline
    /\ still_current
    /\ ~fits(signedEffect(call))
    /\ End("provider")
    /\ UNCHANGED <<vars, interfered>>
-----------------------------------------------------------------------------
(* unlink and invalidatePendingIncoming need no signature and no prepare.  *)

unsignedEffect(cancel, e, a) ==
    [current |-> IF cancel THEN current(e) ELSE ZeroAccount,
     ethereum_nonce |-> ethereum_nonce[e] + (IF cancel THEN 0 ELSE 1),
     pairs |-> [b \in {a} |-> next_nonce(pair(a, e))]]

UnsignedSubmit(cancel, e, a) ==
    /\ stage = "idle"
    /\ e # ZeroEth
    /\ a # ZeroAccount
    /\ ~cancel => current(e) = a
    /\ fits(unsignedEffect(cancel, e, a))
    /\ call' = [kind |-> IF cancel THEN "invalidate_pending_incoming"
                         ELSE "unlink",
                ethereum_address |-> e]
    /\ destination' = a
    /\ expected' = unsignedEffect(cancel, e, a)
    /\ stage' = "validated"
    /\ UNCHANGED <<vars, caller, observed, result, interfered>>

-----------------------------------------------------------------------------
(* The call on the registry, by an account.                                *)

can_drop(e) ==
    /\ has_next_nonce(pair(current(e), e))
    /\ can_remove(members, e, current(e))

succeeds(a) ==
    \/ call.kind = "link" /\ link_checks(a, call)
    \/ call.kind = "move" /\ move_checks(a, call)
    \/ /\ call.kind = "revoke"
       /\ revoke_checks(call)
       /\ current(eth) = ZeroAccount \/ can_drop(eth)
    \/ call.kind = "unlink" /\ unlink_checks(a, eth) /\ can_drop(eth)
    \/ /\ call.kind = "invalidate_pending_incoming"
       /\ a # ZeroAccount
       /\ has_next_nonce(pair(a, eth))

perform(a) ==
    \/ call.kind = "link" /\ link(a, call)
    \/ call.kind = "move" /\ move(a, call)
    \/ call.kind = "revoke" /\ (revoke_unlinked(call) \/ revoke_linked(call))
    \/ call.kind = "unlink" /\ unlink(a, eth)
    \/ /\ call.kind = "invalidate_pending_incoming"
       /\ invalidate_pending_incoming(a, eth)

Simulate ==
    /\ stage = "validated"
    /\ succeeds(destination)
    /\ stage' = "simulated"
    /\ UNCHANGED <<vars, call, destination, expected, caller, observed, result,
                   interfered>>

SimulateFails ==
    /\ stage = "validated"
    /\ End("simulation-failed")
    /\ UNCHANGED <<vars, interfered>>

\* The user confirms in the wallet, with the account selected by then.
Execute(a) ==
    /\ stage = "simulated"
    /\ a # ZeroAccount
    /\ caller' = a
    /\ stage' = "sent"
    /\ UNCHANGED <<vars, call, destination, expected, observed, result,
                   interfered>>

ExecuteFails ==
    /\ stage = "simulated"
    /\ End("provider")
    /\ UNCHANGED <<vars, interfered>>

Include ==
    /\ stage = "sent"
    /\ perform(caller)
    /\ stage' = "included"
    /\ UNCHANGED <<call, destination, expected, caller, observed, result,
                   interfered>>

Revert ==
    /\ stage = "sent"
    /\ ~succeeds(caller)
    /\ End("execution-reverted")
    /\ UNCHANGED <<vars, interfered>>

\* The receipt does not come, or is not what it should be.
WaitFails ==
    /\ stage \in {"sent", "included", "sealed"}
    /\ End("confirmation-unavailable")
    /\ UNCHANGED <<vars, interfered>>

\* The block of the receipt is complete; later calls of others may be in it.
Seal ==
    /\ stage = "included"
    /\ observed' = association(eth, DOMAIN expected.pairs)
    /\ stage' = "sealed"
    /\ UNCHANGED <<vars, call, destination, expected, caller, result,
                   interfered>>

\* Mutant: only the association is compared.
M_as_expected == observed.current = expected.current
as_expected == observed = expected

Readback ==
    /\ stage = "sealed"
    /\ End(IF as_expected THEN "matched" ELSE "mismatch")
    /\ UNCHANGED <<vars, interfered>>

ReadbackFails ==
    /\ stage = "sealed"
    /\ End("unavailable")
    /\ UNCHANGED <<vars, interfered>>

-----------------------------------------------------------------------------
(* Everybody else.                                                         *)

Watching == stage \in {"validated", "simulated", "sent", "included"}

\* Whether a step changes what the session expects to change alone.
Disturbs ==
    LET accounts == DOMAIN expected.pairs
    IN  association(eth, accounts) # association(eth, accounts)'

\* Bound: what happens after the caller has its result is not followed.
Others ==
    /\ stage # "ended"
    /\ Next
    /\ UNCHANGED session
    /\ interfered' = (interfered \/ (Watching /\ Disturbs))

NextSession ==
    \/ \E operation \in {"link", "move", "revoke"}, e \in EthAddress,
          a \in ContractAddress, deadline \in Time :
          Prepare(operation, e, a, deadline)
    \/ \E cancel \in BOOLEAN, e \in EthAddress, a \in ContractAddress :
          UnsignedSubmit(cancel, e, a)
    \/ Validate \/ ValidateFails \/ ValidateTooLarge
    \/ Simulate \/ SimulateFails
    \/ \E a \in ContractAddress : Execute(a)
    \/ ExecuteFails
    \/ Include \/ Revert \/ WaitFails
    \/ Seal \/ Readback \/ ReadbackFails
    \/ Others

SessionSpec == InitSession /\ [][NextSession]_allvars
=============================================================================
