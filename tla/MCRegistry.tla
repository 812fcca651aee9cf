------------------------------ MODULE MCRegistry ------------------------------
(* Instances of the registry: which requests are formed, and what is       *)
(* interchangeable.  Signing everything beforehand lets any operation that *)
(* the nonces allow come next.                                             *)
EXTENDS RegistryConsent, RegistryEvents, TLC

Owned == EthAddress \ {ZeroEth}
Holder == ContractAddress \ {ZeroAccount}

Links(nonces, deadlines) ==
    [kind : {"link"}, ethereum_address : Owned, account_address : Holder,
     ethereum_nonce : nonces, recipient_nonce : nonces, deadline : deadlines]
Moves(nonces, deadlines) ==
    {r \in [kind : {"move"}, ethereum_address : Owned, account_address : Holder,
            previous_account_address : Holder, ethereum_nonce : nonces,
            recipient_nonce : nonces, deadline : deadlines] :
        r.account_address # r.previous_account_address}
Revokes(nonces, deadlines) ==
    [kind : {"revoke"}, ethereum_address : Owned,
     current_account_address : ContractAddress,
     ethereum_nonce : nonces, deadline : deadlines]

\* Consents to be held by the zero account, which nobody may use.
ZeroLinks ==
    [kind : {"link"}, ethereum_address : Owned, account_address : {ZeroAccount},
     ethereum_nonce : {0}, recipient_nonce : {0}, deadline : {1}]

AllRequests ==
    Links(Nonce, {1}) \cup Moves(Nonce, {1}) \cup Revokes(Nonce, {1})
        \cup ZeroLinks

\* With a clock: links expire before moves and revokes, and a request with
\* deadline 0 is refused, also at time 0.
TimedRequests ==
    Links({0, 1, 2}, {1}) \cup Links({0}, {0}) \cup Moves({0, 1}, {2})
        \cup Revokes({0, 1}, {2})

RegistrySymmetry == Permutations(Owned) \cup Permutations(Holder)
=============================================================================
