------------------------------ MODULE MCSession ------------------------------
(* One submission while other accounts use the registry.  Everything is    *)
(* signed beforehand, so that any operation the nonces allow may come in   *)
(* between.  A second address, the rival's, is linked at most once and by  *)
(* that fills a list of one.                                               *)
EXTENDS SessionProperties, TLC

CONSTANT Rival

Owned == EthAddress \ {ZeroEth}
Holder == ContractAddress \ {ZeroAccount}
Deadlines == {1}

\* A request with the last nonce is refused: there is no next one.
Usable == {n \in Nonce : has_next_nonce(n)}

SessionRequests ==
    [kind : {"link"}, ethereum_address : Owned \ {Rival},
     account_address : Holder, ethereum_nonce : Usable,
     recipient_nonce : Usable, deadline : Deadlines]
    \cup
    {r \in [kind : {"move"}, ethereum_address : Owned \ {Rival},
            account_address : Holder, previous_account_address : Holder,
            ethereum_nonce : Usable, recipient_nonce : Usable,
            deadline : Deadlines] :
        r.account_address # r.previous_account_address}
    \cup
    [kind : {"revoke"}, ethereum_address : Owned \ {Rival},
     current_account_address : ContractAddress, ethereum_nonce : Usable,
     deadline : Deadlines]
    \cup
    [kind : {"link"}, ethereum_address : {Rival}, account_address : Holder,
     ethereum_nonce : {0}, recipient_nonce : {0}, deadline : Deadlines]

\* Bound: the submission is not for the rival address, whose link, once made,
\* stays and whose pending consents nobody cancels.
RivalOnlyLinks ==
    /\ call # NoCall => eth # Rival
    /\ \A a \in Holder :
           recipient_nonce[<<a, Rival>>] = (IF current(Rival) = a THEN 1 ELSE 0)

SessionSymmetry == Permutations(Holder)
=============================================================================
