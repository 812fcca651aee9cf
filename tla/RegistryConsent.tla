---------------------------- MODULE RegistryConsent ----------------------------
(***************************************************************************)
(* The registry contract implements AssociationConsent: the abstract       *)
(* owner is the forward map, an account lists what its first count slots   *)
(* hold, and a request is dead once a nonce it names has passed.           *)
(***************************************************************************)
EXTENDS RegistryProperties

Listed == [a \in ContractAddress |->
              {slot(a, i) : i \in {j \in Index : j < count(a)}}]

NotYet(r) ==
    \/ FutureNonce(r)
    \/ r.kind # "revoke" /\ r.recipient_nonce > pair_nonce(r)

StatusOf(r) == IF Stale(r) THEN "dead" ELSE IF NotYet(r) THEN "future" ELSE "live"

Consent == INSTANCE AssociationConsent
             WITH owner <- members.ethereum_to_starknet,
                  listed <- Listed,
                  granted <- signed,
                  status <- [r \in Requests |-> StatusOf(r)]

\* Every step of the contract is a step its consent specification allows:
\* one execution per signature, retirement by every change of link, pair
\* cancellation that leaves links and other pairs alone, and lists that
\* follow the links.
ConsentSpec == Consent!Spec
=============================================================================
