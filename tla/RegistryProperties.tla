-------------------------- MODULE RegistryProperties --------------------------
(***************************************************************************)
(* What the registry contract promises, stated over AddressRegistry.       *)
(***************************************************************************)
EXTENDS AddressRegistry

\* Every map of the contract keeps its type, and checked arithmetic keeps
\* nonces, counts and indices within their width.
TypeOK ==
    /\ members \in Members
    /\ ethereum_nonce \in [EthAddress -> Nonce]
    /\ recipient_nonce \in [ContractAddress \X EthAddress -> Nonce]
    /\ events \in Seq(Event)
    /\ signed \subseteq Signable
    /\ block_timestamp \in Time

-----------------------------------------------------------------------------
(* The forward map and the list of each account describe one relation.     *)

index_plus_one(e) == members.ethereum_index_plus_one[e]
slot(a, i) == members.ethereum_addresses[<<a, i>>]

\* A linked address is found in its account's list, at the index recorded
\* for it: what remove reads before it swaps.
ForwardReachesList ==
    \A e \in EthAddress :
        LET a == current(e)
        IN  a # ZeroAccount =>
                /\ index_plus_one(e) \in 1 .. count(a)
                /\ slot(a, index_plus_one(e) - 1) = e

\* Every entry of a list is a nonzero address linked to that account whose
\* recorded index is that entry, so no list holds an address twice and no
\* address is in two lists, whatever swaps moved it.
ListReachesForward ==
    \A a \in ContractAddress : \A i \in Index :
        i < count(a) =>
            /\ slot(a, i) # ZeroEth
            /\ current(slot(a, i)) = a
            /\ index_plus_one(slot(a, i)) = i + 1

\* Nothing is left behind by a removal: places past the end are cleared and
\* an unlinked address has no index.
RemovalLeavesNothing ==
    /\ \A a \in ContractAddress : \A i \in Index :
          i >= count(a) => slot(a, i) = ZeroEth
    /\ \A e \in EthAddress : current(e) = ZeroAccount => index_plus_one(e) = 0

\* The zero address of either chain is never linked, whoever calls.
ZeroIsNeverLinked ==
    /\ current(ZeroEth) = ZeroAccount
    /\ count(ZeroAccount) = 0

\* The forward map, the lists and the recorded indices are one relation: what
\* remove relies on before it swaps, and what every reader of a list assumes.
ListsMirrorLinks ==
    /\ ForwardReachesList
    /\ ListReachesForward
    /\ RemovalLeavesNothing
    /\ ZeroIsNeverLinked

\* Reading an account's list page by page, at any page size, meets each
\* associated address exactly once and nothing else.
PagesPartitionMembership ==
    \A a \in ContractAddress : \A limit \in 1 .. MaxCount + 1 :
        LET page(k) == get_ethereum_addresses(a, k * limit, limit)
            places(e) ==
                {p \in (0 .. MaxCount) \X (1 .. limit) :
                    p[2] \in DOMAIN page(p[1]) /\ page(p[1])[p[2]] = e}
        IN  \A e \in EthAddress :
                Cardinality(places(e)) = IF is_associated(e, a) THEN 1 ELSE 0

\* The account an address is linked to can always unlink it while the two
\* nonces can still advance: no reachable list makes remove panic.
OwnerCanAlwaysLeave ==
    \A e \in EthAddress :
        (/\ current(e) # ZeroAccount
         /\ ethereum_nonce[e] < MaxNonce
         /\ recipient_nonce[<<current(e), e>>] < MaxNonce)
            => ENABLED unlink(current(e), e)

-----------------------------------------------------------------------------
(* Consent: what a signature can do, and until when.                       *)

pair_nonce(r) == recipient_nonce[<<r.account_address, r.ethereum_address>>]

\* The request can never execute (again): a nonce it names has passed.
Stale(r) ==
    \/ r.ethereum_nonce < ethereum_nonce[r.ethereum_address]
    \/ r.kind # "revoke" /\ r.recipient_nonce < pair_nonce(r)

\* The request deliberately names a nonce still to come.
FutureNonce(r) == r.ethereum_nonce > ethereum_nonce[r.ethereum_address]

\* A request that has become stale stays stale, also after its address was
\* linked to the same account again: nonces never reset, wrap or step back.
StaleForever == [][\A r \in Requests : Stale(r) => Stale(r)']_vars

\* Any change of an address's link retires every consent its key has given
\* so far, the executed one included, unless it names a future nonce.  So no
\* consent executes twice, and none outlives the link it was given under.
ChangeRetiresConsent ==
    [][\A e \in EthAddress :
          current(e) # current(e)' =>
              \A r \in Requests :
                  r.ethereum_address = e /\ ~FutureNonce(r) => Stale(r)']_vars

\* An address becomes linked to an account only by an unexpired request its
\* key signed for that account and for the link it replaces: a link request
\* when there was none, a move request naming the account left otherwise.
NewOwnerWasConsented ==
    [][\A e \in EthAddress :
          (current(e)' # current(e) /\ current(e)' # ZeroAccount) =>
              \E r \in signed :
                  /\ r.ethereum_address = e
                  /\ r.kind \in {"link", "move"}
                  /\ r.account_address = current(e)'
                  /\ r.deadline >= block_timestamp
                  /\ ~Stale(r) /\ ~FutureNonce(r)
                  /\ IF r.kind = "link" THEN current(e) = ZeroAccount
                     ELSE r.previous_account_address = current(e)]_vars

=============================================================================
