--------------------------- MODULE AddressRegistry ---------------------------
(***************************************************************************)
(* The registry contract (contracts/src/registry.cairo): which Starknet    *)
(* account an Ethereum address is linked to, the list of addresses of each *)
(* account, and the two families of nonces that make a signed consent      *)
(* usable once.                                                            *)
(*                                                                         *)
(* One action is one successful invocation, in the order of the source's   *)
(* checks.  An invocation that fails a check reverts and is no step.       *)
(* Signatures are ideal: verifying a request for an Ethereum address       *)
(* succeeds exactly when that key has signed those fields, under that      *)
(* operation's statement, for this registry.                               *)
(***************************************************************************)
EXTENDS Integers, Sequences, FiniteSets

CONSTANTS
    EthAddress,       \* Ethereum addresses, the zero address among them
    ContractAddress,  \* Starknet accounts, the zero address among them
    ZeroEth, ZeroAccount,
    MaxNonce,         \* the largest nonce (2^256 - 1 in the contract)
    MaxCount,         \* the largest list length (2^64 - 1 in the contract)
    MaxTime,          \* bound: the clock stops here
    Requests,         \* the requests anybody forms, signed or not
    Presigned,        \* those signed before the registry's first call
    MaxSigned         \* bound: no further signature is made at this number

Nonce == 0 .. MaxNonce
Index == 0 .. MaxCount - 1
Time == 0 .. MaxTime

\* An Ethereum-signed request.  The kind stands for the type hash and the
\* statement hash, which separate the three operations.
LinkRequest ==
    [kind : {"link"}, ethereum_address : EthAddress,
     account_address : ContractAddress,
     ethereum_nonce : Nonce, recipient_nonce : Nonce, deadline : Nat]

MoveRequest ==
    [kind : {"move"}, ethereum_address : EthAddress,
     account_address : ContractAddress,
     previous_account_address : ContractAddress,
     ethereum_nonce : Nonce, recipient_nonce : Nonce, deadline : Nat]

RevokeRequest ==
    [kind : {"revoke"}, ethereum_address : EthAddress,
     current_account_address : ContractAddress,
     ethereum_nonce : Nonce, deadline : Nat]

Request == LinkRequest \cup MoveRequest \cup RevokeRequest

\* Calls present requests of Requests; no key recovers to the zero address.
Signable == {r \in Requests : r.ethereum_address # ZeroEth}

ASSUME ZeroAssumption ==
    /\ ZeroEth \in EthAddress
    /\ ZeroAccount \in ContractAddress
ASSUME BoundAssumption ==
    /\ MaxNonce \in Nat
    /\ MaxCount \in Nat \ {0}
    /\ MaxTime \in Nat
    /\ MaxSigned \in Nat
ASSUME RequestAssumption ==
    /\ Requests \subseteq Request
    /\ Presigned \subseteq Signable

VARIABLES
    members,          \* the four membership maps, a record named as in Storage
    ethereum_nonce,   \* N(E)
    recipient_nonce,  \* R(S, E), kept for the pair <<S, E>>
    events,           \* what the last successful call emitted, in order
    signed,           \* requests whose Ethereum key has signed them
    block_timestamp

vars == <<members, ethereum_nonce, recipient_nonce, events, signed,
          block_timestamp>>

Members ==
    [ethereum_to_starknet : [EthAddress -> ContractAddress],
     ethereum_addresses : [ContractAddress \X Index -> EthAddress],
     ethereum_count : [ContractAddress -> 0 .. MaxCount],
     ethereum_index_plus_one : [EthAddress -> 0 .. MaxCount]]

\* AssociationChanged and the two nonce events; operation is 1 to 4.
Event ==
    [type : {"AssociationChanged"}, ethereum_address : EthAddress,
     previous : ContractAddress, new : ContractAddress, operation : 1 .. 4]
    \cup [type : {"EthereumNonceAdvanced"}, ethereum_address : EthAddress,
          new_nonce : Nonce]
    \cup [type : {"RecipientNonceAdvanced"},
          starknet_address : ContractAddress, ethereum_address : EthAddress,
          new_nonce : Nonce]

Init ==
    /\ members =
         [ethereum_to_starknet |-> [e \in EthAddress |-> ZeroAccount],
          ethereum_addresses |-> [slot \in ContractAddress \X Index |-> ZeroEth],
          ethereum_count |-> [a \in ContractAddress |-> 0],
          ethereum_index_plus_one |-> [e \in EthAddress |-> 0]]
    /\ ethereum_nonce = [e \in EthAddress |-> 0]
    /\ recipient_nonce = [pair \in ContractAddress \X EthAddress |-> 0]
    /\ events = << >>
    /\ signed = Presigned
    /\ block_timestamp = 0

current(e) == members.ethereum_to_starknet[e]
count(a) == members.ethereum_count[a]

-----------------------------------------------------------------------------
(* Checked arithmetic and the shared checks.                               *)

\* Mutant: one too many.
M_has_next_nonce(value) == value <= MaxNonce
has_next_nonce(value) == value < MaxNonce
\* Mutant: the addition wraps, one bit short.
M_next_nonce(value) == (value + 1) % MaxNonce
next_nonce(value) == value + 1

has_next_count(value) == value < MaxCount
next_count(value) == value + 1

\* Mutant: the deadline is not compared with the clock.
M_check_signed(r) ==
    /\ r.ethereum_address # ZeroEth
    /\ r.deadline # 0
    /\ ethereum_nonce[r.ethereum_address] = r.ethereum_nonce
check_signed(r) ==
    /\ r.ethereum_address # ZeroEth
    /\ r.deadline # 0
    /\ block_timestamp <= r.deadline
    /\ ethereum_nonce[r.ethereum_address] = r.ethereum_nonce

\* Mutant: the pair nonce is not compared.
M_check_recipient_nonce(caller, r) ==
    /\ r.account_address # ZeroAccount
    /\ caller = r.account_address
check_recipient(caller, r) ==
    /\ r.account_address # ZeroAccount
    /\ caller = r.account_address
    /\ recipient_nonce[<<r.account_address, r.ethereum_address>>]
         = r.recipient_nonce

verify(r) == r \in signed

-----------------------------------------------------------------------------
(* Membership: append at the end, remove by moving the last entry.         *)

insert(m, e, a, new_count) ==
    [ethereum_addresses |->
        [m.ethereum_addresses EXCEPT ![<<a, new_count - 1>>] = e],
     ethereum_index_plus_one |->
        [m.ethereum_index_plus_one EXCEPT ![e] = new_count],
     ethereum_count |-> [m.ethereum_count EXCEPT ![a] = new_count],
     ethereum_to_starknet |-> [m.ethereum_to_starknet EXCEPT ![e] = a]]

\* The two u64 subtractions of remove; a failing one panics.
can_remove(m, e, a) ==
    /\ m.ethereum_count[a] > 0
    /\ m.ethereum_index_plus_one[e] > 0

\* Mutant: the moved entry's index is off by one.
M_indices_low(m, e, a) ==
    [m.ethereum_index_plus_one EXCEPT
        ![m.ethereum_addresses[<<a, m.ethereum_count[a] - 1>>]] =
            m.ethereum_index_plus_one[e] - 1]

\* Swap: the last entry of the list takes the place of the removed one ...
filled_addresses(m, e, a) ==
    LET last == m.ethereum_count[a] - 1
        index == m.ethereum_index_plus_one[e] - 1
    IN  IF index # last
        THEN [m.ethereum_addresses EXCEPT
                 ![<<a, index>>] = m.ethereum_addresses[<<a, last>>]]
        ELSE m.ethereum_addresses

\* ... and its recorded index is repaired.
repaired_indices(m, e, a) ==
    LET last == m.ethereum_count[a] - 1
        index == m.ethereum_index_plus_one[e] - 1
    IN  IF index # last
        THEN [m.ethereum_index_plus_one EXCEPT
                 ![m.ethereum_addresses[<<a, last>>]] = index + 1]
        ELSE m.ethereum_index_plus_one

\* Mutant: the gap is not filled.
M_remove_gap(m, e, a) ==
    [ethereum_addresses |->
        [m.ethereum_addresses EXCEPT ![<<a, m.ethereum_count[a] - 1>>] = ZeroEth],
     ethereum_index_plus_one |-> [m.ethereum_index_plus_one EXCEPT ![e] = 0],
     ethereum_count |-> [m.ethereum_count EXCEPT ![a] = @ - 1],
     ethereum_to_starknet |-> [m.ethereum_to_starknet EXCEPT ![e] = ZeroAccount]]

\* Pop: the last place is cleared and the address forgotten.
remove(m, e, a) ==
    LET last == m.ethereum_count[a] - 1
    IN  [ethereum_addresses |->
            [filled_addresses(m, e, a) EXCEPT ![<<a, last>>] = ZeroEth],
         ethereum_index_plus_one |-> [repaired_indices(m, e, a) EXCEPT ![e] = 0],
         ethereum_count |-> [m.ethereum_count EXCEPT ![a] = last],
         ethereum_to_starknet |->
            [m.ethereum_to_starknet EXCEPT ![e] = ZeroAccount]]

\* Mutant: the write is forgotten.
M_advance_ethereum(nonces, e, nonce) == nonces
advance_ethereum(nonces, e, nonce) == [nonces EXCEPT ![e] = nonce]

advance_recipient(nonces, e, a, nonce) == [nonces EXCEPT ![<<a, e>>] = nonce]

\* Mutant: the two accounts are swapped.
M_AssociationChanged(e, previous, new, operation) ==
    [type |-> "AssociationChanged", ethereum_address |-> e,
     previous |-> new, new |-> previous, operation |-> operation]
AssociationChanged(e, previous, new, operation) ==
    [type |-> "AssociationChanged", ethereum_address |-> e,
     previous |-> previous, new |-> new, operation |-> operation]

EthereumNonceAdvanced(e, nonce) ==
    [type |-> "EthereumNonceAdvanced", ethereum_address |-> e,
     new_nonce |-> nonce]

RecipientNonceAdvanced(e, a, nonce) ==
    [type |-> "RecipientNonceAdvanced", starknet_address |-> a,
     ethereum_address |-> e, new_nonce |-> nonce]
-----------------------------------------------------------------------------
(* The five operations.                                                    *)

link_checks(caller, r) ==
    LET e == r.ethereum_address
        a == r.account_address
    IN  /\ r.kind = "link"
        /\ check_signed(r)
        /\ check_recipient(caller, r)
        /\ current(e) = ZeroAccount
        /\ verify(r)
        /\ has_next_nonce(r.ethereum_nonce)
        /\ has_next_nonce(r.recipient_nonce)
        /\ has_next_count(count(a))

link(caller, r) ==
    LET e == r.ethereum_address
        a == r.account_address
        nonce == next_nonce(r.ethereum_nonce)
        recipient == next_nonce(r.recipient_nonce)
    IN  /\ link_checks(caller, r)
        /\ members' = insert(members, e, a, next_count(count(a)))
        /\ ethereum_nonce' = advance_ethereum(ethereum_nonce, e, nonce)
        /\ recipient_nonce' =
             advance_recipient(recipient_nonce, e, a, recipient)
        /\ events' = <<AssociationChanged(e, ZeroAccount, a, 1),
                       EthereumNonceAdvanced(e, nonce),
                       RecipientNonceAdvanced(e, a, recipient)>>
        /\ UNCHANGED <<signed, block_timestamp>>

move_checks(caller, r) ==
    LET e == r.ethereum_address
        a == r.account_address
        previous == r.previous_account_address
    IN  /\ r.kind = "move"
        /\ check_signed(r)
        /\ check_recipient(caller, r)
        /\ previous # ZeroAccount
        /\ current(e) # ZeroAccount
        /\ current(e) = previous
        /\ previous # a
        /\ verify(r)
        /\ has_next_nonce(r.ethereum_nonce)
        /\ has_next_nonce(recipient_nonce[<<previous, e>>])
        /\ has_next_nonce(r.recipient_nonce)
        /\ has_next_count(count(a))
        /\ can_remove(members, e, previous)

move(caller, r) ==
    LET e == r.ethereum_address
        a == r.account_address
        previous == r.previous_account_address
        nonce == next_nonce(r.ethereum_nonce)
        old_recipient == next_nonce(recipient_nonce[<<previous, e>>])
        recipient == next_nonce(r.recipient_nonce)
    IN  /\ move_checks(caller, r)
        /\ members' = insert(remove(members, e, previous), e, a,
                             next_count(count(a)))
        /\ ethereum_nonce' = advance_ethereum(ethereum_nonce, e, nonce)
        /\ recipient_nonce' =
             advance_recipient(
               advance_recipient(recipient_nonce, e, previous, old_recipient),
               e, a, recipient)
        /\ events' = <<AssociationChanged(e, previous, a, 2),
                       EthereumNonceAdvanced(e, nonce),
                       RecipientNonceAdvanced(e, previous, old_recipient),
                       RecipientNonceAdvanced(e, a, recipient)>>
        /\ UNCHANGED <<signed, block_timestamp>>

\* What unlink and a revoke of a linked address share: the removal, and the
\* nonces and events that go with it.
drop(e, a, operation) ==
    LET nonce == next_nonce(ethereum_nonce[e])
        recipient == next_nonce(recipient_nonce[<<a, e>>])
    IN  /\ has_next_nonce(recipient_nonce[<<a, e>>])
        /\ can_remove(members, e, a)
        /\ members' = remove(members, e, a)
        /\ ethereum_nonce' = advance_ethereum(ethereum_nonce, e, nonce)
        /\ recipient_nonce' =
             advance_recipient(recipient_nonce, e, a, recipient)
        /\ events' = <<AssociationChanged(e, a, ZeroAccount, operation),
                       EthereumNonceAdvanced(e, nonce),
                       RecipientNonceAdvanced(e, a, recipient)>>

unlink_checks(caller, e) ==
    /\ e # ZeroEth
    /\ current(e) # ZeroAccount
    /\ caller = current(e)
    /\ has_next_nonce(ethereum_nonce[e])

unlink(caller, e) ==
    /\ unlink_checks(caller, e)
    /\ drop(e, current(e), 3)
    /\ UNCHANGED <<signed, block_timestamp>>

\* Any caller may relay a revoke.
revoke_checks(r) ==
    /\ r.kind = "revoke"
    /\ check_signed(r)
    /\ current(r.ethereum_address) = r.current_account_address
    /\ verify(r)
    /\ has_next_nonce(r.ethereum_nonce)

revoke_unlinked(r) ==
    LET e == r.ethereum_address
        nonce == next_nonce(r.ethereum_nonce)
    IN  /\ revoke_checks(r)
        /\ current(e) = ZeroAccount
        /\ ethereum_nonce' = advance_ethereum(ethereum_nonce, e, nonce)
        /\ events' = <<EthereumNonceAdvanced(e, nonce)>>
        /\ UNCHANGED <<members, recipient_nonce, signed, block_timestamp>>

revoke_linked(r) ==
    /\ revoke_checks(r)
    /\ current(r.ethereum_address) # ZeroAccount
    /\ drop(r.ethereum_address, current(r.ethereum_address), 4)
    /\ UNCHANGED <<signed, block_timestamp>>

invalidate_pending_incoming(caller, e) ==
    LET recipient == next_nonce(recipient_nonce[<<caller, e>>])
    IN  /\ e # ZeroEth
        /\ caller # ZeroAccount
        /\ has_next_nonce(recipient_nonce[<<caller, e>>])
        /\ recipient_nonce' =
             advance_recipient(recipient_nonce, e, caller, recipient)
        /\ events' = <<RecipientNonceAdvanced(e, caller, recipient)>>
        /\ UNCHANGED <<members, ethereum_nonce, signed, block_timestamp>>

-----------------------------------------------------------------------------
(* Getters.                                                                *)

is_associated(e, a) ==
    /\ e # ZeroEth
    /\ a # ZeroAccount
    /\ current(e) = a

\* Mutant: a full page is mistaken for the last one.
M_page_length(length, offset, limit) ==
    IF offset >= length THEN 0
    ELSE IF length - offset <= limit THEN length - offset - 1 ELSE limit

\* limit is at least 1; the source also caps it at 100.
page_length(length, offset, limit) ==
    IF offset >= length THEN 0
    ELSE IF length - offset < limit THEN length - offset ELSE limit

get_ethereum_addresses(a, offset, limit) ==
    [i \in 1 .. page_length(count(a), offset, limit) |->
        members.ethereum_addresses[<<a, offset + i - 1>>]]

-----------------------------------------------------------------------------
(* Outside the contract: keys sign, blocks advance the clock.              *)

Sign(r) ==
    /\ Cardinality(signed) < MaxSigned
    /\ signed' = signed \cup {r}
    /\ UNCHANGED <<members, ethereum_nonce, recipient_nonce, events,
                   block_timestamp>>

Tick ==
    /\ block_timestamp < MaxTime
    /\ block_timestamp' = block_timestamp + 1
    /\ UNCHANGED <<members, ethereum_nonce, recipient_nonce, events, signed>>

Next ==
    \/ \E caller \in ContractAddress, r \in Requests :
          link(caller, r) \/ move(caller, r)
    \/ \E r \in Requests : revoke_unlinked(r) \/ revoke_linked(r)
    \/ \E caller \in ContractAddress, e \in EthAddress :
          unlink(caller, e) \/ invalidate_pending_incoming(caller, e)
    \/ \E r \in Signable : Sign(r)
    \/ Tick

Spec == Init /\ [][Next]_vars
=============================================================================
