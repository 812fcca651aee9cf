---------------------------- MODULE RegistryProofs ----------------------------
(***************************************************************************)
(* Proofs about the registry contract, for every number of addresses,      *)
(* every bound and every set of requests: its lists and nonces, the        *)
(* consent it promises, what its events tell, and what a submission of the *)
(* client can tell about it while others use it.                           *)
(***************************************************************************)
EXTENDS RegistryConsent, RegistryEvents, SessionProperties, FiniteSetTheorems, TLAPS

USE ZeroAssumption, BoundAssumption

\* The membership properties as a condition on the four maps, so that what
\* insert and remove preserve can be stated apart from the state.
Reached(m) ==
    \A e \in EthAddress :
        LET a == m.ethereum_to_starknet[e]
        IN  a # ZeroAccount =>
                /\ m.ethereum_index_plus_one[e] \in 1 .. m.ethereum_count[a]
                /\ m.ethereum_addresses[<<a, m.ethereum_index_plus_one[e] - 1>>]
                     = e

Held(m) ==
    \A a \in ContractAddress : \A i \in Index :
        i < m.ethereum_count[a] =>
            LET e == m.ethereum_addresses[<<a, i>>]
            IN  /\ e # ZeroEth
                /\ m.ethereum_to_starknet[e] = a
                /\ m.ethereum_index_plus_one[e] = i + 1

Clear(m) ==
    /\ \A a \in ContractAddress : \A i \in Index :
          i >= m.ethereum_count[a] => m.ethereum_addresses[<<a, i>>] = ZeroEth
    /\ \A e \in EthAddress :
          m.ethereum_to_starknet[e] = ZeroAccount
              => m.ethereum_index_plus_one[e] = 0

NonZero(m) ==
    /\ m.ethereum_to_starknet[ZeroEth] = ZeroAccount
    /\ m.ethereum_count[ZeroAccount] = 0

Consistent(m) == Reached(m) /\ Held(m) /\ Clear(m) /\ NonZero(m)

\* The inductive invariant.
IInv == TypeOK /\ ListsMirrorLinks

LEMMA InsertKeepsMembers ==
    ASSUME NEW m \in Members, Consistent(m),
           NEW e \in EthAddress \ {ZeroEth},
           NEW a \in ContractAddress \ {ZeroAccount},
           m.ethereum_to_starknet[e] = ZeroAccount,
           m.ethereum_count[a] < MaxCount
    PROVE  LET n == insert(m, e, a, m.ethereum_count[a] + 1)
           IN  n \in Members /\ Consistent(n)
<1> DEFINE last == m.ethereum_count[a]
           n == insert(m, e, a, last + 1)
<1>1. last \in Index /\ last \in Nat
  BY DEF Members, Index
<1>2. n \in Members
  BY <1>1 DEF Members, insert
<1>3. /\ \A x \in EthAddress :
            n.ethereum_to_starknet[x] =
              IF x = e THEN a ELSE m.ethereum_to_starknet[x]
      /\ \A x \in EthAddress :
            n.ethereum_index_plus_one[x] =
              IF x = e THEN last + 1 ELSE m.ethereum_index_plus_one[x]
      /\ \A b \in ContractAddress :
            n.ethereum_count[b] = IF b = a THEN last + 1 ELSE m.ethereum_count[b]
      /\ \A b \in ContractAddress, i \in Index :
            n.ethereum_addresses[<<b, i>>] =
              IF b = a /\ i = last THEN e ELSE m.ethereum_addresses[<<b, i>>]
  BY <1>1 DEF Members, insert
<1> HIDE DEF n
<1>4. Reached(n)
  BY <1>1, <1>2, <1>3 DEF Consistent, Reached, Members, Index
<1>5. Held(n)
  BY <1>1, <1>2, <1>3 DEF Consistent, Held, Clear, Members, Index
<1>6. Clear(n)
  BY <1>1, <1>2, <1>3 DEF Consistent, Clear, Members, Index
<1>7. NonZero(n)
  BY <1>1, <1>2, <1>3 DEF Consistent, NonZero, Members
<1> QED
  BY <1>2, <1>4, <1>5, <1>6, <1>7 DEF Consistent, n

\* The u64 subtractions of remove cannot fail on a linked address.
LEMMA LinkedCanBeRemoved ==
    ASSUME NEW m \in Members, Consistent(m), NEW e \in EthAddress,
           m.ethereum_to_starknet[e] # ZeroAccount
    PROVE  can_remove(m, e, m.ethereum_to_starknet[e])
<1> DEFINE a == m.ethereum_to_starknet[e]
<1>1. a \in ContractAddress
  BY DEF Members
<1>2. m.ethereum_count[a] \in Nat /\ m.ethereum_index_plus_one[e] \in Nat
  BY <1>1 DEF Members
<1>3. m.ethereum_index_plus_one[e] \in 1 .. m.ethereum_count[a]
  BY DEF Consistent, Reached
<1> HIDE DEF a
<1>4. m.ethereum_count[a] > 0 /\ m.ethereum_index_plus_one[e] > 0
  BY <1>2, <1>3
<1> QED
  BY <1>4 DEF can_remove, a

LEMMA RemoveKeepsMembers ==
    ASSUME NEW m \in Members, Consistent(m),
           NEW e \in EthAddress,
           NEW a \in ContractAddress \ {ZeroAccount},
           m.ethereum_to_starknet[e] = a
    PROVE  LET n == remove(m, e, a)
           IN  /\ n \in Members /\ Consistent(n)
               /\ n.ethereum_to_starknet[e] = ZeroAccount
               /\ \A b \in ContractAddress \ {a} :
                     n.ethereum_count[b] = m.ethereum_count[b]
<1> DEFINE last == m.ethereum_count[a] - 1
           index == m.ethereum_index_plus_one[e] - 1
           moved == m.ethereum_addresses[<<a, last>>]
           n == remove(m, e, a)
<1>1. /\ last \in Index /\ index \in Index /\ index <= last
      /\ last + 1 = m.ethereum_count[a]
      /\ m.ethereum_addresses[<<a, index>>] = e
  BY DEF Members, Index, Consistent, Reached
<1>2. /\ moved \in EthAddress /\ moved # ZeroEth
      /\ m.ethereum_to_starknet[moved] = a
      /\ m.ethereum_index_plus_one[moved] = last + 1
      /\ moved = e <=> index = last
  <2>1. last < m.ethereum_count[a] /\ m.ethereum_index_plus_one[e] = index + 1
    BY <1>1 DEF Members, Index
  <2>2. moved \in EthAddress
    BY <1>1 DEF Members
  <2> HIDE DEF last, index
  <2>3. /\ moved # ZeroEth /\ m.ethereum_to_starknet[moved] = a
        /\ m.ethereum_index_plus_one[moved] = last + 1
    BY <1>1, <2>1 DEF Consistent, Held
  <2>4. moved = e <=> index = last
    BY <1>1, <2>1, <2>3 DEF Index
  <2> QED
    BY <2>2, <2>3, <2>4
<1>f. /\ m.ethereum_to_starknet \in [EthAddress -> ContractAddress]
      /\ m.ethereum_addresses \in [ContractAddress \X Index -> EthAddress]
      /\ m.ethereum_count \in [ContractAddress -> 0 .. MaxCount]
      /\ m.ethereum_index_plus_one \in [EthAddress -> 0 .. MaxCount]
      /\ last \in 0 .. MaxCount /\ index + 1 \in 0 .. MaxCount
      /\ m.ethereum_index_plus_one[e] = index + 1
  BY <1>1 DEF Members, Index
<1>n. n = [ethereum_addresses |-> [filled_addresses(m, e, a) EXCEPT ![<<a, last>>] = ZeroEth],
           ethereum_index_plus_one |-> [repaired_indices(m, e, a) EXCEPT ![e] = 0],
           ethereum_count |-> [m.ethereum_count EXCEPT ![a] = last],
           ethereum_to_starknet |-> [m.ethereum_to_starknet EXCEPT ![e] = ZeroAccount]]
  BY DEF remove
<1>a. filled_addresses(m, e, a) =
         IF index # last THEN [m.ethereum_addresses EXCEPT ![<<a, index>>] = moved]
         ELSE m.ethereum_addresses
  BY DEF filled_addresses
<1>i. repaired_indices(m, e, a) =
         IF index # last THEN [m.ethereum_index_plus_one EXCEPT ![moved] = index + 1]
         ELSE m.ethereum_index_plus_one
  BY DEF repaired_indices
<1> HIDE DEF n, index, last, moved
<1>3. n \in Members
  <2>1. n.ethereum_addresses \in [ContractAddress \X Index -> EthAddress]
    BY <1>1, <1>2, <1>f, <1>n, <1>a
  <2>2. n.ethereum_index_plus_one \in [EthAddress -> 0 .. MaxCount]
    BY <1>1, <1>2, <1>f, <1>n, <1>i
  <2>3. /\ n.ethereum_count \in [ContractAddress -> 0 .. MaxCount]
        /\ n.ethereum_to_starknet \in [EthAddress -> ContractAddress]
    BY <1>f, <1>n
  <2> QED
    BY <1>n, <2>1, <2>2, <2>3 DEF Members
<1>4. /\ \A x \in EthAddress :
            n.ethereum_to_starknet[x] =
              IF x = e THEN ZeroAccount ELSE m.ethereum_to_starknet[x]
      /\ \A x \in EthAddress :
            n.ethereum_index_plus_one[x] =
              IF x = e THEN 0
              ELSE IF x = moved THEN index + 1
              ELSE m.ethereum_index_plus_one[x]
      /\ \A b \in ContractAddress :
            n.ethereum_count[b] = IF b = a THEN last ELSE m.ethereum_count[b]
      /\ \A b \in ContractAddress, i \in Index :
            n.ethereum_addresses[<<b, i>>] =
              IF b = a /\ i = last THEN ZeroEth
              ELSE IF b = a /\ i = index THEN moved
              ELSE m.ethereum_addresses[<<b, i>>]
  <2>1. \A x \in EthAddress :
            n.ethereum_index_plus_one[x] =
              IF x = e THEN 0
              ELSE IF x = moved THEN index + 1
              ELSE m.ethereum_index_plus_one[x]
    BY <1>2, <1>f, <1>n, <1>i
  <2>2. \A b \in ContractAddress, i \in Index :
            n.ethereum_addresses[<<b, i>>] =
              IF b = a /\ i = last THEN ZeroEth
              ELSE IF b = a /\ i = index THEN moved
              ELSE m.ethereum_addresses[<<b, i>>]
    BY <1>1, <1>f, <1>n, <1>a
  <2> QED
    BY <1>f, <1>n, <2>1, <2>2
<1> USE DEF index, last, moved
<1>5. Reached(n)
  <2> SUFFICES ASSUME NEW x \in EthAddress,
                      n.ethereum_to_starknet[x] # ZeroAccount
               PROVE  LET b == n.ethereum_to_starknet[x]
                          i == n.ethereum_index_plus_one[x]
                      IN  /\ i \in 1 .. n.ethereum_count[b]
                          /\ n.ethereum_addresses[<<b, i - 1>>] = x
    BY DEF Reached
  <2> DEFINE b == m.ethereum_to_starknet[x]
             i == m.ethereum_index_plus_one[x]
  <2>1. /\ x # e /\ n.ethereum_to_starknet[x] = b
        /\ b \in ContractAddress /\ b # ZeroAccount
    BY <1>4 DEF Members
  <2>2. /\ i \in 1 .. m.ethereum_count[b]
        /\ m.ethereum_addresses[<<b, i - 1>>] = x
        /\ m.ethereum_count[b] \in 0 .. MaxCount
    BY <2>1 DEF Consistent, Reached, Members
  <2>3. i \in Nat /\ i - 1 \in Index /\ i - 1 < m.ethereum_count[b]
    BY <2>2 DEF Index
  <2>4. CASE x = moved
    <3>1. /\ b = a /\ index # last
          /\ n.ethereum_index_plus_one[x] = index + 1
      BY <1>2, <2>1, <2>4, <1>4
    <3>2. /\ index + 1 \in 1 .. last
          /\ n.ethereum_addresses[<<a, index>>] = x
      BY <1>1, <1>4, <2>1, <2>4, <3>1 DEF Index
    <3> QED
      BY <1>1, <1>4, <2>1, <3>1, <3>2 DEF Index
  <2>5. CASE x # moved
    <3>1. n.ethereum_index_plus_one[x] = i
      BY <1>4, <2>1, <2>5
    <3>2. b = a => i - 1 # last /\ i - 1 # index /\ i <= last
      BY <1>1, <1>2, <2>1, <2>2, <2>3, <2>5 DEF Index
    <3>3. /\ i \in 1 .. n.ethereum_count[b]
          /\ n.ethereum_addresses[<<b, i - 1>>] = x
      BY <1>1, <1>4, <2>1, <2>2, <2>3, <3>2
    <3> QED
      BY <2>1, <3>1, <3>3
  <2> QED
    BY <2>4, <2>5
<1>6. Held(n)
  <2> SUFFICES ASSUME NEW b \in ContractAddress, NEW i \in Index,
                      i < n.ethereum_count[b]
               PROVE  LET x == n.ethereum_addresses[<<b, i>>]
                      IN  /\ x # ZeroEth
                          /\ n.ethereum_to_starknet[x] = b
                          /\ n.ethereum_index_plus_one[x] = i + 1
    BY DEF Held
  <2> DEFINE x == m.ethereum_addresses[<<b, i>>]
  <2>1. /\ i < m.ethereum_count[b]
        /\ b = a => i # last
    BY <1>1, <1>4 DEF Members, Index
  <2>2. /\ x \in EthAddress /\ x # ZeroEth
        /\ m.ethereum_to_starknet[x] = b
        /\ m.ethereum_index_plus_one[x] = i + 1
    BY <2>1 DEF Consistent, Held, Members
  <2>3. CASE b = a /\ i = index
    BY <1>1, <1>2, <1>4, <2>1, <2>3
  <2>4. CASE ~(b = a /\ i = index)
    <3>1. n.ethereum_addresses[<<b, i>>] = x
      BY <1>4, <2>1, <2>4
    <3>2. x # e /\ x # moved
      BY <1>1, <1>2, <2>1, <2>2, <2>4 DEF Index
    <3> QED
      BY <1>4, <2>2, <3>1, <3>2
  <2> QED
    BY <2>3, <2>4
<1>7. Clear(n)
  <2>1. ASSUME NEW b \in ContractAddress, NEW i \in Index,
               i >= n.ethereum_count[b]
        PROVE  n.ethereum_addresses[<<b, i>>] = ZeroEth
    <3>1. CASE b = a /\ i = last
      BY <1>4, <3>1
    <3>2. CASE ~(b = a /\ i = last)
      <4>1. i >= m.ethereum_count[b] /\ ~(b = a /\ i = index)
        <5>1. i \in Int /\ last \in Int /\ index \in Int
          BY <1>1 DEF Index
        <5>2. CASE b # a
          BY <1>4, <2>1, <5>2
        <5>3. CASE b = a
          <6>1. i >= last /\ i # last
            BY <1>4, <2>1, <3>2, <5>3
          <6> HIDE DEF last, index
          <6> QED
            BY <1>1, <5>1, <5>3, <6>1
        <5> QED
          BY <5>2, <5>3
      <4> QED
        BY <1>4, <3>2, <4>1 DEF Consistent, Clear
    <3> QED
      BY <3>1, <3>2
  <2>2. ASSUME NEW x \in EthAddress, n.ethereum_to_starknet[x] = ZeroAccount
        PROVE  n.ethereum_index_plus_one[x] = 0
    BY <1>2, <1>4, <2>2 DEF Consistent, Clear
  <2> QED
    BY <2>1, <2>2 DEF Clear
<1>8. NonZero(n)
  BY <1>1, <1>2, <1>3, <1>4 DEF Consistent, NonZero, Members
<1> HIDE DEF last, index, moved
<1> QED
  BY <1>3, <1>4, <1>5, <1>6, <1>7, <1>8 DEF Consistent, n

-----------------------------------------------------------------------------
(* The invariant holds initially and every operation preserves it.         *)

LEMMA RequestFields ==
    ASSUME NEW r \in Requests
    PROVE  /\ r.ethereum_address \in EthAddress
           /\ r.ethereum_nonce \in Nonce
           /\ r.kind \in {"link", "move", "revoke"}
           /\ r.kind \in {"link", "move"} =>
                /\ r.account_address \in ContractAddress
                /\ r.recipient_nonce \in Nonce
           /\ r.kind = "move" =>
                r.previous_account_address \in ContractAddress
  BY RequestAssumption DEF Request, LinkRequest, MoveRequest, RevokeRequest

LEMMA IInvConsistent == IInv <=> TypeOK /\ Consistent(members)
  BY DEF IInv, ListsMirrorLinks, ForwardReachesList, ListReachesForward,
         RemovalLeavesNothing, ZeroIsNeverLinked, Consistent, Reached, Held,
         Clear, NonZero, current, count, index_plus_one, slot

LEMMA IInvConsistentPrime ==
    (TypeOK' /\ Consistent(members')) => IInv'
  BY DEF IInv, ListsMirrorLinks, ForwardReachesList, ListReachesForward,
         RemovalLeavesNothing, ZeroIsNeverLinked, Consistent, Reached, Held,
         Clear, NonZero, current, count, index_plus_one, slot

LEMMA NextNonce ==
    ASSUME NEW n \in Nonce, has_next_nonce(n)
    PROVE  next_nonce(n) \in Nonce
  BY DEF Nonce, has_next_nonce, next_nonce

LEMMA EventTypes ==
    ASSUME NEW e \in EthAddress, NEW n \in Nonce
    PROVE  /\ EthereumNonceAdvanced(e, n) \in Event
           /\ \A a \in ContractAddress : RecipientNonceAdvanced(e, a, n) \in Event
           /\ \A a, b \in ContractAddress, k \in 1 .. 4 :
                AssociationChanged(e, a, b, k) \in Event
  BY DEF EthereumNonceAdvanced, RecipientNonceAdvanced, AssociationChanged, Event

LEMMA InitIInv == Init => IInv
<1> SUFFICES ASSUME Init PROVE IInv
  OBVIOUS
<1>1. members \in Members
  BY DEF Init, Members
<1>2. TypeOK
  <2>1. events \in Seq(Event)
    BY DEF Init
  <2> QED
    BY <1>1, <2>1, RequestAssumption DEF Init, TypeOK, Nonce, Time
<1>3. Consistent(members)
  BY DEF Init, Consistent, Reached, Held, Clear, NonZero, Index
<1> QED
  BY <1>2, <1>3, IInvConsistent

LEMMA LinkIInv ==
    ASSUME IInv, NEW who \in ContractAddress, NEW r \in Requests,
           link(who, r)
    PROVE  IInv'
<1> DEFINE e == r.ethereum_address
           a == r.account_address
           nonce == next_nonce(r.ethereum_nonce)
           recipient == next_nonce(r.recipient_nonce)
<1>1. /\ r.kind = "link" /\ check_signed(r) /\ check_recipient(who, r)
      /\ current(e) = ZeroAccount /\ has_next_count(count(a))
      /\ has_next_nonce(r.ethereum_nonce) /\ has_next_nonce(r.recipient_nonce)
  BY DEF link, link_checks
<1>2. /\ e \in EthAddress \ {ZeroEth} /\ a \in ContractAddress \ {ZeroAccount}
      /\ nonce \in Nonce /\ recipient \in Nonce
  BY <1>1, RequestFields, NextNonce DEF check_signed, check_recipient
<1>3. TypeOK /\ Consistent(members)
  BY IInvConsistent
<1>4. /\ members.ethereum_to_starknet[e] = ZeroAccount
      /\ members.ethereum_count[a] < MaxCount
  BY <1>1 DEF current, has_next_count, count
<1>5. members' = insert(members, e, a, members.ethereum_count[a] + 1)
  BY DEF link, count, next_count
<1>6. members' \in Members /\ Consistent(members')
  BY <1>2, <1>3, <1>4, <1>5, InsertKeepsMembers DEF TypeOK
<1>7. /\ ethereum_nonce' = [ethereum_nonce EXCEPT ![e] = nonce]
      /\ recipient_nonce' = [recipient_nonce EXCEPT ![<<a, e>>] = recipient]
  BY DEF link, advance_ethereum, advance_recipient
<1>8. events' \in Seq(Event)
  <2>1. events' = <<AssociationChanged(e, ZeroAccount, a, 1),
                    EthereumNonceAdvanced(e, nonce),
                    RecipientNonceAdvanced(e, a, recipient)>>
    BY DEF link
  <2> QED
    BY <1>2, <2>1, EventTypes
<1>9. TypeOK'
  BY <1>2, <1>3, <1>6, <1>7, <1>8 DEF TypeOK, link
<1> QED
  BY <1>6, <1>9, IInvConsistentPrime

LEMMA MoveIInv ==
    ASSUME IInv, NEW who \in ContractAddress, NEW r \in Requests,
           move(who, r)
    PROVE  IInv'
<1> DEFINE e == r.ethereum_address
           a == r.account_address
           previous == r.previous_account_address
           nonce == next_nonce(r.ethereum_nonce)
           old_recipient == next_nonce(recipient_nonce[<<previous, e>>])
           recipient == next_nonce(r.recipient_nonce)
           removed == remove(members, e, previous)
<1>1. /\ r.kind = "move" /\ check_signed(r) /\ check_recipient(who, r)
      /\ previous # ZeroAccount /\ current(e) = previous /\ previous # a
      /\ has_next_nonce(r.ethereum_nonce) /\ has_next_nonce(r.recipient_nonce)
      /\ has_next_nonce(recipient_nonce[<<previous, e>>])
      /\ has_next_count(count(a))
  BY DEF move, move_checks
<1>2. TypeOK /\ Consistent(members)
  BY IInvConsistent
<1>3. /\ e \in EthAddress \ {ZeroEth} /\ a \in ContractAddress \ {ZeroAccount}
      /\ previous \in ContractAddress \ {ZeroAccount}
  BY <1>1, RequestFields DEF check_signed, check_recipient
<1>4. nonce \in Nonce /\ recipient \in Nonce /\ old_recipient \in Nonce
  <2>1. recipient_nonce[<<previous, e>>] \in Nonce
    BY <1>2, <1>3 DEF TypeOK
  <2> QED
    BY <1>1, <2>1, RequestFields, NextNonce
<1>5. /\ removed \in Members /\ Consistent(removed)
      /\ removed.ethereum_to_starknet[e] = ZeroAccount
      /\ removed.ethereum_count[a] = members.ethereum_count[a]
  BY <1>1, <1>2, <1>3, RemoveKeepsMembers DEF TypeOK, current
<1>6. removed.ethereum_count[a] < MaxCount
  BY <1>1, <1>5 DEF has_next_count, count
<1>7. members' = insert(removed, e, a, removed.ethereum_count[a] + 1)
  BY <1>5 DEF move, count, next_count
<1>8. members' \in Members /\ Consistent(members')
  <2> HIDE DEF removed, e, a
  <2> QED
    BY <1>3, <1>5, <1>6, <1>7, InsertKeepsMembers
<1>9. /\ ethereum_nonce' = [ethereum_nonce EXCEPT ![e] = nonce]
      /\ recipient_nonce' =
            [[recipient_nonce EXCEPT ![<<previous, e>>] = old_recipient]
                EXCEPT ![<<a, e>>] = recipient]
  BY DEF move, advance_ethereum, advance_recipient
<1>10. events' \in Seq(Event)
  <2>1. events' = <<AssociationChanged(e, previous, a, 2),
                    EthereumNonceAdvanced(e, nonce),
                    RecipientNonceAdvanced(e, previous, old_recipient),
                    RecipientNonceAdvanced(e, a, recipient)>>
    BY DEF move
  <2> QED
    BY <1>3, <1>4, <2>1, EventTypes
<1>11. TypeOK'
  <2> HIDE DEF e, a, previous, nonce, recipient, old_recipient
  <2>1. recipient_nonce' \in [ContractAddress \X EthAddress -> Nonce]
    BY <1>2, <1>3, <1>4, <1>9 DEF TypeOK
  <2>2. ethereum_nonce' \in [EthAddress -> Nonce]
    BY <1>2, <1>3, <1>4, <1>9 DEF TypeOK
  <2>3. signed' \subseteq Signable /\ block_timestamp' \in Time
    BY <1>2 DEF TypeOK, move
  <2> QED
    BY <1>8, <1>10, <2>1, <2>2, <2>3 DEF TypeOK
<1> QED
  BY <1>8, <1>11, IInvConsistentPrime

\* Unlink and the revoke of a linked address.
LEMMA DropIInv ==
    ASSUME IInv, NEW e \in EthAddress, NEW operation \in {3, 4},
           current(e) # ZeroAccount, has_next_nonce(ethereum_nonce[e]),
           drop(e, current(e), operation),
           UNCHANGED <<signed, block_timestamp>>
    PROVE  IInv'
<1> DEFINE a == current(e)
           nonce == next_nonce(ethereum_nonce[e])
           recipient == next_nonce(recipient_nonce[<<a, e>>])
<1>1. TypeOK /\ Consistent(members)
  BY IInvConsistent
<1>2. a \in ContractAddress \ {ZeroAccount}
  BY <1>1 DEF TypeOK, Members, current
<1>3. nonce \in Nonce /\ recipient \in Nonce
  <2>1. ethereum_nonce[e] \in Nonce /\ recipient_nonce[<<a, e>>] \in Nonce
    BY <1>1, <1>2 DEF TypeOK
  <2>2. has_next_nonce(recipient_nonce[<<a, e>>])
    BY DEF drop
  <2> QED
    BY <2>1, <2>2, NextNonce
<1>4. members' \in Members /\ Consistent(members')
  <2>1. members' = remove(members, e, a)
    BY DEF drop
  <2>2. members.ethereum_to_starknet[e] = a
    BY DEF current
  <2> QED
    BY <1>1, <1>2, <2>1, <2>2, RemoveKeepsMembers DEF TypeOK
<1>5. /\ ethereum_nonce' = [ethereum_nonce EXCEPT ![e] = nonce]
      /\ recipient_nonce' = [recipient_nonce EXCEPT ![<<a, e>>] = recipient]
  BY DEF drop, advance_ethereum, advance_recipient
<1>6. events' \in Seq(Event)
  <2>1. events' = <<AssociationChanged(e, a, ZeroAccount, operation),
                    EthereumNonceAdvanced(e, nonce),
                    RecipientNonceAdvanced(e, a, recipient)>>
    BY DEF drop
  <2> QED
    BY <1>2, <1>3, <2>1, EventTypes
<1>7. TypeOK'
  <2> HIDE DEF a, nonce, recipient
  <2> QED
    BY <1>1, <1>2, <1>3, <1>4, <1>5, <1>6 DEF TypeOK
<1> QED
  BY <1>4, <1>7, IInvConsistentPrime

LEMMA NextIInv == IInv /\ [Next]_vars => IInv'
<1> SUFFICES ASSUME IInv, [Next]_vars PROVE IInv'
  OBVIOUS
<1>t. TypeOK /\ Consistent(members)
  BY IInvConsistent
<1>1. ASSUME NEW who \in ContractAddress, NEW r \in Requests, link(who, r)
      PROVE  IInv'
  BY <1>1, LinkIInv
<1>2. ASSUME NEW who \in ContractAddress, NEW r \in Requests, move(who, r)
      PROVE  IInv'
  BY <1>2, MoveIInv
<1>3. ASSUME NEW r \in Requests, revoke_unlinked(r) PROVE IInv'
  <2> DEFINE e == r.ethereum_address
             nonce == next_nonce(r.ethereum_nonce)
  <2>1. e \in EthAddress /\ nonce \in Nonce
    BY <1>3, RequestFields, NextNonce DEF revoke_unlinked, revoke_checks
  <2>2. ethereum_nonce' = [ethereum_nonce EXCEPT ![e] = nonce]
    BY <1>3 DEF revoke_unlinked, advance_ethereum
  <2>3. events' \in Seq(Event)
    <3>1. events' = <<EthereumNonceAdvanced(e, nonce)>>
      BY <1>3 DEF revoke_unlinked
    <3> QED
      BY <2>1, <3>1, EventTypes
  <2>4. UNCHANGED <<members, recipient_nonce, signed, block_timestamp>>
    BY <1>3 DEF revoke_unlinked
  <2> HIDE DEF e, nonce
  <2>5. TypeOK'
    BY <1>t, <2>1, <2>2, <2>3, <2>4 DEF TypeOK
  <2> QED
    BY <1>t, <2>4, <2>5, IInvConsistentPrime
<1>4. ASSUME NEW r \in Requests, revoke_linked(r) PROVE IInv'
  <2> DEFINE e == r.ethereum_address
  <2>1. e \in EthAddress /\ current(e) # ZeroAccount
    BY <1>4, RequestFields DEF revoke_linked
  <2>2. has_next_nonce(ethereum_nonce[e])
    BY <1>4 DEF revoke_linked, revoke_checks, check_signed
  <2>3. drop(e, current(e), 4) /\ UNCHANGED <<signed, block_timestamp>>
    BY <1>4 DEF revoke_linked
  <2> HIDE DEF e
  <2> QED
    BY <2>1, <2>2, <2>3, DropIInv
<1>5. ASSUME NEW who \in ContractAddress, NEW e \in EthAddress,
             unlink(who, e)
      PROVE  IInv'
  BY <1>5, DropIInv DEF unlink, unlink_checks
<1>6. ASSUME NEW who \in ContractAddress, NEW e \in EthAddress,
             invalidate_pending_incoming(who, e)
      PROVE  IInv'
  <2> DEFINE recipient == next_nonce(recipient_nonce[<<who, e>>])
  <2>1. recipient \in Nonce
    <3>1. recipient_nonce[<<who, e>>] \in Nonce
      BY <1>t DEF TypeOK
    <3> QED
      BY <1>6, <3>1, NextNonce DEF invalidate_pending_incoming
  <2>2. recipient_nonce' = [recipient_nonce EXCEPT ![<<who, e>>] = recipient]
    BY <1>6 DEF invalidate_pending_incoming, advance_recipient
  <2>3. events' \in Seq(Event)
    <3>1. events' = <<RecipientNonceAdvanced(e, who, recipient)>>
      BY <1>6 DEF invalidate_pending_incoming
    <3> QED
      BY <2>1, <3>1, EventTypes
  <2>4. UNCHANGED <<members, ethereum_nonce, signed, block_timestamp>>
    BY <1>6 DEF invalidate_pending_incoming
  <2> HIDE DEF recipient
  <2>5. TypeOK'
    BY <1>t, <2>1, <2>2, <2>3, <2>4 DEF TypeOK
  <2> QED
    BY <1>t, <2>4, <2>5, IInvConsistentPrime
<1>7. ASSUME NEW r \in Signable, Sign(r) PROVE IInv'
  <2>1. TypeOK'
    BY <1>t, <1>7 DEF TypeOK, Sign
  <2> QED
    BY <1>t, <1>7, <2>1, IInvConsistentPrime DEF Sign
<1>8. CASE Tick
  <2>1. TypeOK'
    BY <1>t, <1>8 DEF TypeOK, Tick, Time
  <2> QED
    BY <1>t, <1>8, <2>1, IInvConsistentPrime DEF Tick
<1>9. CASE UNCHANGED vars
  <2>1. TypeOK'
    BY <1>t, <1>9 DEF TypeOK, vars
  <2> QED
    BY <1>t, <1>9, <2>1, IInvConsistentPrime DEF vars
<1> QED
  BY <1>1, <1>2, <1>3, <1>4, <1>5, <1>6, <1>7, <1>8, <1>9 DEF Next

\* Every reachable state is well typed and its lists describe its links.
THEOREM RegistryInvariant == Spec => []IInv
  BY InitIInv, NextIInv, PTL DEF Spec

\* No call makes a nonce, a count or an index leave its width, or stores
\* anything but an address where an address belongs.
THEOREM RegistryTypeOK == Spec => []TypeOK
  BY RegistryInvariant, PTL DEF IInv

\* Links, lists and indices stay one relation: a linked address is found in its
\* account's list, a list holds each of its addresses once, removals leave
\* nothing behind, and zero is never linked.
THEOREM RegistryListsMirrorLinks == Spec => []ListsMirrorLinks
<1>1. IInv => ListsMirrorLinks
  BY DEF IInv
<1> QED
  BY <1>1, RegistryInvariant, PTL

\* unlink by the account that e is linked to passes all its checks, the ones
\* inside remove included.
UnlinkPasses(e) ==
    /\ unlink_checks(current(e), e)
    /\ has_next_nonce(recipient_nonce[<<current(e), e>>])
    /\ can_remove(members, e, current(e))

OwnersPass ==
    \A e \in EthAddress :
        (/\ current(e) # ZeroAccount
         /\ ethereum_nonce[e] < MaxNonce
         /\ recipient_nonce[<<current(e), e>>] < MaxNonce)
            => UnlinkPasses(e)

\* As long as its two nonces can still advance, no list and no index that
\* calls can leave behind makes unlink by the linked account panic.
THEOREM RegistryOwnersPass == Spec => []OwnersPass
<1>1. ASSUME IInv PROVE OwnersPass
  <2> SUFFICES ASSUME NEW e \in EthAddress, current(e) # ZeroAccount,
                      ethereum_nonce[e] < MaxNonce,
                      recipient_nonce[<<current(e), e>>] < MaxNonce
               PROVE  UnlinkPasses(e)
    BY DEF OwnersPass
  <2>1. members \in Members /\ Consistent(members)
    BY <1>1, IInvConsistent DEF IInv, TypeOK
  <2>2. can_remove(members, e, current(e))
    BY <2>1, LinkedCanBeRemoved DEF current
  <2>3. e # ZeroEth
    BY <2>1 DEF Consistent, NonZero, current
  <2> QED
    BY <2>2, <2>3 DEF UnlinkPasses, unlink_checks, has_next_nonce
<1> QED
  BY <1>1, RegistryInvariant, PTL

\* The count of an account is the number of addresses linked to it: what
\* get_ethereum_address_count answers is what the forward map says, so that
\* the limit on a list is a limit on the links of its account.
CountIsMembership ==
    \A a \in ContractAddress \ {ZeroAccount} :
        /\ IsFiniteSet({e \in EthAddress : current(e) = a})
        /\ Cardinality({e \in EthAddress : current(e) = a}) = count(a)

THEOREM RegistryCountIsMembership == Spec => []CountIsMembership
<1>1. ASSUME IInv, NEW a \in ContractAddress \ {ZeroAccount}
      PROVE  /\ IsFiniteSet({e \in EthAddress : current(e) = a})
             /\ Cardinality({e \in EthAddress : current(e) = a}) = count(a)
  <2> DEFINE linked == {e \in EthAddress : current(e) = a}
             n == count(a)
             entry == [i \in 1 .. n |-> slot(a, i - 1)]
  <2>1. n \in Nat /\ n <= MaxCount
    BY <1>1 DEF IInv, TypeOK, Members, count
  <2>2. ASSUME NEW i \in 1 .. n
        PROVE  entry[i] \in linked /\ index_plus_one(entry[i]) = i
    <3>1. i - 1 \in Index /\ i - 1 < count(a)
      BY <2>1 DEF Index
    <3>2. slot(a, i - 1) \in EthAddress
      BY <1>1, <3>1 DEF IInv, TypeOK, Members, slot
    <3> QED
      BY <1>1, <3>1, <3>2 DEF IInv, ListsMirrorLinks, ListReachesForward
  <2>3. ASSUME NEW e \in linked
        PROVE  \E i \in 1 .. n : entry[i] = e
    <3>1. index_plus_one(e) \in 1 .. n /\ slot(a, index_plus_one(e) - 1) = e
      BY <1>1 DEF IInv, ListsMirrorLinks, ForwardReachesList
    <3> QED
      BY <3>1
  <2> HIDE DEF linked, n
  <2>4. entry \in [1 .. n -> linked]
    BY <2>2
  <2> HIDE DEF entry
  <2>5. entry \in Bijection(1 .. n, linked)
    BY <2>2, <2>3, <2>4 DEF Bijection, Injection, Surjection, IsInjective
  <2>6. IsFiniteSet(1 .. n) /\ Cardinality(1 .. n) = n
    BY <2>1, FS_Interval
  <2>7. IsFiniteSet(linked) /\ Cardinality(linked) = Cardinality(1 .. n)
    BY <2>5, <2>6, FS_Bijection DEF ExistsBijection
  <2> QED
    BY <2>6, <2>7 DEF linked, n
<1>2. IInv => CountIsMembership
  BY <1>1 DEF CountIsMembership
<1> QED
  BY <1>2, RegistryInvariant, PTL

-----------------------------------------------------------------------------
(* Pages.                                                                  *)

\* A place is on one page of a given size.
LEMMA OnePage ==
    ASSUME NEW limit \in Nat \ {0}, NEW i \in Nat
    PROVE  /\ i \div limit \in 0 .. i /\ i % limit \in 0 .. limit - 1
           /\ i = (i \div limit) * limit + (i % limit)
           /\ \A k \in Nat : \A j \in 1 .. limit :
                 k * limit + j - 1 = i => k = i \div limit /\ j = (i % limit) + 1
<1>1. /\ i % limit \in 0 .. limit - 1 /\ i \div limit \in Nat
      /\ i = (i \div limit) * limit + (i % limit)
  OBVIOUS
<1>2. i \div limit <= i
  BY <1>1
<1>3. ASSUME NEW k \in Nat, NEW j \in 1 .. limit, k * limit + j - 1 = i
      PROVE  k = i \div limit /\ j = (i % limit) + 1
  <2> DEFINE d == i \div limit
             r == i % limit
  <2>1. d \in Nat /\ r \in 0 .. limit - 1 /\ k * limit + (j - 1) = d * limit + r
    BY <1>1, <1>3
  <2> HIDE DEF d, r
  <2>2. ASSUME k < d PROVE FALSE
    <3>1. (k + 1) * limit <= d * limit
      BY <2>1, <2>2
    <3>2. (k + 1) * limit = k * limit + limit
      OBVIOUS
    <3> QED
      BY <2>1, <3>1, <3>2
  <2>3. ASSUME d < k PROVE FALSE
    <3>1. (d + 1) * limit <= k * limit
      BY <2>1, <2>3
    <3>2. (d + 1) * limit = d * limit + limit
      BY <2>1
    <3> QED
      BY <2>1, <3>1, <3>2
  <2>4. k = d
    BY <2>1, <2>2, <2>3
  <2>5. j = r + 1
    BY <2>1, <2>4
  <2> QED
    BY <2>4, <2>5 DEF d, r
<1> QED
  BY <1>1, <1>2, <1>3

\* Read at any page size, a list shows each of its addresses on one page, in one
\* place, and nothing else.
THEOREM RegistryPagesPartitionMembership == Spec => []PagesPartitionMembership
<1>1. IInv => PagesPartitionMembership
  <2> SUFFICES ASSUME IInv, NEW a \in ContractAddress, NEW limit \in 1 .. MaxCount + 1,
                      NEW e \in EthAddress
               PROVE  LET page(k) == get_ethereum_addresses(a, k * limit, limit)
                          places == {p \in (0 .. MaxCount) \X (1 .. limit) :
                                        p[2] \in DOMAIN page(p[1]) /\ page(p[1])[p[2]] = e}
                      IN  Cardinality(places) = IF is_associated(e, a) THEN 1 ELSE 0
    BY DEF PagesPartitionMembership
  <2> DEFINE page(k) == get_ethereum_addresses(a, k * limit, limit)
             places == {p \in (0 .. MaxCount) \X (1 .. limit) :
                           p[2] \in DOMAIN page(p[1]) /\ page(p[1])[p[2]] = e}
             place(k, j) == k * limit + j - 1
  <2>1. limit \in Nat \ {0} /\ count(a) \in 0 .. MaxCount
    BY DEF IInv, TypeOK, Members, count
  <2>2. ASSUME NEW k \in Nat, NEW j \in 1 .. limit
        PROVE  j \in DOMAIN page(k) /\ page(k)[j] = e
                  <=> place(k, j) < count(a) /\ slot(a, place(k, j)) = e
    <3>1. k * limit \in Nat
      BY <2>1
    <3>2. j \in 1 .. page_length(count(a), k * limit, limit) <=> place(k, j) < count(a)
      BY <2>1, <3>1 DEF page_length
    <3>3. k * limit + j - 1 = place(k, j)
      OBVIOUS
    <3> QED
      BY <3>2, <3>3 DEF get_ethereum_addresses, slot
  <2>3. CASE is_associated(e, a)
    <3> DEFINE i == index_plus_one(e) - 1
    <3>1. i \in Nat /\ i < count(a) /\ slot(a, i) = e /\ i <= MaxCount
      BY <2>1, <2>3 DEF is_associated, IInv, ListsMirrorLinks, ForwardReachesList
    <3>2. \A x \in Nat : x < count(a) /\ slot(a, x) = e => x = i
      BY <2>1, <3>1 DEF IInv, ListsMirrorLinks, ListReachesForward, Index
    <3> HIDE DEF i
    <3>3. /\ i \div limit \in 0 .. MaxCount /\ (i % limit) + 1 \in 1 .. limit
          /\ place(i \div limit, (i % limit) + 1) = i
          /\ \A k \in Nat : \A j \in 1 .. limit :
                place(k, j) = i => k = i \div limit /\ j = (i % limit) + 1
      <4>1. /\ i \div limit \in 0 .. i /\ i % limit \in 0 .. limit - 1
            /\ i = (i \div limit) * limit + (i % limit)
            /\ \A k \in Nat : \A j \in 1 .. limit :
                  k * limit + j - 1 = i => k = i \div limit /\ j = (i % limit) + 1
        <5> HIDE DEF place
        <5> QED
          BY <2>1, <3>1, OnePage
      <4> DEFINE q == i \div limit
                 r == i % limit
      <4>2. q \in 0 .. i /\ r \in 0 .. limit - 1 /\ i = q * limit + r
        BY <4>1
      <4>3. i \in Nat /\ i <= MaxCount /\ MaxCount \in Nat
        BY <3>1, BoundAssumption
      <4> HIDE DEF q, r
      <4>4. q \in 0 .. MaxCount /\ r + 1 \in 1 .. limit
        BY <2>1, <4>2, <4>3
      <4>5. q * limit \in Nat
        BY <2>1, <4>2
      <4>6. place(q, r + 1) = i
        BY <2>1, <4>2, <4>5
      <4> QED
        BY <4>1, <4>4, <4>6 DEF q, r
    <3> HIDE DEF page, place
    <3> DEFINE d == i \div limit
               m == (i % limit) + 1
    <3>4. places = {<<d, m>>}
      <4>1. <<d, m>> \in places
        BY <2>2, <3>1, <3>3
      <4>2. ASSUME NEW p \in places PROVE p = <<d, m>>
        <5>1. p[1] \in Nat /\ p[2] \in 1 .. limit /\ p = <<p[1], p[2]>>
          OBVIOUS
        <5>2. place(p[1], p[2]) < count(a) /\ slot(a, place(p[1], p[2])) = e
          BY <2>2, <5>1
        <5>3. place(p[1], p[2]) \in Nat
          BY <2>1, <5>1 DEF place
        <5>4. place(p[1], p[2]) = i
          BY <3>2, <5>2, <5>3
        <5> QED
          BY <3>3, <5>1, <5>4
      <4> QED
        BY <4>1, <4>2
    <3>5. Cardinality(places) = 1
      BY <3>4, FS_Singleton
    <3> QED
      BY <2>3, <3>5 DEF page
  <2>4. CASE ~is_associated(e, a)
    <3>1. \A x \in Nat : x < count(a) => slot(a, x) # e
      BY <2>1, <2>4 DEF IInv, ListsMirrorLinks, ListReachesForward, ZeroIsNeverLinked, Index,
                        is_associated
    <3> HIDE DEF page
    <3>2. places = {}
      <4> SUFFICES ASSUME NEW p \in places PROVE FALSE
        OBVIOUS
      <4>1. p[1] \in Nat /\ p[2] \in 1 .. limit
        OBVIOUS
      <4>2. place(p[1], p[2]) < count(a) /\ slot(a, place(p[1], p[2])) = e
        BY <2>2, <4>1
      <4>3. place(p[1], p[2]) \in Nat
        BY <2>1, <4>1
      <4> QED
        BY <3>1, <4>2, <4>3
    <3> HIDE DEF places
    <3>3. Cardinality(places) = 0
      BY <3>2, FS_EmptySet
    <3> QED
      BY <2>4, <3>3 DEF places, page
  <2> QED
    BY <2>3, <2>4
<1> QED
  BY <1>1, RegistryInvariant, PTL
-----------------------------------------------------------------------------
(* Consent: what a step does to the nonces, seen from the requests that name *)
(* them.                                                                   *)

\* Pair nonces of address e may have grown, those of other addresses stayed.
Grown(old, new, e) ==
    \A b \in ContractAddress, x \in EthAddress :
        /\ new[<<b, x>>] >= old[<<b, x>>]
        /\ x # e => new[<<b, x>>] = old[<<b, x>>]

\* What every change of a link does, seen through the nonces: the address's
\* own nonce advances, pair nonces of other addresses stay.
Relinked(e, a) ==
    /\ members'.ethereum_to_starknet =
         [members.ethereum_to_starknet EXCEPT ![e] = a]
    /\ \A x \in EthAddress :
          ethereum_nonce'[x] =
            IF x = e THEN ethereum_nonce[x] + 1 ELSE ethereum_nonce[x]
    /\ Grown(recipient_nonce, recipient_nonce', e)
    /\ signed' = signed

\* What a pair cancellation does.
Cancelled(a, e) ==
    /\ UNCHANGED <<members, ethereum_nonce, signed>>
    /\ \A b \in ContractAddress, x \in EthAddress :
          recipient_nonce'[<<b, x>>] =
            IF b = a /\ x = e THEN recipient_nonce[<<b, x>>] + 1
            ELSE recipient_nonce[<<b, x>>]

\* A request that passed the checks names the nonces of the moment.
Live(r) ==
    /\ r \in signed
    /\ ~Stale(r) /\ ~NotYet(r)
    /\ block_timestamp <= r.deadline

-----------------------------------------------------------------------------
(* Each operation is one of the two.                                       *)

LEMMA NoncesAreNaturals ==
    ASSUME TypeOK
    PROVE  /\ \A e \in EthAddress : ethereum_nonce[e] \in Nat
           /\ \A a \in ContractAddress, e \in EthAddress :
                recipient_nonce[<<a, e>>] \in Nat
  BY BoundAssumption DEF TypeOK, Nonce

PairNonces == [ContractAddress \X EthAddress -> Nat]

LEMMA AdvanceGrows ==
    ASSUME NEW f \in PairNonces, NEW a \in ContractAddress,
           NEW e \in EthAddress
    PROVE  LET g == [f EXCEPT ![<<a, e>>] = f[<<a, e>>] + 1]
           IN  /\ g \in PairNonces
               /\ Grown(f, g, e)
               /\ \A b \in ContractAddress : b # a => g[<<b, e>>] = f[<<b, e>>]
<1> DEFINE g == [f EXCEPT ![<<a, e>>] = f[<<a, e>>] + 1]
<1>1. g \in PairNonces
  BY DEF PairNonces
<1>2. ASSUME NEW b \in ContractAddress, NEW x \in EthAddress
      PROVE  /\ f[<<b, x>>] \in Nat
             /\ g[<<b, x>>] =
                  IF b = a /\ x = e THEN f[<<b, x>>] + 1 ELSE f[<<b, x>>]
  BY DEF PairNonces
<1> HIDE DEF g
<1>3. ASSUME NEW b \in ContractAddress, NEW x \in EthAddress
      PROVE  g[<<b, x>>] >= f[<<b, x>>] /\ (x # e => g[<<b, x>>] = f[<<b, x>>])
  BY <1>2
<1> QED
  BY <1>1, <1>2, <1>3 DEF Grown, g

LEMMA GrownIsTransitive ==
    ASSUME NEW f \in PairNonces, NEW g \in PairNonces, NEW h \in PairNonces,
           NEW e, Grown(f, g, e), Grown(g, h, e)
    PROVE  Grown(f, h, e)
<1> SUFFICES ASSUME NEW b \in ContractAddress, NEW x \in EthAddress
             PROVE  h[<<b, x>>] >= f[<<b, x>>]
                      /\ (x # e => h[<<b, x>>] = f[<<b, x>>])
  BY DEF Grown
<1>1. f[<<b, x>>] \in Nat /\ g[<<b, x>>] \in Nat /\ h[<<b, x>>] \in Nat
  BY DEF PairNonces
<1> QED
  BY <1>1 DEF Grown

LEMMA RecipientNoncesArePairNonces == TypeOK => recipient_nonce \in PairNonces
  BY BoundAssumption DEF TypeOK, Nonce, PairNonces

LEMMA RequestNoncesAreNaturals ==
    ASSUME NEW r \in Requests
    PROVE  /\ r.ethereum_nonce \in Nat
           /\ r.kind # "revoke" => r.recipient_nonce \in Nat
  BY RequestFields, BoundAssumption DEF Nonce

LEMMA LinkRelinks ==
    ASSUME IInv, NEW who \in ContractAddress, NEW r \in Requests,
           link(who, r)
    PROVE  /\ Relinked(r.ethereum_address, r.account_address)
           /\ Live(r)
           /\ r.kind = "link"
           /\ who = r.account_address /\ who # ZeroAccount
           /\ current(r.ethereum_address) = ZeroAccount
<1> DEFINE e == r.ethereum_address
           a == r.account_address
<1>1. /\ r.kind = "link" /\ verify(r) /\ check_signed(r)
      /\ check_recipient(who, r) /\ current(e) = ZeroAccount
  BY DEF link, link_checks
<1>2. TypeOK /\ e \in EthAddress /\ a \in ContractAddress
  BY <1>1, RequestFields DEF IInv
<1>3. /\ ethereum_nonce[e] = r.ethereum_nonce
      /\ recipient_nonce[<<a, e>>] = r.recipient_nonce
      /\ ethereum_nonce[e] \in Nat /\ recipient_nonce[<<a, e>>] \in Nat
  BY <1>1, <1>2, NoncesAreNaturals DEF check_signed, check_recipient
<1>4. Live(r)
  BY <1>1, <1>3 DEF Live, Stale, NotYet, FutureNonce, pair_nonce, verify,
                    check_signed
<1>5. members'.ethereum_to_starknet =
        [members.ethereum_to_starknet EXCEPT ![e] = a]
  BY DEF link, insert
<1>6. \A x \in EthAddress :
        ethereum_nonce'[x] =
          IF x = e THEN ethereum_nonce[x] + 1 ELSE ethereum_nonce[x]
  BY <1>2, <1>3 DEF link, advance_ethereum, next_nonce, TypeOK
<1>7. recipient_nonce' =
        [recipient_nonce EXCEPT ![<<a, e>>] = recipient_nonce[<<a, e>>] + 1]
  BY <1>3 DEF link, advance_recipient, next_nonce
<1>8. Grown(recipient_nonce, recipient_nonce', e)
  BY <1>2, <1>7, RecipientNoncesArePairNonces, AdvanceGrows
<1>9. signed' = signed
  BY DEF link
<1> QED
  BY <1>1, <1>4, <1>5, <1>6, <1>8, <1>9 DEF Relinked, check_recipient

LEMMA MoveRelinks ==
    ASSUME IInv, NEW who \in ContractAddress, NEW r \in Requests,
           move(who, r)
    PROVE  /\ Relinked(r.ethereum_address, r.account_address)
           /\ Live(r)
           /\ r.kind = "move"
           /\ who = r.account_address /\ who # ZeroAccount
           /\ current(r.ethereum_address) = r.previous_account_address
           /\ r.previous_account_address \notin {ZeroAccount, who}
<1> DEFINE e == r.ethereum_address
           a == r.account_address
           previous == r.previous_account_address
<1>1. /\ r.kind = "move" /\ verify(r) /\ check_signed(r)
      /\ check_recipient(who, r) /\ current(e) = previous
      /\ previous # ZeroAccount /\ previous # a
  BY DEF move, move_checks
<1>2. /\ TypeOK /\ e \in EthAddress /\ a \in ContractAddress
      /\ previous \in ContractAddress
  BY <1>1, RequestFields DEF IInv
<1>3. /\ ethereum_nonce[e] = r.ethereum_nonce
      /\ recipient_nonce[<<a, e>>] = r.recipient_nonce
      /\ ethereum_nonce[e] \in Nat /\ recipient_nonce[<<a, e>>] \in Nat
  BY <1>1, <1>2, NoncesAreNaturals DEF check_signed, check_recipient
<1>4. Live(r)
  BY <1>1, <1>3 DEF Live, Stale, NotYet, FutureNonce, pair_nonce, verify,
                    check_signed
<1>5. members'.ethereum_to_starknet =
        [members.ethereum_to_starknet EXCEPT ![e] = a]
  <2>1. members'.ethereum_to_starknet =
          [[members.ethereum_to_starknet EXCEPT ![e] = ZeroAccount]
             EXCEPT ![e] = a]
    BY DEF move, insert, remove
  <2>2. members.ethereum_to_starknet \in [EthAddress -> ContractAddress]
    BY <1>2 DEF TypeOK, Members
  <2> QED
    BY <1>2, <2>1, <2>2
<1>6. \A x \in EthAddress :
        ethereum_nonce'[x] =
          IF x = e THEN ethereum_nonce[x] + 1 ELSE ethereum_nonce[x]
  BY <1>2, <1>3 DEF move, advance_ethereum, next_nonce, TypeOK
<1>7. recipient_nonce' =
        [[recipient_nonce EXCEPT
            ![<<previous, e>>] = recipient_nonce[<<previous, e>>] + 1]
            EXCEPT ![<<a, e>>] = recipient_nonce[<<a, e>>] + 1]
  BY <1>3 DEF move, advance_recipient, next_nonce
<1>8. Grown(recipient_nonce, recipient_nonce', e)
  <2> DEFINE half == [recipient_nonce EXCEPT
                        ![<<previous, e>>] = recipient_nonce[<<previous, e>>] + 1]
             full == [half EXCEPT ![<<a, e>>] = half[<<a, e>>] + 1]
  <2> HIDE DEF e, a, previous
  <2>1. recipient_nonce \in PairNonces
    BY <1>2, RecipientNoncesArePairNonces
  <2>2. /\ half \in PairNonces /\ Grown(recipient_nonce, half, e)
        /\ half[<<a, e>>] = recipient_nonce[<<a, e>>]
    BY <1>1, <1>2, <2>1, AdvanceGrows DEF a, previous
  <2>3. full \in PairNonces /\ Grown(half, full, e)
    <3> HIDE DEF half
    <3> QED
      BY <1>2, <2>2, AdvanceGrows
  <2>4. recipient_nonce' = full
    BY <1>7, <2>2
  <2> HIDE DEF half, full
  <2> QED
    BY <2>1, <2>2, <2>3, <2>4, GrownIsTransitive
<1>9. signed' = signed
  BY DEF move
<1> QED
  BY <1>1, <1>4, <1>5, <1>6, <1>8, <1>9 DEF Relinked, check_recipient

LEMMA DropRelinks ==
    ASSUME IInv, NEW e \in EthAddress, NEW operation,
           drop(e, current(e), operation), signed' = signed
    PROVE  Relinked(e, ZeroAccount)
<1> DEFINE a == current(e)
<1>1. TypeOK /\ a \in ContractAddress
  BY DEF IInv, TypeOK, Members, current
<1>2. members'.ethereum_to_starknet =
        [members.ethereum_to_starknet EXCEPT ![e] = ZeroAccount]
  BY DEF drop, remove
<1>3. \A x \in EthAddress :
        ethereum_nonce'[x] =
          IF x = e THEN ethereum_nonce[x] + 1 ELSE ethereum_nonce[x]
  BY <1>1 DEF drop, advance_ethereum, next_nonce, TypeOK
<1>4. recipient_nonce' =
        [recipient_nonce EXCEPT ![<<a, e>>] = recipient_nonce[<<a, e>>] + 1]
  BY DEF drop, advance_recipient, next_nonce
<1>5. Grown(recipient_nonce, recipient_nonce', e)
  BY <1>1, <1>4, RecipientNoncesArePairNonces, AdvanceGrows
<1> QED
  BY <1>2, <1>3, <1>5 DEF Relinked

LEMMA RevokeRelinks ==
    ASSUME IInv, NEW r \in Requests, revoke_unlinked(r) \/ revoke_linked(r)
    PROVE  /\ Relinked(r.ethereum_address, ZeroAccount)
           /\ Live(r)
           /\ r.kind = "revoke"
           /\ current(r.ethereum_address) = r.current_account_address
<1> DEFINE e == r.ethereum_address
<1>1. revoke_checks(r)
  BY DEF revoke_unlinked, revoke_linked
<1>2. TypeOK /\ e \in EthAddress
  BY RequestFields DEF IInv
<1>3. ethereum_nonce[e] = r.ethereum_nonce /\ ethereum_nonce[e] \in Nat
  BY <1>1, <1>2, NoncesAreNaturals DEF revoke_checks, check_signed
<1>4. Live(r)
  BY <1>1, <1>3 DEF Live, Stale, NotYet, FutureNonce, verify, check_signed,
                    revoke_checks
<1>5. Relinked(e, ZeroAccount)
  <2>1. CASE revoke_linked(r)
    BY <1>2, <2>1, DropRelinks DEF revoke_linked
  <2>2. CASE revoke_unlinked(r)
    <3>1. members'.ethereum_to_starknet =
            [members.ethereum_to_starknet EXCEPT ![e] = ZeroAccount]
      BY <1>2, <2>2 DEF revoke_unlinked, current, TypeOK, Members
    <3>2. \A x \in EthAddress :
            ethereum_nonce'[x] =
              IF x = e THEN ethereum_nonce[x] + 1 ELSE ethereum_nonce[x]
      BY <1>2, <1>3, <2>2
      DEF revoke_unlinked, advance_ethereum, next_nonce, TypeOK
    <3>3. recipient_nonce' = recipient_nonce /\ signed' = signed
      BY <2>2 DEF revoke_unlinked
    <3>4. Grown(recipient_nonce, recipient_nonce', e)
      <4>1. ASSUME NEW b \in ContractAddress, NEW x \in EthAddress
            PROVE  recipient_nonce[<<b, x>>] >= recipient_nonce[<<b, x>>]
        <5>1. recipient_nonce[<<b, x>>] \in Nat
          BY <1>2, NoncesAreNaturals
        <5> QED
          BY <5>1
      <4> QED
        BY <3>3, <4>1 DEF Grown
    <3> QED
      BY <3>1, <3>2, <3>3, <3>4 DEF Relinked
  <2> QED
    BY <2>1, <2>2
<1> QED
  BY <1>1, <1>4, <1>5 DEF revoke_checks

LEMMA InvalidateCancels ==
    ASSUME IInv, NEW who \in ContractAddress, NEW e \in EthAddress,
           invalidate_pending_incoming(who, e)
    PROVE  Cancelled(who, e) /\ who # ZeroAccount /\ e # ZeroEth
<1>1. recipient_nonce' =
        [recipient_nonce EXCEPT
           ![<<who, e>>] = recipient_nonce[<<who, e>>] + 1]
  BY DEF invalidate_pending_incoming, advance_recipient, next_nonce
<1>2. \A b \in ContractAddress, x \in EthAddress :
        recipient_nonce'[<<b, x>>] =
          IF b = who /\ x = e THEN recipient_nonce[<<b, x>>] + 1
          ELSE recipient_nonce[<<b, x>>]
  BY <1>1 DEF IInv, TypeOK
<1> QED
  BY <1>2 DEF Cancelled, invalidate_pending_incoming

-----------------------------------------------------------------------------
(* What that means for the requests.                                       *)

\* No nonce changes: signatures and time.
Quiet == UNCHANGED <<members, ethereum_nonce, recipient_nonce>>

\* Every step relinks an address with the consent it takes, cancels a pair
\* or leaves links and nonces alone.
LEMMA StepKinds ==
    ASSUME IInv, [Next]_vars
    PROVE  \/ \E r \in Requests :
                /\ Live(r)
                /\ r.kind = "link"
                /\ r.account_address # ZeroAccount
                /\ current(r.ethereum_address) = ZeroAccount
                /\ Relinked(r.ethereum_address, r.account_address)
           \/ \E r \in Requests :
                /\ Live(r)
                /\ r.kind = "move"
                /\ r.account_address # ZeroAccount
                /\ current(r.ethereum_address) = r.previous_account_address
                /\ r.previous_account_address
                     \notin {ZeroAccount, r.account_address}
                /\ Relinked(r.ethereum_address, r.account_address)
           \/ \E r \in Requests :
                /\ Live(r)
                /\ r.kind = "revoke"
                /\ current(r.ethereum_address) = r.current_account_address
                /\ Relinked(r.ethereum_address, ZeroAccount)
           \/ \E e \in EthAddress :
                current(e) # ZeroAccount /\ Relinked(e, ZeroAccount)
           \/ \E a \in ContractAddress \ {ZeroAccount},
                 e \in EthAddress \ {ZeroEth} : Cancelled(a, e)
           \/ Quiet /\ \E r \in Signable : signed' = signed \cup {r}
           \/ Quiet /\ signed' = signed
<1>1. ASSUME NEW who \in ContractAddress, NEW r \in Requests, link(who, r)
      PROVE  /\ Live(r) /\ r.kind = "link" /\ r.account_address # ZeroAccount
             /\ current(r.ethereum_address) = ZeroAccount
             /\ Relinked(r.ethereum_address, r.account_address)
  BY <1>1, LinkRelinks
<1>2. ASSUME NEW who \in ContractAddress, NEW r \in Requests, move(who, r)
      PROVE  /\ Live(r) /\ r.kind = "move" /\ r.account_address # ZeroAccount
             /\ current(r.ethereum_address) = r.previous_account_address
             /\ r.previous_account_address
                  \notin {ZeroAccount, r.account_address}
             /\ Relinked(r.ethereum_address, r.account_address)
  BY <1>2, MoveRelinks
<1>3. ASSUME NEW r \in Requests, revoke_unlinked(r) \/ revoke_linked(r)
      PROVE  /\ Live(r) /\ r.kind = "revoke"
             /\ current(r.ethereum_address) = r.current_account_address
             /\ Relinked(r.ethereum_address, ZeroAccount)
  BY <1>3, RevokeRelinks
<1>4. ASSUME NEW who \in ContractAddress, NEW e \in EthAddress,
             unlink(who, e)
      PROVE  current(e) # ZeroAccount /\ Relinked(e, ZeroAccount)
  BY <1>4, DropRelinks DEF unlink, unlink_checks
<1>5. ASSUME NEW who \in ContractAddress, NEW e \in EthAddress,
             invalidate_pending_incoming(who, e)
      PROVE  Cancelled(who, e) /\ who # ZeroAccount /\ e # ZeroEth
  BY <1>5, InvalidateCancels
<1>6. ASSUME NEW r \in Signable, Sign(r)
      PROVE  Quiet /\ signed' = signed \cup {r}
  BY <1>6 DEF Sign, Quiet
<1>7. CASE Tick
  BY <1>7 DEF Tick, Quiet
<1>8. CASE UNCHANGED vars
  BY <1>8 DEF vars, Quiet
<1>9. CASE Next
  <2>1. CASE \E who \in ContractAddress, r \in Requests :
               link(who, r) \/ move(who, r)
    BY <1>1, <1>2, <2>1
  <2>2. CASE \E r \in Requests : revoke_unlinked(r) \/ revoke_linked(r)
    BY <1>3, <2>2
  <2>3. CASE \E who \in ContractAddress, e \in EthAddress :
               unlink(who, e) \/ invalidate_pending_incoming(who, e)
    BY <1>4, <1>5, <2>3
  <2>4. CASE \E r \in Signable : Sign(r)
    BY <1>6, <2>4
  <2> QED
    BY <1>7, <1>9, <2>1, <2>2, <2>3, <2>4 DEF Next
<1> QED
  BY <1>8, <1>9

LEMMA RelinkRetires ==
    ASSUME TypeOK, TypeOK', NEW e \in EthAddress, NEW a, Relinked(e, a),
           NEW r \in Requests
    PROVE  /\ Stale(r) => Stale(r)'
           /\ r.ethereum_address = e /\ ~FutureNonce(r) => Stale(r)'
           /\ r.ethereum_address # e => StatusOf(r)' = StatusOf(r)
<1> DEFINE x == r.ethereum_address
<1>1. x \in EthAddress /\ r.ethereum_nonce \in Nat /\ ethereum_nonce[x] \in Nat
  BY RequestFields, RequestNoncesAreNaturals, NoncesAreNaturals
<1>2. ethereum_nonce'[x] = IF x = e THEN ethereum_nonce[x] + 1 ELSE ethereum_nonce[x]
  BY <1>1 DEF Relinked
<1>3. r.kind # "revoke" =>
        /\ r.recipient_nonce \in Nat /\ pair_nonce(r) \in Nat
        /\ pair_nonce(r)' \in Nat
        /\ pair_nonce(r)' >= pair_nonce(r)
        /\ x # e => pair_nonce(r)' = pair_nonce(r)
  <2> SUFFICES ASSUME r.kind # "revoke"
               PROVE  /\ r.recipient_nonce \in Nat /\ pair_nonce(r) \in Nat
                      /\ pair_nonce(r)' \in Nat
                      /\ pair_nonce(r)' >= pair_nonce(r)
                      /\ x # e => pair_nonce(r)' = pair_nonce(r)
    OBVIOUS
  <2>1. r.account_address \in ContractAddress /\ r.recipient_nonce \in Nat
    BY RequestFields, RequestNoncesAreNaturals
  <2>2. Grown(recipient_nonce, recipient_nonce', e)
    BY DEF Relinked
  <2>3. recipient_nonce \in PairNonces /\ recipient_nonce' \in PairNonces
    BY BoundAssumption DEF TypeOK, Nonce, PairNonces
  <2> QED
    BY <1>1, <2>1, <2>2, <2>3 DEF Grown, PairNonces, pair_nonce
<1>4. Stale(r) => Stale(r)'
  BY <1>1, <1>2, <1>3 DEF Stale
<1>5. x = e /\ ~FutureNonce(r) => Stale(r)'
  BY <1>1, <1>2 DEF Stale, FutureNonce
<1>6. x # e => StatusOf(r)' = StatusOf(r)
  BY <1>1, <1>2, <1>3 DEF StatusOf, Stale, NotYet, FutureNonce
<1> QED
  BY <1>4, <1>5, <1>6

LEMMA CancelRetires ==
    ASSUME TypeOK, NEW e \in EthAddress, NEW a \in ContractAddress,
           Cancelled(a, e), NEW r \in Requests
    PROVE  /\ Stale(r) => Stale(r)'
           /\ (r.kind = "revoke" \/ r.ethereum_address # e \/ r.account_address # a)
                => StatusOf(r)' = StatusOf(r)
           /\ StatusOf(r) = "live" /\ StatusOf(r)' # StatusOf(r)
                => StatusOf(r)' = "dead"
<1>1. ethereum_nonce' = ethereum_nonce
  BY DEF Cancelled
<1>2. r.kind # "revoke" =>
        /\ r.recipient_nonce \in Nat /\ pair_nonce(r) \in Nat
        /\ pair_nonce(r)' = IF r.account_address = a /\ r.ethereum_address = e
                            THEN pair_nonce(r) + 1 ELSE pair_nonce(r)
  <2> SUFFICES ASSUME r.kind # "revoke"
               PROVE  /\ r.recipient_nonce \in Nat /\ pair_nonce(r) \in Nat
                      /\ pair_nonce(r)' =
                           IF r.account_address = a /\ r.ethereum_address = e
                           THEN pair_nonce(r) + 1 ELSE pair_nonce(r)
    OBVIOUS
  <2>1. /\ r.account_address \in ContractAddress /\ r.recipient_nonce \in Nat
        /\ r.ethereum_address \in EthAddress
    BY RequestFields, RequestNoncesAreNaturals
  <2>2. pair_nonce(r) \in Nat
    BY <2>1, NoncesAreNaturals DEF pair_nonce
  <2> QED
    BY <2>1, <2>2 DEF Cancelled, pair_nonce
<1>3. Stale(r) => Stale(r)'
  BY <1>1, <1>2 DEF Stale
<1>4. (r.kind = "revoke" \/ r.ethereum_address # e \/ r.account_address # a)
        => StatusOf(r)' = StatusOf(r)
  BY <1>1, <1>2 DEF StatusOf, Stale, NotYet, FutureNonce
<1>5. StatusOf(r) = "live" /\ StatusOf(r)' # StatusOf(r) => StatusOf(r)' = "dead"
  <2> SUFFICES ASSUME ~Stale(r), ~NotYet(r), ~Stale(r)' PROVE ~NotYet(r)'
    BY DEF StatusOf
  <2> QED
    BY <1>1, <1>2 DEF Stale, NotYet, FutureNonce
<1> QED
  BY <1>3, <1>4, <1>5

-----------------------------------------------------------------------------
(* The action properties.                                                  *)

LEMMA QuietKeeps ==
    ASSUME Quiet, NEW r
    PROVE  /\ Stale(r)' <=> Stale(r)
           /\ StatusOf(r)' = StatusOf(r)
  BY DEF Quiet, Stale, StatusOf, NotYet, FutureNonce, pair_nonce

LEMMA StaleStays ==
    ASSUME IInv, IInv', [Next]_vars, NEW r \in Requests, Stale(r)
    PROVE  Stale(r)'
<1>1. TypeOK /\ TypeOK'
  BY DEF IInv
<1>2. ASSUME NEW e \in EthAddress, NEW a, Relinked(e, a) PROVE Stale(r)'
  BY <1>1, <1>2, RelinkRetires
<1>3. ASSUME NEW e \in EthAddress, NEW a \in ContractAddress, Cancelled(a, e)
      PROVE  Stale(r)'
  BY <1>1, <1>3, CancelRetires
<1>4. ASSUME Quiet PROVE Stale(r)'
  BY <1>4, QuietKeeps
<1>5. \A q \in Requests : q.ethereum_address \in EthAddress
  BY RequestFields
<1> QED
  BY <1>2, <1>3, <1>4, <1>5, StepKinds

\* Once a nonce a request names has passed, the request is dead for good.
THEOREM RegistryStaleForever == Spec => StaleForever
<1>1. IInv /\ IInv' /\ [Next]_vars =>
        [\A r \in Requests : Stale(r) => Stale(r)']_vars
  BY StaleStays
<1> QED
  BY <1>1, RegistryInvariant, PTL DEF Spec, StaleForever

\* Every change of a link retires the consents its key has given so far.
THEOREM RegistryChangeRetiresConsent == Spec => ChangeRetiresConsent
<1>1. ASSUME IInv, IInv', [Next]_vars, NEW e \in EthAddress,
             current(e) # current(e)', NEW r \in Requests,
             r.ethereum_address = e, ~FutureNonce(r)
      PROVE  Stale(r)'
  <2>1. TypeOK /\ TypeOK'
    BY <1>1 DEF IInv
  <2>2. ASSUME NEW x \in EthAddress, NEW a, Relinked(x, a) PROVE Stale(r)'
    <3>1. x = e
      BY <1>1, <2>1, <2>2 DEF Relinked, current, TypeOK, Members
    <3> QED
      BY <1>1, <2>1, <2>2, <3>1, RelinkRetires
  <2>3. ASSUME NEW x \in EthAddress, NEW a \in ContractAddress, Cancelled(a, x)
        PROVE  FALSE
    BY <1>1, <2>3 DEF Cancelled, current
  <2>4. ASSUME Quiet PROVE FALSE
    BY <1>1, <2>4 DEF Quiet, current
  <2>5. \A q \in Requests : q.ethereum_address \in EthAddress
    BY RequestFields
  <2> QED
    BY <1>1, <2>2, <2>3, <2>4, <2>5, StepKinds
<1>2. IInv /\ IInv' /\ [Next]_vars =>
        [\A e \in EthAddress :
            current(e) # current(e)' =>
                \A r \in Requests :
                    r.ethereum_address = e /\ ~FutureNonce(r) => Stale(r)']_vars
  BY <1>1
<1> QED
  BY <1>2, RegistryInvariant, PTL DEF Spec, ChangeRetiresConsent

-----------------------------------------------------------------------------
(* No consent executes twice.                                              *)

\* A successful call that presents r.
Executes(r) ==
    \/ \E who \in ContractAddress : link(who, r) \/ move(who, r)
    \/ revoke_unlinked(r) \/ revoke_linked(r)

LEMMA ExecutionRetires ==
    ASSUME IInv, IInv', NEW r \in Requests, Executes(r)
    PROVE  ~Stale(r) /\ Stale(r)'
<1>1. r.ethereum_address \in EthAddress /\ TypeOK /\ TypeOK'
  BY RequestFields DEF IInv
<1>2. Live(r) /\ \E a : Relinked(r.ethereum_address, a)
  BY LinkRelinks, MoveRelinks, RevokeRelinks DEF Executes
<1> QED
  BY <1>1, <1>2, RelinkRetires DEF Live, NotYet

\* Executing a consent, of whichever kind and whoever presents it, uses it up:
\* it is stale afterwards and was not before, also when the link it leaves is
\* the one it found, as for the revoke of an address that has none.
THEOREM RegistryExecutionRetires ==
    Spec => [][\A r \in Requests : Executes(r) => ~Stale(r) /\ Stale(r)']_vars
<1>1. IInv /\ IInv' /\ [Next]_vars =>
        [\A r \in Requests : Executes(r) => ~Stale(r) /\ Stale(r)']_vars
  BY ExecutionRetires
<1> QED
  BY <1>1, RegistryInvariant, PTL DEF Spec

\* No replay: a consent that is stale, as every executed one is from then on,
\* is never executed again, through however many links, moves and revokes of
\* its address.
THEOREM RegistryNoReplay ==
    ASSUME NEW r \in Requests
    PROVE  Spec => [](Stale(r) => [][~Executes(r)]_vars)
<1>1. IInv /\ IInv' /\ [Next]_vars => [~(Stale(r) /\ Executes(r))]_vars
  BY ExecutionRetires
<1>2. IInv /\ IInv' /\ [Next]_vars /\ Stale(r) => Stale(r)'
  BY StaleStays
<1>3. Stale(r) /\ [~(Stale(r) /\ Executes(r))]_vars => [~Executes(r)]_vars
  OBVIOUS
<1> QED
  BY <1>1, <1>2, <1>3, RegistryInvariant, PTL DEF Spec

\* A signed, unexpired, live request that names account a as the new holder
\* of address e and agrees with the present link.
Consented(e, a) ==
    \E r \in signed :
        /\ r.ethereum_address = e
        /\ r.kind \in {"link", "move"}
        /\ r.account_address = a
        /\ r.deadline >= block_timestamp
        /\ ~Stale(r) /\ ~FutureNonce(r)
        /\ IF r.kind = "link" THEN current(e) = ZeroAccount
           ELSE r.previous_account_address = current(e)

\* No address is ever linked to an account without both consents.
THEOREM RegistryNewOwnerWasConsented == Spec => NewOwnerWasConsented
<1>1. ASSUME IInv, IInv', [Next]_vars, NEW e \in EthAddress,
             current(e)' # current(e), current(e)' # ZeroAccount
      PROVE  Consented(e, current(e)')
  <2>1. TypeOK
    BY <1>1 DEF IInv
  <2>2. ASSUME NEW x \in EthAddress, NEW a, Relinked(x, a)
        PROVE  x = e /\ current(e)' = a
    BY <1>1, <2>1, <2>2 DEF Relinked, current, TypeOK, Members
  <2>3. ASSUME NEW r \in Requests, Live(r), r.kind = "link",
               current(r.ethereum_address) = ZeroAccount,
               Relinked(r.ethereum_address, r.account_address)
        PROVE  Consented(e, current(e)')
    <3>1. r.ethereum_address = e /\ r.account_address = current(e)'
      BY <2>2, <2>3, RequestFields
    <3>2. /\ r \in signed /\ ~Stale(r) /\ ~FutureNonce(r)
          /\ block_timestamp <= r.deadline
      BY <2>3 DEF Live, NotYet
    <3>3. r.deadline \in Nat /\ block_timestamp \in Nat
      BY <2>1, BoundAssumption, RequestAssumption
      DEF TypeOK, Time, Request, LinkRequest, MoveRequest, RevokeRequest
    <3> QED
      BY <2>3, <3>1, <3>2, <3>3 DEF Consented
  <2>4. ASSUME NEW r \in Requests, Live(r), r.kind = "move",
               current(r.ethereum_address) = r.previous_account_address,
               Relinked(r.ethereum_address, r.account_address)
        PROVE  Consented(e, current(e)')
    <3>1. r.ethereum_address = e /\ r.account_address = current(e)'
      BY <2>2, <2>4, RequestFields
    <3>2. /\ r \in signed /\ ~Stale(r) /\ ~FutureNonce(r)
          /\ block_timestamp <= r.deadline
      BY <2>4 DEF Live, NotYet
    <3>3. r.deadline \in Nat /\ block_timestamp \in Nat
      BY <2>1, BoundAssumption, RequestAssumption
      DEF TypeOK, Time, Request, LinkRequest, MoveRequest, RevokeRequest
    <3> QED
      BY <2>4, <3>1, <3>2, <3>3 DEF Consented
  <2>5. \A x \in EthAddress : ~Relinked(x, ZeroAccount)
    BY <1>1, <2>2
  <2>6. ASSUME NEW x \in EthAddress, NEW a \in ContractAddress, Cancelled(a, x)
        PROVE  FALSE
    BY <1>1, <2>6 DEF Cancelled, current
  <2>7. ASSUME Quiet PROVE FALSE
    BY <1>1, <2>7 DEF Quiet, current
  <2>8. \A q \in Requests : q.ethereum_address \in EthAddress
    BY RequestFields
  <2> QED
    BY <1>1, <2>3, <2>4, <2>5, <2>6, <2>7, <2>8, StepKinds
<1>2. IInv /\ IInv' /\ [Next]_vars =>
        [\A e \in EthAddress :
            (current(e)' # current(e) /\ current(e)' # ZeroAccount) =>
                Consented(e, current(e)')]_vars
  BY <1>1
<1>3. NewOwnerWasConsented <=>
        [][\A e \in EthAddress :
             (current(e)' # current(e) /\ current(e)' # ZeroAccount) =>
                 Consented(e, current(e)')]_vars
  BY DEF NewOwnerWasConsented, Consented
<1> QED
  BY <1>2, <1>3, RegistryInvariant, PTL DEF Spec

-----------------------------------------------------------------------------
(* The contract implements AssociationConsent.                             *)

ListedOf(m) ==
    [a \in ContractAddress |->
        {m.ethereum_addresses[<<a, i>>] :
            i \in {j \in Index : j < m.ethereum_count[a]}}]

OwnedIn(m) ==
    [a \in ContractAddress |->
        IF a = ZeroAccount THEN {}
        ELSE {e \in EthAddress : m.ethereum_to_starknet[e] = a}]

\* The lists, read as sets, are the inverse of the forward map.
LEMMA ListedIsOwned ==
    ASSUME NEW m \in Members, Consistent(m)
    PROVE  ListedOf(m) = OwnedIn(m)
<1> SUFFICES ASSUME NEW a \in ContractAddress
             PROVE  {m.ethereum_addresses[<<a, i>>] :
                       i \in {j \in Index : j < m.ethereum_count[a]}} =
                      IF a = ZeroAccount THEN {}
                      ELSE {e \in EthAddress : m.ethereum_to_starknet[e] = a}
  BY DEF ListedOf, OwnedIn
<1>1. CASE a = ZeroAccount
  <2>1. {j \in Index : j < m.ethereum_count[a]} = {}
    BY <1>1 DEF Consistent, NonZero, Index
  <2> QED
    BY <1>1, <2>1
<1>2. CASE a # ZeroAccount
  <2>1. ASSUME NEW i \in Index, i < m.ethereum_count[a]
        PROVE  /\ m.ethereum_addresses[<<a, i>>] \in EthAddress
               /\ m.ethereum_to_starknet[m.ethereum_addresses[<<a, i>>]] = a
    BY <2>1 DEF Consistent, Held, Members
  <2>2. ASSUME NEW e \in EthAddress, m.ethereum_to_starknet[e] = a
        PROVE  \E i \in Index :
                 i < m.ethereum_count[a] /\ m.ethereum_addresses[<<a, i>>] = e
    <3> DEFINE i == m.ethereum_index_plus_one[e] - 1
    <3>1. /\ m.ethereum_index_plus_one[e] \in 1 .. m.ethereum_count[a]
          /\ m.ethereum_addresses[<<a, i>>] = e
      BY <1>2, <2>2 DEF Consistent, Reached
    <3>2. m.ethereum_count[a] \in 0 .. MaxCount /\ MaxCount \in Nat
      BY BoundAssumption DEF Members
    <3>3. i \in Index /\ i < m.ethereum_count[a]
      BY <3>1, <3>2 DEF Index
    <3> QED
      BY <3>1, <3>3
  <2>3. \A e : e \in {m.ethereum_addresses[<<a, i>>] :
                        i \in {j \in Index : j < m.ethereum_count[a]}}
                <=> \E i \in Index : /\ i < m.ethereum_count[a]
                                     /\ e = m.ethereum_addresses[<<a, i>>]
    OBVIOUS
  <2> DEFINE listed == {m.ethereum_addresses[<<a, i>>] :
                          i \in {j \in Index : j < m.ethereum_count[a]}}
             owned == {e \in EthAddress : m.ethereum_to_starknet[e] = a}
  <2>4. ASSUME NEW e PROVE e \in listed <=> e \in owned
    <3>1. e \in listed => e \in owned
      <4> SUFFICES ASSUME e \in listed PROVE e \in owned
        OBVIOUS
      <4>1. PICK i \in Index : /\ i < m.ethereum_count[a]
                               /\ e = m.ethereum_addresses[<<a, i>>]
        BY <2>3
      <4> QED
        BY <2>1, <4>1
    <3>2. e \in owned => e \in listed
      BY <2>2, <2>3
    <3> QED
      BY <3>1, <3>2
  <2> HIDE DEF listed, owned
  <2>5. listed = owned
    BY <2>4
  <2> QED
    BY <1>2, <2>5 DEF listed, owned
<1> QED
  BY <1>1, <1>2

LEMMA ListedFollowsLinks ==
    ASSUME IInv, IInv', NEW e \in EthAddress, NEW a \in ContractAddress,
           Relinked(e, a)
    PROVE  Listed' = [s \in ContractAddress |->
                        IF s = a /\ a # ZeroAccount THEN Listed[s] \cup {e}
                        ELSE Listed[s] \ {e}]
<1>1. Listed = OwnedIn(members)
  <2>1. Listed = ListedOf(members)
    BY DEF Listed, ListedOf, slot, count
  <2> QED
    BY <2>1, IInvConsistent, ListedIsOwned DEF TypeOK
<1>2. Listed' = OwnedIn(members')
  <2>1. Listed' = ListedOf(members')
    BY DEF Listed, ListedOf, slot, count
  <2>2. members' \in Members /\ Consistent(members')
    BY DEF IInv, TypeOK, ListsMirrorLinks, ForwardReachesList,
           ListReachesForward, RemovalLeavesNothing, ZeroIsNeverLinked,
           Consistent, Reached, Held, Clear, NonZero, current, count,
           index_plus_one, slot
  <2> QED
    BY <2>1, <2>2, ListedIsOwned
<1>3. \A x \in EthAddress :
        members'.ethereum_to_starknet[x] =
          IF x = e THEN a ELSE members.ethereum_to_starknet[x]
  BY DEF IInv, TypeOK, Members, Relinked
<1>4. ASSUME NEW s \in ContractAddress
      PROVE  OwnedIn(members')[s] =
               IF s = a /\ a # ZeroAccount THEN OwnedIn(members)[s] \cup {e}
               ELSE OwnedIn(members)[s] \ {e}
  BY <1>3 DEF OwnedIn
<1>5. OwnedIn(members') =
        [s \in ContractAddress |-> OwnedIn(members')[s]]
  BY DEF OwnedIn
<1> QED
  BY <1>1, <1>2, <1>4, <1>5

StatusMap == [r \in Requests |-> StatusOf(r)]

LEMMA RelinkRefines ==
    ASSUME IInv, IInv', NEW e \in EthAddress, NEW a \in ContractAddress,
           Relinked(e, a)
    PROVE  Consent!Relink(e, a)
<1>1. ASSUME NEW r \in Requests
      PROVE  CASE r \notin Consent!OfAddress(e) -> StatusMap'[r] = StatusMap[r]
               [] r \in Consent!OfAddress(e) /\ StatusMap[r] # "future" ->
                    StatusMap'[r] = "dead"
               [] OTHER -> TRUE
  <2>1. StatusMap[r] = StatusOf(r) /\ StatusMap'[r] = StatusOf(r)'
    BY DEF StatusMap
  <2>2. /\ Stale(r) => Stale(r)'
        /\ r.ethereum_address = e /\ ~FutureNonce(r) => Stale(r)'
        /\ r.ethereum_address # e => StatusOf(r)' = StatusOf(r)
    BY RelinkRetires DEF IInv
  <2>3. r \in Consent!OfAddress(e) <=> r.ethereum_address = e
    BY DEF Consent!OfAddress
  <2>4. StatusOf(r) # "future" => Stale(r) \/ ~FutureNonce(r)
    BY DEF StatusOf, NotYet
  <2>5. Stale(r)' => StatusOf(r)' = "dead"
    BY DEF StatusOf
  <2> QED
    BY <2>1, <2>2, <2>3, <2>4, <2>5
<1>2. StatusMap' \in [Requests -> Consent!Status]
  BY DEF StatusMap, StatusOf, Consent!Status
<1>3. Consent!Retire(Consent!OfAddress(e))
  BY <1>1, <1>2 DEF Consent!Retire, StatusMap
<1>4. members'.ethereum_to_starknet =
        [members.ethereum_to_starknet EXCEPT ![e] = a] /\ signed' = signed
  BY DEF Relinked
<1> QED
  BY <1>3, <1>4, ListedFollowsLinks DEF Consent!Relink

LEMMA CancelRefines ==
    ASSUME IInv, NEW a \in ContractAddress \ {ZeroAccount},
           NEW e \in EthAddress \ {ZeroEth}, Cancelled(a, e)
    PROVE  Consent!Cancel(a, e)
<1>1. ASSUME NEW r \in Requests
      PROVE  CASE r \notin Consent!OfPair(a, e) -> StatusMap'[r] = StatusMap[r]
               [] r \in Consent!OfPair(a, e) /\ StatusMap[r] # "future" ->
                    StatusMap'[r] = "dead"
               [] OTHER -> TRUE
  <2>1. StatusMap[r] = StatusOf(r) /\ StatusMap'[r] = StatusOf(r)'
    BY DEF StatusMap
  <2>2. /\ Stale(r) => Stale(r)'
        /\ (r.kind = "revoke" \/ r.ethereum_address # e \/ r.account_address # a)
             => StatusOf(r)' = StatusOf(r)
    BY CancelRetires DEF IInv
  <2>3. r \in Consent!OfPair(a, e) <=>
          /\ r.ethereum_address = e /\ r.kind # "revoke"
          /\ r.account_address = a
    BY DEF Consent!OfPair, Consent!OfAddress
  <2>4. r \in Consent!OfPair(a, e) /\ StatusOf(r) # "future" => Stale(r)'
    <3> SUFFICES ASSUME r \in Consent!OfPair(a, e), ~Stale(r), ~NotYet(r)
                 PROVE  Stale(r)'
      BY <2>2 DEF StatusOf
    <3>1. /\ r.recipient_nonce \in Nat /\ pair_nonce(r) \in Nat
          /\ r.recipient_nonce = pair_nonce(r)
      <4>1. r.recipient_nonce \in Nat /\ pair_nonce(r) \in Nat
        BY <2>3, RequestNoncesAreNaturals, NoncesAreNaturals
        DEF IInv, pair_nonce
      <4> QED
        BY <2>3, <4>1 DEF Stale, NotYet
    <3>2. pair_nonce(r)' = pair_nonce(r) + 1
      BY <2>3 DEF Cancelled, pair_nonce
    <3> QED
      BY <2>3, <3>1, <3>2 DEF Stale
  <2>5. Stale(r)' => StatusOf(r)' = "dead"
    BY DEF StatusOf
  <2> QED
    BY <2>1, <2>2, <2>3, <2>4, <2>5
<1>2. StatusMap' \in [Requests -> Consent!Status]
  BY DEF StatusMap, StatusOf, Consent!Status
<1>3. Consent!Retire(Consent!OfPair(a, e))
  BY <1>1, <1>2 DEF Consent!Retire, StatusMap
<1>4. /\ members'.ethereum_to_starknet = members.ethereum_to_starknet
      /\ Listed' = Listed /\ signed' = signed
  BY DEF Cancelled, Listed, slot, count
<1> QED
  BY <1>3, <1>4 DEF Consent!Cancel

LEMMA InitRefines == Init => Consent!Init
<1> SUFFICES ASSUME Init PROVE Consent!Init
  OBVIOUS
<1>1. Listed = [a \in ContractAddress |-> {}]
  BY DEF Init, Listed, count, Index
<1>2. StatusMap \in [Requests -> Consent!Status]
  BY DEF StatusMap, StatusOf, Consent!Status
<1>3. signed \subseteq Requests
  BY RequestAssumption DEF Init, Signable
<1>4. members.ethereum_to_starknet = [e \in EthAddress |-> ZeroAccount]
  BY DEF Init
<1> QED
  BY <1>1, <1>2, <1>3, <1>4 DEF Consent!Init, StatusMap

LEMMA NextRefines ==
    ASSUME IInv, IInv', [Next]_vars
    PROVE  [Consent!Next]_(Consent!vars)
<1>1. \A r \in Requests :
        /\ r.ethereum_address \in EthAddress
        /\ r.kind \in {"link", "move"} => r.account_address \in ContractAddress
  BY RequestFields
<1>2. \A r \in Requests : Live(r) => Consent!Usable(r)
  BY DEF Live, Consent!Usable, StatusOf
<1>3. ASSUME NEW r \in Requests, Live(r), r.kind = "link",
             r.account_address # ZeroAccount,
             current(r.ethereum_address) = ZeroAccount,
             Relinked(r.ethereum_address, r.account_address)
      PROVE  Consent!Link(r.account_address, r)
  BY <1>1, <1>2, <1>3, RelinkRefines DEF Consent!Link, current
<1>4. ASSUME NEW r \in Requests, Live(r), r.kind = "move",
             r.account_address # ZeroAccount,
             current(r.ethereum_address) = r.previous_account_address,
             r.previous_account_address \notin {ZeroAccount, r.account_address},
             Relinked(r.ethereum_address, r.account_address)
      PROVE  Consent!Move(r.account_address, r)
  BY <1>1, <1>2, <1>4, RelinkRefines DEF Consent!Move, current
<1>5. ASSUME NEW r \in Requests, Live(r), r.kind = "revoke",
             current(r.ethereum_address) = r.current_account_address,
             Relinked(r.ethereum_address, ZeroAccount)
      PROVE  Consent!Revoke(r)
  BY <1>1, <1>2, <1>5, ZeroAssumption, RelinkRefines DEF Consent!Revoke, current
<1>6. ASSUME NEW e \in EthAddress, current(e) # ZeroAccount,
             Relinked(e, ZeroAccount)
      PROVE  Consent!Unlink(current(e), e)
  BY <1>6, ZeroAssumption, RelinkRefines DEF Consent!Unlink, current
<1>7. \A e \in EthAddress : current(e) \in ContractAddress
  BY DEF IInv, TypeOK, Members, current
<1>8. ASSUME NEW r \in Signable, Quiet, signed' = signed \cup {r}
      PROVE  Consent!Grant(r) /\ r \in Requests
  <2>1. \A q \in Requests : StatusOf(q)' = StatusOf(q)
    BY <1>8, QuietKeeps
  <2>2. UNCHANGED <<members.ethereum_to_starknet, Listed>>
    BY <1>8 DEF Quiet, Listed, slot, count
  <2> QED
    BY <1>8, <2>1, <2>2 DEF Consent!Grant, Signable
<1>9. ASSUME Quiet, signed' = signed PROVE UNCHANGED Consent!vars
  <2>1. \A q \in Requests : StatusOf(q)' = StatusOf(q)
    BY <1>9, QuietKeeps
  <2>2. UNCHANGED <<members.ethereum_to_starknet, Listed>>
    BY <1>9 DEF Quiet, Listed, slot, count
  <2> QED
    BY <1>9, <2>1, <2>2 DEF Consent!vars
<1>10. (\E r \in Requests :
          \/ Consent!Link(r.account_address, r)
               /\ r.account_address \in ContractAddress
          \/ Consent!Move(r.account_address, r)
               /\ r.account_address \in ContractAddress
          \/ Consent!Revoke(r)
          \/ Consent!Grant(r)) => Consent!Next
  BY DEF Consent!Next
<1>11. (\E a \in ContractAddress, e \in EthAddress :
          Consent!Unlink(a, e) \/ Consent!Cancel(a, e)) => Consent!Next
  BY DEF Consent!Next
<1> QED
  BY <1>1, <1>3, <1>4, <1>5, <1>6, <1>7, <1>8, <1>9, <1>10, <1>11,
     CancelRefines, StepKinds

\* The registry contract implements its consent specification.
THEOREM RegistryImplementsConsent == Spec => ConsentSpec
<1>1. Init => Consent!Init
  BY InitRefines
<1>2. IInv /\ IInv' /\ [Next]_vars => [Consent!Next]_(Consent!vars)
  BY NextRefines
<1> QED
  BY <1>1, <1>2, RegistryInvariant, PTL DEF Spec, ConsentSpec, Consent!Spec

-----------------------------------------------------------------------------
(* The events of a call.                                                   *)

\* One more event of a replay.
Known(view, emitted, known) ==
    [i \in 0 .. Len(emitted) |->
        IF i = 0 THEN view ELSE ApplyEvent(known[i - 1], emitted[i])]

\* A replay is well defined as soon as some function is one.
LEMMA ReplayIs ==
    ASSUME NEW view, NEW emitted, NEW g, g = Known(view, emitted, g)
    PROVE  \E known : /\ known = Known(view, emitted, known)
                      /\ Replay(view, emitted) = known[Len(emitted)]
<1> DEFINE known == CHOOSE f : f = Known(view, emitted, f)
<1>1. known = Known(view, emitted, known)
  OBVIOUS
<1>2. Replay(view, emitted) = known[Len(emitted)]
  BY DEF Replay, Known
<1> QED
  BY <1>1, <1>2

LEMMA ReplayOne ==
    ASSUME NEW view, NEW a
    PROVE  Replay(view, <<a>>) = ApplyEvent(view, a)
<1> DEFINE es == <<a>>
           v == ApplyEvent(view, a)
           g == [i \in 0 .. 1 |-> IF i = 0 THEN view ELSE v]
<1>1. Len(es) = 1 /\ es[1] = a
  OBVIOUS
<1> HIDE DEF es, v
<1>2. g = Known(view, es, g)
  BY <1>1 DEF Known, v
<1>3. PICK known : known = Known(view, es, known) /\ Replay(view, es) = known[1]
  <2> HIDE DEF g
  <2> QED
    BY <1>1, <1>2, ReplayIs
<1>4. known[0] = view /\ known[1] = ApplyEvent(known[0], a)
  BY <1>1, <1>3 DEF Known
<1> QED
  BY <1>3, <1>4 DEF es

LEMMA ReplayThree ==
    ASSUME NEW view, NEW a, NEW b, NEW c
    PROVE  Replay(view, <<a, b, c>>) = ApplyEvent(ApplyEvent(ApplyEvent(view, a), b), c)
<1> DEFINE es == <<a, b, c>>
           u == ApplyEvent(view, a)
           v == ApplyEvent(u, b)
           w == ApplyEvent(v, c)
           g == [i \in 0 .. 3 |-> IF i = 0 THEN view ELSE IF i = 1 THEN u
                                  ELSE IF i = 2 THEN v ELSE w]
<1>1. Len(es) = 3 /\ es[1] = a /\ es[2] = b /\ es[3] = c
  OBVIOUS
<1> HIDE DEF es, u, v, w
<1>2. g = Known(view, es, g)
  BY <1>1 DEF Known, u, v, w
<1>3. PICK known : known = Known(view, es, known) /\ Replay(view, es) = known[3]
  <2> HIDE DEF g
  <2> QED
    BY <1>1, <1>2, ReplayIs
<1>4. /\ known[0] = view /\ known[1] = ApplyEvent(known[0], a)
      /\ known[2] = ApplyEvent(known[1], b) /\ known[3] = ApplyEvent(known[2], c)
  BY <1>1, <1>3 DEF Known
<1> QED
  BY <1>3, <1>4 DEF es

LEMMA ReplayFour ==
    ASSUME NEW view, NEW a, NEW b, NEW c, NEW d
    PROVE  Replay(view, <<a, b, c, d>>) =
              ApplyEvent(ApplyEvent(ApplyEvent(ApplyEvent(view, a), b), c), d)
<1> DEFINE es == <<a, b, c, d>>
           u == ApplyEvent(view, a)
           v == ApplyEvent(u, b)
           w == ApplyEvent(v, c)
           x == ApplyEvent(w, d)
           g == [i \in 0 .. 4 |-> IF i = 0 THEN view ELSE IF i = 1 THEN u
                                  ELSE IF i = 2 THEN v ELSE IF i = 3 THEN w ELSE x]
<1>1. Len(es) = 4 /\ es[1] = a /\ es[2] = b /\ es[3] = c /\ es[4] = d
  OBVIOUS
<1> HIDE DEF es, u, v, w, x
<1>2. g = Known(view, es, g)
  BY <1>1 DEF Known, u, v, w, x
<1>3. PICK known : known = Known(view, es, known) /\ Replay(view, es) = known[4]
  <2> HIDE DEF g
  <2> QED
    BY <1>1, <1>2, ReplayIs
<1>4. /\ known[0] = view /\ known[1] = ApplyEvent(known[0], a)
      /\ known[2] = ApplyEvent(known[1], b) /\ known[3] = ApplyEvent(known[2], c)
      /\ known[4] = ApplyEvent(known[3], d)
  BY <1>1, <1>3 DEF Known
<1> QED
  BY <1>3, <1>4 DEF es

\* What each kind of event does to a view given by its parts.
Parts(links, ethereum, recipient) ==
    [links |-> links, ethereum |-> ethereum, recipient |-> recipient]

LEMMA ApplyAssociation ==
    ASSUME NEW links, NEW ethereum, NEW recipient, NEW e, NEW previous, NEW new,
           NEW operation, links[e] = previous
    PROVE  ApplyEvent(Parts(links, ethereum, recipient),
                      AssociationChanged(e, previous, new, operation))
              = Parts([links EXCEPT ![e] = new], ethereum, recipient)
  BY DEF ApplyEvent, Parts, AssociationChanged

LEMMA ApplyEthereum ==
    ASSUME NEW links, NEW ethereum, NEW recipient, NEW e, NEW nonce
    PROVE  ApplyEvent(Parts(links, ethereum, recipient), EthereumNonceAdvanced(e, nonce))
              = Parts(links, [ethereum EXCEPT ![e] = nonce], recipient)
  BY DEF ApplyEvent, Parts, EthereumNonceAdvanced

LEMMA ApplyRecipient ==
    ASSUME NEW links, NEW ethereum, NEW recipient, NEW e, NEW a, NEW nonce
    PROVE  ApplyEvent(Parts(links, ethereum, recipient), RecipientNonceAdvanced(e, a, nonce))
              = Parts(links, ethereum, [recipient EXCEPT ![<<a, e>>] = nonce])
  BY DEF ApplyEvent, Parts, RecipientNonceAdvanced

LEMMA ViewParts ==
    /\ View = Parts(members.ethereum_to_starknet, ethereum_nonce, recipient_nonce)
    /\ View' = Parts(members'.ethereum_to_starknet, ethereum_nonce', recipient_nonce')
  BY DEF View, Parts

LEMMA LinkDescribed ==
    ASSUME NEW who, NEW r, link(who, r)
    PROVE  View' = Replay(View, events')
<1> DEFINE e == r.ethereum_address
           a == r.account_address
           n == next_nonce(r.ethereum_nonce)
           k == next_nonce(r.recipient_nonce)
           links == [members.ethereum_to_starknet EXCEPT ![e] = a]
           ethereum == [ethereum_nonce EXCEPT ![e] = n]
           recipient == [recipient_nonce EXCEPT ![<<a, e>>] = k]
<1>1. /\ events' = <<AssociationChanged(e, ZeroAccount, a, 1), EthereumNonceAdvanced(e, n),
                     RecipientNonceAdvanced(e, a, k)>>
      /\ ethereum_nonce' = ethereum /\ recipient_nonce' = recipient
      /\ members.ethereum_to_starknet[e] = ZeroAccount
      /\ members'.ethereum_to_starknet = links
  BY DEF link, link_checks, advance_ethereum, advance_recipient, insert, current
<1> HIDE DEF e, a, n, k
<1>2. ApplyEvent(View, AssociationChanged(e, ZeroAccount, a, 1))
         = Parts(links, ethereum_nonce, recipient_nonce)
  BY <1>1, ViewParts, ApplyAssociation
<1> HIDE DEF links
<1>3. ApplyEvent(Parts(links, ethereum_nonce, recipient_nonce), EthereumNonceAdvanced(e, n))
         = Parts(links, ethereum, recipient_nonce)
  BY ApplyEthereum
<1> HIDE DEF ethereum
<1>4. ApplyEvent(Parts(links, ethereum, recipient_nonce), RecipientNonceAdvanced(e, a, k))
         = Parts(links, ethereum, recipient)
  BY ApplyRecipient
<1> HIDE DEF recipient
<1>5. View' = Parts(links, ethereum, recipient)
  BY <1>1, ViewParts
<1> QED
  BY <1>1, <1>2, <1>3, <1>4, <1>5, ReplayThree

LEMMA MoveDescribed ==
    ASSUME TypeOK, NEW who, NEW r, move(who, r), r.ethereum_address \in EthAddress
    PROVE  View' = Replay(View, events')
<1> DEFINE e == r.ethereum_address
           a == r.account_address
           b == r.previous_account_address
           n == next_nonce(r.ethereum_nonce)
           j == next_nonce(recipient_nonce[<<b, e>>])
           k == next_nonce(r.recipient_nonce)
           links == [members.ethereum_to_starknet EXCEPT ![e] = a]
           ethereum == [ethereum_nonce EXCEPT ![e] = n]
           between == [recipient_nonce EXCEPT ![<<b, e>>] = j]
           recipient == [between EXCEPT ![<<a, e>>] = k]
<1>1. /\ events' = <<AssociationChanged(e, b, a, 2), EthereumNonceAdvanced(e, n),
                     RecipientNonceAdvanced(e, b, j), RecipientNonceAdvanced(e, a, k)>>
      /\ ethereum_nonce' = ethereum /\ recipient_nonce' = recipient
      /\ members.ethereum_to_starknet[e] = b
      /\ members'.ethereum_to_starknet =
            [[members.ethereum_to_starknet EXCEPT ![e] = ZeroAccount] EXCEPT ![e] = a]
  BY DEF move, move_checks, advance_ethereum, advance_recipient, insert, remove, current
<1>2. members'.ethereum_to_starknet = links
  <2>1. members.ethereum_to_starknet \in [EthAddress -> ContractAddress]
    BY DEF TypeOK, Members
  <2> QED
    BY <1>1, <2>1
<1> HIDE DEF e, a, b, n, j, k
<1>3. ApplyEvent(View, AssociationChanged(e, b, a, 2))
         = Parts(links, ethereum_nonce, recipient_nonce)
  BY <1>1, ViewParts, ApplyAssociation
<1> HIDE DEF links
<1>4. ApplyEvent(Parts(links, ethereum_nonce, recipient_nonce), EthereumNonceAdvanced(e, n))
         = Parts(links, ethereum, recipient_nonce)
  BY ApplyEthereum
<1> HIDE DEF ethereum
<1>5. ApplyEvent(Parts(links, ethereum, recipient_nonce), RecipientNonceAdvanced(e, b, j))
         = Parts(links, ethereum, between)
  BY ApplyRecipient
<1> HIDE DEF between
<1>6. ApplyEvent(Parts(links, ethereum, between), RecipientNonceAdvanced(e, a, k))
         = Parts(links, ethereum, recipient)
  BY ApplyRecipient
<1> HIDE DEF recipient
<1>7. View' = Parts(links, ethereum, recipient)
  BY <1>1, <1>2, ViewParts
<1> QED
  BY <1>1, <1>3, <1>4, <1>5, <1>6, <1>7, ReplayFour

LEMMA DropDescribed ==
    ASSUME NEW e, NEW operation, drop(e, current(e), operation)
    PROVE  View' = Replay(View, events')
<1> DEFINE a == current(e)
           n == next_nonce(ethereum_nonce[e])
           k == next_nonce(recipient_nonce[<<a, e>>])
           links == [members.ethereum_to_starknet EXCEPT ![e] = ZeroAccount]
           ethereum == [ethereum_nonce EXCEPT ![e] = n]
           recipient == [recipient_nonce EXCEPT ![<<a, e>>] = k]
<1>1. /\ events' = <<AssociationChanged(e, a, ZeroAccount, operation),
                     EthereumNonceAdvanced(e, n), RecipientNonceAdvanced(e, a, k)>>
      /\ ethereum_nonce' = ethereum /\ recipient_nonce' = recipient
      /\ members.ethereum_to_starknet[e] = a
      /\ members'.ethereum_to_starknet = links
  BY DEF drop, advance_ethereum, advance_recipient, remove, current
<1> HIDE DEF a, n, k
<1>2. ApplyEvent(View, AssociationChanged(e, a, ZeroAccount, operation))
         = Parts(links, ethereum_nonce, recipient_nonce)
  BY <1>1, ViewParts, ApplyAssociation
<1> HIDE DEF links
<1>3. ApplyEvent(Parts(links, ethereum_nonce, recipient_nonce), EthereumNonceAdvanced(e, n))
         = Parts(links, ethereum, recipient_nonce)
  BY ApplyEthereum
<1> HIDE DEF ethereum
<1>4. ApplyEvent(Parts(links, ethereum, recipient_nonce), RecipientNonceAdvanced(e, a, k))
         = Parts(links, ethereum, recipient)
  BY ApplyRecipient
<1> HIDE DEF recipient
<1>5. View' = Parts(links, ethereum, recipient)
  BY <1>1, ViewParts
<1> QED
  BY <1>1, <1>2, <1>3, <1>4, <1>5, ReplayThree

\* Somebody who only reads the events of the contract knows its links and
\* nonces: every call that changes one of them says so, in an order in which
\* each event fits what the ones before it have told, and says no more.
THEOREM RegistryEventsDescribeStep == Spec => EventsDescribeStep
<1>1. ASSUME TypeOK, [Next]_vars
      PROVE  [View' # View \/ events' # events => View' = Replay(View, events')]_vars
  <2>1. ASSUME NEW who \in ContractAddress, NEW r \in Requests, link(who, r) \/ move(who, r)
        PROVE  View' = Replay(View, events')
    BY <1>1, <2>1, LinkDescribed, MoveDescribed, RequestFields
  <2>2. ASSUME NEW r \in Requests, revoke_linked(r) PROVE View' = Replay(View, events')
    BY <1>1, <2>2, DropDescribed, RequestFields DEF revoke_linked
  <2>3. ASSUME NEW r \in Requests, revoke_unlinked(r) PROVE View' = Replay(View, events')
    <3> DEFINE e == r.ethereum_address
               n == next_nonce(r.ethereum_nonce)
               ethereum == [ethereum_nonce EXCEPT ![e] = n]
    <3>1. /\ events' = <<EthereumNonceAdvanced(e, n)>>
          /\ ethereum_nonce' = ethereum
          /\ recipient_nonce' = recipient_nonce /\ members' = members
      BY <2>3 DEF revoke_unlinked, advance_ethereum
    <3> HIDE DEF e, n
    <3>2. ApplyEvent(View, EthereumNonceAdvanced(e, n))
             = Parts(members.ethereum_to_starknet, ethereum, recipient_nonce)
      BY ApplyEthereum, ViewParts
    <3> HIDE DEF ethereum
    <3> QED
      BY <3>1, <3>2, ReplayOne, ViewParts
  <2>4. ASSUME NEW who \in ContractAddress, NEW e \in EthAddress, unlink(who, e)
        PROVE  View' = Replay(View, events')
    BY <1>1, <2>4, DropDescribed DEF unlink
  <2>5. ASSUME NEW who \in ContractAddress, NEW e \in EthAddress,
               invalidate_pending_incoming(who, e)
        PROVE  View' = Replay(View, events')
    <3> DEFINE k == next_nonce(recipient_nonce[<<who, e>>])
               recipient == [recipient_nonce EXCEPT ![<<who, e>>] = k]
    <3>1. /\ events' = <<RecipientNonceAdvanced(e, who, k)>>
          /\ recipient_nonce' = recipient
          /\ ethereum_nonce' = ethereum_nonce /\ members' = members
      BY <2>5 DEF invalidate_pending_incoming, advance_recipient
    <3> HIDE DEF k
    <3>2. ApplyEvent(View, RecipientNonceAdvanced(e, who, k))
             = Parts(members.ethereum_to_starknet, ethereum_nonce, recipient)
      BY ApplyRecipient, ViewParts
    <3> HIDE DEF recipient
    <3> QED
      BY <3>1, <3>2, ReplayOne, ViewParts
  <2>6. CASE Tick \/ \E r \in Signable : Sign(r)
    BY <2>6 DEF Tick, Sign, View
  <2>7. CASE UNCHANGED vars
    BY <2>7
  <2> QED
    BY <1>1, <2>1, <2>2, <2>3, <2>4, <2>5, <2>6, <2>7 DEF Next
<1> QED
  BY <1>1, RegistryTypeOK, PTL DEF Spec, EventsDescribeStep

-----------------------------------------------------------------------------
(* A submission: what the session expects, and how far the registry is     *)
(* from it.                                                                *)

SignedKind == {"link", "move", "revoke"}

\* The link that was there when the effects were computed, and the pairs that
\* the session watches.
found == IF call.kind = "unlink" THEN destination ELSE prepared_current
watched ==
    IF call.kind = "invalidate_pending_incoming" THEN {destination}
    ELSE (IF found # ZeroAccount THEN {found} ELSE {})
           \cup (IF call.kind \in {"link", "move"} THEN {call.account_address} ELSE {})

\* What is submitted, from its preparation on.
CallOK ==
    /\ \/ call \in LinkRequest /\ call.account_address = destination
       \/ /\ call \in MoveRequest /\ call.account_address = destination
          /\ call.previous_account_address \notin {ZeroAccount, destination}
       \/ call \in RevokeRequest
       \/ call \in UnsignedCall
    /\ eth # ZeroEth /\ destination \in ContractAddress \ {ZeroAccount}
    /\ call.kind \in SignedKind => call.deadline # 0
    /\ stage = "prepared" => call.kind \in SignedKind
    /\ stage \in {"simulated", "sent"} /\ call.kind \in SignedKind => call \in signed

SubmissionOK ==
    /\ caller \in ContractAddress /\ interfered \in BOOLEAN
    /\ stage \in {"idle", "prepared"} => ~interfered
    /\ stage # "idle" => CallOK

Expecting == stage \in {"validated", "simulated", "sent", "included", "sealed"}

\* The expectation is one of the call, and fits.
ExpectedOK ==
    Expecting =>
        /\ expected = [current |-> expected.current,
                       ethereum_nonce |-> expected.ethereum_nonce,
                       pairs |-> [a \in watched |-> expected.pairs[a]]]
        /\ fits(expected) /\ expected.ethereum_nonce \in Nat
        /\ \A a \in watched : expected.pairs[a] \in Nat \ {0}
        /\ call.kind # "invalidate_pending_incoming" =>
              /\ expected.current =
                   IF call.kind \in {"link", "move"} THEN destination ELSE ZeroAccount
              /\ expected.ethereum_nonce # 0
        /\ call.kind \in SignedKind => expected.ethereum_nonce = call.ethereum_nonce + 1
        /\ call.kind \in {"link", "move"} =>
              expected.pairs[destination] = call.recipient_nonce + 1

\* Some watched pair has passed the nonce that it should have, given how many
\* steps of it are still to come; none is behind it.
Reach(steps) == \A a \in watched : pair(a, eth) + steps >= expected.pairs[a]
Passed(steps) == \E a \in watched : pair(a, eth) + steps > expected.pairs[a]

\* Before the call is included, the registry is one step from what is
\* expected; or it has gone past it, and then somebody interfered.
BeforeCall ==
    stage \in {"validated", "simulated", "sent"} =>
        IF call.kind = "invalidate_pending_incoming"
        THEN ~interfered =>
                /\ current(eth) = expected.current
                /\ ethereum_nonce[eth] = expected.ethereum_nonce
                /\ pair(destination, eth) + 1 = expected.pairs[destination]
        ELSE \/ interfered /\ ethereum_nonce[eth] >= expected.ethereum_nonce
             \/ /\ ethereum_nonce[eth] + 1 = expected.ethereum_nonce
                /\ current(eth) = found
                /\ Reach(1) /\ (interfered <=> Passed(1))

\* Afterwards it is there, or past it.
AfterCall ==
    stage = "included" =>
        IF call.kind = "invalidate_pending_incoming"
        THEN ~interfered /\ ~Switched =>
                /\ current(eth) = expected.current
                /\ ethereum_nonce[eth] = expected.ethereum_nonce
                /\ pair(destination, eth) = expected.pairs[destination]
        ELSE \/ /\ interfered \/ Switched
                /\ ethereum_nonce[eth] > expected.ethereum_nonce
             \/ /\ ethereum_nonce[eth] = expected.ethereum_nonce
                /\ current(eth) = expected.current
                /\ Reach(0) /\ (interfered \/ Switched <=> Passed(0))

\* What the receipt block said, and what the caller was told of it.
Agrees ==
    /\ ~interfered /\ ~Switched => as_expected
    /\ as_expected /\ call.kind # "invalidate_pending_incoming" => ~interfered /\ ~Switched

Told ==
    /\ result # NoResult => stage = "ended"
    /\ stage = "sealed" => Agrees
    /\ MismatchExplained /\ MatchedIsOurs

SessionInv == SubmissionOK /\ ExpectedOK /\ BeforeCall /\ AfterCall /\ Told

LEMMA CallFields ==
    ASSUME CallOK
    PROVE  /\ eth \in EthAddress
           /\ call.kind \in SignedKind \cup {"unlink", "invalidate_pending_incoming"}
           /\ call.kind \in SignedKind => call.ethereum_nonce \in Nat /\ call.deadline \in Nat
           /\ call.kind \in {"link", "move"} =>
                 /\ call.account_address = destination /\ call.recipient_nonce \in Nat
           /\ call.kind = "link" => found = ZeroAccount
           /\ call.kind = "move" =>
                 /\ found = call.previous_account_address
                 /\ found \in ContractAddress \ {ZeroAccount, destination}
           /\ call.kind = "revoke" =>
                 found = call.current_account_address /\ found \in ContractAddress
           /\ call.kind = "unlink" => found = destination
  BY DEF CallOK, LinkRequest, MoveRequest, RevokeRequest, UnsignedCall, SignedKind, Nonce,
     eth, found, prepared_current

LEMMA WatchedAccounts ==
    ASSUME CallOK
    PROVE  watched \subseteq ContractAddress \ {ZeroAccount}
<1>1. destination \in ContractAddress \ {ZeroAccount}
  BY DEF CallOK
<1> QED
  BY <1>1, CallFields DEF watched, SignedKind

\* Signatures stay, nonces never go back, and a link that changes takes the
\* nonce of its address with it.
LEMMA NoncesGrow ==
    ASSUME IInv, [Next]_vars, NEW e \in EthAddress
    PROVE  /\ signed \subseteq signed'
           /\ ethereum_nonce'[e] >= ethereum_nonce[e]
           /\ \A a \in ContractAddress : pair(a, e)' >= pair(a, e)
           /\ ethereum_nonce'[e] = ethereum_nonce[e] => current(e)' = current(e)
<1>1. /\ ethereum_nonce[e] \in Nat /\ \A a \in ContractAddress : pair(a, e) \in Nat
      /\ members.ethereum_to_starknet \in [EthAddress -> ContractAddress]
  BY NoncesAreNaturals DEF IInv, pair, TypeOK, Members
<1>2. ASSUME NEW x \in EthAddress, NEW a, Relinked(x, a)
      PROVE  /\ signed \subseteq signed'
             /\ ethereum_nonce'[e] >= ethereum_nonce[e]
             /\ \A b \in ContractAddress : pair(b, e)' >= pair(b, e)
             /\ ethereum_nonce'[e] = ethereum_nonce[e] => current(e)' = current(e)
  <2>1. ethereum_nonce'[e] = IF e = x THEN ethereum_nonce[e] + 1 ELSE ethereum_nonce[e]
    BY <1>2 DEF Relinked
  <2>2. e # x => current(e)' = current(e)
    BY <1>1, <1>2 DEF Relinked, current
  <2>3. \A b \in ContractAddress : pair(b, e)' >= pair(b, e)
    BY <1>2 DEF Relinked, Grown, pair
  <2>4. signed' = signed
    BY <1>2 DEF Relinked
  <2> QED
    BY <1>1, <2>1, <2>2, <2>3, <2>4
<1>3. ASSUME NEW a \in ContractAddress, NEW x \in EthAddress, Cancelled(a, x)
      PROVE  /\ signed' = signed /\ current(e)' = current(e)
             /\ ethereum_nonce' = ethereum_nonce
             /\ \A b \in ContractAddress : pair(b, e)' >= pair(b, e)
  <2>1. \A b \in ContractAddress :
           pair(b, e)' = IF b = a /\ e = x THEN pair(b, e) + 1 ELSE pair(b, e)
    BY <1>3 DEF Cancelled, pair
  <2> QED
    BY <1>1, <1>3, <2>1 DEF Cancelled, current
<1>4. CASE Quiet /\ signed \subseteq signed'
  BY <1>1, <1>4 DEF Quiet, pair, current
<1> QED
  BY <1>1, <1>2, <1>3, <1>4, StepKinds, RequestFields

\* Nothing that the session watches has changed.
Undisturbed ==
    /\ current(eth)' = current(eth)
    /\ ethereum_nonce'[eth] = ethereum_nonce[eth]
    /\ \A a \in watched : pair(a, eth)' = pair(a, eth)

LEMMA DisturbsMeans ==
    ASSUME Expecting, ExpectedOK, UNCHANGED session
    PROVE  Disturbs <=> ~Undisturbed
<1>1. DOMAIN expected.pairs = watched
  BY DEF ExpectedOK
<1>2. expected' = expected /\ eth' = eth /\ watched' = watched
  BY DEF session, eth, watched, found, prepared_current
<1>3. Disturbs <=> association(eth, watched) # association(eth, watched)'
  BY <1>1, <1>2 DEF Disturbs, association
<1>4. association(eth, watched) = association(eth, watched)' <=> Undisturbed
  <2> DEFINE before == [a \in watched |-> pair(a, eth)]
             after == [a \in watched |-> pair(a, eth)']
  <2>1. association(eth, watched)' =
           [current |-> current(eth)', ethereum_nonce |-> ethereum_nonce'[eth],
            pairs |-> after]
    BY <1>2 DEF association
  <2>2. before = after <=> \A a \in watched : pair(a, eth)' = pair(a, eth)
    OBVIOUS
  <2> HIDE DEF before, after
  <2>3. association(eth, watched) =
           [current |-> current(eth), ethereum_nonce |-> ethereum_nonce[eth],
            pairs |-> before]
    BY DEF association, before
  <2> QED
    BY <2>1, <2>2, <2>3 DEF Undisturbed
<1> QED
  BY <1>3, <1>4

\* The pairs whose nonces the call advances, as the registry is now.
retired ==
    (IF current(eth) # ZeroAccount THEN {current(eth)} ELSE {})
        \cup (IF call.kind \in {"link", "move"} THEN {call.account_address} ELSE {})

\* What the call does to its address.
Takes ==
    /\ ethereum_nonce'[eth] = ethereum_nonce[eth] + 1
    /\ current(eth)' =
         IF call.kind \in {"link", "move"} THEN call.account_address ELSE ZeroAccount
    /\ \A a \in ContractAddress :
          pair(a, eth)' = IF a \in retired THEN pair(a, eth) + 1 ELSE pair(a, eth)

LEMMA PerformLink ==
    ASSUME IInv, CallOK, NEW who \in ContractAddress, call.kind = "link", link(who, call),
           call' = call
    PROVE  /\ Takes /\ current(eth) = found /\ who = destination
           /\ ethereum_nonce[eth] = call.ethereum_nonce
           /\ pair(destination, eth) = call.recipient_nonce
<1>1. /\ TypeOK /\ eth \in EthAddress /\ call.account_address = destination
      /\ destination \in ContractAddress /\ eth' = eth /\ found = ZeroAccount
  BY CallFields DEF IInv, CallOK, eth
<1>2. /\ current(eth) = ZeroAccount /\ who = call.account_address
      /\ ethereum_nonce[eth] = call.ethereum_nonce
      /\ pair(call.account_address, eth) = call.recipient_nonce
  BY DEF link, link_checks, check_signed, check_recipient, eth, pair
<1>3. recipient_nonce' =
         [recipient_nonce EXCEPT ![<<destination, eth>>] = call.recipient_nonce + 1]
  BY <1>1 DEF link, advance_recipient, next_nonce, eth
<1>4. ethereum_nonce' = [ethereum_nonce EXCEPT ![eth] = call.ethereum_nonce + 1]
  BY DEF link, advance_ethereum, next_nonce, eth
<1>5. current(eth)' = call.account_address
  BY <1>1 DEF link, insert, current, eth, TypeOK, Members
<1>6. \A a \in ContractAddress :
         pair(a, eth)' = IF a = destination THEN pair(a, eth) + 1 ELSE pair(a, eth)
  BY <1>1, <1>2, <1>3 DEF pair, TypeOK
<1>7. retired = {destination}
  BY <1>1, <1>2 DEF retired
<1> QED
  BY <1>1, <1>2, <1>4, <1>5, <1>6, <1>7 DEF Takes, TypeOK

LEMMA PerformMove ==
    ASSUME IInv, CallOK, NEW who \in ContractAddress, call.kind = "move", move(who, call),
           call' = call
    PROVE  /\ Takes /\ current(eth) = found /\ who = destination
           /\ ethereum_nonce[eth] = call.ethereum_nonce
           /\ pair(destination, eth) = call.recipient_nonce
<1>1. /\ TypeOK /\ eth \in EthAddress /\ call.account_address = destination
      /\ destination \in ContractAddress /\ eth' = eth
      /\ found = call.previous_account_address
      /\ found \in ContractAddress \ {ZeroAccount, destination}
  BY CallFields DEF IInv, CallOK, eth
<1>2. /\ current(eth) = found /\ who = call.account_address
      /\ ethereum_nonce[eth] = call.ethereum_nonce
      /\ pair(call.account_address, eth) = call.recipient_nonce
  BY <1>1 DEF move, move_checks, check_signed, check_recipient, eth, pair
<1>3. recipient_nonce' =
         [[recipient_nonce EXCEPT ![<<found, eth>>] = recipient_nonce[<<found, eth>>] + 1]
            EXCEPT ![<<destination, eth>>] = call.recipient_nonce + 1]
  BY <1>1 DEF move, advance_recipient, next_nonce, eth
<1>4. ethereum_nonce' = [ethereum_nonce EXCEPT ![eth] = call.ethereum_nonce + 1]
  BY DEF move, advance_ethereum, next_nonce, eth
<1>5. current(eth)' = call.account_address
  <2>1. members'.ethereum_to_starknet =
           [[members.ethereum_to_starknet EXCEPT ![eth] = ZeroAccount]
              EXCEPT ![eth] = call.account_address]
    BY DEF move, insert, remove, eth
  <2>2. members.ethereum_to_starknet \in [EthAddress -> ContractAddress]
    BY <1>1 DEF TypeOK, Members
  <2> QED
    BY <1>1, <2>1, <2>2 DEF current
<1>6. \A a \in ContractAddress :
         pair(a, eth)' = IF a \in {found, destination} THEN pair(a, eth) + 1 ELSE pair(a, eth)
  <2>1. recipient_nonce \in [ContractAddress \X EthAddress -> Nonce]
    BY <1>1 DEF TypeOK
  <2> QED
    BY <1>1, <1>2, <1>3, <2>1 DEF pair
<1>7. retired = {found, destination}
  BY <1>1, <1>2 DEF retired
<1> QED
  BY <1>1, <1>2, <1>4, <1>5, <1>6, <1>7 DEF Takes, TypeOK

LEMMA PerformDrop ==
    ASSUME IInv, CallOK, NEW operation, drop(eth, current(eth), operation),
           call.kind \in {"revoke", "unlink"}, current(eth) # ZeroAccount, call' = call
    PROVE  Takes
<1>1. /\ TypeOK /\ eth \in EthAddress /\ current(eth) \in ContractAddress /\ eth' = eth
  BY CallFields DEF IInv, CallOK, eth, TypeOK, Members, current
<1>2. recipient_nonce' =
         [recipient_nonce EXCEPT
            ![<<current(eth), eth>>] = recipient_nonce[<<current(eth), eth>>] + 1]
  BY DEF drop, advance_recipient, next_nonce
<1>3. ethereum_nonce' = [ethereum_nonce EXCEPT ![eth] = ethereum_nonce[eth] + 1]
  BY DEF drop, advance_ethereum, next_nonce
<1>4. current(eth)' = ZeroAccount
  BY <1>1 DEF drop, remove, current, TypeOK, Members
<1>5. \A a \in ContractAddress :
         pair(a, eth)' = IF a = current(eth) THEN pair(a, eth) + 1 ELSE pair(a, eth)
  <2> HIDE DEF current
  <2>1. recipient_nonce \in [ContractAddress \X EthAddress -> Nonce]
    BY <1>1 DEF TypeOK
  <2> QED
    BY <1>1, <1>2, <2>1 DEF pair
<1>6. retired = {current(eth)}
  BY DEF retired
<1> QED
  BY <1>1, <1>3, <1>4, <1>5, <1>6 DEF Takes, TypeOK

LEMMA PerformRevoke ==
    ASSUME IInv, CallOK, call.kind = "revoke",
           revoke_unlinked(call) \/ revoke_linked(call), call' = call
    PROVE  /\ Takes /\ current(eth) = found
           /\ ethereum_nonce[eth] = call.ethereum_nonce
<1>1. /\ TypeOK /\ eth \in EthAddress /\ eth' = eth /\ found = call.current_account_address
  BY CallFields DEF IInv, CallOK, eth
<1>2. /\ current(eth) = call.current_account_address
      /\ ethereum_nonce[eth] = call.ethereum_nonce
  BY DEF revoke_unlinked, revoke_linked, revoke_checks, check_signed, eth
<1>3. CASE revoke_linked(call)
  BY <1>1, <1>2, <1>3, PerformDrop DEF revoke_linked, eth
<1>4. CASE revoke_unlinked(call)
  <2>1. /\ ethereum_nonce' = [ethereum_nonce EXCEPT ![eth] = ethereum_nonce[eth] + 1]
        /\ current(eth) = ZeroAccount
    BY <1>2, <1>4 DEF revoke_unlinked, advance_ethereum, next_nonce, eth
  <2>2. members' = members /\ recipient_nonce' = recipient_nonce
    BY <1>4 DEF revoke_unlinked
  <2>3. retired = {}
    BY <2>1 DEF retired
  <2>4. current(eth)' = ZeroAccount /\ \A a \in ContractAddress : pair(a, eth)' = pair(a, eth)
    BY <1>1, <2>1, <2>2 DEF current, pair
  <2> QED
    BY <1>1, <1>2, <2>1, <2>3, <2>4 DEF Takes, TypeOK
<1> QED
  BY <1>3, <1>4

\* What is included is what was found, unless the owner of an unlinked address
\* is not the account that was found.
LEMMA Performed ==
    ASSUME IInv, CallOK, caller \in ContractAddress, perform(caller), call' = call,
           call.kind # "invalidate_pending_incoming"
    PROVE  /\ Takes
           /\ call.kind \in SignedKind =>
                 current(eth) = found /\ ethereum_nonce[eth] = call.ethereum_nonce
           /\ call.kind \in {"link", "move"} => pair(destination, eth) = call.recipient_nonce
           /\ Switched => call.kind = "unlink" /\ current(eth) # found
<1>1. CASE call.kind = "link"
  BY <1>1, PerformLink DEF perform, SignedKind, Switched
<1>2. CASE call.kind = "move"
  BY <1>2, PerformMove DEF perform, SignedKind, Switched
<1>3. CASE call.kind = "revoke"
  BY <1>3, PerformRevoke DEF perform, SignedKind, Switched
<1>4. CASE call.kind = "unlink"
  <2>1. unlink(caller, eth) /\ found = destination
    BY <1>4, CallFields DEF perform
  <2>2. caller = current(eth) /\ current(eth) # ZeroAccount /\ drop(eth, current(eth), 3)
    BY <2>1 DEF unlink, unlink_checks
  <2> QED
    BY <1>4, <2>1, <2>2, PerformDrop DEF SignedKind, Switched
<1> QED
  BY <1>1, <1>2, <1>3, <1>4, CallFields DEF SignedKind

-----------------------------------------------------------------------------
(* Each step of the session keeps the invariant.                           *)

SessionIInv == IInv /\ SessionInv

\* The session's own calls are calls of the contract.
LEMMA SessionCalls ==
    ASSUME IInv, SubmissionOK, [NextSession]_allvars
    PROVE  [Next]_vars
<1>1. ASSUME Include PROVE Next
  <2>1. CallOK /\ caller \in ContractAddress /\ perform(caller) /\ eth \in EthAddress
    BY <1>1, CallFields DEF Include, SubmissionOK
  <2>2. call \in signed => call \in Requests
    BY RequestAssumption DEF IInv, TypeOK, Signable
  <2>3. CASE link(caller, call) \/ move(caller, call)
    BY <2>1, <2>2, <2>3 DEF link, link_checks, move, move_checks, verify, Next
  <2>4. CASE revoke_unlinked(call) \/ revoke_linked(call)
    BY <2>2, <2>4 DEF revoke_unlinked, revoke_linked, revoke_checks, verify, Next
  <2>5. CASE unlink(caller, eth) \/ invalidate_pending_incoming(caller, eth)
    BY <2>1, <2>5 DEF Next
  <2> QED
    BY <2>1, <2>3, <2>4, <2>5 DEF perform
<1>2. CASE NextSession /\ ~Include
  BY <1>2 DEF NextSession, Prepare, UnsignedSubmit, Validate, ValidateFails,
     ValidateTooLarge, Simulate, SimulateFails, Execute, ExecuteFails, Revert, WaitFails,
     Seal, Readback, ReadbackFails, Others
<1> QED
  BY <1>1, <1>2 DEF allvars

LEMMA PrepareKeeps ==
    ASSUME SessionIInv, NEW operation \in SignedKind, NEW e \in EthAddress,
           NEW a \in ContractAddress, NEW deadline \in Time,
           Prepare(operation, e, a, deadline)
    PROVE  SessionInv'
<1>1. /\ stage = "idle" /\ stage' = "prepared" /\ destination' = a /\ a # ZeroAccount
      /\ e # ZeroEth /\ deadline # 0 /\ deadline \in Nat
      /\ UNCHANGED <<caller, result, interfered>>
      /\ call' = requested(operation, e, a, deadline)
  BY DEF Prepare, Time
<1>2. /\ ethereum_nonce[e] \in Nonce /\ pair(a, e) \in Nonce /\ current(e) \in ContractAddress
  BY DEF SessionIInv, IInv, TypeOK, Members, pair, current
<1>3. /\ call'.kind = operation /\ call'.ethereum_address = e /\ call'.deadline = deadline
      /\ \/ call' \in LinkRequest /\ call'.account_address = a
         \/ /\ call' \in MoveRequest /\ call'.account_address = a
            /\ call'.previous_account_address \notin {ZeroAccount, a}
         \/ call' \in RevokeRequest
  <2>1. CASE operation = "link"
    BY <1>1, <1>2, <2>1 DEF requested, LinkRequest
  <2>2. CASE operation = "move"
    <3>1. current(e) \notin {ZeroAccount, a}
      BY <2>2 DEF Prepare
    <3> QED
      BY <1>1, <1>2, <2>2, <3>1 DEF requested, MoveRequest
  <2>3. CASE operation = "revoke"
    BY <1>1, <1>2, <2>3 DEF requested, RevokeRequest
  <2> QED
    BY <2>1, <2>2, <2>3 DEF SignedKind
<1>4. CallOK'
  BY <1>1, <1>3 DEF CallOK, eth
<1>5. SubmissionOK'
  BY <1>1, <1>4 DEF SessionIInv, SessionInv, SubmissionOK
<1>6. result' = NoResult
  BY <1>1 DEF SessionIInv, SessionInv, Told
<1> QED
  BY <1>1, <1>5, <1>6, ResultAssumption
  DEF SessionInv, ExpectedOK, Expecting, BeforeCall, AfterCall, Told, MismatchExplained,
      MatchedIsOurs, Outcome

LEMMA UnsignedSubmitKeeps ==
    ASSUME SessionIInv, NEW cancel \in BOOLEAN, NEW e \in EthAddress,
           NEW a \in ContractAddress, UnsignedSubmit(cancel, e, a)
    PROVE  SessionInv'
<1>1. /\ stage = "idle" /\ stage' = "validated" /\ destination' = a /\ a # ZeroAccount
      /\ e # ZeroEth /\ (~cancel => current(e) = a)
      /\ UNCHANGED <<vars, caller, result, interfered>>
      /\ call' = [kind |-> IF cancel THEN "invalidate_pending_incoming" ELSE "unlink",
                  ethereum_address |-> e]
      /\ expected' = unsignedEffect(cancel, e, a) /\ fits(unsignedEffect(cancel, e, a))
  BY DEF UnsignedSubmit
<1>2. /\ ethereum_nonce[e] \in Nat /\ pair(a, e) \in Nat
  BY NoncesAreNaturals DEF SessionIInv, IInv, pair
<1>3. /\ call'.kind = IF cancel THEN "invalidate_pending_incoming" ELSE "unlink"
      /\ call'.ethereum_address = e /\ call' \in UnsignedCall
  BY <1>1 DEF UnsignedCall
<1>4. eth' = e /\ watched' = {a} /\ (~cancel => found' = a)
  BY <1>1, <1>3 DEF eth, watched, found
<1>5. SubmissionOK' /\ interfered' = FALSE
  <2>1. CallOK'
    BY <1>1, <1>3, <1>4 DEF CallOK, SignedKind
  <2>2. SubmissionOK /\ interfered = FALSE
    BY <1>1 DEF SessionIInv, SessionInv, SubmissionOK
  <2> QED
    BY <1>1, <2>1, <2>2 DEF SubmissionOK
<1>6. result' = NoResult
  BY <1>1 DEF SessionIInv, SessionInv, Told
<1>7. /\ expected'.current = IF cancel THEN current(e) ELSE ZeroAccount
      /\ expected'.ethereum_nonce = ethereum_nonce[e] + (IF cancel THEN 0 ELSE 1)
      /\ expected'.pairs = [b \in {a} |-> next_nonce(pair(a, e))]
      /\ expected' = [current |-> expected'.current,
                      ethereum_nonce |-> expected'.ethereum_nonce,
                      pairs |-> [b \in {a} |-> expected'.pairs[b]]]
  BY <1>1 DEF unsignedEffect
<1>8. expected'.pairs[a] = pair(a, e) + 1
  BY <1>7 DEF next_nonce
<1>9. ExpectedOK'
  BY <1>1, <1>2, <1>3, <1>4, <1>7, <1>8 DEF ExpectedOK, fits, SignedKind
<1>10. /\ current(e)' = current(e) /\ ethereum_nonce' = ethereum_nonce
       /\ \A b : pair(b, e)' = pair(b, e)
  BY <1>1 DEF vars, current, pair
<1>11. BeforeCall'
  <2>1. /\ current(eth)' = current(e) /\ ethereum_nonce'[eth'] = ethereum_nonce[e]
        /\ pair(a, eth)' = pair(a, e)
    BY <1>4, <1>10 DEF current, pair
  <2>2. CASE cancel
    BY <1>1, <1>2, <1>3, <1>7, <1>8, <2>1, <2>2 DEF BeforeCall
  <2>3. CASE ~cancel
    <3>1. Reach(1)' /\ ~Passed(1)'
      BY <1>2, <1>4, <1>8, <2>1 DEF Reach, Passed
    <3> QED
      BY <1>1, <1>2, <1>3, <1>4, <1>5, <1>7, <2>1, <2>3, <3>1 DEF BeforeCall
  <2> QED
    BY <2>2, <2>3
<1> QED
  BY <1>1, <1>5, <1>6, <1>9, <1>11, ResultAssumption
  DEF SessionInv, AfterCall, Told, MismatchExplained, MatchedIsOurs, Outcome

LEMMA ValidateKeeps ==
    ASSUME SessionIInv, Validate
    PROVE  SessionInv'
<1>1. /\ stage = "prepared" /\ stage' = "validated"
      /\ still_current /\ fits(signedEffect(call)) /\ expected' = signedEffect(call)
      /\ UNCHANGED <<vars, call, destination, caller, result, interfered>>
  BY DEF Validate
<1>2. CallOK /\ call.kind \in SignedKind /\ interfered = FALSE
  BY <1>1 DEF SessionIInv, SessionInv, SubmissionOK, CallOK
<1>3. /\ ethereum_nonce[eth] \in Nat /\ \A a \in watched : pair(a, eth) \in Nat
  BY <1>2, CallFields, WatchedAccounts, NoncesAreNaturals DEF SessionIInv, IInv, pair
<1>4. /\ current(eth) = found /\ ethereum_nonce[eth] = call.ethereum_nonce
      /\ call.kind \in {"link", "move"} => pair(destination, eth) = call.recipient_nonce
  BY <1>1, <1>2, CallFields DEF still_current, found, SignedKind
<1>5. advanced_pairs(call) = watched
  BY <1>2, <1>4, CallFields DEF advanced_pairs, watched, SignedKind, eth
<1>6. /\ expected'.current =
           IF call.kind \in {"link", "move"} THEN destination ELSE ZeroAccount
      /\ expected'.ethereum_nonce = ethereum_nonce[eth] + 1
      /\ expected'.pairs = [a \in watched |-> pair(a, eth) + 1]
      /\ expected' = [current |-> expected'.current,
                      ethereum_nonce |-> expected'.ethereum_nonce,
                      pairs |-> [a \in watched |-> expected'.pairs[a]]]
  BY <1>1, <1>2, <1>5, CallFields DEF signedEffect, next_nonce, SignedKind, eth
<1>7. \A a \in watched : expected'.pairs[a] = pair(a, eth) + 1
  BY <1>6
<1>8. eth' = eth /\ watched' = watched /\ found' = found
  BY <1>1 DEF eth, watched, found, prepared_current
<1>9. SubmissionOK'
  BY <1>1, <1>2, <1>8 DEF SessionIInv, SessionInv, SubmissionOK, CallOK, vars
<1>10. destination \in watched \/ call.kind \notin {"link", "move"}
  BY <1>2, CallFields DEF watched
<1>11. fits(expected)'
  BY <1>1 DEF fits
<1>12. ExpectedOK'
  BY <1>1, <1>2, <1>3, <1>4, <1>6, <1>7, <1>8, <1>10, <1>11 DEF ExpectedOK, SignedKind
<1>13. /\ current(eth)' = current(eth) /\ ethereum_nonce' = ethereum_nonce
       /\ \A a : pair(a, eth)' = pair(a, eth)
  BY <1>1, <1>8 DEF vars, current, pair
<1>14. BeforeCall'
  BY <1>1, <1>2, <1>3, <1>4, <1>6, <1>7, <1>8, <1>13
  DEF BeforeCall, Reach, Passed, SignedKind
<1>15. result' = NoResult
  BY <1>1 DEF SessionIInv, SessionInv, Told
<1> QED
  BY <1>1, <1>9, <1>12, <1>14, <1>15, ResultAssumption
  DEF SessionInv, AfterCall, Told, MismatchExplained, MatchedIsOurs, Outcome

\* The client moves on, and the registry stays as it is.
LEMMA AdvanceKeeps ==
    ASSUME SessionIInv, UNCHANGED <<vars, call, destination, expected, result, interfered>>,
           \/ /\ stage = "validated" /\ stage' = "simulated" /\ caller' = caller
              /\ call.kind \in SignedKind => call \in signed
           \/ stage = "simulated" /\ stage' = "sent" /\ caller' \in ContractAddress
    PROVE  SessionInv'
<1>1. /\ eth' = eth /\ watched' = watched /\ found' = found
      /\ current(eth)' = current(eth) /\ ethereum_nonce'[eth'] = ethereum_nonce[eth]
      /\ \A a : pair(a, eth)' = pair(a, eth)
  BY DEF eth, watched, found, prepared_current, current, pair, vars
<1>2. CallOK /\ SubmissionOK /\ ExpectedOK /\ BeforeCall /\ result = NoResult
  BY DEF SessionIInv, SessionInv, SubmissionOK, Told
<1>3. CallOK'
  BY <1>1, <1>2 DEF CallOK, vars
<1>4. SubmissionOK'
  BY <1>2, <1>3 DEF SubmissionOK
<1>5. ExpectedOK'
  BY <1>1, <1>2 DEF ExpectedOK, Expecting, fits
<1>6. (Reach(1)' <=> Reach(1)) /\ (Passed(1)' <=> Passed(1))
  BY <1>1 DEF Reach, Passed
<1>7. BeforeCall'
  BY <1>1, <1>2, <1>6 DEF BeforeCall
<1> QED
  BY <1>2, <1>4, <1>5, <1>7, ResultAssumption
  DEF SessionInv, AfterCall, Told, MismatchExplained, MatchedIsOurs, Outcome

LEMMA SimulateKeeps == ASSUME SessionIInv, Simulate PROVE SessionInv'
<1>1. call.kind \in SignedKind => call \in signed
  BY DEF Simulate, succeeds, link_checks, move_checks, revoke_checks, verify, SignedKind
<1> QED
  BY <1>1, AdvanceKeeps DEF Simulate

LEMMA ExecuteKeeps ==
    ASSUME SessionIInv, NEW a \in ContractAddress, Execute(a)
    PROVE  SessionInv'
  BY AdvanceKeeps DEF Execute

\* The caller is told how it ended.
LEMMA EndKeeps ==
    ASSUME SessionIInv, NEW outcome \in Outcome, End(outcome), stage # "idle",
           UNCHANGED <<vars, interfered>>,
           outcome = "mismatch" => interfered \/ Switched,
           outcome = "matched" /\ call.kind # "invalidate_pending_incoming" =>
               ~interfered /\ ~Switched
    PROVE  SessionInv'
<1>1. /\ stage' = "ended" /\ result' = outcome
      /\ UNCHANGED <<call, destination, caller, interfered, signed>>
  BY DEF End, vars
<1>2. SubmissionOK'
  <2>1. CallOK /\ SubmissionOK
    BY DEF SessionIInv, SessionInv, SubmissionOK
  <2>2. CallOK'
    BY <1>1, <2>1 DEF CallOK, eth
  <2> QED
    BY <1>1, <2>1, <2>2 DEF SubmissionOK
<1>3. Switched' <=> Switched
  BY <1>1 DEF Switched
<1>4. Told'
  BY <1>1, <1>3 DEF Told, MismatchExplained, MatchedIsOurs
<1> QED
  BY <1>1, <1>2, <1>4 DEF SessionInv, ExpectedOK, Expecting, BeforeCall, AfterCall

LEMMA EndingsKeep ==
    ASSUME SessionIInv,
           \/ ValidateFails \/ ValidateTooLarge \/ SimulateFails \/ ExecuteFails \/ Revert
           \/ WaitFails \/ Readback \/ ReadbackFails
    PROVE  SessionInv'
<1>1. ASSUME NEW outcome \in Outcome \ {"matched", "mismatch"}, End(outcome),
             stage # "idle", UNCHANGED <<vars, interfered>>
      PROVE  SessionInv'
  BY <1>1, EndKeeps
<1>2. CASE ValidateFails \/ ValidateTooLarge \/ SimulateFails \/ ExecuteFails \/ Revert
             \/ WaitFails \/ ReadbackFails
  BY <1>1, <1>2 DEF ValidateFails, ValidateTooLarge, SimulateFails, ExecuteFails, Revert,
     WaitFails, ReadbackFails, Outcome
<1>3. CASE Readback
  <2>1. stage = "sealed" /\ UNCHANGED <<vars, interfered>> /\ Agrees
    BY <1>3 DEF Readback, SessionIInv, SessionInv, Told
  <2>2. CASE as_expected /\ End("matched")
    BY <2>1, <2>2, EndKeeps DEF Agrees, Outcome
  <2>3. CASE ~as_expected /\ End("mismatch")
    BY <2>1, <2>3, EndKeeps DEF Agrees, Outcome
  <2> QED
    BY <1>3, <2>2, <2>3 DEF Readback
<1> QED
  BY <1>2, <1>3

\* The record that the session compares.
LEMMA AsExpected ==
    ASSUME ExpectedOK, Expecting
    PROVE  association(eth, watched) = expected <=>
             /\ current(eth) = expected.current
             /\ ethereum_nonce[eth] = expected.ethereum_nonce
             /\ \A a \in watched : pair(a, eth) = expected.pairs[a]
<1> DEFINE seen == [a \in watched |-> pair(a, eth)]
           wanted == [a \in watched |-> expected.pairs[a]]
<1>1. seen = wanted <=> \A a \in watched : pair(a, eth) = expected.pairs[a]
  OBVIOUS
<1> HIDE DEF seen, wanted
<1>2. association(eth, watched) =
         [current |-> current(eth), ethereum_nonce |-> ethereum_nonce[eth], pairs |-> seen]
  BY DEF association, seen
<1>3. expected = [current |-> expected.current,
                  ethereum_nonce |-> expected.ethereum_nonce, pairs |-> wanted]
  BY DEF ExpectedOK, wanted
<1> QED
  BY <1>1, <1>2, <1>3

LEMMA SealKeeps == ASSUME SessionIInv, Seal PROVE SessionInv'
<1>1. /\ stage = "included" /\ stage' = "sealed"
      /\ observed' = association(eth, DOMAIN expected.pairs)
      /\ UNCHANGED <<vars, call, destination, expected, caller, result, interfered>>
  BY DEF Seal
<1>2. /\ CallOK /\ SubmissionOK /\ ExpectedOK /\ Expecting /\ AfterCall /\ result = NoResult
  BY <1>1 DEF SessionIInv, SessionInv, SubmissionOK, Told, Expecting
<1>3. DOMAIN expected.pairs = watched
  BY <1>2 DEF ExpectedOK
<1>4. /\ eth' = eth /\ watched' = watched /\ found' = found /\ (Switched' <=> Switched)
      /\ signed' = signed
  BY <1>1 DEF eth, watched, found, prepared_current, Switched, vars
<1>5. as_expected' <=> association(eth, watched) = expected
  BY <1>1, <1>3 DEF as_expected
<1>6. /\ ~interfered /\ ~Switched => as_expected'
      /\ as_expected' /\ call.kind # "invalidate_pending_incoming" =>
            ~interfered /\ ~Switched
  <2>1. CASE call.kind = "invalidate_pending_incoming"
    BY <1>1, <1>2, <1>5, <2>1, AsExpected DEF AfterCall, watched
  <2>2. CASE call.kind # "invalidate_pending_incoming"
    <3>1. /\ ethereum_nonce[eth] \in Nat /\ expected.ethereum_nonce \in Nat
          /\ \A a \in watched : pair(a, eth) \in Nat /\ expected.pairs[a] \in Nat
      BY <1>2, CallFields, WatchedAccounts, NoncesAreNaturals
      DEF SessionIInv, IInv, pair, ExpectedOK
    <3>2. CASE /\ interfered \/ Switched
               /\ ethereum_nonce[eth] > expected.ethereum_nonce
      BY <1>2, <1>5, <3>1, <3>2, AsExpected
    <3>3. CASE /\ ethereum_nonce[eth] = expected.ethereum_nonce
               /\ current(eth) = expected.current
               /\ Reach(0) /\ (interfered \/ Switched <=> Passed(0))
      <4>1. Passed(0) <=> ~(\A a \in watched : pair(a, eth) = expected.pairs[a])
        BY <3>1, <3>3 DEF Reach, Passed
      <4> QED
        BY <1>2, <1>5, <3>3, <4>1, AsExpected
    <3> QED
      BY <1>1, <1>2, <2>2, <3>2, <3>3 DEF AfterCall
  <2> QED
    BY <2>1, <2>2
<1>7. SubmissionOK'
  BY <1>1, <1>2, <1>4 DEF SubmissionOK, CallOK
<1>8. ExpectedOK'
  BY <1>1, <1>2, <1>4 DEF ExpectedOK, Expecting, fits
<1>9. Agrees'
  BY <1>1, <1>4, <1>6 DEF Agrees
<1> QED
  BY <1>1, <1>2, <1>7, <1>8, <1>9, ResultAssumption
  DEF SessionInv, BeforeCall, AfterCall, Told, MismatchExplained, MatchedIsOurs, Outcome

LEMMA IncludeKeeps == ASSUME SessionIInv, Include PROVE SessionInv'
<1>1. /\ stage = "sent" /\ stage' = "included" /\ perform(caller)
      /\ UNCHANGED <<call, destination, expected, caller, result, interfered>>
  BY DEF Include
<1>2. /\ IInv /\ CallOK /\ SubmissionOK /\ ExpectedOK /\ Expecting /\ BeforeCall
      /\ result = NoResult
  BY <1>1 DEF SessionIInv, SessionInv, SubmissionOK, Told, Expecting
<1>3. /\ eth' = eth /\ watched' = watched /\ (Switched' <=> Switched)
      /\ eth \in EthAddress /\ watched \subseteq ContractAddress
  BY <1>1, <1>2, CallFields, WatchedAccounts
  DEF eth, watched, found, prepared_current, Switched
<1>4. /\ ethereum_nonce[eth] \in Nat /\ expected.ethereum_nonce \in Nat
      /\ \A a \in watched : pair(a, eth) \in Nat /\ expected.pairs[a] \in Nat
  BY <1>2, <1>3, NoncesAreNaturals DEF IInv, pair, ExpectedOK
<1>5. AfterCall'
  <2>1. ASSUME call.kind = "invalidate_pending_incoming", ~interfered, ~Switched
        PROVE  /\ current(eth)' = expected.current
               /\ ethereum_nonce'[eth] = expected.ethereum_nonce
               /\ pair(destination, eth)' = expected.pairs[destination]
    <3>1. invalidate_pending_incoming(destination, eth) /\ destination \in ContractAddress
      BY <1>1, <1>2, <2>1 DEF perform, Switched, CallOK
    <3>2. /\ UNCHANGED <<members, ethereum_nonce>>
          /\ recipient_nonce' = [recipient_nonce EXCEPT
                ![<<destination, eth>>] = recipient_nonce[<<destination, eth>>] + 1]
      BY <3>1 DEF invalidate_pending_incoming, advance_recipient, next_nonce
    <3>3. recipient_nonce \in [ContractAddress \X EthAddress -> Nonce]
      BY <1>2 DEF IInv, TypeOK
    <3>4. pair(destination, eth)' = pair(destination, eth) + 1
      <4>1. recipient_nonce'[<<destination, eth>>] = recipient_nonce[<<destination, eth>>] + 1
        BY <1>3, <3>1, <3>2, <3>3
      <4>2. pair(destination, eth)' = recipient_nonce'[<<destination, eth>>]
        BY <1>1, <1>3 DEF pair
      <4> QED
        BY <4>1, <4>2 DEF pair
    <3> QED
      BY <1>1, <1>2, <1>3, <2>1, <3>2, <3>4 DEF BeforeCall, current
  <2>2. CASE call.kind # "invalidate_pending_incoming"
    <3>1. /\ Takes /\ (Switched => current(eth) # found)
      BY <1>1, <1>2, <2>2, Performed DEF SubmissionOK
    <3>2. ethereum_nonce'[eth] = ethereum_nonce[eth] + 1
      BY <3>1 DEF Takes
    <3>3. CASE interfered /\ ethereum_nonce[eth] >= expected.ethereum_nonce
      <4>1. ethereum_nonce'[eth] > expected.ethereum_nonce
        BY <1>4, <3>2, <3>3
      <4> QED
        BY <1>1, <1>3, <2>2, <3>3, <4>1 DEF AfterCall
    <3>4. CASE /\ ethereum_nonce[eth] + 1 = expected.ethereum_nonce
               /\ current(eth) = found
               /\ Reach(1) /\ (interfered <=> Passed(1))
      <4>1. retired = watched
        BY <2>2, <3>4 DEF retired, watched
      <4>2. \A a \in watched : pair(a, eth)' = pair(a, eth) + 1
        BY <1>3, <3>1, <4>1 DEF Takes
      <4>3. Reach(0)' /\ (Passed(0)' <=> Passed(1))
        BY <1>1, <1>3, <1>4, <3>4, <4>2 DEF Reach, Passed
      <4>4. current(eth)' = expected.current
        BY <1>2, <2>2, <3>1, CallFields DEF Takes, ExpectedOK
      <4> QED
        BY <1>1, <1>3, <2>2, <3>1, <3>2, <3>4, <4>3, <4>4 DEF AfterCall
    <3> QED
      BY <1>1, <1>2, <2>2, <3>3, <3>4 DEF BeforeCall
  <2> QED
    BY <1>1, <1>3, <2>1, <2>2 DEF AfterCall
<1>6. SubmissionOK'
  BY <1>1, <1>2, <1>3 DEF SubmissionOK, CallOK
<1>7. ExpectedOK'
  BY <1>1, <1>2, <1>3 DEF ExpectedOK, Expecting, fits
<1> QED
  BY <1>1, <1>2, <1>5, <1>6, <1>7, ResultAssumption
  DEF SessionInv, BeforeCall, Told, MismatchExplained, MatchedIsOurs, Outcome

\* How a step of somebody else moves the registry, seen from the expectation.
LEMMA Drift ==
    ASSUME IInv, [Next]_vars, CallOK, ExpectedOK, Expecting, UNCHANGED session
    PROVE  /\ ethereum_nonce'[eth] # ethereum_nonce[eth] =>
                 Disturbs /\ ethereum_nonce'[eth] > ethereum_nonce[eth]
           /\ \A steps \in {0, 1} :
                 ethereum_nonce'[eth] = ethereum_nonce[eth] /\ Reach(steps) =>
                    /\ current(eth)' = current(eth)
                    /\ Reach(steps)'
                    /\ Passed(steps)' <=> Passed(steps) \/ Disturbs
<1>1. /\ eth' = eth /\ watched' = watched /\ expected' = expected
      /\ eth \in EthAddress /\ watched \subseteq ContractAddress
  BY CallFields, WatchedAccounts DEF session, eth, watched, found, prepared_current
<1>2. /\ ethereum_nonce[eth] \in Nat /\ \A a \in watched : pair(a, eth) \in Nat
      /\ \A a \in watched : expected.pairs[a] \in Nat
  BY <1>1, NoncesAreNaturals DEF IInv, pair, ExpectedOK
<1>3. /\ ethereum_nonce'[eth] >= ethereum_nonce[eth]
      /\ \A a \in watched : pair(a, eth)' >= pair(a, eth)
      /\ ethereum_nonce'[eth] = ethereum_nonce[eth] => current(eth)' = current(eth)
  <2>1. \A e \in EthAddress :
           /\ ethereum_nonce'[e] >= ethereum_nonce[e]
           /\ \A a \in ContractAddress : pair(a, e)' >= pair(a, e)
           /\ ethereum_nonce'[e] = ethereum_nonce[e] => current(e)' = current(e)
    BY NoncesGrow
  <2> QED
    BY <1>1, <2>1 DEF pair, current
<1>4. /\ ethereum_nonce'[eth] \in Nat /\ \A a \in watched : pair(a, eth)' \in Nat
  <2>1. TypeOK'
    BY NextIInv DEF IInv
  <2> QED
    BY <1>1, <2>1 DEF TypeOK, Nonce, pair
<1>5. Disturbs <=> ~Undisturbed
  BY DisturbsMeans
<1>6. ASSUME ethereum_nonce'[eth] # ethereum_nonce[eth]
      PROVE  Disturbs /\ ethereum_nonce'[eth] > ethereum_nonce[eth]
  BY <1>2, <1>3, <1>4, <1>5, <1>6 DEF Undisturbed
<1>7. ASSUME NEW steps \in {0, 1}, ethereum_nonce'[eth] = ethereum_nonce[eth], Reach(steps)
      PROVE  Reach(steps)' /\ (Passed(steps)' <=> Passed(steps) \/ Disturbs)
  <2>1. Undisturbed <=> \A a \in watched : pair(a, eth)' = pair(a, eth)
    BY <1>3, <1>7 DEF Undisturbed
  <2>2. Reach(steps)' <=> \A a \in watched : pair(a, eth)' + steps >= expected.pairs[a]
    BY <1>1 DEF Reach
  <2>3. Passed(steps)' <=> \E a \in watched : pair(a, eth)' + steps > expected.pairs[a]
    BY <1>1 DEF Passed
  <2>4. \A a \in watched : pair(a, eth) + steps >= expected.pairs[a]
    BY <1>7 DEF Reach
  <2>5. Passed(steps) <=> \E a \in watched : pair(a, eth) + steps > expected.pairs[a]
    BY DEF Passed
  <2> QED
    BY <1>2, <1>3, <1>4, <1>5, <2>1, <2>2, <2>3, <2>4, <2>5
<1> QED
  BY <1>3, <1>6, <1>7

LEMMA OthersKeep == ASSUME SessionIInv, Others PROVE SessionInv'
<1>1. /\ stage # "ended" /\ [Next]_vars /\ UNCHANGED session
      /\ interfered' = (interfered \/ (Watching /\ Disturbs))
  BY DEF Others
<1>2. /\ IInv /\ SubmissionOK /\ ExpectedOK /\ BeforeCall /\ AfterCall /\ Told
      /\ result = NoResult
  BY <1>1 DEF SessionIInv, SessionInv, Told
<1>3. /\ UNCHANGED <<stage, call, destination, expected, caller, observed, result>>
      /\ eth' = eth /\ watched' = watched /\ found' = found /\ (Switched' <=> Switched)
  BY <1>1 DEF session, eth, watched, found, prepared_current, Switched
<1>4. SubmissionOK'
  <2>1. signed \subseteq signed'
    BY <1>1, <1>2, NoncesGrow, ZeroAssumption
  <2>2. stage # "idle" => CallOK'
    BY <1>2, <1>3, <2>1 DEF SubmissionOK, CallOK
  <2> QED
    BY <1>1, <1>2, <1>3, <2>2 DEF SubmissionOK, Watching
<1>5. ExpectedOK'
  BY <1>2, <1>3 DEF ExpectedOK, Expecting, fits
<1>6. CASE ~Watching
  <2>1. interfered' = interfered
    BY <1>1, <1>2, <1>6 DEF SubmissionOK
  <2>2. BeforeCall' /\ AfterCall'
    BY <1>3, <1>6 DEF BeforeCall, AfterCall, Watching
  <2>3. stage = "sealed" => Agrees'
    BY <1>2, <1>3, <2>1 DEF Told, Agrees, as_expected
  <2> QED
    BY <1>1, <1>2, <1>3, <1>4, <1>5, <2>2, <2>3, ResultAssumption
    DEF SessionInv, Told, MismatchExplained, MatchedIsOurs, Outcome
<1>7. CASE Watching
  <2>1. /\ Expecting /\ CallOK /\ interfered' = (interfered \/ Disturbs)
        /\ stage' \in {"validated", "simulated", "sent", "included"}
    BY <1>1, <1>2, <1>3, <1>7 DEF Watching, Expecting, SubmissionOK
  <2>2. /\ ethereum_nonce[eth] \in Nat /\ expected.ethereum_nonce \in Nat
        /\ eth \in EthAddress
    BY <1>2, <2>1, CallFields, NoncesAreNaturals DEF IInv, ExpectedOK
  <2>3. ethereum_nonce'[eth] \in Nat
    BY <1>1, <1>2, <2>2, NextIInv DEF IInv, TypeOK, Nonce
  <2>4. ethereum_nonce'[eth] # ethereum_nonce[eth] =>
           Disturbs /\ ethereum_nonce'[eth] > ethereum_nonce[eth]
    BY <1>1, <1>2, <2>1, Drift
  <2>5. \A steps \in {0, 1} :
           ethereum_nonce'[eth] = ethereum_nonce[eth] /\ Reach(steps) =>
              /\ current(eth)' = current(eth)
              /\ Reach(steps)'
              /\ Passed(steps)' <=> Passed(steps) \/ Disturbs
    BY <1>1, <1>2, <2>1, Drift
  <2>6. CASE call.kind = "invalidate_pending_incoming"
    <3>1. ~interfered' => Undisturbed /\ ~interfered
      BY <1>1, <1>2, <2>1, DisturbsMeans
    <3>2. destination \in watched
      BY <2>6 DEF watched
    <3>3. ~interfered' => /\ current(eth)' = current(eth)
                          /\ ethereum_nonce'[eth] = ethereum_nonce[eth]
                          /\ pair(destination, eth)' = pair(destination, eth)
      <4>1. Undisturbed => pair(destination, eth)' = pair(destination, eth)
        BY <1>3, <3>2 DEF Undisturbed, pair
      <4> QED
        BY <3>1, <4>1 DEF Undisturbed
    <3>4. BeforeCall'
      BY <1>2, <1>3, <2>6, <3>1, <3>3 DEF BeforeCall, pair
    <3>5. AfterCall'
      BY <1>2, <1>3, <2>6, <3>1, <3>3 DEF AfterCall, pair
    <3> QED
      BY <1>2, <1>3, <1>4, <1>5, <2>1, <3>4, <3>5, ResultAssumption
      DEF SessionInv, Told, MismatchExplained, MatchedIsOurs, Outcome
  <2>7. CASE call.kind # "invalidate_pending_incoming"
    <3>1. BeforeCall'
      <4>1. CASE interfered /\ ethereum_nonce[eth] >= expected.ethereum_nonce
        <5>1. interfered'
          BY <2>1, <4>1
        <5>2. ethereum_nonce'[eth] >= expected.ethereum_nonce
          BY <2>2, <2>3, <2>4, <4>1
        <5> QED
          BY <1>3, <2>7, <5>1, <5>2 DEF BeforeCall
      <4>2. CASE /\ ethereum_nonce[eth] + 1 = expected.ethereum_nonce
                 /\ current(eth) = found
                 /\ Reach(1) /\ (interfered <=> Passed(1))
        <5>1. CASE ethereum_nonce'[eth] = ethereum_nonce[eth]
          BY <1>3, <2>1, <2>5, <2>7, <4>2, <5>1 DEF BeforeCall
        <5>2. CASE ethereum_nonce'[eth] # ethereum_nonce[eth]
          <6>1. interfered'
            BY <2>1, <2>4, <5>2
          <6>2. ethereum_nonce'[eth] >= expected.ethereum_nonce
            BY <2>2, <2>3, <2>4, <4>2, <5>2
          <6> QED
            BY <1>3, <2>7, <6>1, <6>2 DEF BeforeCall
        <5> QED
          BY <5>1, <5>2
      <4> QED
        BY <1>2, <1>3, <2>7, <4>1, <4>2 DEF BeforeCall
    <3>2. AfterCall'
      <4>1. CASE /\ interfered \/ Switched
                 /\ ethereum_nonce[eth] > expected.ethereum_nonce
        <5>1. interfered' \/ Switched'
          BY <1>3, <2>1, <4>1
        <5>2. ethereum_nonce'[eth] > expected.ethereum_nonce
          BY <2>2, <2>3, <2>4, <4>1
        <5> QED
          BY <1>3, <2>7, <5>1, <5>2 DEF AfterCall
      <4>2. CASE /\ ethereum_nonce[eth] = expected.ethereum_nonce
                 /\ current(eth) = expected.current
                 /\ Reach(0) /\ (interfered \/ Switched <=> Passed(0))
        <5>1. CASE ethereum_nonce'[eth] = ethereum_nonce[eth]
          BY <1>3, <2>1, <2>5, <2>7, <4>2, <5>1 DEF AfterCall
        <5>2. CASE ethereum_nonce'[eth] # ethereum_nonce[eth]
          <6>1. interfered'
            BY <2>1, <2>4, <5>2
          <6>2. ethereum_nonce'[eth] > expected.ethereum_nonce
            BY <2>2, <2>3, <2>4, <4>2, <5>2
          <6> QED
            BY <1>3, <2>7, <6>1, <6>2 DEF AfterCall
        <5> QED
          BY <5>1, <5>2
      <4> QED
        BY <1>2, <1>3, <2>7, <4>1, <4>2 DEF AfterCall
    <3> QED
      BY <1>2, <1>3, <1>4, <1>5, <2>1, <3>1, <3>2, ResultAssumption
      DEF SessionInv, Told, MismatchExplained, MatchedIsOurs, Outcome
  <2> QED
    BY <2>6, <2>7
<1> QED
  BY <1>6, <1>7

LEMMA SessionStep == ASSUME SessionIInv, [NextSession]_allvars PROVE SessionIInv'
<1>1. IInv'
  BY SessionCalls, NextIInv DEF SessionIInv, SessionInv
<1>2. CASE NextSession
  <2>1. ASSUME NEW operation \in {"link", "move", "revoke"}, NEW e \in EthAddress,
               NEW a \in ContractAddress, NEW deadline \in Time,
               Prepare(operation, e, a, deadline)
        PROVE  SessionInv'
    BY <2>1, PrepareKeeps DEF SignedKind
  <2>2. ASSUME NEW cancel \in BOOLEAN, NEW e \in EthAddress, NEW a \in ContractAddress,
               UnsignedSubmit(cancel, e, a)
        PROVE  SessionInv'
    BY <2>2, UnsignedSubmitKeeps
  <2>3. ASSUME NEW a \in ContractAddress, Execute(a) PROVE SessionInv'
    BY <2>3, ExecuteKeeps
  <2> QED
    BY <1>2, <2>1, <2>2, <2>3, ValidateKeeps, SimulateKeeps, IncludeKeeps, SealKeeps,
       EndingsKeep, OthersKeep, <1>1
    DEF NextSession, SessionIInv
<1>3. CASE UNCHANGED allvars
  <2>1. /\ UNCHANGED <<vars, stage, call, destination, expected, caller, observed, result,
                       interfered>>
        /\ eth' = eth /\ watched' = watched /\ found' = found /\ (Switched' <=> Switched)
    BY <1>3 DEF allvars, session, eth, watched, found, prepared_current, Switched
  <2>2. SubmissionOK' /\ ExpectedOK'
    BY <2>1 DEF SessionIInv, SessionInv, SubmissionOK, CallOK, ExpectedOK, Expecting, fits,
       vars
  <2>3. /\ \A a : pair(a, eth)' = pair(a, eth)
        /\ current(eth)' = current(eth) /\ ethereum_nonce'[eth] = ethereum_nonce[eth]
        /\ pair(destination, eth)' = pair(destination, eth)
    BY <2>1 DEF pair, current, vars
  <2>4. \A steps \in {0, 1} : (Reach(steps)' <=> Reach(steps)) /\ (Passed(steps)' <=> Passed(steps))
    BY <2>1, <2>3 DEF Reach, Passed
  <2>5. BeforeCall' /\ AfterCall'
    BY <2>1, <2>3, <2>4 DEF SessionIInv, SessionInv, BeforeCall, AfterCall
  <2>6. Told'
    BY <2>1 DEF SessionIInv, SessionInv, Told, Agrees, as_expected, MismatchExplained,
       MatchedIsOurs
  <2> QED
    BY <1>1, <2>2, <2>5, <2>6 DEF SessionInv, SessionIInv
<1> QED
  BY <1>1, <1>2, <1>3 DEF SessionIInv

LEMMA InitSessionInv == InitSession => SessionIInv
<1> SUFFICES ASSUME InitSession PROVE SessionIInv
  OBVIOUS
<1>1. stage = "idle" /\ caller = ZeroAccount /\ interfered = FALSE /\ result = NoResult
  BY DEF InitSession
<1>2. IInv
  BY InitIInv DEF InitSession
<1> QED
  BY <1>1, <1>2, ResultAssumption, ZeroAssumption
  DEF SessionIInv, SessionInv, SubmissionOK, ExpectedOK, Expecting, BeforeCall, AfterCall,
      Told, MismatchExplained, MatchedIsOurs, Outcome

\* What a submission expects stays within one call of the registry, or past
\* it with somebody to blame, up to the block that is read back.
THEOREM SessionInvariant == SessionSpec => []SessionIInv
<1>1. SessionIInv /\ [NextSession]_allvars => SessionIInv'
  BY SessionStep
<1> QED
  BY InitSessionInv, <1>1, PTL DEF SessionSpec

\* A submission adds nothing to what the contract can do: whatever the client
\* sends, the registry goes through its own steps.
THEOREM SessionUsesTheRegistry == SessionSpec => Spec
<1>1. SessionIInv /\ [NextSession]_allvars => [Next]_vars
  BY SessionCalls DEF SessionIInv, SessionInv
<1>2. InitSession => Init
  BY DEF InitSession
<1> QED
  BY SessionInvariant, <1>1, <1>2, PTL DEF SessionSpec, Spec

\* A successful receipt that does not read back as expected means that
\* somebody else changed what was watched, or that the wallet switched
\* accounts: what signedEffect and unsignedSubmit compute is what the contract
\* does.
THEOREM SessionMismatchExplained == SessionSpec => []MismatchExplained
<1>1. SessionIInv => MismatchExplained
  BY DEF SessionIInv, SessionInv, Told
<1> QED
  BY SessionInvariant, <1>1, PTL

\* A matched readback of a signed request or an unlink is proof that the call
\* was the only change since its effects were computed.
THEOREM SessionMatchedIsOurs == SessionSpec => []MatchedIsOurs
<1>1. SessionIInv => MatchedIsOurs
  BY DEF SessionIInv, SessionInv, Told
<1> QED
  BY SessionInvariant, <1>1, PTL

\* An undisturbed call, sent from the account that was validated, in time and
\* with room in the list, passes every check of the contract.
LEMMA UndisturbedSucceeds ==
    ASSUME SessionIInv, stage = "sent", ~interfered, ~Switched,
           call.kind \in SignedKind => block_timestamp <= call.deadline,
           call.kind \in {"link", "move"} => has_next_count(count(destination))
    PROVE  succeeds(caller)
<1>1. /\ TypeOK /\ Consistent(members) /\ CallOK /\ SubmissionOK /\ ExpectedOK /\ Expecting
      /\ BeforeCall
  BY IInvConsistent DEF SessionIInv, SessionInv, SubmissionOK, Expecting
<1>2. /\ eth \in EthAddress /\ eth # ZeroEth
      /\ destination \in ContractAddress \ {ZeroAccount}
      /\ call.kind \in SignedKind => call.deadline # 0 /\ call \in signed
      /\ \A a \in watched : a \in ContractAddress
  BY <1>1, CallFields, WatchedAccounts DEF CallOK
<1>3. /\ ethereum_nonce[eth] \in Nat /\ expected.ethereum_nonce \in Nat /\ MaxNonce \in Nat
      /\ \A a \in watched : pair(a, eth) \in Nat /\ expected.pairs[a] \in Nat
      /\ call.kind \in SignedKind => call.ethereum_nonce \in Nat
      /\ call.kind \in {"link", "move"} => call.recipient_nonce \in Nat
  BY <1>1, <1>2, CallFields, NoncesAreNaturals, BoundAssumption
  DEF pair, ExpectedOK, SignedKind
<1>4. /\ expected.ethereum_nonce <= MaxNonce
      /\ \A a \in watched : expected.pairs[a] <= MaxNonce
  <2>1. DOMAIN expected.pairs = watched
    BY <1>1 DEF ExpectedOK
  <2> QED
    BY <1>1, <2>1 DEF ExpectedOK, fits
<1>5. CASE call.kind = "invalidate_pending_incoming"
  <2>1. caller = destination /\ destination \in watched
    BY <1>5 DEF Switched, watched
  <2>2. pair(destination, eth) + 1 = expected.pairs[destination]
    BY <1>1, <1>5 DEF BeforeCall
  <2>3. has_next_nonce(pair(destination, eth))
    BY <1>3, <1>4, <2>1, <2>2 DEF has_next_nonce
  <2> QED
    BY <1>2, <1>5, <2>1, <2>3 DEF succeeds
<1>6. CASE call.kind # "invalidate_pending_incoming"
  <2>1. /\ ethereum_nonce[eth] + 1 = expected.ethereum_nonce /\ current(eth) = found
        /\ Reach(1) /\ ~Passed(1)
    BY <1>1, <1>6 DEF BeforeCall
  <2>2. \A a \in watched : pair(a, eth) + 1 = expected.pairs[a]
    BY <1>3, <2>1 DEF Reach, Passed
  <2>3. has_next_nonce(ethereum_nonce[eth])
    BY <1>3, <1>4, <2>1 DEF has_next_nonce
  <2>4. \A a \in watched : has_next_nonce(pair(a, eth))
    BY <1>3, <1>4, <2>2 DEF has_next_nonce
  <2>5. current(eth) # ZeroAccount =>
           /\ current(eth) \in watched /\ can_remove(members, eth, current(eth))
           /\ can_drop(eth)
    <3>1. current(eth) # ZeroAccount =>
             current(eth) \in watched /\ can_remove(members, eth, current(eth))
      BY <1>1, <1>2, <1>6, <2>1, LinkedCanBeRemoved DEF watched, current, TypeOK
    <3> QED
      BY <2>4, <3>1 DEF can_drop
  <2>6. call.kind \in SignedKind =>
           check_signed(call) /\ verify(call) /\ has_next_nonce(call.ethereum_nonce)
    <3>1. call.kind \in SignedKind => ethereum_nonce[eth] = call.ethereum_nonce
      BY <1>1, <1>3, <2>1 DEF ExpectedOK
    <3> QED
      BY <1>2, <2>3, <3>1 DEF check_signed, verify, eth
  <2>7. call.kind \in {"link", "move"} =>
           /\ check_recipient(caller, call) /\ has_next_nonce(call.recipient_nonce)
           /\ call.account_address = destination
           /\ has_next_count(count(call.account_address))
    <3>1. call.kind \in {"link", "move"} =>
             /\ caller = destination /\ call.account_address = destination
             /\ destination \in watched
      BY <1>1, CallFields DEF Switched, watched
    <3>2. call.kind \in {"link", "move"} => pair(destination, eth) = call.recipient_nonce
      BY <1>1, <1>3, <2>2, <3>1 DEF ExpectedOK
    <3> QED
      BY <1>2, <2>4, <3>1, <3>2 DEF check_recipient, pair, eth
  <2>8. CASE call.kind = "link"
    <3>1. current(eth) = ZeroAccount
      BY <1>1, <2>1, <2>8, CallFields
    <3> QED
      BY <2>6, <2>7, <2>8, <3>1 DEF succeeds, link_checks, eth, SignedKind
  <2>9. CASE call.kind = "move"
    <3>1. /\ current(eth) = call.previous_account_address
          /\ current(eth) \notin {ZeroAccount, destination}
      BY <1>1, <2>1, <2>9, CallFields
    <3>2. has_next_nonce(recipient_nonce[<<call.previous_account_address, eth>>])
      BY <2>4, <2>5, <3>1 DEF pair
    <3> QED
      BY <2>5, <2>6, <2>7, <2>9, <3>1, <3>2 DEF succeeds, move_checks, eth, SignedKind
  <2>10. CASE call.kind = "revoke"
    <3>1. current(eth) = call.current_account_address
      BY <1>1, <2>1, <2>10, CallFields
    <3> QED
      BY <2>5, <2>6, <2>10, <3>1 DEF succeeds, revoke_checks, eth, SignedKind
  <2>11. CASE call.kind = "unlink"
    <3>1. caller = destination /\ current(eth) = destination
      BY <1>1, <2>1, <2>11, CallFields DEF Switched
    <3> QED
      BY <1>2, <2>3, <2>5, <2>11, <3>1 DEF succeeds, unlink_checks
  <2> QED
    BY <1>1, <1>6, <2>8, <2>9, <2>10, <2>11, CallFields DEF SignedKind
<1> QED
  BY <1>5, <1>6

\* A submission that was validated is reverted only for a reason that arose
\* later: interference, a switched wallet, the deadline, or a full list.
THEOREM SessionRevertExplained == SessionSpec => RevertExplained
<1> DEFINE Explained ==
       \/ interfered
       \/ Switched
       \/ call.kind \in {"link", "move", "revoke"} /\ block_timestamp > call.deadline
       \/ call.kind \in {"link", "move"} /\ ~has_next_count(count(destination))
<1>1. ASSUME SessionIInv, NextSession, result # "execution-reverted",
             result' = "execution-reverted"
      PROVE  Revert
  <2>1. ASSUME NEW outcome, End(outcome) PROVE result' = outcome
    BY <2>1 DEF End
  <2>2. result' = result => FALSE
    BY <1>1
  <2>3. ~(Readback \/ ReadbackFails \/ WaitFails \/ ExecuteFails \/ SimulateFails
          \/ ValidateTooLarge \/ ValidateFails)
    BY <1>1, <2>1
    DEF Readback, ReadbackFails, WaitFails, ExecuteFails, SimulateFails, ValidateTooLarge,
        ValidateFails
  <2>4. ~(Validate \/ Simulate \/ Include \/ Seal \/ Others)
    BY <2>2 DEF Validate, Simulate, Include, Seal, Others, session
  <2>5. /\ \A operation, e, a, deadline : ~Prepare(operation, e, a, deadline)
        /\ \A cancel, e, a : ~UnsignedSubmit(cancel, e, a)
        /\ \A a : ~Execute(a)
    BY <2>2 DEF Prepare, UnsignedSubmit, Execute
  <2> QED
    BY <1>1, <2>3, <2>4, <2>5 DEF NextSession
<1>2. ASSUME SessionIInv, Revert PROVE Explained
  <2>1. stage = "sent" /\ ~succeeds(caller) /\ CallOK
    BY <1>2 DEF Revert, SessionIInv, SessionInv, SubmissionOK
  <2>2. block_timestamp \in Nat /\ (call.kind \in SignedKind => call.deadline \in Nat)
    BY <1>2, <2>1, CallFields DEF SessionIInv, IInv, TypeOK, Time
  <2>3. /\ ~(call.kind \in SignedKind => block_timestamp <= call.deadline) =>
              call.kind \in SignedKind /\ block_timestamp > call.deadline
    BY <2>2
  <2> QED
    BY <1>2, <2>1, <2>3, UndisturbedSucceeds DEF SignedKind
<1>3. SessionIInv /\ [NextSession]_allvars =>
         [result # "execution-reverted" /\ result' = "execution-reverted" => Explained]_allvars
  BY <1>1, <1>2
<1> QED
  BY SessionInvariant, <1>3, PTL DEF SessionSpec, RevertExplained
=============================================================================
