---------------------------- MODULE RegistryEvents ----------------------------
(***************************************************************************)
(* The registry seen through its events: what an indexer that reads only   *)
(* events knows is what the contract stores.                               *)
(***************************************************************************)
EXTENDS AddressRegistry

\* The part of the storage that events report.
View == [links |-> members.ethereum_to_starknet, ethereum |-> ethereum_nonce,
         recipient |-> recipient_nonce]

ApplyEvent(view, event) ==
    CASE event.type = "AssociationChanged" ->
            [view EXCEPT !.links[event.ethereum_address] =
                IF @ = event.previous THEN event.new ELSE @]
      [] event.type = "EthereumNonceAdvanced" ->
            [view EXCEPT !.ethereum[event.ethereum_address] = event.new_nonce]
      [] event.type = "RecipientNonceAdvanced" ->
            [view EXCEPT !.recipient[<<event.starknet_address,
                                       event.ethereum_address>>] =
                event.new_nonce]

\* What an indexer with that view knows after the events of a call, applied in
\* the order they were emitted.
Replay(view, emitted) ==
    LET known[i \in 0 .. Len(emitted)] ==
            IF i = 0 THEN view ELSE ApplyEvent(known[i - 1], emitted[i])
    IN  known[Len(emitted)]

\* Replaying the events of a call over the links and nonces before it gives
\* those after it: no operation changes a link or a nonce silently, or reports
\* a change it does not make, also if it changes nothing at all.
EventsDescribeStep ==
    [][View' # View \/ events' # events => View' = Replay(View, events')]_vars
=============================================================================
