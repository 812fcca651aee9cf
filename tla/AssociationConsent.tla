-------------------------- MODULE AssociationConsent --------------------------
(***************************************************************************)
(* What the registry promises to the owner of an Ethereum key and to the   *)
(* owner of a Starknet account, without nonces, lists or a clock.          *)
(*                                                                         *)
(* An address is linked to at most one account.  A request is first ahead  *)
(* of its time, then live, then dead, and never steps back.  A link is     *)
(* made or moved only by its new account, with a live request granted by   *)
(* the Ethereum key; it is dropped by its account, or with a live request. *)
(* Every such change kills all live requests of the address.               *)
(***************************************************************************)
CONSTANTS EthAddress, ContractAddress, ZeroEth, ZeroAccount, Requests

VARIABLES
    owner,    \* the account an address is linked to, or ZeroAccount
    listed,   \* the addresses an account lists
    granted,  \* requests signed so far
    status    \* of each request: "future", "live" or "dead"

vars == <<owner, listed, granted, status>>

Status == {"future", "live", "dead"}

OfAddress(e) == {r \in Requests : r.ethereum_address = e}

\* Requests that name the consent of account a to hold address e.
OfPair(a, e) ==
    {r \in OfAddress(e) : r.kind # "revoke" /\ r.account_address = a}

Init ==
    /\ owner = [e \in EthAddress |-> ZeroAccount]
    /\ listed = [a \in ContractAddress |-> {}]
    /\ granted \subseteq Requests
    /\ status \in [Requests -> Status]

\* The live requests among retired die; those of the future may become
\* live or dead, or stay; all others are left alone.
Retire(retired) ==
    /\ status' \in [Requests -> Status]
    /\ \A r \in Requests :
          CASE r \notin retired -> status'[r] = status[r]
            [] r \in retired /\ status[r] # "future" -> status'[r] = "dead"
            [] OTHER -> TRUE

Relink(e, a) ==
    /\ owner' = [owner EXCEPT ![e] = a]
    /\ listed' = [s \in ContractAddress |->
                    IF s = a /\ a # ZeroAccount THEN listed[s] \cup {e}
                    ELSE listed[s] \ {e}]
    /\ Retire(OfAddress(e))
    /\ UNCHANGED granted

Usable(r) == r \in granted /\ status[r] = "live"

Link(caller, r) ==
    /\ r.kind = "link"
    /\ Usable(r)
    /\ caller = r.account_address /\ caller # ZeroAccount
    /\ owner[r.ethereum_address] = ZeroAccount
    /\ Relink(r.ethereum_address, caller)

Move(caller, r) ==
    /\ r.kind = "move"
    /\ Usable(r)
    /\ caller = r.account_address /\ caller # ZeroAccount
    /\ owner[r.ethereum_address] = r.previous_account_address
    /\ r.previous_account_address \notin {ZeroAccount, caller}
    /\ Relink(r.ethereum_address, caller)

Revoke(r) ==
    /\ r.kind = "revoke"
    /\ Usable(r)
    /\ owner[r.ethereum_address] = r.current_account_address
    /\ Relink(r.ethereum_address, ZeroAccount)

Unlink(caller, e) ==
    /\ caller # ZeroAccount
    /\ owner[e] = caller
    /\ Relink(e, ZeroAccount)

\* An account withdraws its consent to hold e; links and all other pairs
\* are left alone.
Cancel(caller, e) ==
    /\ caller # ZeroAccount /\ e # ZeroEth
    /\ Retire(OfPair(caller, e))
    /\ UNCHANGED <<owner, listed, granted>>

Grant(r) ==
    /\ granted' = granted \cup {r}
    /\ UNCHANGED <<owner, listed, status>>

Next ==
    \/ \E caller \in ContractAddress, r \in Requests :
          Link(caller, r) \/ Move(caller, r)
    \/ \E r \in Requests : Revoke(r) \/ Grant(r)
    \/ \E caller \in ContractAddress, e \in EthAddress :
          Unlink(caller, e) \/ Cancel(caller, e)

Spec == Init /\ [][Next]_vars
=============================================================================
