---------------------------- MODULE RegistryReader ----------------------------
(***************************************************************************)
(* The reader of the SDK (createRegistryReader, packages/sdk/src/          *)
(* queries.ts): reads of a value, snapshots and listings that overlap      *)
(* while the chain grows.  Every read first authenticates the deployment   *)
(* at its block; reads that begin while an authentication of their block   *)
(* is in flight wait for that one.                                         *)
(*                                                                         *)
(* A block's answers are named by the block: a value read at block b is b. *)
(***************************************************************************)
EXTENDS Naturals, Sequences

CONSTANTS
    Value, Snapshot, Listing,  \* reads, by what they read
    Query,          \* what an authentication asks for
    MaxBlock,       \* bound on the number of blocks
    Address,
    MaxMembers,     \* bound on the length of a list at any block
    Lists,          \* the lists the account may have at a block
    PageSize,       \* the 100 of the code
    MaxAddresses,   \* the caller's budget for a listing
    Pinning,        \* {TRUE}: the node answers from the block it is asked for;
                    \* with FALSE in it, it may answer from another one
    None

Read == Value \cup Snapshot \cup Listing
Block == 1 .. MaxBlock

ASSUME ReaderAssumption ==
    /\ Value \cap Snapshot = {} /\ Value \cap Listing = {}
    /\ Snapshot \cap Listing = {}
    /\ MaxBlock \in Nat \ {0} /\ MaxMembers \in Nat /\ MaxAddresses \in Nat
    /\ PageSize \in Nat \ {0} /\ Query # {}
    /\ Pinning \in SUBSET BOOLEAN
    /\ None \notin Read /\ None \notin Block /\ None \notin {"accepted", "rejected"}
    /\ \A s \in Lists :
          /\ s \in Seq(Address) /\ Len(s) <= MaxMembers
          /\ \A i, j \in DOMAIN s : s[i] = s[j] => i = j

\* What a snapshot reads besides the header; a single read has one part.
Part == {"current", "ethereumNonce", "recipientNonce"}
parts(r) == IF r \in Snapshot THEN Part ELSE {"current"}

Stage == {"idle", "header", "authenticate", "raw", "count", "page",
          "done", "failed"}

VARIABLES
    pinned,               \* whether this node honours the block of a call
    tip, wrong, members,  \* the chain: latest block, answers at a block that
                          \* do not match the deployment, the list at a block
    authenticating,       \* the authentication in flight at a block, named
                          \* after the read that began it
    unanswered, mismatch, decision, settled,  \* authentications
    stage, block, via,    \* reads: via is the authentication joined
    got,                  \* the values read
    count, addresses      \* a listing's length and what it has so far

chain == <<pinned, tip, wrong, members>>
authentications == <<authenticating, unanswered, mismatch, decision, settled>>
results == <<got, count, addresses>>
vars == <<pinned, tip, wrong, members, authenticating, unanswered, mismatch, decision,
          settled, stage, block, via, got, count, addresses>>

Init ==
    /\ pinned \in Pinning
    /\ tip = 1
    \* A node that is not pinned is a danger to listings, also of a good registry.
    /\ wrong \in [Block -> IF pinned THEN {{}} \cup {{q} : q \in Query} ELSE {{}}]
    /\ members \in [Block -> Lists]
    /\ authenticating = [b \in Block |-> None]
    /\ unanswered = [r \in Read |-> Query]
    /\ mismatch = [r \in Read |-> FALSE]
    /\ decision = [r \in Read |-> None]
    /\ settled = [r \in Read |-> FALSE]
    /\ stage = [r \in Read |-> "idle"]
    /\ block = [r \in Read |-> None]
    /\ via = [r \in Read |-> None]
    /\ got = [r \in Read |-> [p \in Part |-> None]]
    /\ count = [r \in Read |-> 0]
    /\ addresses = [r \in Read |-> <<>>]

NewBlock ==
    /\ tip < MaxBlock
    /\ tip' = tip + 1
    /\ UNCHANGED <<pinned, wrong, members, authentications, stage, block, via, results>>

\* Where the node may evaluate a call that names block b.
answered_at(b) == IF pinned THEN {b} ELSE 1 .. tip
-----------------------------------------------------------------------------
(* Authentication of a block.                                              *)

\* The authentication that a read of block b waits for: the one in flight, or
\* its own.
Authenticate(r, b) ==
    /\ via' = [via EXCEPT ![r] =
           IF authenticating[b] # None THEN authenticating[b] ELSE r]
    /\ authenticating' = [authenticating EXCEPT ![b] = via'[r]]

Asking(x) ==
    /\ x \in {via[r] : r \in Read}
    /\ unanswered[x] # {}

\* An answer to one query of authentication x; the last one decides, unless an
\* earlier one failed.
verdict(x, rest, bad) ==
    IF decision[x] # None THEN decision[x]
    ELSE IF rest # {} THEN None
    ELSE IF bad \/ mismatch[x] THEN "rejected" ELSE "accepted"

QueryAnswered(x, q) ==
    /\ Asking(x)
    /\ q \in unanswered[x]
    /\ \E b \in answered_at(block[x]) :
          LET bad == q \in wrong[b]
              rest == unanswered[x] \ {q}
          IN  /\ unanswered' = [unanswered EXCEPT ![x] = rest]
              /\ mismatch' = [mismatch EXCEPT ![x] = @ \/ bad]
              /\ decision' = [decision EXCEPT ![x] = verdict(x, rest, bad)]
    /\ UNCHANGED <<chain, authenticating, settled, stage, block, via, results>>

\* Promise.all rejects with the first failure; the other queries go on.
QueryFails(x, q) ==
    /\ Asking(x)
    /\ q \in unanswered[x]
    /\ unanswered' = [unanswered EXCEPT ![x] = @ \ {q}]
    /\ decision' = [decision EXCEPT ![x] = "rejected"]
    /\ UNCHANGED <<chain, authenticating, mismatch, settled, stage, block, via,
                   results>>

\* The finally callback, a microtask of its own: the entry is dropped, and the
\* readers that wait are woken.
\* Mutant: only a success is passed on.
M_wakes(x) == decision[x] = "accepted"
wakes(x) == decision[x] # None

\* Mutant: an authentication that failed stays.
M_remaining(x) ==
    IF decision[x] = "rejected" THEN authenticating
    ELSE [authenticating EXCEPT ![block[x]] = None]
remaining(x) == [authenticating EXCEPT ![block[x]] = None]

Settle(x) ==
    /\ wakes(x)
    /\ ~settled[x]
    /\ settled' = [settled EXCEPT ![x] = TRUE]
    /\ authenticating' = remaining(x)
    /\ UNCHANGED <<chain, unanswered, mismatch, decision, stage, block, via,
                   results>>
-----------------------------------------------------------------------------
(* Reads.                                                                  *)

\* A value or a listing at a block the caller names.
Begin(r, b) ==
    /\ stage[r] = "idle"
    /\ r \notin Snapshot
    /\ b <= tip
    /\ block' = [block EXCEPT ![r] = b]
    /\ Authenticate(r, b)
    /\ stage' = [stage EXCEPT ![r] = "authenticate"]
    /\ UNCHANGED <<chain, unanswered, mismatch, decision, settled, results>>

\* A snapshot asks for a header: of a block the caller names, or of the latest.
BeginSnapshot(r, requested) ==
    /\ stage[r] = "idle"
    /\ r \in Snapshot
    /\ requested # None => requested <= tip
    /\ block' = [block EXCEPT ![r] = requested]
    /\ stage' = [stage EXCEPT ![r] = "header"]
    /\ UNCHANGED <<chain, authentications, via, results>>

\* The block of a snapshot's reads is that of the header it got, whose three
\* reads authenticate it together.
Header(r) ==
    /\ stage[r] = "header"
    /\ \E b \in IF block[r] = None THEN {tip} ELSE answered_at(block[r]) :
          IF block[r] \in {None, b}
          THEN /\ block' = [block EXCEPT ![r] = b]
               /\ Authenticate(r, b)
               /\ stage' = [stage EXCEPT ![r] = "authenticate"]
          ELSE /\ stage' = [stage EXCEPT ![r] = "failed"]
               /\ UNCHANGED <<block, via, authenticating>>
    /\ UNCHANGED <<chain, unanswered, mismatch, decision, settled, results>>

\* Mutant: a read that joins an authentication does not wait for its answer.
M_authenticated(r) == via[r] # r \/ settled[r]
authenticated(r) == settled[via[r]]

AfterAuthentication(r) ==
    /\ stage[r] = "authenticate"
    /\ authenticated(r)
    /\ stage' = [stage EXCEPT ![r] =
           IF decision[via[r]] = "rejected" THEN "failed"
           ELSE IF r \in Listing THEN "count" ELSE "raw"]
    /\ UNCHANGED <<chain, authentications, block, via, results>>

\* The block that a call of read r names.
at(r) == block[r]

\* One of the values arrives; the last one ends the read.
Raw(r, p) ==
    /\ stage[r] = "raw"
    /\ p \in parts(r)
    /\ got[r][p] = None
    /\ \E b \in answered_at(at(r)) : got' = [got EXCEPT ![r][p] = b]
    /\ stage' = [stage EXCEPT ![r] =
           IF \A other \in parts(r) : got'[r][other] # None THEN "done" ELSE @]
    /\ UNCHANGED <<chain, authentications, block, via, count, addresses>>

Count(r) ==
    /\ stage[r] = "count"
    /\ \E b \in answered_at(at(r)) :
          /\ count' = [count EXCEPT ![r] = Len(members[b])]
          /\ stage' = [stage EXCEPT ![r] =
                 IF Len(members[b]) > MaxAddresses THEN "failed"
                 ELSE IF members[b] = <<>> THEN "done" ELSE "page"]
    /\ UNCHANGED <<chain, authentications, block, via, got, addresses>>

least(a, b) == IF a < b THEN a ELSE b

\* get_ethereum_addresses at block b.
page(b, offset) ==
    SubSeq(members[b], offset + 1, least(offset + PageSize, Len(members[b])))

\* Mutant: entries that repeat are not noticed.
M_fits_length(r, entries) ==
    Len(entries) = least(count[r] - Len(addresses[r]), PageSize)
fits(r, entries) ==
    /\ Len(entries) = least(count[r] - Len(addresses[r]), PageSize)
    /\ \A i \in DOMAIN entries, j \in DOMAIN addresses[r] :
          entries[i] # addresses[r][j]

\* Where the next page begins.
offset(r) == Len(addresses[r])

\* Whether there is no further page.
ends(r, whole) == Len(whole) = count[r]

Page(r) ==
    /\ stage[r] = "page"
    /\ \E b \in answered_at(at(r)) :
          LET entries == page(b, offset(r))
              whole == addresses[r] \o entries
          IN  IF fits(r, entries)
              THEN /\ addresses' = [addresses EXCEPT ![r] = whole]
                   /\ stage' = [stage EXCEPT ![r] =
                          IF ends(r, whole) THEN "done" ELSE @]
              ELSE /\ stage' = [stage EXCEPT ![r] = "failed"]
                   /\ UNCHANGED addresses
    /\ UNCHANGED <<chain, authentications, block, via, got, count>>

\* A call of the read throws.
CallFails(r) ==
    /\ stage[r] \in {"header", "raw", "count", "page"}
    /\ stage' = [stage EXCEPT ![r] = "failed"]
    /\ UNCHANGED <<chain, authentications, block, via, results>>

Continue(r) ==
    \/ Header(r) \/ AfterAuthentication(r) \/ Count(r) \/ Page(r) \/ CallFails(r)
    \/ \E p \in Part : Raw(r, p)

Transport(x) == \E q \in Query : QueryAnswered(x, q) \/ QueryFails(x, q)

Next ==
    \/ NewBlock
    \/ \E r \in Read :
          \/ \E b \in Block : Begin(r, b)
          \/ \E b \in Block \cup {None} : BeginSnapshot(r, b)
          \/ Transport(r) \/ Settle(r) \/ Continue(r)

\* Every call to the node is answered or fails, and the event loop runs what
\* waits for it.
Fairness ==
    \A r \in Read : WF_vars(Transport(r)) /\ WF_vars(Settle(r)) /\ WF_vars(Continue(r))

Spec == Init /\ [][Next]_vars /\ Fairness
=============================================================================
