---------------------------- MODULE AccountAttempt ----------------------------
(***************************************************************************)
(* Every operation of the SDK client runs inside accountAttempt            *)
(* (packages/sdk/src/client.ts): it captures the adapter's generation,     *)
(* subscribes to changes, and races the operation against a promise that a *)
(* change rejects.  The loser of the race is not stopped: a cancelled      *)
(* operation goes on in the background at its next answer.                 *)
(*                                                                         *)
(* An operation is the sequence of calls it awaits.  The answer of a call  *)
(* and the continuation that uses it are two steps, since the account may  *)
(* change in between; what a continuation does up to its next await is one *)
(* step.  A submission ends its attempt with finish() and calls            *)
(* account.execute in the same step.                                       *)
(***************************************************************************)
EXTENDS Naturals

CONSTANTS
    Attempt,        \* attempts on one adapter, which may overlap
    Submitting,     \* those that submit; the others prepare, sign or validate
    Identity,       \* what the wallet may have selected: account and chain
    Trusted,        \* identities on the chain of the trusted deployment
    Reason,         \* what listeners are told
    Silent,         \* TRUE if a change may fail to reach the listeners
    MaxGeneration,  \* bound on the number of changes
    None

ASSUME AttemptAssumption ==
    /\ Submitting \subseteq Attempt
    /\ Trusted \subseteq Identity
    /\ None \notin Identity
    /\ None \notin Reason \cup {"ok", "failed", "done", "confirmation-unavailable",
           "execution-reverted", "account-changed", "chain-changed", "provider",
           "simulation-failed"}
    /\ MaxGeneration \in Nat
    /\ Silent \in BOOLEAN
    /\ Reason \cap {"done", "confirmation-unavailable", "execution-reverted"} = {}
    /\ Identity \cap {"ok", "failed"} = {}

\* What the promise of an attempt settles to.
WithHash == {"done", "confirmation-unavailable", "execution-reverted"}
Failure == Reason \cup {"account-changed", "chain-changed", "provider",
                        "simulation-failed"}
Outcome == WithHash \cup Failure

\* The awaited calls, in order.  A query ends after "confirm".
Step == {"idle", "identify", "work", "confirm", "simulate", "reconfirm",
         "execute", "wait", "readback", "ended"}
Identifying == {"identify", "confirm", "reconfirm"}
Cancellable == Identifying \cup {"work", "simulate"}

VARIABLES
    generation, selected,  \* the adapter
    listeners,             \* attempts whose listener is registered
    captured,              \* generation read at the start
    invalidated,           \* why the attempt is void
    unsubscribe,           \* whether there is still a listener to remove
    finished,
    step, reply,           \* the call awaited, and its answer
    destination,           \* the account found first
    race,                  \* the first promise of the race to settle
    outcome                \* what the caller got

adapter == <<generation, selected>>
vars == <<generation, selected, listeners, captured, invalidated, unsubscribe,
          finished, step, reply, destination, race, outcome>>

Init ==
    /\ generation = 0
    /\ selected \in Identity
    /\ listeners = {}
    /\ captured = [a \in Attempt |-> 0]
    /\ invalidated = [a \in Attempt |-> None]
    /\ unsubscribe = [a \in Attempt |-> FALSE]
    /\ finished = [a \in Attempt |-> FALSE]
    /\ step = [a \in Attempt |-> "idle"]
    /\ reply = [a \in Attempt |-> None]
    /\ destination = [a \in Attempt |-> None]
    /\ race = [a \in Attempt |-> None]
    /\ outcome = [a \in Attempt |-> None]

-----------------------------------------------------------------------------
\* ??= and Promise.race: only the first value counts.
first(old, new) == IF old = None THEN new ELSE old

\* Mutant: the generation is not compared.
M_active_generation(a) == invalidated[a] = None
active(a) == generation = captured[a] /\ invalidated[a] = None

\* The listeners that a notification voids.
voided(heard) == {a \in heard : ~finished[a]}

\* Mutant: the rejection of the racing promise is forgotten.
M_cancel(hit, reason) == race
cancel(hit, reason) ==
    [a \in Attempt |->
        IF a \in hit THEN first(race[a], first(invalidated[a], reason))
        ELSE race[a]]

\* Preparing and signing a revoke leaves the account out, and starts with the
\* snapshot.
Start(a, s) ==
    /\ step[a] = "idle"
    /\ s = "identify" \/ (s = "work" /\ a \notin Submitting)
    /\ captured' = [captured EXCEPT ![a] = generation]
    /\ listeners' = listeners \cup {a}
    /\ unsubscribe' = [unsubscribe EXCEPT ![a] = TRUE]
    /\ step' = [step EXCEPT ![a] = s]
    /\ UNCHANGED <<adapter, invalidated, finished, reply, destination, race,
                   outcome>>

\* generation() or subscribeChange() throws.
StartFails(a) ==
    /\ step[a] = "idle"
    /\ race' = [race EXCEPT ![a] = "provider"]
    /\ step' = [step EXCEPT ![a] = "ended"]
    /\ UNCHANGED <<adapter, listeners, captured, invalidated, unsubscribe,
                   finished, reply, destination, outcome>>

\* The wallet changes account or chain, or disconnects.  Every transition
\* counts, also one back to an earlier identity.
Change(reason, identity, heard) ==
    LET hit == voided(heard)
    IN  /\ generation < MaxGeneration
        /\ heard = listeners \/ (Silent /\ heard = {})
        /\ generation' = generation + 1
        /\ selected' = identity
        /\ invalidated' = [a \in Attempt |->
               IF a \in hit THEN first(invalidated[a], reason)
               ELSE invalidated[a]]
        /\ race' = cancel(hit, reason)
        /\ UNCHANGED <<listeners, captured, unsubscribe, finished, step, reply,
                       destination, outcome>>

\* An awaited call is answered; identity() with what is selected now.
Answer(a) ==
    /\ reply[a] = None
    /\ step[a] \notin {"idle", "ended"}
    /\ reply' = [reply EXCEPT ![a] =
                    IF step[a] \in Identifying THEN selected ELSE "ok"]
    /\ UNCHANGED <<adapter, listeners, captured, invalidated, unsubscribe,
                   finished, step, destination, race, outcome>>

AnswerFails(a) ==
    /\ reply[a] = None
    /\ step[a] \notin {"idle", "ended"}
    /\ reply' = [reply EXCEPT ![a] = "failed"]
    /\ UNCHANGED <<adapter, listeners, captured, invalidated, unsubscribe,
                   finished, step, destination, race, outcome>>
-----------------------------------------------------------------------------
(* Continuations.                                                          *)

Settled(a, result) == race' = [race EXCEPT ![a] = first(race[a], result)]

Ended(a) ==
    /\ step' = [step EXCEPT ![a] = "ended"]
    /\ reply' = [reply EXCEPT ![a] = None]

Awaiting(a, next) ==
    /\ step' = [step EXCEPT ![a] = next]
    /\ reply' = [reply EXCEPT ![a] = None]

\* active() throws, in an attempt that is void or finds itself void.
Voided(a) ==
    LET reason == first(invalidated[a], "account-changed")
    IN  /\ step[a] \in Cancellable
        /\ reply[a] \notin {None, "failed"}
        /\ ~active(a)
        /\ invalidated' = [invalidated EXCEPT
               ![a] = IF finished[a] THEN @ ELSE reason]
        /\ Settled(a, reason)
        /\ Ended(a)
        /\ UNCHANGED <<adapter, listeners, captured, unsubscribe, finished,
                       destination, outcome>>

\* The awaited call threw, which ends the operation before any active().
Failed(a) ==
    /\ step[a] \in Cancellable \cup {"execute"}
    /\ reply[a] = "failed"
    /\ Settled(a, IF step[a] = "simulate" THEN "simulation-failed"
                  ELSE "provider")
    /\ Ended(a)
    /\ UNCHANGED <<adapter, listeners, captured, invalidated, unsubscribe,
                   finished, destination, outcome>>

\* identity() refuses another chain, its callers another account.
Refused(a) ==
    /\ step[a] \in Identifying
    /\ reply[a] \in Identity
    /\ active(a)
    /\ \/ reply[a] \notin Trusted /\ Settled(a, "chain-changed")
       \/ /\ reply[a] \in Trusted
          /\ step[a] # "identify"
          /\ reply[a] # destination[a]
          /\ Settled(a, "account-changed")
    /\ Ended(a)
    /\ UNCHANGED <<adapter, listeners, captured, invalidated, unsubscribe,
                   finished, destination, outcome>>

\* Accepted answers before the end of the operation.
Accepted(a) ==
    \/ step[a] = "identify" /\ reply[a] \in Trusted
    \/ step[a] \in {"work", "simulate"} /\ reply[a] = "ok"
    \/ step[a] \in {"confirm", "reconfirm"} /\ reply[a] \in Trusted
                                            /\ reply[a] = destination[a]

Following == [identify |-> "work", work |-> "confirm", confirm |-> "simulate",
              simulate |-> "reconfirm"]

Advance(a) ==
    /\ Accepted(a)
    /\ active(a)
    /\ step[a] # "reconfirm"
    /\ step[a] = "confirm" => a \in Submitting
    /\ step[a] = "work" => destination[a] # None
    /\ destination' = [destination EXCEPT
           ![a] = IF step[a] = "identify" THEN reply[a] ELSE @]
    /\ Awaiting(a, Following[step[a]])
    /\ UNCHANGED <<adapter, listeners, captured, invalidated, unsubscribe,
                   finished, race, outcome>>

\* A query has its result.
Return(a) ==
    /\ a \notin Submitting
    /\ step[a] = "confirm" \/ (step[a] = "work" /\ destination[a] = None)
    /\ Accepted(a)
    /\ active(a)
    /\ Settled(a, "done")
    /\ Ended(a)
    /\ UNCHANGED <<adapter, listeners, captured, invalidated, unsubscribe,
                   finished, destination, outcome>>

\* Mutant: the attempt stays open while the transaction is tracked.
M_close(a) == finished
close(a) == [finished EXCEPT ![a] = TRUE]

\* finish(), then account.execute: from here on a change is ignored.
Execute(a) ==
    /\ step[a] = "reconfirm"
    /\ Accepted(a)
    /\ active(a)
    /\ unsubscribe' = [unsubscribe EXCEPT ![a] = FALSE]
    /\ listeners' = listeners \ {a}
    /\ finished' = close(a)
    /\ Awaiting(a, "execute")
    /\ UNCHANGED <<adapter, captured, invalidated, destination, race, outcome>>

\* The listener cannot be removed: nothing is executed, and cleanup does not
\* try again.
FinishFails(a) ==
    /\ step[a] = "reconfirm"
    /\ Accepted(a)
    /\ active(a)
    /\ unsubscribe' = [unsubscribe EXCEPT ![a] = FALSE]
    /\ Settled(a, "provider")
    /\ Ended(a)
    /\ UNCHANGED <<adapter, listeners, captured, invalidated, finished,
                   destination, outcome>>

\* The wallet returned a transaction hash.
Track(a) ==
    /\ step[a] = "execute"
    /\ reply[a] = "ok"
    /\ Awaiting(a, "wait")
    /\ UNCHANGED <<adapter, listeners, captured, invalidated, unsubscribe,
                   finished, destination, race, outcome>>

Receipt(a) ==
    /\ step[a] = "wait"
    /\ reply[a] # None
    /\ \/ reply[a] = "failed" /\ Settled(a, "confirmation-unavailable") /\ Ended(a)
       \/ reply[a] = "ok" /\ Settled(a, "execution-reverted") /\ Ended(a)
       \/ reply[a] = "ok" /\ Awaiting(a, "readback") /\ UNCHANGED race
    /\ UNCHANGED <<adapter, listeners, captured, invalidated, unsubscribe,
                   finished, destination, outcome>>

\* A readback that fails is part of the result.
Readback(a) ==
    /\ step[a] = "readback"
    /\ reply[a] # None
    /\ Settled(a, "done")
    /\ Ended(a)
    /\ UNCHANGED <<adapter, listeners, captured, invalidated, unsubscribe,
                   finished, destination, outcome>>
-----------------------------------------------------------------------------
(* The caller's promise: after the race comes the cleanup.                 *)

\* Mutant: the result of the race is returned as it is.
M_checked(a) == race[a]
checked(a) ==
    IF race[a] = "done" /\ ~finished[a] /\ ~active(a)
    THEN first(invalidated[a], "account-changed")
    ELSE race[a]

\* Mutant: cleanup only after a failure.
M_removed(a, works) ==
    IF race[a] # "done" /\ unsubscribe[a] /\ works THEN {a} ELSE {}
removed(a, works) == IF unsubscribe[a] /\ works THEN {a} ELSE {}

\* A listener that cannot be removed turns a result into a failure.
Resolve(a, works) ==
    /\ race[a] # None
    /\ outcome[a] = None
    /\ listeners' = listeners \ (IF finished[a] THEN {} ELSE removed(a, works))
    /\ unsubscribe' = [unsubscribe EXCEPT ![a] = @ /\ finished[a]]
    /\ outcome' = [outcome EXCEPT ![a] =
           IF unsubscribe[a] /\ ~works /\ checked(a) = "done" THEN "provider"
           ELSE checked(a)]
    /\ finished' = [finished EXCEPT ![a] = TRUE]
    /\ UNCHANGED <<adapter, captured, invalidated, step, reply, destination,
                   race>>

Continue(a) ==
    \/ Voided(a) \/ Failed(a) \/ Refused(a) \/ Advance(a) \/ Return(a)
    \/ Execute(a) \/ FinishFails(a) \/ Track(a) \/ Receipt(a) \/ Readback(a)

Next ==
    \/ \E reason \in Reason, identity \in Identity, heard \in {listeners, {}} :
          Change(reason, identity, heard)
    \/ \E a \in Attempt :
          \/ \E s \in {"identify", "work"} : Start(a, s)
          \/ StartFails(a) \/ Answer(a) \/ AnswerFails(a) \/ Continue(a)
          \/ \E works \in BOOLEAN : Resolve(a, works)

\* The event loop runs the continuation of a settled race.  Nothing makes a
\* wallet or a node answer.
Fairness ==
    \A a \in Attempt : WF_vars(\E works \in BOOLEAN : Resolve(a, works))

Spec == Init /\ [][Next]_vars /\ Fairness
=============================================================================
