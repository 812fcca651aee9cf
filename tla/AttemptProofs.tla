---------------------------- MODULE AttemptProofs ----------------------------
(***************************************************************************)
(* The safety of the client's attempts, for any number of overlapping      *)
(* attempts, any identities and any changes.  The invariant relates what   *)
(* an attempt has read (captured, reply, destination) to the adapter, and  *)
(* says in which steps an operation that lost its race may still be.       *)
(***************************************************************************)
EXTENDS AttemptProperties, TLAPS

Tracking == {"execute", "wait", "readback"}

\* What was read under the current generation is still so.
ReadIsCurrent(a) ==
    generation = captured[a] =>
        /\ step[a] \in Identifying /\ reply[a] # None /\ reply[a] # "failed" =>
               reply[a] = selected
        /\ destination[a] \in {None, selected}

\* Before its start nothing is known of an attempt.
NotStarted(a) ==
    step[a] = "idle" =>
        /\ a \notin listeners
        /\ ~unsubscribe[a]
        /\ ~finished[a]
        /\ reply[a] = None
        /\ destination[a] = None
        /\ invalidated[a] = None
        /\ race[a] = None

\* An operation that is still running after its race is void and before
\* finish().
LoserIsVoid(a) ==
    race[a] # None /\ step[a] # "ended" =>
        invalidated[a] # None /\ step[a] \in Cancellable

\* After finish() nothing but the transaction decides.
TrackedIsClosed(a) ==
    /\ step[a] \in Tracking =>
           finished[a] /\ ~unsubscribe[a] /\ race[a] = None
    /\ a \in Submitting /\ race[a] \in WithHash =>
           finished[a] /\ ~unsubscribe[a]
    /\ step[a] \in {"simulate", "reconfirm"} \cup Tracking => a \in Submitting

\* The caller gets an outcome after the race, and a query that is finished
\* has one.
OutcomeLast(a) ==
    /\ outcome[a] # None => race[a] # None /\ finished[a]
    /\ a \notin Submitting /\ finished[a] => outcome[a] # None
    /\ a \in Submitting /\ outcome[a] # None /\ race[a] \in WithHash =>
           outcome[a] \in WithHash

\* A registered listener is still owed its removal; one that stays behind
\* belongs to an attempt that failed.
ListenerOwned(a) ==
    /\ a \in listeners /\ ~finished[a] => unsubscribe[a] \/ a \in Submitting
    /\ a \in listeners /\ finished[a] =>
           outcome[a] # None /\ outcome[a] \notin WithHash
    /\ a \notin Submitting => race[a] \notin WithHash \ {"done"}

AttemptInv ==
    /\ TypeOK
    /\ \A a \in Attempt :
          /\ captured[a] <= generation
          /\ ReadIsCurrent(a)
          /\ NotStarted(a)
          /\ LoserIsVoid(a)
          /\ TrackedIsClosed(a)
          /\ OutcomeLast(a)
          /\ ListenerOwned(a)

\* Before any attempt begins the invariant holds.
LEMMA InitInv == Init => AttemptInv
  BY AttemptAssumption
  DEF Init, AttemptInv, TypeOK, ReadIsCurrent, NotStarted, LoserIsVoid,
      TrackedIsClosed, OutcomeLast, ListenerOwned, Tracking, WithHash, Failure,
      Outcome, Step, Identifying, Cancellable

\* An attempt that is void or finds itself void keeps every variable in its type.
LEMMA VoidedType ==
  ASSUME TypeOK, NEW a \in Attempt, Voided(a)
  PROVE  TypeOK'
  BY AttemptAssumption
  DEF TypeOK, adapter, Voided, Settled, Ended, Awaiting, first, active, Accepted, Following, close,
      WithHash, Failure, Outcome, Step, Identifying, Cancellable

\* A call that threw keeps every variable in its type.
LEMMA FailedType ==
  ASSUME TypeOK, NEW a \in Attempt, Failed(a)
  PROVE  TypeOK'
  BY AttemptAssumption
  DEF TypeOK, adapter, Failed, Settled, Ended, Awaiting, first, active, Accepted, Following, close,
      WithHash, Failure, Outcome, Step, Identifying, Cancellable

\* A refused identity keeps every variable in its type.
LEMMA RefusedType ==
  ASSUME TypeOK, NEW a \in Attempt, Refused(a)
  PROVE  TypeOK'
  BY AttemptAssumption
  DEF TypeOK, adapter, Refused, Settled, Ended, Awaiting, first, active, Accepted, Following, close,
      WithHash, Failure, Outcome, Step, Identifying, Cancellable

\* An accepted answer keeps every variable in its type.
LEMMA AdvanceType ==
  ASSUME TypeOK, NEW a \in Attempt, Advance(a)
  PROVE  TypeOK'
  BY AttemptAssumption
  DEF TypeOK, adapter, Advance, Settled, Ended, Awaiting, first, active, Accepted, Following, close,
      WithHash, Failure, Outcome, Step, Identifying, Cancellable

\* A query's result keeps every variable in its type.
LEMMA ReturnType ==
  ASSUME TypeOK, NEW a \in Attempt, Return(a)
  PROVE  TypeOK'
  BY AttemptAssumption
  DEF TypeOK, adapter, Return, Settled, Ended, Awaiting, first, active, Accepted, Following, close,
      WithHash, Failure, Outcome, Step, Identifying, Cancellable

\* Handing the transaction to the wallet keeps every variable in its type.
LEMMA ExecuteType ==
  ASSUME TypeOK, NEW a \in Attempt, Execute(a)
  PROVE  TypeOK'
  BY AttemptAssumption
  DEF TypeOK, adapter, Execute, Settled, Ended, Awaiting, first, active, Accepted, Following, close,
      WithHash, Failure, Outcome, Step, Identifying, Cancellable

\* A listener that cannot be removed before execution keeps every variable in its type.
LEMMA FinishFailsType ==
  ASSUME TypeOK, NEW a \in Attempt, FinishFails(a)
  PROVE  TypeOK'
  BY AttemptAssumption
  DEF TypeOK, adapter, FinishFails, Settled, Ended, Awaiting, first, active, Accepted, Following, close,
      WithHash, Failure, Outcome, Step, Identifying, Cancellable

\* A transaction hash keeps every variable in its type.
LEMMA TrackType ==
  ASSUME TypeOK, NEW a \in Attempt, Track(a)
  PROVE  TypeOK'
  BY AttemptAssumption
  DEF TypeOK, adapter, Track, Settled, Ended, Awaiting, first, active, Accepted, Following, close,
      WithHash, Failure, Outcome, Step, Identifying, Cancellable

\* A receipt, or the lack of one keeps every variable in its type.
LEMMA ReceiptType ==
  ASSUME TypeOK, NEW a \in Attempt, Receipt(a)
  PROVE  TypeOK'
  BY AttemptAssumption
  DEF TypeOK, adapter, Receipt, Settled, Ended, Awaiting, first, active, Accepted, Following, close,
      WithHash, Failure, Outcome, Step, Identifying, Cancellable

\* A readback keeps every variable in its type.
LEMMA ReadbackType ==
  ASSUME TypeOK, NEW a \in Attempt, Readback(a)
  PROVE  TypeOK'
  BY AttemptAssumption
  DEF TypeOK, adapter, Readback, Settled, Ended, Awaiting, first, active, Accepted, Following, close,
      WithHash, Failure, Outcome, Step, Identifying, Cancellable

\* The beginning of an attempt keeps every variable in its type.
LEMMA StartType ==
  ASSUME TypeOK, NEW a \in Attempt, NEW s, Start(a, s)
  PROVE  TypeOK'
  BY AttemptAssumption
  DEF TypeOK, adapter, Start,
      WithHash, Failure, Outcome, Step, Identifying, Cancellable

\* An attempt that cannot begin keeps every variable in its type.
LEMMA StartFailsType ==
  ASSUME TypeOK, NEW a \in Attempt, StartFails(a)
  PROVE  TypeOK'
  BY AttemptAssumption
  DEF TypeOK, adapter, StartFails,
      WithHash, Failure, Outcome, Step, Identifying, Cancellable

\* An answer keeps every variable in its type.
LEMMA AnswerType ==
  ASSUME TypeOK, NEW a \in Attempt, Answer(a)
  PROVE  TypeOK'
  BY AttemptAssumption
  DEF TypeOK, adapter, Answer,
      WithHash, Failure, Outcome, Step, Identifying, Cancellable

\* A failed call keeps every variable in its type.
LEMMA AnswerFailsType ==
  ASSUME TypeOK, NEW a \in Attempt, AnswerFails(a)
  PROVE  TypeOK'
  BY AttemptAssumption
  DEF TypeOK, adapter, AnswerFails,
      WithHash, Failure, Outcome, Step, Identifying, Cancellable

\* A change of account or chain keeps every variable in its type.
LEMMA ChangeType ==
  ASSUME TypeOK, NEW reason \in Reason, NEW identity \in Identity, NEW heard, Change(reason, identity, heard)
  PROVE  TypeOK'
  BY AttemptAssumption
  DEF TypeOK, adapter, Change, voided, cancel, first,
      WithHash, Failure, Outcome, Step, Identifying, Cancellable

\* The cleanup after the race keeps every variable in its type.
LEMMA ResolveType ==
  ASSUME TypeOK, NEW a \in Attempt, NEW works \in BOOLEAN, Resolve(a, works)
  PROVE  TypeOK'
  BY AttemptAssumption
  DEF TypeOK, adapter, Resolve, removed, checked, active, first,
      WithHash, Failure, Outcome, Step, Identifying, Cancellable

-----------------------------------------------------------------------------
(* Each action preserves what the invariant says of each attempt b.        *)

Inv(b) ==
    /\ captured[b] <= generation
    /\ ReadIsCurrent(b)
    /\ NotStarted(b)
    /\ LoserIsVoid(b)
    /\ TrackedIsClosed(b)
    /\ OutcomeLast(b)
    /\ ListenerOwned(b)

\* An attempt that is void or finds itself void preserves the invariant of every attempt.
LEMMA VoidedInv ==
  ASSUME AttemptInv, NEW a \in Attempt, Voided(a), NEW b \in Attempt
  PROVE  Inv(b)'
<1>1. TypeOK /\ TypeOK' /\ Inv(a) /\ Inv(b)
  BY VoidedType DEF AttemptInv, Inv
<1>. QED
  BY <1>1, AttemptAssumption
  DEF TypeOK, Inv, ReadIsCurrent, NotStarted, LoserIsVoid, TrackedIsClosed,
      OutcomeLast, ListenerOwned, adapter, Voided, Settled, Ended, Awaiting, first, active,
      Accepted, Following, close,
      Tracking, WithHash, Failure, Outcome, Step, Identifying, Cancellable

\* A call that threw preserves the invariant of every attempt.
LEMMA FailedInv ==
  ASSUME AttemptInv, NEW a \in Attempt, Failed(a), NEW b \in Attempt
  PROVE  Inv(b)'
<1>1. TypeOK /\ TypeOK' /\ Inv(a) /\ Inv(b)
  BY FailedType DEF AttemptInv, Inv
<1>. QED
  BY <1>1, AttemptAssumption
  DEF TypeOK, Inv, ReadIsCurrent, NotStarted, LoserIsVoid, TrackedIsClosed,
      OutcomeLast, ListenerOwned, adapter, Failed, Settled, Ended, Awaiting, first, active,
      Accepted, Following, close,
      Tracking, WithHash, Failure, Outcome, Step, Identifying, Cancellable

\* A refused identity preserves the invariant of every attempt.
LEMMA RefusedInv ==
  ASSUME AttemptInv, NEW a \in Attempt, Refused(a), NEW b \in Attempt
  PROVE  Inv(b)'
<1>1. TypeOK /\ TypeOK' /\ Inv(a) /\ Inv(b)
  BY RefusedType DEF AttemptInv, Inv
<1>. QED
  BY <1>1, AttemptAssumption
  DEF TypeOK, Inv, ReadIsCurrent, NotStarted, LoserIsVoid, TrackedIsClosed,
      OutcomeLast, ListenerOwned, adapter, Refused, Settled, Ended, Awaiting, first, active,
      Accepted, Following, close,
      Tracking, WithHash, Failure, Outcome, Step, Identifying, Cancellable

\* An accepted answer preserves the invariant of every attempt.
LEMMA AdvanceInv ==
  ASSUME AttemptInv, NEW a \in Attempt, Advance(a), NEW b \in Attempt
  PROVE  Inv(b)'
<1>1. TypeOK /\ TypeOK' /\ Inv(a) /\ Inv(b)
  BY AdvanceType DEF AttemptInv, Inv
<1>. QED
  BY <1>1, AttemptAssumption
  DEF TypeOK, Inv, ReadIsCurrent, NotStarted, LoserIsVoid, TrackedIsClosed,
      OutcomeLast, ListenerOwned, adapter, Advance, Settled, Ended, Awaiting, first, active,
      Accepted, Following, close,
      Tracking, WithHash, Failure, Outcome, Step, Identifying, Cancellable

\* A query's result preserves the invariant of every attempt.
LEMMA ReturnInv ==
  ASSUME AttemptInv, NEW a \in Attempt, Return(a), NEW b \in Attempt
  PROVE  Inv(b)'
<1>1. TypeOK /\ TypeOK' /\ Inv(a) /\ Inv(b)
  BY ReturnType DEF AttemptInv, Inv
<1>. QED
  BY <1>1, AttemptAssumption
  DEF TypeOK, Inv, ReadIsCurrent, NotStarted, LoserIsVoid, TrackedIsClosed,
      OutcomeLast, ListenerOwned, adapter, Return, Settled, Ended, Awaiting, first, active,
      Accepted, Following, close,
      Tracking, WithHash, Failure, Outcome, Step, Identifying, Cancellable

\* Handing the transaction to the wallet preserves the invariant of every attempt.
LEMMA ExecuteInv ==
  ASSUME AttemptInv, NEW a \in Attempt, Execute(a), NEW b \in Attempt
  PROVE  Inv(b)'
<1>1. TypeOK /\ TypeOK' /\ Inv(a) /\ Inv(b)
  BY ExecuteType DEF AttemptInv, Inv
<1>. QED
  BY <1>1, AttemptAssumption
  DEF TypeOK, Inv, ReadIsCurrent, NotStarted, LoserIsVoid, TrackedIsClosed,
      OutcomeLast, ListenerOwned, adapter, Execute, Settled, Ended, Awaiting, first, active,
      Accepted, Following, close,
      Tracking, WithHash, Failure, Outcome, Step, Identifying, Cancellable

\* A listener that cannot be removed before execution preserves the invariant of every attempt.
LEMMA FinishFailsInv ==
  ASSUME AttemptInv, NEW a \in Attempt, FinishFails(a), NEW b \in Attempt
  PROVE  Inv(b)'
<1>1. TypeOK /\ TypeOK' /\ Inv(a) /\ Inv(b)
  BY FinishFailsType DEF AttemptInv, Inv
<1>. QED
  BY <1>1, AttemptAssumption
  DEF TypeOK, Inv, ReadIsCurrent, NotStarted, LoserIsVoid, TrackedIsClosed,
      OutcomeLast, ListenerOwned, adapter, FinishFails, Settled, Ended, Awaiting, first, active,
      Accepted, Following, close,
      Tracking, WithHash, Failure, Outcome, Step, Identifying, Cancellable

\* A transaction hash preserves the invariant of every attempt.
LEMMA TrackInv ==
  ASSUME AttemptInv, NEW a \in Attempt, Track(a), NEW b \in Attempt
  PROVE  Inv(b)'
<1>1. TypeOK /\ TypeOK' /\ Inv(a) /\ Inv(b)
  BY TrackType DEF AttemptInv, Inv
<1>. QED
  BY <1>1, AttemptAssumption
  DEF TypeOK, Inv, ReadIsCurrent, NotStarted, LoserIsVoid, TrackedIsClosed,
      OutcomeLast, ListenerOwned, adapter, Track, Settled, Ended, Awaiting, first, active,
      Accepted, Following, close,
      Tracking, WithHash, Failure, Outcome, Step, Identifying, Cancellable

\* A receipt, or the lack of one preserves the invariant of every attempt.
LEMMA ReceiptInv ==
  ASSUME AttemptInv, NEW a \in Attempt, Receipt(a), NEW b \in Attempt
  PROVE  Inv(b)'
<1>1. TypeOK /\ TypeOK' /\ Inv(a) /\ Inv(b)
  BY ReceiptType DEF AttemptInv, Inv
<1>. QED
  BY <1>1, AttemptAssumption
  DEF TypeOK, Inv, ReadIsCurrent, NotStarted, LoserIsVoid, TrackedIsClosed,
      OutcomeLast, ListenerOwned, adapter, Receipt, Settled, Ended, Awaiting, first, active,
      Accepted, Following, close,
      Tracking, WithHash, Failure, Outcome, Step, Identifying, Cancellable

\* A readback preserves the invariant of every attempt.
LEMMA ReadbackInv ==
  ASSUME AttemptInv, NEW a \in Attempt, Readback(a), NEW b \in Attempt
  PROVE  Inv(b)'
<1>1. TypeOK /\ TypeOK' /\ Inv(a) /\ Inv(b)
  BY ReadbackType DEF AttemptInv, Inv
<1>. QED
  BY <1>1, AttemptAssumption
  DEF TypeOK, Inv, ReadIsCurrent, NotStarted, LoserIsVoid, TrackedIsClosed,
      OutcomeLast, ListenerOwned, adapter, Readback, Settled, Ended, Awaiting, first, active,
      Accepted, Following, close,
      Tracking, WithHash, Failure, Outcome, Step, Identifying, Cancellable

\* The beginning of an attempt preserves the invariant of every attempt.
LEMMA StartInv ==
  ASSUME AttemptInv, NEW a \in Attempt, NEW s, Start(a, s), NEW b \in Attempt
  PROVE  Inv(b)'
<1>1. TypeOK /\ TypeOK' /\ Inv(a) /\ Inv(b)
  BY StartType DEF AttemptInv, Inv
<1>. QED
  BY <1>1, AttemptAssumption
  DEF TypeOK, Inv, ReadIsCurrent, NotStarted, LoserIsVoid, TrackedIsClosed,
      OutcomeLast, ListenerOwned, adapter, Start,
      Tracking, WithHash, Failure, Outcome, Step, Identifying, Cancellable

\* An attempt that cannot begin preserves the invariant of every attempt.
LEMMA StartFailsInv ==
  ASSUME AttemptInv, NEW a \in Attempt, StartFails(a), NEW b \in Attempt
  PROVE  Inv(b)'
<1>1. TypeOK /\ TypeOK' /\ Inv(a) /\ Inv(b)
  BY StartFailsType DEF AttemptInv, Inv
<1>. QED
  BY <1>1, AttemptAssumption
  DEF TypeOK, Inv, ReadIsCurrent, NotStarted, LoserIsVoid, TrackedIsClosed,
      OutcomeLast, ListenerOwned, adapter, StartFails,
      Tracking, WithHash, Failure, Outcome, Step, Identifying, Cancellable

\* An answer preserves the invariant of every attempt.
LEMMA AnswerInv ==
  ASSUME AttemptInv, NEW a \in Attempt, Answer(a), NEW b \in Attempt
  PROVE  Inv(b)'
<1>1. TypeOK /\ TypeOK' /\ Inv(a) /\ Inv(b)
  BY AnswerType DEF AttemptInv, Inv
<1>. QED
  BY <1>1, AttemptAssumption
  DEF TypeOK, Inv, ReadIsCurrent, NotStarted, LoserIsVoid, TrackedIsClosed,
      OutcomeLast, ListenerOwned, adapter, Answer,
      Tracking, WithHash, Failure, Outcome, Step, Identifying, Cancellable

\* A failed call preserves the invariant of every attempt.
LEMMA AnswerFailsInv ==
  ASSUME AttemptInv, NEW a \in Attempt, AnswerFails(a), NEW b \in Attempt
  PROVE  Inv(b)'
<1>1. TypeOK /\ TypeOK' /\ Inv(a) /\ Inv(b)
  BY AnswerFailsType DEF AttemptInv, Inv
<1>. QED
  BY <1>1, AttemptAssumption
  DEF TypeOK, Inv, ReadIsCurrent, NotStarted, LoserIsVoid, TrackedIsClosed,
      OutcomeLast, ListenerOwned, adapter, AnswerFails,
      Tracking, WithHash, Failure, Outcome, Step, Identifying, Cancellable

\* A change of account or chain preserves the invariant of every attempt.
LEMMA ChangeInv ==
  ASSUME AttemptInv, NEW reason \in Reason, NEW identity \in Identity, NEW heard,
         Change(reason, identity, heard), NEW b \in Attempt
  PROVE  Inv(b)'
<1>1. TypeOK /\ TypeOK' /\ Inv(b)
  BY ChangeType DEF AttemptInv, Inv
<1>. QED
  BY <1>1, AttemptAssumption
  DEF TypeOK, Inv, ReadIsCurrent, NotStarted, LoserIsVoid, TrackedIsClosed,
      OutcomeLast, ListenerOwned, adapter, Change, voided, cancel, first,
      Tracking, WithHash, Failure, Outcome, Step, Identifying, Cancellable

\* The cleanup after the race preserves the invariant of every attempt.
LEMMA ResolveInv ==
  ASSUME AttemptInv, NEW a \in Attempt, NEW works \in BOOLEAN, Resolve(a, works), NEW b \in Attempt
  PROVE  Inv(b)'
<1>1. TypeOK /\ TypeOK' /\ Inv(a) /\ Inv(b)
  BY ResolveType DEF AttemptInv, Inv
<1>. QED
  BY <1>1, AttemptAssumption
  DEF TypeOK, Inv, ReadIsCurrent, NotStarted, LoserIsVoid, TrackedIsClosed,
      OutcomeLast, ListenerOwned, adapter, Resolve, removed, checked, active, first,
      Tracking, WithHash, Failure, Outcome, Step, Identifying, Cancellable

\* A continuation preserves the invariant, whichever it is.
LEMMA ContinueInv ==
  ASSUME AttemptInv, NEW a \in Attempt, Continue(a), NEW b \in Attempt
  PROVE  TypeOK' /\ Inv(b)'
<1>0. TypeOK
  BY DEF AttemptInv
<1>1. CASE Voided(a)
  BY <1>0, <1>1, VoidedType, VoidedInv
<1>2. CASE Failed(a)
  BY <1>0, <1>2, FailedType, FailedInv
<1>3. CASE Refused(a)
  BY <1>0, <1>3, RefusedType, RefusedInv
<1>4. CASE Advance(a)
  BY <1>0, <1>4, AdvanceType, AdvanceInv
<1>5. CASE Return(a)
  BY <1>0, <1>5, ReturnType, ReturnInv
<1>6. CASE Execute(a)
  BY <1>0, <1>6, ExecuteType, ExecuteInv
<1>7. CASE FinishFails(a)
  BY <1>0, <1>7, FinishFailsType, FinishFailsInv
<1>8. CASE Track(a)
  BY <1>0, <1>8, TrackType, TrackInv
<1>9. CASE Receipt(a)
  BY <1>0, <1>9, ReceiptType, ReceiptInv
<1>10. CASE Readback(a)
  BY <1>0, <1>10, ReadbackType, ReadbackInv
<1>. QED
  BY <1>1, <1>2, <1>3, <1>4, <1>5, <1>6, <1>7, <1>8, <1>9, <1>10 DEF Continue

\* Every step of the client keeps the types and preserves the invariant of
\* any one attempt.
LEMMA NextOne ==
  ASSUME AttemptInv, [Next]_vars, NEW b \in Attempt
  PROVE  TypeOK' /\ Inv(b)'
<1>0. TypeOK /\ Inv(b)
  BY DEF AttemptInv, Inv
<1>1. ASSUME NEW reason \in Reason, NEW identity \in Identity,
             NEW heard \in {listeners, {}}, Change(reason, identity, heard)
      PROVE  TypeOK' /\ Inv(b)'
  BY <1>0, <1>1, ChangeType, ChangeInv
<1>2. ASSUME NEW a \in Attempt, NEW s \in {"identify", "work"}, Start(a, s)
      PROVE  TypeOK' /\ Inv(b)'
  BY <1>0, <1>2, StartType, StartInv
<1>3. ASSUME NEW a \in Attempt, StartFails(a)
      PROVE  TypeOK' /\ Inv(b)'
  BY <1>0, <1>3, StartFailsType, StartFailsInv
<1>4. ASSUME NEW a \in Attempt, Answer(a)
      PROVE  TypeOK' /\ Inv(b)'
  BY <1>0, <1>4, AnswerType, AnswerInv
<1>5. ASSUME NEW a \in Attempt, AnswerFails(a)
      PROVE  TypeOK' /\ Inv(b)'
  BY <1>0, <1>5, AnswerFailsType, AnswerFailsInv
<1>6. ASSUME NEW a \in Attempt, Continue(a)
      PROVE  TypeOK' /\ Inv(b)'
  BY <1>6, ContinueInv
<1>7. ASSUME NEW a \in Attempt, NEW works \in BOOLEAN, Resolve(a, works)
      PROVE  TypeOK' /\ Inv(b)'
  BY <1>0, <1>7, ResolveType, ResolveInv
<1>8. CASE UNCHANGED vars
  BY <1>0, <1>8
  DEF vars, TypeOK, Inv, ReadIsCurrent, NotStarted, LoserIsVoid,
      TrackedIsClosed, OutcomeLast, ListenerOwned
<1>. QED
  BY <1>1, <1>2, <1>3, <1>4, <1>5, <1>6, <1>7, <1>8 DEF Next

\* Without attempts only changes happen, and they keep the types.
LEMMA NextType == AttemptInv /\ [Next]_vars /\ Attempt = {} => TypeOK'
<1>. SUFFICES ASSUME AttemptInv, [Next]_vars, Attempt = {} PROVE TypeOK'
  OBVIOUS
<1>0. TypeOK
  BY DEF AttemptInv
<1>1. ASSUME NEW reason \in Reason, NEW identity \in Identity,
             NEW heard \in {listeners, {}}, Change(reason, identity, heard)
      PROVE  TypeOK'
  BY <1>0, <1>1, ChangeType
<1>2. CASE UNCHANGED vars
  BY <1>0, <1>2 DEF vars, TypeOK
<1>. QED
  BY <1>1, <1>2 DEF Next

\* Every step of the client preserves the invariant.
LEMMA NextInv == AttemptInv /\ [Next]_vars => AttemptInv'
<1>. SUFFICES ASSUME AttemptInv, [Next]_vars PROVE AttemptInv'
  OBVIOUS
<1>1. TypeOK'
  BY NextType, NextOne
<1>2. ASSUME NEW b \in Attempt PROVE Inv(b)'
  BY NextOne
<1>. QED
  BY <1>1, <1>2 DEF AttemptInv, Inv

\* No action but Execute puts an attempt into the wallet's hands.
LEMMA OnlyExecute ==
  ASSUME TypeOK, Next, NEW b \in Attempt, step[b] # "execute", step'[b] = "execute"
  PROVE  Execute(b)
  BY DEF Next, TypeOK, Continue, Change, Start, StartFails, Answer, AnswerFails,
         Resolve, Voided, Failed, Refused, Advance, Return, Execute, FinishFails,
         Track, Receipt, Readback, Ended, Awaiting, Following, Accepted

\* No action but the cleanup gives a caller an outcome.
LEMMA OnlyResolve ==
  ASSUME TypeOK, Next, NEW b \in Attempt, outcome[b] # outcome'[b]
  PROVE  \E works \in BOOLEAN : Resolve(b, works)
  BY DEF Next, TypeOK, Continue, Change, Start, StartFails, Answer, AnswerFails,
         Resolve, Voided, Failed, Refused, Advance, Return, Execute, FinishFails,
         Track, Receipt, Readback

\* In every reachable state the invariant holds.
THEOREM AttemptInvariant == Spec => []AttemptInv
  BY InitInv, NextInv, PTL DEF Spec

\* Every variable keeps its type, and a destination is always on the chain of
\* the trusted deployment.
THEOREM AttemptTypeOK == Spec => []TypeOK
<1>1. AttemptInv => TypeOK
  BY DEF AttemptInv
<1>. QED
  BY <1>1, AttemptInvariant, PTL

\* Once the wallet has the transaction, no change of account decides the
\* attempt, and a known hash reaches the caller.
THEOREM AttemptHashReported == Spec => []HashReported
<1>1. AttemptInv => HashReported
  BY AttemptAssumption
  DEF AttemptInv, HashReported, TrackedIsClosed, OutcomeLast, Tracking
<1>. QED
  BY <1>1, AttemptInvariant, PTL

\* An attempt that succeeded has removed its listener.
THEOREM AttemptSuccessLeavesNoListener == Spec => []SuccessLeavesNoListener
<1>1. AttemptInv => SuccessLeavesNoListener
  BY AttemptAssumption
  DEF AttemptInv, TypeOK, SuccessLeavesNoListener, ListenerOwned, OutcomeLast,
      WithHash
<1>. QED
  BY <1>1, AttemptInvariant, PTL

\* Only the account found first, unchanged since, is ever asked to execute, and
\* never for an operation whose caller has been told its outcome.
THEOREM AttemptExecuteUnchanged == Spec => ExecuteUnchanged
<1>1. AttemptInv /\ [Next]_vars =>
          [\A a \in Attempt :
              step[a] # "execute" /\ step'[a] = "execute" =>
                  /\ outcome[a] = None
                  /\ generation = captured[a]
                  /\ selected = destination[a]
                  /\ selected \in Trusted]_vars
  <2>. SUFFICES ASSUME AttemptInv, Next, NEW b \in Attempt,
                       step[b] # "execute", step'[b] = "execute"
                PROVE  /\ outcome[b] = None
                       /\ generation = captured[b]
                       /\ selected = destination[b]
                       /\ selected \in Trusted
    OBVIOUS
  <2>1. Execute(b)
    BY OnlyExecute DEF AttemptInv
  <2>2. outcome[b] = None
    BY <2>1 DEF AttemptInv, LoserIsVoid, OutcomeLast, Execute, active
  <2> QED
    BY <2>1, <2>2, AttemptAssumption
    DEF AttemptInv, TypeOK, ReadIsCurrent, Execute, Accepted, active,
        Identifying
<1>. QED
  BY <1>1, AttemptInvariant, PTL DEF Spec, ExecuteUnchanged

\* A query's result is handed out only while what it was made under lasts.
THEOREM AttemptResultUnchanged == Spec => ResultUnchanged
<1>1. AttemptInv /\ [Next]_vars =>
          [\A a \in Attempt \ Submitting :
              outcome[a] = None /\ outcome'[a] = "done" =>
                  /\ generation = captured[a]
                  /\ destination[a] \in {None, selected}]_vars
  <2>. SUFFICES ASSUME AttemptInv, Next, NEW b \in Attempt \ Submitting,
                       outcome[b] = None, outcome'[b] = "done"
                PROVE  /\ generation = captured[b]
                       /\ destination[b] \in {None, selected}
    OBVIOUS
  <2>1. PICK works \in BOOLEAN : Resolve(b, works)
    BY OnlyResolve, AttemptAssumption DEF AttemptInv
  <2>2. ~finished[b]
    BY DEF AttemptInv, OutcomeLast
  <2>3. generation = captured[b]
    BY <2>1, <2>2, AttemptAssumption
    DEF AttemptInv, TypeOK, Resolve, checked, active, first
  <2> QED
    BY <2>3 DEF AttemptInv, ReadIsCurrent
<1>. QED
  BY <1>1, AttemptInvariant, PTL DEF Spec, ResultUnchanged

-----------------------------------------------------------------------------
(* A cancellation decides at once, and nothing decides twice: what         *)
(* CancellationSettles needs besides the scheduling of the cleanup.        *)

\* Why an attempt is void, which promise won its race, and what its caller
\* got, are each set once.
Once(a) ==
    /\ invalidated[a] # None => invalidated'[a] = invalidated[a]
    /\ race[a] # None => race'[a] = race[a]
    /\ outcome[a] # None => outcome'[a] = outcome[a]

\* A void attempt needs no answer any more: its race is decided, and the
\* caller's promise only waits for the cleanup, whose guard holds.
VoidIsDecided ==
    \A a \in Attempt :
        invalidated[a] # None => race[a] # None

LEMMA ContinuationDecides ==
  ASSUME AttemptInv, NEW a \in Attempt, Continue(a), NEW b \in Attempt
  PROVE  /\ Once(b)
         /\ (invalidated[b] # None => race[b] # None)
              => (invalidated'[b] # None => race'[b] # None)
<1>1. TypeOK
  BY DEF AttemptInv
<1>2. CASE Voided(a)
  BY <1>1, <1>2, AttemptAssumption DEF TypeOK, Voided, Settled, first, Once
<1>3. CASE Failed(a) \/ Refused(a) \/ Return(a) \/ FinishFails(a)
  BY <1>1, <1>3, AttemptAssumption
  DEF TypeOK, Failed, Refused, Return, FinishFails, Settled, first, Once
<1>4. CASE Advance(a) \/ Execute(a) \/ Track(a)
  BY <1>4 DEF Advance, Execute, Track, Once
<1>5. CASE Receipt(a) \/ Readback(a)
  BY <1>1, <1>5, AttemptAssumption
  DEF TypeOK, Receipt, Readback, Settled, first, Once
<1>. QED
  BY <1>2, <1>3, <1>4, <1>5 DEF Continue

LEMMA StepDecides ==
  ASSUME AttemptInv, [Next]_vars, NEW b \in Attempt
  PROVE  /\ Once(b)
         /\ (invalidated[b] # None => race[b] # None)
              => (invalidated'[b] # None => race'[b] # None)
<1>1. TypeOK
  BY DEF AttemptInv
<1>2. ASSUME NEW reason \in Reason, NEW identity \in Identity,
             NEW heard \in {listeners, {}}, Change(reason, identity, heard)
      PROVE  /\ Once(b)
             /\ (invalidated[b] # None => race[b] # None)
                  => (invalidated'[b] # None => race'[b] # None)
  BY <1>1, <1>2, AttemptAssumption DEF TypeOK, Change, voided, cancel, first, Once
<1>3. ASSUME NEW a \in Attempt, NEW s \in {"identify", "work"},
             Start(a, s) \/ Answer(a) \/ AnswerFails(a)
      PROVE  UNCHANGED <<invalidated, race, outcome>>
  BY <1>3 DEF Start, Answer, AnswerFails
<1>4. ASSUME NEW a \in Attempt, StartFails(a)
      PROVE  /\ UNCHANGED <<invalidated, outcome>> /\ race[a] = None
             /\ race' = [race EXCEPT ![a] = "provider"]
  BY <1>4 DEF AttemptInv, NotStarted, StartFails
<1>5. ASSUME NEW a \in Attempt, NEW works \in BOOLEAN, Resolve(a, works)
      PROVE  /\ UNCHANGED <<invalidated, race>>
             /\ outcome[b] # None => outcome'[b] = outcome[b]
  BY <1>1, <1>5 DEF TypeOK, Resolve
<1>6. CASE UNCHANGED vars
  BY <1>6 DEF vars, Once
<1>7. CASE UNCHANGED <<invalidated, race, outcome>>
  BY <1>7 DEF Once
<1>8. ASSUME NEW a \in Attempt, StartFails(a)
      PROVE  /\ Once(b)
             /\ (invalidated[b] # None => race[b] # None)
                  => (invalidated'[b] # None => race'[b] # None)
  BY <1>1, <1>4, <1>8, AttemptAssumption DEF TypeOK, Once
<1>9. ASSUME NEW a \in Attempt, NEW works \in BOOLEAN, Resolve(a, works)
      PROVE  /\ Once(b)
             /\ (invalidated[b] # None => race[b] # None)
                  => (invalidated'[b] # None => race'[b] # None)
  BY <1>5, <1>9 DEF Once
<1>. QED
  BY <1>2, <1>3, <1>6, <1>7, <1>8, <1>9, ContinuationDecides DEF Next

\* A change that voids an attempt decides its race in the same step, also
\* while a wallet prompt or a node never answers.
THEOREM AttemptVoidIsDecided == Spec => []VoidIsDecided
<1>1. Init => VoidIsDecided
  BY DEF Init, VoidIsDecided
<1>2. VoidIsDecided /\ AttemptInv /\ [Next]_vars => VoidIsDecided'
  BY StepDecides DEF VoidIsDecided
<1>. QED
  BY <1>1, <1>2, AttemptInvariant, PTL DEF Spec

\* The first reason, the first result and the first outcome stand: no late
\* answer, change or cleanup replaces what was decided or told.
THEOREM AttemptDecidesOnce == Spec => [][\A a \in Attempt : Once(a)]_vars
<1>1. AttemptInv /\ [Next]_vars => [\A a \in Attempt : Once(a)]_vars
  BY StepDecides
<1>. QED
  BY <1>1, AttemptInvariant, PTL DEF Spec
=============================================================================
