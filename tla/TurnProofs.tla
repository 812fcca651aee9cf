------------------------------- MODULE TurnProofs -------------------------------
(***************************************************************************)
(* Nothing outlives a turn, the validator of its output accepts the        *)
(* grammar of a finished turn, and the one of its history a whole          *)
(* conversation, and what it tells of a prompt before a success is all of  *)
(* it; and a review only moves forward.  For every deadline, and any       *)
(* number of threads, items, turns, lines and rows, and prompts of any     *)
(* length.                                                                 *)
(***************************************************************************)
EXTENDS TurnProperties, FiniteSetTheorems, TLAPS

-----------------------------------------------------------------------------
(* The process group.                                                      *)

\* Outside of run_bounded there is no process.
GroupInv == phase \notin Bounded => native # "running" /\ child # "member"

LEMMA GroupInit == Init => GroupInv
BY DEF Init, TurnsInit, ProcessInit, GroupInv

LEMMA GroupStep == GroupInv /\ [Next]_vars => GroupInv'
<1> SUFFICES ASSUME GroupInv, [Next]_vars PROVE GroupInv'
  OBVIOUS
<1> USE DEF GroupInv, Bounded
<1>1. CASE ProcessStep
  <2>1. CASE (\E c \in {0, 1} : Exits(c)) \/ (\E holds \in BOOLEAN : Forks(holds))
    BY <2>1 DEF Exits, Forks, Live, runner
  <2>2. CASE ClosesPipes \/ LeavesGroup \/ ChildExits \/ BuildsAliases
    BY <2>2 DEF ClosesPipes, LeavesGroup, ChildExits, BuildsAliases, Live, runner
  <2>3. CASE DrainLate \/ Exceeds \/ WritePrompt \/ FindAlias \/ AliasLate
    BY <2>3 DEF DrainLate, Exceeds, WritePrompt, FindAlias, AliasLate, Fail, Loops
  <2>4. CASE Drained \/ Wait \/ Terminate
    BY <2>4 DEF Drained, Wait, Terminate, Fail
  <2>5. CASE Kill
    BY <2>5 DEF Kill, killed
  <2> QED
    BY <1>1, <2>1, <2>2, <2>3, <2>4, <2>5 DEF ProcessStep
<1>2. CASE BeginTurns \/ BeginTurn \/ RefuseTurn \/ TakeResult
  BY <1>2 DEF BeginTurns, BeginTurn, RefuseTurn, TakeResult, Raise, Collected, process
<1>3. CASE \/ (\E e \in Event : ReadEvent(e)) \/ (\E r \in Row : ReadRow(r))
           \/ StreamEnds \/ HistoryEnds \/ Answer
  BY <1>3 DEF ReadEvent, ReadRow, StreamEnds, HistoryEnds, Answer, Raise, process, runner
<1>4. CASE Tick \/ Execute \/ UNCHANGED vars
  <2>1. CASE Tick
    BY <2>1 DEF Tick, process, runner
  <2>2. CASE Execute
    BY <2>2 DEF Execute, Refuse, Prepare, Ask, Update, Save, Preflight, Answered, turns,
                process
  <2>3. CASE UNCHANGED vars
    BY <2>3 DEF vars
  <2> QED
    BY <1>4, <2>1, <2>2, <2>3
<1> QED
  BY <1>1, <1>2, <1>3, <1>4 DEF Next, TurnsStep

\* Whatever the program and its children do, its private files are read when
\* neither it nor a member of its group is there.
THEOREM TurnNothingSurvives == Spec => []NothingSurvives
<1>1. GroupInv => NothingSurvives
  BY DEF GroupInv, NothingSurvives
<1> QED
  BY <1>1, GroupInit, GroupStep, PTL DEF Spec


-----------------------------------------------------------------------------
(* The output of a turn: what the validator's locals s say about the lines  *)
(* q that it has read.                                                      *)

Fields(s) ==
    s = [state |-> s.state, thread |-> s.thread, last |-> s.last,
         pending |-> s.pending, finished |-> s.finished]

\* The items are the lines from 3 to last(s, q).
last(s, q) == IF s.state = 3 THEN Len(q) - 1 ELSE Len(q)
Lines(s, q) == 3 .. last(s, q)
Known(s) == DOMAIN s.pending \cup s.finished

Frame(s, q) ==
    /\ s.state \in 0 .. 3
    /\ s.state = 0 => q = <<>>
    /\ s.state = 1 => Len(q) = 1
    /\ s.state = 2 => Len(q) >= 2
    /\ s.state = 3 => /\ Len(q) >= 3 /\ q[Len(q)].kind = "turn.completed"
                      /\ DOMAIN s.pending = {}
    /\ s.state >= 1 =>
           /\ q[1].kind = "thread.started" /\ s.thread = q[1].thread
           /\ thread \in {NoThread, q[1].thread}
    /\ s.state >= 2 => q[2].kind = "turn.started"

Mentioned(s, q) ==
    \A i \in Lines(s, q) : q[i].kind \in ItemKinds /\ q[i].id \in Known(s)

Ordered(s, q) ==
    \A i, j \in Lines(s, q) :
        q[i].id = q[j].id =>
            /\ q[i].type = q[j].type
            /\ q[j].kind = "item.completed" => i <= j
            /\ q[j].kind = "item.started" => j <= i

Finished(s, q) ==
    /\ \A i \in Lines(s, q) : q[i].kind = "item.completed" => q[i].id \in s.finished
    /\ \A id \in s.finished :
          \E i \in Lines(s, q) : q[i].kind = "item.completed" /\ q[i].id = id

Pending(s, q) ==
    /\ \A id \in DOMAIN s.pending :
          /\ id \notin s.finished
          /\ \E i \in Lines(s, q) :
                q[i].kind = "item.started" /\ q[i].id = id /\ q[i].type = s.pending[id]
    /\ \A i \in Lines(s, q) :
          q[i].kind = "item.updated" =>
              \E j \in Lines(s, q) : q[j].kind = "item.started" /\ q[j].id = q[i].id

LastMessage(s, q) ==
    s.last \in Text =>
        \E i \in Lines(s, q) :
            /\ q[i].kind = "item.completed" /\ q[i].type = "agent_message"
            /\ q[i].text = s.last
            /\ \A j \in i + 1 .. Len(q) :
                  q[j].kind = "item.completed" => q[j].type # "agent_message"

Agrees(s, q) ==
    /\ q \in Seq(Event) /\ Fields(s) /\ Frame(s, q)
    /\ Mentioned(s, q) /\ Ordered(s, q) /\ Finished(s, q) /\ Pending(s, q)
    /\ LastMessage(s, q)

StreamInv == Agrees(stream, read)

LEMMA NothingRead == Agrees(NoStream, <<>>)
BY DEF NoStream, Agrees, Fields, Frame, Lines, last, Mentioned, Ordered, Finished,
       Pending, LastMessage, Text

LEMMA StreamInit == Init => StreamInv
BY NothingRead DEF Init, TurnsInit, StreamInv

\* The lines that frame the items.
LEMMA FrameRead ==
    ASSUME NEW s, NEW q, NEW e \in Event, Agrees(s, q), fits(s, e, thread),
           e.kind \notin ItemKinds
    PROVE  Agrees(after(s, e), Append(q, e))
<1> DEFINE n == Len(q)
           r == Append(q, e)
           t == after(s, e)
<1>1. /\ r \in Seq(Event) /\ Len(r) = n + 1 /\ r[n + 1] = e /\ n \in Nat
      /\ \A i \in 1 .. n : r[i] = q[i]
  BY DEF Agrees
<1>2. e.kind \in {"thread.started", "turn.started", "turn.completed"}
  BY DEF fits, Event, Lifecycle, Started, ItemEvent, Completed, ItemKinds
<1>3. /\ s.state = IF e.kind = "thread.started" THEN 0
                  ELSE IF e.kind = "turn.started" THEN 1 ELSE 2
      /\ t.state = s.state + 1
      /\ t.pending = s.pending /\ t.finished = s.finished /\ t.last = s.last
      /\ t.thread = IF e.kind = "thread.started" THEN e.thread ELSE s.thread
      /\ Fields(t)
  <2>1. Fields(s)
    BY DEF Agrees
  <2>2. s.state = IF e.kind = "thread.started" THEN 0
                  ELSE IF e.kind = "turn.started" THEN 1 ELSE 2
    BY <1>2 DEF fits
  <2>3. CASE e.kind = "thread.started"
    <3>1. t = [s EXCEPT !.state = 1, !.thread = e.thread]
      BY <2>3 DEF after
    <3>2. t = [state |-> 1, thread |-> e.thread, last |-> s.last,
               pending |-> s.pending, finished |-> s.finished]
      BY <2>1, <3>1 DEF Fields
    <3> QED
      BY <2>2, <2>3, <3>2 DEF Fields
  <2>4. CASE e.kind \in {"turn.started", "turn.completed"}
    <3>1. t = [s EXCEPT !.state = s.state + 1]
      BY <2>2, <2>4 DEF after
    <3>2. t = [state |-> s.state + 1, thread |-> s.thread, last |-> s.last,
               pending |-> s.pending, finished |-> s.finished]
      BY <2>1, <3>1 DEF Fields
    <3> QED
      BY <2>2, <2>4, <3>2 DEF Fields
  <2> QED
    BY <1>2, <2>3, <2>4
<1>4. Frame(t, r)
  BY <1>1, <1>2, <1>3 DEF Agrees, Frame, fits
<1>5. Lines(t, r) = Lines(s, q)
  <2>1. \/ (s.state = 0 /\ n = 0)
        \/ (s.state = 1 /\ n = 1)
        \/ (s.state = 2 /\ t.state = 3)
    <3>1. s.state = 0 => n = 0
      BY DEF Agrees, Frame
    <3>2. s.state = 1 => n = 1
      BY DEF Agrees, Frame
    <3> QED
      BY <1>2, <1>3, <3>1, <3>2
  <2>2. CASE s.state = 2 /\ t.state = 3
    BY <1>1, <2>2 DEF Lines, last
  <2>3. CASE n \in {0, 1} /\ s.state # 3 /\ t.state # 3
    <3>1. last(t, r) < 3 /\ last(s, q) < 3 /\ last(t, r) \in Int /\ last(s, q) \in Int
      <4> HIDE DEF n, r, t
      <4>1. Len(r) = n + 1 /\ Len(q) = n
        BY <1>1 DEF n
      <4> QED
        BY <2>3, <4>1 DEF last
    <3> QED
      BY <3>1 DEF Lines
  <2> QED
    BY <1>3, <2>1, <2>2, <2>3
<1>6. \A i \in Lines(s, q) : i \in 1 .. n /\ r[i] = q[i]
  BY <1>1, <1>2, <1>3 DEF Lines, last
<1> HIDE DEF n, r, t
<1>7. Mentioned(t, r) /\ Ordered(t, r)
  BY <1>3, <1>5, <1>6 DEF Agrees, Mentioned, Ordered, Known
<1>8. Finished(t, r)
  BY <1>3, <1>5, <1>6 DEF Agrees, Finished
<1>9. Pending(t, r)
  BY <1>3, <1>5, <1>6 DEF Agrees, Pending
<1>10. LastMessage(t, r)
  <2> SUFFICES ASSUME t.last \in Text
               PROVE  \E i \in Lines(s, q) :
                         /\ r[i].kind = "item.completed" /\ r[i].type = "agent_message"
                         /\ r[i].text = t.last
                         /\ \A j \in i + 1 .. n + 1 :
                               r[j].kind = "item.completed" => r[j].type # "agent_message"
    BY <1>1, <1>5 DEF LastMessage, r
  <2>1. PICK i \in Lines(s, q) :
            /\ q[i].kind = "item.completed" /\ q[i].type = "agent_message"
            /\ q[i].text = s.last
            /\ \A j \in i + 1 .. n :
                  q[j].kind = "item.completed" => q[j].type # "agent_message"
    BY <1>3 DEF Agrees, LastMessage, n
  <2>2. \A j \in i + 1 .. n + 1 :
            r[j].kind = "item.completed" => r[j].type # "agent_message"
    BY <1>1, <1>2, <1>6, <2>1 DEF r, n, Lines
  <2> QED
    BY <1>3, <1>6, <2>1, <2>2
<1> QED
  BY <1>1, <1>3, <1>4, <1>7, <1>8, <1>9, <1>10 DEF Agrees, r, t


\* The lines about an item: one that was mentioned before is pending.
LEMMA ItemRead ==
    ASSUME NEW s, NEW q, NEW e \in Event, Agrees(s, q), fits(s, e, thread),
           e.kind \in ItemKinds
    PROVE  Agrees(after(s, e), Append(q, e))
<1> DEFINE n == Len(q)
           r == Append(q, e)
           t == after(s, e)
<1>1. /\ r \in Seq(Event) /\ Len(r) = n + 1 /\ r[n + 1] = e /\ n \in Nat
      /\ \A i \in 1 .. n : r[i] = q[i]
  BY DEF Agrees
<1>2. /\ fits_item(s, e) /\ s.state = 2 /\ e.id \notin s.finished
      /\ e.kind = "item.started" => e.id \notin DOMAIN s.pending
      /\ e.kind = "item.updated" => e.id \in DOMAIN s.pending
      /\ e.kind # "item.started" /\ e.id \in DOMAIN s.pending => s.pending[e.id] = e.type
  BY DEF fits, fits_item, started, ItemKinds
<1>3. e.kind \in {"item.started", "item.updated", "item.completed"}
  BY DEF ItemKinds
<1>4. /\ t.state = 2 /\ t.thread = s.thread /\ Fields(t)
      /\ t.pending = IF e.kind = "item.started" THEN with(s.pending, e.id, e.type)
                     ELSE IF e.kind = "item.completed" THEN without(s.pending, e.id)
                     ELSE s.pending
      /\ t.finished = IF e.kind = "item.completed" THEN s.finished \cup {e.id}
                      ELSE s.finished
      /\ t.last = IF e.kind = "item.completed" /\ e.type = "agent_message" THEN e.text
                  ELSE s.last
  <2>1. Fields(s)
    BY DEF Agrees
  <2>2. CASE e.kind = "item.started"
    <3>1. t = [s EXCEPT !.pending = with(s.pending, e.id, e.type)]
      BY <2>2 DEF after
    <3>2. t = [state |-> s.state, thread |-> s.thread, last |-> s.last,
               pending |-> with(s.pending, e.id, e.type), finished |-> s.finished]
      BY <2>1, <3>1 DEF Fields
    <3> QED
      BY <1>2, <2>2, <3>2 DEF Fields
  <2>3. CASE e.kind = "item.updated"
    <3>1. t = s
      BY <2>3 DEF after
    <3> QED
      BY <1>2, <2>1, <2>3, <3>1
  <2>4. CASE e.kind = "item.completed"
    <3> DEFINE x == IF e.type = "agent_message" THEN e.text ELSE s.last
    <3>1. t = [s EXCEPT !.pending = without(s.pending, e.id),
                        !.finished = s.finished \cup {e.id}, !.last = x]
      BY <2>4 DEF after
    <3>2. t = [state |-> s.state, thread |-> s.thread, last |-> x,
               pending |-> without(s.pending, e.id), finished |-> s.finished \cup {e.id}]
      BY <2>1, <3>1 DEF Fields
    <3> QED
      BY <1>2, <2>4, <3>2 DEF Fields
  <2> QED
    BY <1>3, <2>2, <2>3, <2>4
<1>5. /\ DOMAIN t.pending = IF e.kind = "item.started" THEN DOMAIN s.pending \cup {e.id}
                            ELSE IF e.kind = "item.completed" THEN DOMAIN s.pending \ {e.id}
                            ELSE DOMAIN s.pending
      /\ \A id \in DOMAIN t.pending :
            t.pending[id] = IF id \in DOMAIN s.pending THEN s.pending[id] ELSE e.type
      /\ \A id \in DOMAIN t.pending \ DOMAIN s.pending :
            e.kind = "item.started" /\ id = e.id
  BY <1>2, <1>3, <1>4 DEF with, without
<1>6. Known(t) = Known(s) \cup {e.id}
  BY <1>2, <1>3, <1>4, <1>5 DEF Known
<1>7. n >= 2 /\ Lines(s, q) = 3 .. n /\ Lines(t, r) = 3 .. n + 1
  <2>1. n >= 2
    BY <1>2 DEF Agrees, Frame
  <2>2. last(s, q) = n
    BY <1>2 DEF last
  <2> HIDE DEF n, r, t
  <2>3. last(t, r) = n + 1
    BY <1>1, <1>4 DEF last
  <2> QED
    BY <2>1, <2>2, <2>3 DEF Lines
<1>8. \A i \in 3 .. n : r[i] = q[i]
  BY <1>1
<1>9. Frame(t, r)
  BY <1>1, <1>2, <1>4, <1>7 DEF Agrees, Frame
<1> HIDE DEF n, r, t
\* Where the item was mentioned before.
<1>10. \A i \in 3 .. n : q[i].id = e.id =>
          /\ e.id \in DOMAIN s.pending /\ e.kind # "item.started"
          /\ q[i].type = e.type /\ q[i].kind # "item.completed"
  <2> SUFFICES ASSUME NEW i \in 3 .. n, q[i].id = e.id
               PROVE  /\ e.id \in DOMAIN s.pending /\ e.kind # "item.started"
                      /\ q[i].type = e.type /\ q[i].kind # "item.completed"
    OBVIOUS
  <2>1. e.id \in DOMAIN s.pending
    BY <1>2, <1>7 DEF Agrees, Mentioned, Known
  <2>2. e.kind # "item.started" /\ s.pending[e.id] = e.type
    BY <1>2, <2>1
  <2>3. PICK j \in 3 .. n : q[j].id = e.id /\ q[j].type = s.pending[e.id]
    BY <1>7, <2>1 DEF Agrees, Pending
  <2>4. q[i].type = q[j].type
    BY <1>7, <2>3 DEF Agrees, Ordered
  <2>5. q[i].kind # "item.completed"
    BY <1>2, <1>7 DEF Agrees, Finished
  <2> QED
    BY <2>1, <2>2, <2>3, <2>4, <2>5
<1>11. Mentioned(t, r)
  BY <1>1, <1>6, <1>7, <1>8 DEF Agrees, Mentioned
<1>12. Ordered(t, r)
  BY <1>1, <1>7, <1>8, <1>10 DEF Agrees, Ordered
<1>13. Finished(t, r)
  <2>1. \A i \in Lines(t, r) : r[i].kind = "item.completed" => r[i].id \in t.finished
    BY <1>1, <1>4, <1>7, <1>8 DEF Agrees, Finished
  <2>2. ASSUME NEW id \in t.finished
        PROVE  \E i \in Lines(t, r) : r[i].kind = "item.completed" /\ r[i].id = id
    <3>1. CASE id \in s.finished
      <4>1. PICK i \in 3 .. n : q[i].kind = "item.completed" /\ q[i].id = id
        BY <1>7, <3>1 DEF Agrees, Finished
      <4> QED
        BY <1>1, <1>7, <1>8, <4>1
    <3>2. CASE id = e.id /\ e.kind = "item.completed"
      BY <1>1, <1>7, <3>2
    <3> QED
      BY <1>4, <3>1, <3>2
  <2> QED
    BY <2>1, <2>2 DEF Finished
<1>14. Pending(t, r)
  <2>1. ASSUME NEW id \in DOMAIN t.pending
        PROVE  /\ id \notin t.finished
               /\ \E i \in Lines(t, r) :
                     r[i].kind = "item.started" /\ r[i].id = id /\ r[i].type = t.pending[id]
    <3>1. CASE id \in DOMAIN s.pending
      <4>1. id \notin t.finished
        BY <1>3, <1>4, <1>5, <3>1 DEF Agrees, Pending
      <4>2. PICK i \in 3 .. n :
                q[i].kind = "item.started" /\ q[i].id = id /\ q[i].type = s.pending[id]
        BY <1>7, <3>1 DEF Agrees, Pending
      <4> QED
        BY <1>1, <1>5, <1>7, <1>8, <3>1, <4>1, <4>2
    <3>2. CASE id \notin DOMAIN s.pending
      <4>1. e.kind = "item.started" /\ id = e.id /\ t.pending[id] = e.type
        BY <1>5, <3>2
      <4> QED
        BY <1>1, <1>2, <1>4, <1>7, <4>1
    <3> QED
      BY <3>1, <3>2
  <2>2. ASSUME NEW i \in Lines(t, r), r[i].kind = "item.updated"
        PROVE  \E j \in Lines(t, r) : r[j].kind = "item.started" /\ r[j].id = r[i].id
    <3>1. \E j \in 3 .. n : q[j].kind = "item.started" /\ q[j].id = r[i].id
      <4>1. CASE i \in 3 .. n
        BY <1>7, <1>8, <2>2, <4>1 DEF Agrees, Pending
      <4>2. CASE i = n + 1
        BY <1>1, <1>2, <1>7, <2>2, <4>2 DEF Agrees, Pending
      <4> QED
        BY <1>1, <1>7, <4>1, <4>2
    <3> QED
      BY <1>1, <1>7, <1>8, <3>1
  <2> QED
    BY <2>1, <2>2 DEF Pending
<1>15. LastMessage(t, r)
  <2> SUFFICES ASSUME t.last \in Text
               PROVE  \E i \in 3 .. n + 1 :
                         /\ r[i].kind = "item.completed" /\ r[i].type = "agent_message"
                         /\ r[i].text = t.last
                         /\ \A j \in i + 1 .. n + 1 :
                               r[j].kind = "item.completed" => r[j].type # "agent_message"
    BY <1>1, <1>7 DEF LastMessage
  <2>1. CASE e.kind = "item.completed" /\ e.type = "agent_message"
    BY <1>1, <1>4, <1>7, <2>1
  <2>2. CASE ~(e.kind = "item.completed" /\ e.type = "agent_message")
    <3>1. PICK i \in 3 .. n :
              /\ q[i].kind = "item.completed" /\ q[i].type = "agent_message"
              /\ q[i].text = s.last
              /\ \A j \in i + 1 .. n :
                    q[j].kind = "item.completed" => q[j].type # "agent_message"
      BY <1>4, <1>7, <2>2 DEF Agrees, LastMessage, n
    <3>2. \A j \in i + 1 .. n + 1 :
              r[j].kind = "item.completed" => r[j].type # "agent_message"
      BY <1>1, <1>7, <1>8, <2>2, <3>1
    <3> QED
      BY <1>1, <1>4, <1>7, <1>8, <2>2, <3>1, <3>2
  <2> QED
    BY <2>1, <2>2
<1> QED
  BY <1>1, <1>4, <1>9, <1>11, <1>12, <1>13, <1>14, <1>15 DEF Agrees, r, t


LEMMA StreamStep == StreamInv /\ [Next]_vars => StreamInv'
<1> SUFFICES ASSUME StreamInv, [Next]_vars PROVE StreamInv'
  OBVIOUS
<1>1. CASE \E e \in Event : ReadEvent(e)
  <2> PICK e \in Event : ReadEvent(e)
    BY <1>1
  <2>1. /\ fits(stream, e, thread) /\ stream' = after(stream, e)
        /\ read' = Append(read, e) /\ thread' = thread
    BY DEF ReadEvent, conversation
  <2>2. Agrees(after(stream, e), Append(read, e))
    BY <2>1, FrameRead, ItemRead DEF StreamInv
  <2>3. Agrees(stream', read')
    BY <2>1, <2>2
  <2> QED
    BY <2>1, <2>3 DEF StreamInv, Agrees, Frame, Fields, Mentioned, Ordered, Finished, Pending,
                      LastMessage, Lines, last, Known
<1>2. CASE StreamEnds
  BY <1>2 DEF StreamEnds, StreamInv, NoStream, Agrees, Fields, Frame, Lines, last, Mentioned,
              Ordered, Finished, Pending, LastMessage, Text
<1>3. CASE UNCHANGED <<stream, read, thread>>
  BY <1>3 DEF StreamInv, Agrees, Fields, Frame, Lines, last, Mentioned, Ordered, Finished,
              Pending, LastMessage, Known
<1>4. CASE BeginTurns \/ BeginTurn \/ RefuseTurn \/ TakeResult \/ HistoryEnds \/ Answer
  <2>1. UNCHANGED <<stream, read, thread>>
    BY <1>4 DEF BeginTurns, BeginTurn, RefuseTurn, TakeResult, HistoryEnds, Answer,
                conversation, validation
  <2> QED
    BY <1>3, <2>1
<1>5. CASE \/ (\E r \in Row : ReadRow(r)) \/ UNCHANGED vars
           \/ UNCHANGED <<conversation, validation>> \/ Execute
  <2>1. UNCHANGED <<stream, read, thread>>
    BY <1>5 DEF ReadRow, vars, conversation, validation, Execute, Refuse, Prepare, Ask,
                Update, Save, Preflight, Answered, turns
  <2> QED
    BY <1>3, <2>1
<1> QED
  BY <1>1, <1>2, <1>4, <1>5 DEF Next, TurnsStep

\* A validator that has seen the end of a stream has seen a finished turn.
LEMMA EndIsFinished ==
    ASSUME NEW s, NEW q, Agrees(s, q), s.state = 3
    PROVE  FinishedTurn(q)
<1> DEFINE n == Len(q)
           At(k, id) == {i \in 3 .. n - 1 : q[i].kind = k /\ q[i].id = id}
<1>1. /\ n \in Nat /\ n >= 3 /\ Lines(s, q) = 3 .. n - 1
      /\ q[1].kind = "thread.started" /\ q[2].kind = "turn.started"
      /\ q[n].kind = "turn.completed"
  BY DEF Agrees, Frame, Lines, last
<1>2. \A i \in 3 .. n - 1 : q[i].kind \in ItemKinds
  BY <1>1 DEF Agrees, Mentioned
<1>3. \A i, j \in 3 .. n - 1 : q[i].id = q[j].id =>
          /\ q[i].type = q[j].type
          /\ q[j].kind = "item.completed" => i <= j
          /\ q[j].kind = "item.started" => j <= i
  BY <1>1 DEF Agrees, Ordered
<1> HIDE DEF n
<1>4. ASSUME NEW i \in 3 .. n - 1
      PROVE  LET id == q[i].id
                 ends == At("item.completed", id)
                 starts == At("item.started", id)
             IN  /\ Cardinality(ends) = 1 /\ Cardinality(starts) <= 1
                 /\ \A j \in ends : i <= j
                 /\ \A j \in starts : j <= i
                 /\ q[i].kind = "item.updated" => starts # {}
  <2> DEFINE id == q[i].id
             ends == At("item.completed", id)
             starts == At("item.started", id)
  <2>1. id \in s.finished
    BY <1>1 DEF Agrees, Frame, Mentioned, Known
  <2>2. PICK e \in ends : TRUE
    BY <1>1, <2>1 DEF Agrees, Finished
  <2>3. ends = {e}
    BY <1>3, <2>2
  <2>4. Cardinality(ends) = 1
    BY <2>3, FS_Singleton
  <2>5. Cardinality(starts) <= 1
    <3>1. CASE starts = {}
      <4> HIDE DEF starts
      <4>1. Cardinality(starts) = 0
        BY <3>1, FS_EmptySet
      <4> QED
        BY <4>1
    <3>2. CASE starts # {}
      <4>1. PICK b \in starts : TRUE
        BY <3>2
      <4>2. starts = {b}
        BY <1>3, <4>1
      <4>3. Cardinality(starts) = 1
        BY <4>2, FS_Singleton
      <4> QED
        BY <4>3
    <3> QED
      BY <3>1, <3>2
  <2>6. (\A j \in ends : i <= j) /\ (\A j \in starts : j <= i)
    BY <1>3
  <2>7. q[i].kind = "item.updated" => starts # {}
    BY <1>1 DEF Agrees, Pending
  <2> QED
    BY <2>4, <2>5, <2>6, <2>7
<1> QED
  BY <1>1, <1>2, <1>3, <1>4 DEF FinishedTurn, n

\* What passes from one step to the next is a whole turn of the thread, and
\* the answer its last message.
THEOREM TurnStreamsAreWellFormed == Spec => StreamsAreWellFormed
<1> DEFINE Accepted ==
        phase = "events" /\ phase' = "history" =>
            /\ FinishedTurn(read)
            /\ thread \in {NoThread, read[1].thread}
            /\ \E i \in DOMAIN read :
                  /\ read[i].kind = "item.completed" /\ read[i].type = "agent_message"
                  /\ read[i].text = final'
                  /\ \A j \in i + 1 .. Len(read) :
                        read[j].kind = "item.completed" => read[j].type # "agent_message"
<1>1. StreamInv /\ [Next]_vars => [Accepted]_vars
  <2> SUFFICES ASSUME StreamInv, Next, phase = "events", phase' = "history"
               PROVE  Accepted
    OBVIOUS
  <2>1. StreamEnds
    <3>1. ~Execute
      BY DEF Execute, Refuse, Prepare, Ask, Update, Save, Preflight, Answered
    <3>2. ~(BeginTurns \/ BeginTurn \/ RefuseTurn \/ TakeResult \/ HistoryEnds \/ Answer)
      BY DEF BeginTurns, BeginTurn, RefuseTurn, TakeResult, HistoryEnds, Answer
    <3>3. ~(\E e \in Event : ReadEvent(e)) /\ ~(\E r \in Row : ReadRow(r)) /\ ~Tick
      BY DEF ReadEvent, ReadRow, Tick, runner
    <3>4. ~ProcessStep
      BY DEF ProcessStep, Exits, Forks, ClosesPipes, LeavesGroup, ChildExits, BuildsAliases,
             Live, Bounded, runner, DrainLate, Exceeds, WritePrompt, FindAlias, AliasLate,
             Drained, Wait, Terminate, Kill
    <3> QED
      BY <3>1, <3>2, <3>3, <3>4 DEF Next, TurnsStep
  <2>2. PICK answer \in Text :
            stream.state = 3 /\ stream.last = answer /\ final' = answer
    BY <2>1 DEF StreamEnds, ends_with, Raise
  <2>3. FinishedTurn(read)
    BY <2>2, EndIsFinished DEF StreamInv
  <2>4. thread \in {NoThread, read[1].thread}
    BY <2>2 DEF StreamInv, Agrees, Frame
  <2>5. \E i \in DOMAIN read :
            /\ read[i].kind = "item.completed" /\ read[i].type = "agent_message"
            /\ read[i].text = final'
            /\ \A j \in i + 1 .. Len(read) :
                  read[j].kind = "item.completed" => read[j].type # "agent_message"
    <3>1. PICK i \in 3 .. Len(read) - 1 :
            /\ read[i].kind = "item.completed" /\ read[i].type = "agent_message"
            /\ read[i].text = final'
            /\ \A j \in i + 1 .. Len(read) :
                  read[j].kind = "item.completed" => read[j].type # "agent_message"
      BY <2>2 DEF StreamInv, Agrees, LastMessage, Lines, last
    <3>2. i \in DOMAIN read
      BY <3>1 DEF StreamInv, Agrees
    <3> QED
      BY <3>1, <3>2
  <2> QED
    BY <2>3, <2>4, <2>5
<1> QED
  BY <1>1, StreamInit, StreamStep, PTL DEF Spec, StreamsAreWellFormed

-----------------------------------------------------------------------------
(* The history: what the validator's locals b say about the rows q that it *)
(* has read, when h are the helper directories of the turns so far.        *)

BookFields(b) ==
    b = [row |-> b.row, active |-> b.active, turns |-> b.turns,
         completed |-> b.completed, user_event |-> b.user_event,
         user_response |-> b.user_response, context |-> b.context]

Rows(q, kind) == {i \in DOMAIN q : q[i].kind = kind}
Says(q, kind, k) == {i \in DOMAIN q : q[i].kind = kind /\ q[i].said = k}

\* A finished turn, between the rows from and to, is the k-th, and has its
\* fragment and its grant.
StartsUpTo(q, from) == {j \in Rows(q, "task_started") : j <= from}
InTurn(q, k, from, to, i) ==
    from < i /\ i < to /\ q[from].turn = q[to].turn /\ Cardinality(StartsUpTo(q, from)) = k
Delivered(q, h, k) ==
    \E from, to \in DOMAIN q :
        /\ q[from].kind = "task_started" /\ q[to].kind = "task_complete"
        /\ Cardinality(Says(q, "item_completed", k)) = 1
        /\ Cardinality(Says(q, "response_item", k)) = 1
        /\ \A i \in Says(q, "item_completed", k) \cup Says(q, "response_item", k) :
              InTurn(q, k, from, to, i)
        /\ \E i \in Rows(q, "turn_context") :
              /\ InTurn(q, k, from, to, i) /\ q[i].grant = h[k]
              /\ \A j \in Rows(q, "turn_context") : from < j /\ j < to => j = i

\* The turn that is being read began with the last start, and the counters
\* count since then.
ContextsAfter(q, from) == {i \in Rows(q, "turn_context") : from < i}
Reading(b, q, h) ==
    \E from \in Rows(q, "task_started") :
        /\ q[from].turn = b.active
        /\ \A j \in Rows(q, "task_started") : j <= from
        /\ \A i \in Says(q, "item_completed", b.completed + 1)
                      \cup Says(q, "response_item", b.completed + 1) : from < i
        /\ Cardinality(Says(q, "item_completed", b.completed + 1)) = b.user_event
        /\ Cardinality(Says(q, "response_item", b.completed + 1)) = b.user_response
        /\ Cardinality(ContextsAfter(q, from)) = b.context
        /\ \A i \in ContextsAfter(q, from) : q[i].grant = h[b.completed + 1]

\* Turns begun: all of the helpers' directories at most.
Begun(b) == b.completed + (IF b.active = NoTurn THEN 0 ELSE 1)

BookAgrees(b, q, h) ==
    /\ q \in Seq(Row) /\ BookFields(b)
    /\ b.completed \in Nat /\ Begun(b) <= Len(h)
    /\ b.turns = {q[i].turn : i \in Rows(q, "task_started")} /\ IsFiniteSet(b.turns)
    /\ Cardinality(b.turns) = Begun(b)
    /\ Cardinality(Rows(q, "task_started")) = Begun(b)
    /\ \A k \in 1 .. b.completed : Delivered(q, h, k)
    /\ \A k \in Begun(b) + 1 .. Len(h) :
          Says(q, "item_completed", k) = {} /\ Says(q, "response_item", k) = {}
    /\ b.active # NoTurn => Reading(b, q, h)

LEMMA FiniteRows ==
    ASSUME NEW q \in Seq(Row)
    PROVE  \A S \in SUBSET DOMAIN q : IsFiniteSet(S)
<1>1. IsFiniteSet(1 .. Len(q))
  BY FS_Interval
<1> QED
  BY <1>1, FS_Subset

LEMMA OneMore ==
    ASSUME NEW S, NEW x, IsFiniteSet(S), x \notin S
    PROVE  IsFiniteSet(S \cup {x}) /\ Cardinality(S \cup {x}) = Cardinality(S) + 1
  BY FS_AddElement

LEMMA NothingBooked ==
    ASSUME NEW h, Len(h) \in Nat
    PROVE  BookAgrees(NoBook, <<>>, h)
<1>1. \A kind : Rows(<<>>, kind) = {} /\ \A k : Says(<<>>, kind, k) = {}
  BY DEF Rows, Says
<1> QED
  BY <1>1, FS_EmptySet DEF BookAgrees, BookFields, NoBook, Begun, NoTurn

\* What one more row adds.
LEMMA RowAdded ==
    ASSUME NEW q \in Seq(Row), NEW r \in Row
    PROVE  LET n == Len(q) + 1
               p == Append(q, r)
           IN  /\ p \in Seq(Row) /\ DOMAIN p = DOMAIN q \cup {n} /\ p[n] = r /\ n \in Nat
               /\ \A i \in DOMAIN q : p[i] = q[i] /\ i \in Nat /\ i < n
               /\ \A kind : Rows(p, kind) = IF r.kind = kind THEN Rows(q, kind) \cup {n}
                                            ELSE Rows(q, kind)
               /\ \A kind, k : Says(p, kind, k) =
                                  IF r.kind = kind /\ r.said = k THEN Says(q, kind, k) \cup {n}
                                  ELSE Says(q, kind, k)
<1> DEFINE n == Len(q) + 1
           p == Append(q, r)
<1>1. p \in Seq(Row) /\ DOMAIN p = DOMAIN q \cup {n} /\ p[n] = r /\ n \in Nat
  BY DEF n, p
<1>2. \A i \in DOMAIN q : p[i] = q[i] /\ i \in Nat /\ i < n
  OBVIOUS
<1> HIDE DEF n, p
<1>3. \A kind : Rows(p, kind) = IF r.kind = kind THEN Rows(q, kind) \cup {n} ELSE Rows(q, kind)
  BY <1>1, <1>2 DEF Rows
<1>4. \A kind, k : Says(p, kind, k) =
                      IF r.kind = kind /\ r.said = k THEN Says(q, kind, k) \cup {n}
                      ELSE Says(q, kind, k)
  BY <1>1, <1>2 DEF Says
<1> QED
  BY <1>1, <1>2, <1>3, <1>4 DEF n, p

LEMMA StartsBefore ==
    ASSUME NEW q \in Seq(Row), NEW r \in Row, NEW from \in DOMAIN q
    PROVE  StartsUpTo(Append(q, r), from) = StartsUpTo(q, from)
  BY RowAdded DEF StartsUpTo, Rows

\* A finished turn stays what it is, as long as its fragment is not told again.
LEMMA DeliveredStays ==
    ASSUME NEW q \in Seq(Row), NEW r \in Row, NEW h, NEW k, Delivered(q, h, k),
           ~(r.kind \in {"item_completed", "response_item"} /\ r.said = k)
    PROVE  Delivered(Append(q, r), h, k)
<1> DEFINE n == Len(q) + 1
           p == Append(q, r)
<1>1. /\ DOMAIN p = DOMAIN q \cup {n} /\ n \in Nat
      /\ \A i \in DOMAIN q : p[i] = q[i] /\ i \in Nat /\ i < n
      /\ Says(p, "item_completed", k) = Says(q, "item_completed", k)
      /\ Says(p, "response_item", k) = Says(q, "response_item", k)
      /\ Rows(q, "turn_context") \subseteq Rows(p, "turn_context")
      /\ Rows(p, "turn_context") \subseteq Rows(q, "turn_context") \cup {n}
      /\ Rows(q, "turn_context") \subseteq DOMAIN q
  BY RowAdded DEF Rows
<1>2. PICK from, to \in DOMAIN q :
        /\ q[from].kind = "task_started" /\ q[to].kind = "task_complete"
        /\ Cardinality(Says(q, "item_completed", k)) = 1
        /\ Cardinality(Says(q, "response_item", k)) = 1
        /\ \A i \in Says(q, "item_completed", k) \cup Says(q, "response_item", k) :
              InTurn(q, k, from, to, i)
        /\ \E i \in Rows(q, "turn_context") :
              /\ InTurn(q, k, from, to, i) /\ q[i].grant = h[k]
              /\ \A j \in Rows(q, "turn_context") : from < j /\ j < to => j = i
  BY DEF Delivered
<1>3. StartsUpTo(p, from) = StartsUpTo(q, from)
  BY StartsBefore
<1> HIDE DEF p, n
<1>4. \A i : InTurn(p, k, from, to, i) <=> InTurn(q, k, from, to, i)
  BY <1>1, <1>3 DEF InTurn
<1>5. PICK i \in Rows(q, "turn_context") :
              /\ InTurn(q, k, from, to, i) /\ q[i].grant = h[k]
              /\ \A j \in Rows(q, "turn_context") : from < j /\ j < to => j = i
  BY <1>2
<1>6. \A j \in Rows(p, "turn_context") : from < j /\ j < to => j = i
  BY <1>1, <1>5
<1>7. p[i].grant = h[k] /\ i \in Rows(p, "turn_context") /\ InTurn(p, k, from, to, i)
  BY <1>1, <1>4, <1>5
<1>8. Delivered(p, h, k)
  BY <1>1, <1>2, <1>4, <1>6, <1>7 DEF Delivered
<1> QED
  BY <1>8 DEF p

LEMMA NextBook ==
    ASSUME NEW b, NEW r \in Row, NEW h, BookFields(b), row_fits(b, r, h)
    PROVE  LET t == next_book(b, r, h)
               answers == r.kind = "response_item" /\ r.said \in DOMAIN h
           IN  /\ BookFields(t)
               /\ r.kind = "task_started" =>
                     /\ t.active = r.turn /\ t.turns = b.turns \cup {r.turn}
                     /\ t.completed = b.completed
                     /\ t.user_event = 0 /\ t.user_response = 0 /\ t.context = 0
               /\ r.kind = "task_complete" =>
                     /\ t.active = NoTurn /\ t.turns = b.turns
                     /\ t.completed = b.completed + 1
               /\ r.kind \notin {"task_started", "task_complete"} =>
                     /\ t.active = b.active /\ t.turns = b.turns
                     /\ t.completed = b.completed
                     /\ t.user_event = IF r.kind = "item_completed" THEN b.user_event + 1
                                       ELSE b.user_event
                     /\ t.user_response = IF answers THEN b.user_response + 1
                                          ELSE b.user_response
                     /\ t.context = IF r.kind = "turn_context" THEN b.context + 1
                                    ELSE b.context
<1> DEFINE t == next_book(b, r, h)
           u == booked(b, r, h)
<1>1. CASE r.kind = "turn_context"
  <2>1. u = [b EXCEPT !.context = b.context + 1]
    BY <1>1 DEF booked
  <2> HIDE DEF u
  <2>2. t = [u EXCEPT !.row = u.row + 1]
    BY DEF next_book, u
  <2>3. t = [row |-> b.row + 1, active |-> b.active, turns |-> b.turns,
             completed |-> b.completed, user_event |-> b.user_event,
             user_response |-> b.user_response, context |-> b.context + 1]
    BY <2>1, <2>2 DEF BookFields
  <2> QED
    BY <1>1, <2>3 DEF BookFields
<1>2. CASE r.kind = "response_item"
  <2> DEFINE x == IF r.said \in DOMAIN h THEN b.user_response + 1 ELSE b.user_response
  <2>1. u = IF r.said \in DOMAIN h THEN [b EXCEPT !.user_response = b.user_response + 1] ELSE b
    BY <1>2 DEF booked
  <2> HIDE DEF u
  <2>2. t = [u EXCEPT !.row = u.row + 1]
    BY DEF next_book, u
  <2>3. t = [row |-> b.row + 1, active |-> b.active, turns |-> b.turns,
             completed |-> b.completed, user_event |-> b.user_event,
             user_response |-> x, context |-> b.context]
    BY <2>1, <2>2 DEF BookFields
  <2> QED
    BY <1>2, <2>3 DEF BookFields
<1>3. CASE r.kind = "item_completed"
  <2>1. u = [b EXCEPT !.user_event = b.user_event + 1]
    BY <1>3 DEF booked
  <2> HIDE DEF u
  <2>2. t = [u EXCEPT !.row = u.row + 1]
    BY DEF next_book, u
  <2>3. t = [row |-> b.row + 1, active |-> b.active, turns |-> b.turns,
             completed |-> b.completed, user_event |-> b.user_event + 1,
             user_response |-> b.user_response, context |-> b.context]
    BY <2>1, <2>2 DEF BookFields
  <2> QED
    BY <1>3, <2>3 DEF BookFields
<1>4. CASE r.kind = "task_started"
  <2>1. u = [b EXCEPT !.active = r.turn, !.turns = b.turns \cup {r.turn},
                      !.user_event = 0, !.user_response = 0, !.context = 0]
    BY <1>4 DEF booked
  <2> HIDE DEF u
  <2>2. t = [u EXCEPT !.row = u.row + 1]
    BY DEF next_book, u
  <2>3. t = [row |-> b.row + 1, active |-> r.turn, turns |-> b.turns \cup {r.turn},
             completed |-> b.completed, user_event |-> 0,
             user_response |-> 0, context |-> 0]
    BY <2>1, <2>2 DEF BookFields
  <2> QED
    BY <1>4, <2>3 DEF BookFields
<1>5. CASE r.kind = "task_complete"
  <2>1. u = [b EXCEPT !.active = NoTurn, !.completed = b.completed + 1]
    BY <1>5 DEF booked
  <2> HIDE DEF u
  <2>2. t = [u EXCEPT !.row = u.row + 1]
    BY DEF next_book, u
  <2>3. t = [row |-> b.row + 1, active |-> NoTurn, turns |-> b.turns,
             completed |-> b.completed + 1, user_event |-> b.user_event,
             user_response |-> b.user_response, context |-> b.context]
    BY <2>1, <2>2 DEF BookFields
  <2> QED
    BY <1>5, <2>3 DEF BookFields
<1>6. CASE r.kind \notin {"turn_context", "response_item", "item_completed", "task_started",
                          "task_complete"}
  <2>1. u = b
    BY <1>6 DEF booked
  <2> HIDE DEF u
  <2>2. t = [u EXCEPT !.row = u.row + 1]
    BY DEF next_book, u
  <2>3. t = [row |-> b.row + 1, active |-> b.active, turns |-> b.turns,
             completed |-> b.completed, user_event |-> b.user_event,
             user_response |-> b.user_response, context |-> b.context]
    BY <2>1, <2>2 DEF BookFields
  <2> QED
    BY <1>6, <2>3 DEF BookFields
<1> QED
  BY <1>1, <1>2, <1>3, <1>4, <1>5, <1>6

\* A row within a turn, or between two, that neither begins nor ends one.
LEMMA RowWithin ==
    ASSUME NEW b, NEW q, NEW h \in Seq(Nat), NEW r \in Row, BookAgrees(b, q, h),
           row_fits(b, r, h), r.kind \notin {"task_started", "task_complete"}
    PROVE  BookAgrees(next_book(b, r, h), Append(q, r), h)
<1> DEFINE n == Len(q) + 1
           p == Append(q, r)
           t == next_book(b, r, h)
           c == b.completed + 1
           answers == r.kind = "response_item" /\ r.said \in DOMAIN h
<1>1. /\ q \in Seq(Row) /\ BookFields(b) /\ b.completed \in Nat /\ Begun(b) <= Len(h)
      /\ DOMAIN h = 1 .. Len(h) /\ Len(h) \in Nat
  BY DEF BookAgrees
<1>2. /\ p \in Seq(Row) /\ n \in Nat /\ p[n] = r /\ n \notin DOMAIN q
      /\ \A i \in DOMAIN q : p[i] = q[i] /\ i \in Nat /\ i < n
      /\ Rows(p, "task_started") = Rows(q, "task_started")
      /\ Rows(q, "task_started") \subseteq DOMAIN q
      /\ Rows(p, "turn_context") = IF r.kind = "turn_context" THEN Rows(q, "turn_context") \cup {n}
                                   ELSE Rows(q, "turn_context")
      /\ Rows(q, "turn_context") \subseteq DOMAIN q
  BY <1>1, RowAdded DEF Rows
<1>3. \A k : /\ Says(p, "item_completed", k) =
                  IF r.kind = "item_completed" /\ r.said = k
                  THEN Says(q, "item_completed", k) \cup {n} ELSE Says(q, "item_completed", k)
             /\ Says(p, "response_item", k) =
                  IF r.kind = "response_item" /\ r.said = k
                  THEN Says(q, "response_item", k) \cup {n} ELSE Says(q, "response_item", k)
             /\ Says(q, "item_completed", k) \subseteq DOMAIN q
             /\ Says(q, "response_item", k) \subseteq DOMAIN q
  BY <1>1, RowAdded DEF Says
<1>4. /\ BookFields(t) /\ t.active = b.active /\ t.turns = b.turns
      /\ t.completed = b.completed /\ Begun(t) = Begun(b)
      /\ t.user_event = IF r.kind = "item_completed" THEN b.user_event + 1 ELSE b.user_event
      /\ t.user_response = IF answers THEN b.user_response + 1 ELSE b.user_response
      /\ t.context = IF r.kind = "turn_context" THEN b.context + 1 ELSE b.context
  BY <1>1, NextBook DEF Begun
<1>5. /\ r.kind = "item_completed" => b.active # NoTurn /\ r.said = c
      /\ answers => b.active # NoTurn /\ r.said = c
      /\ r.kind = "turn_context" => b.active # NoTurn /\ r.grant = h[c]
  BY DEF row_fits, fits_context, fits_response
<1> HIDE DEF n, p, t
<1>6. \A k \in 1 .. b.completed : Delivered(p, h, k)
  <2> SUFFICES ASSUME NEW k \in 1 .. b.completed PROVE Delivered(p, h, k)
    OBVIOUS
  <2>1. k \in DOMAIN h /\ k # c
    BY <1>1 DEF Begun
  <2>2. ~(r.kind \in {"item_completed", "response_item"} /\ r.said = k)
    BY <1>5, <2>1
  <2> QED
    BY <1>1, <2>2, DeliveredStays DEF BookAgrees, p
<1>7. \A k \in Begun(b) + 1 .. Len(h) :
          Says(p, "item_completed", k) = {} /\ Says(p, "response_item", k) = {}
  <2> SUFFICES ASSUME NEW k \in Begun(b) + 1 .. Len(h)
               PROVE  Says(p, "item_completed", k) = {} /\ Says(p, "response_item", k) = {}
    OBVIOUS
  <2>1. k \in DOMAIN h /\ (b.active # NoTurn => k # c)
    BY <1>1 DEF Begun
  <2>2. ~(r.kind \in {"item_completed", "response_item"} /\ r.said = k)
    BY <1>5, <2>1
  <2> QED
    BY <1>3, <2>2 DEF BookAgrees
<1>8. ASSUME b.active # NoTurn PROVE Reading(t, p, h)
  <2>1. PICK from \in Rows(q, "task_started") :
        /\ q[from].turn = b.active
        /\ \A j \in Rows(q, "task_started") : j <= from
        /\ \A i \in Says(q, "item_completed", c) \cup Says(q, "response_item", c) : from < i
        /\ Cardinality(Says(q, "item_completed", c)) = b.user_event
        /\ Cardinality(Says(q, "response_item", c)) = b.user_response
        /\ Cardinality(ContextsAfter(q, from)) = b.context
        /\ \A i \in ContextsAfter(q, from) : q[i].grant = h[c]
    BY <1>8 DEF BookAgrees, Reading
  <2>2. from \in DOMAIN q /\ from \in Nat /\ from < n /\ p[from] = q[from]
    BY <1>2
  <2>3. /\ ContextsAfter(p, from) = IF r.kind = "turn_context"
                                    THEN ContextsAfter(q, from) \cup {n}
                                    ELSE ContextsAfter(q, from)
        /\ ContextsAfter(q, from) \subseteq DOMAIN q
    BY <1>2, <2>2 DEF ContextsAfter
  <2>4. Cardinality(ContextsAfter(p, from)) = t.context
    <3>1. IsFiniteSet(ContextsAfter(q, from))
      BY <1>1, <2>3, FiniteRows
    <3>2. Cardinality(ContextsAfter(q, from) \cup {n}) = b.context + 1
      BY <1>2, <2>1, <2>3, <3>1, OneMore
    <3> QED
      BY <1>4, <2>1, <2>3, <3>2
  <2>5. Cardinality(Says(p, "item_completed", c)) = t.user_event
    <3>1. IsFiniteSet(Says(q, "item_completed", c))
      BY <1>1, <1>3, FiniteRows
    <3>2. Cardinality(Says(q, "item_completed", c) \cup {n}) = b.user_event + 1
      <4> DEFINE S == Says(q, "item_completed", c)
      <4>1. IsFiniteSet(S) /\ n \notin S /\ Cardinality(S) = b.user_event
        BY <1>2, <1>3, <2>1, <3>1
      <4> HIDE DEF S
      <4>2. Cardinality(S \cup {n}) = b.user_event + 1
        BY <4>1, OneMore
      <4> QED
        BY <4>2 DEF S
    <3> QED
      BY <1>3, <1>4, <1>5, <2>1, <3>2
  <2>6. Cardinality(Says(p, "response_item", c)) = t.user_response
    <3>1. IsFiniteSet(Says(q, "response_item", c))
      BY <1>1, <1>3, FiniteRows
    <3>2. Cardinality(Says(q, "response_item", c) \cup {n}) = b.user_response + 1
      <4> DEFINE S == Says(q, "response_item", c)
      <4>1. IsFiniteSet(S) /\ n \notin S /\ Cardinality(S) = b.user_response
        BY <1>2, <1>3, <2>1, <3>1
      <4> HIDE DEF S
      <4>2. Cardinality(S \cup {n}) = b.user_response + 1
        BY <4>1, OneMore
      <4> QED
        BY <4>2 DEF S
    <3>3. c \in DOMAIN h
      BY <1>1, <1>8 DEF Begun
    <3>4. r.kind = "response_item" /\ r.said = c <=> answers
      BY <1>5, <3>3
    <3> QED
      BY <1>3, <1>4, <2>1, <3>2, <3>4
  <2>7. \A i \in ContextsAfter(p, from) : p[i].grant = h[c]
    BY <1>2, <1>5, <2>1, <2>3
  <2>8. \A i \in Says(p, "item_completed", c) \cup Says(p, "response_item", c) : from < i
    BY <1>3, <2>1, <2>2
  <2> HIDE DEF c
  <2>9. /\ from \in Rows(p, "task_started") /\ p[from].turn = t.active
        /\ \A j \in Rows(p, "task_started") : j <= from
    BY <1>2, <1>4, <2>1, <2>2
  <2>10. t.completed + 1 = c
    BY <1>4 DEF c
  <2> QED
    BY <2>4, <2>5, <2>6, <2>7, <2>8, <2>9, <2>10 DEF Reading
<1>9. t.turns = {p[i].turn : i \in Rows(p, "task_started")}
  <2>1. b.turns = {q[i].turn : i \in Rows(q, "task_started")}
    BY DEF BookAgrees
  <2> QED
    BY <1>2, <1>4, <2>1
<1>10. BookAgrees(t, p, h)
  BY <1>1, <1>2, <1>4, <1>6, <1>7, <1>8, <1>9 DEF BookAgrees
<1> QED
  BY <1>10 DEF t, p

\* The start of a turn: its fragment has not been told yet.
LEMMA RowStarts ==
    ASSUME NEW b, NEW q, NEW h \in Seq(Nat), NEW r \in Row, BookAgrees(b, q, h),
           row_fits(b, r, h), r.kind = "task_started"
    PROVE  BookAgrees(next_book(b, r, h), Append(q, r), h)
<1> DEFINE n == Len(q) + 1
           p == Append(q, r)
           t == next_book(b, r, h)
           c == b.completed + 1
<1>1. /\ q \in Seq(Row) /\ BookFields(b) /\ b.completed \in Nat /\ Begun(b) <= Len(h)
      /\ DOMAIN h = 1 .. Len(h) /\ Len(h) \in Nat
  BY DEF BookAgrees
<1>2. /\ p \in Seq(Row) /\ n \in Nat /\ p[n] = r /\ n \notin DOMAIN q
      /\ \A i \in DOMAIN q : p[i] = q[i] /\ i \in Nat /\ i < n
      /\ Rows(p, "task_started") = Rows(q, "task_started") \cup {n}
      /\ Rows(q, "task_started") \subseteq DOMAIN q
      /\ Rows(p, "turn_context") = Rows(q, "turn_context")
      /\ Rows(q, "turn_context") \subseteq DOMAIN q
  BY <1>1, RowAdded DEF Rows
<1>3. \A k : /\ Says(p, "item_completed", k) = Says(q, "item_completed", k)
             /\ Says(p, "response_item", k) = Says(q, "response_item", k)
  BY <1>1, RowAdded DEF Says
<1>4. /\ b.active = NoTurn /\ c \in DOMAIN h /\ r.turn \notin b.turns /\ r.turn # NoTurn
  <2>1. r.turn \in TurnId
    BY DEF Row
  <2> QED
    BY <2>1 DEF row_fits, TurnId, NoTurn
<1>5. /\ BookFields(t) /\ t.active = r.turn /\ t.turns = b.turns \cup {r.turn}
      /\ t.completed = b.completed /\ Begun(b) = b.completed /\ Begun(t) = c
      /\ t.user_event = 0 /\ t.user_response = 0 /\ t.context = 0
  <2>1. /\ BookFields(t) /\ t.active = r.turn /\ t.turns = b.turns \cup {r.turn}
        /\ t.completed = b.completed
        /\ t.user_event = 0 /\ t.user_response = 0 /\ t.context = 0
    BY <1>1, NextBook
  <2> HIDE DEF t
  <2> QED
    BY <1>1, <1>4, <2>1 DEF Begun
<1> HIDE DEF n, p, t
<1>6. \A k \in 1 .. b.completed : Delivered(p, h, k)
  BY <1>1, DeliveredStays DEF BookAgrees, p
<1>7. \A k \in b.completed + 1 .. Len(h) :
          Says(p, "item_completed", k) = {} /\ Says(p, "response_item", k) = {}
  BY <1>3, <1>5 DEF BookAgrees
<1>8. Reading(t, p, h)
  <2>1. Says(p, "item_completed", c) = {} /\ Says(p, "response_item", c) = {}
    BY <1>1, <1>4, <1>7
  <2>2. ContextsAfter(p, n) = {}
    BY <1>2 DEF ContextsAfter
  <2>3. /\ n \in Rows(p, "task_started") /\ p[n].turn = t.active
        /\ \A j \in Rows(p, "task_started") : j <= n
    BY <1>2, <1>5
  <2> HIDE DEF c
  <2>4. t.completed + 1 = c
    BY <1>5 DEF c
  <2> QED
    BY <1>5, <2>1, <2>2, <2>3, <2>4, FS_EmptySet DEF Reading
<1>9. t.turns = {p[i].turn : i \in Rows(p, "task_started")}
  <2>1. {p[i].turn : i \in Rows(p, "task_started")}
           = {q[i].turn : i \in Rows(q, "task_started")} \cup {r.turn}
    BY <1>2
  <2> QED
    BY <1>5, <2>1 DEF BookAgrees
<1>10. /\ IsFiniteSet(t.turns) /\ Cardinality(t.turns) = c
       /\ Cardinality(Rows(p, "task_started")) = c
  <2>1. /\ IsFiniteSet(b.turns) /\ Cardinality(b.turns) = b.completed
        /\ Cardinality(Rows(q, "task_started")) = b.completed
    BY <1>5 DEF BookAgrees
  <2>2. IsFiniteSet(Rows(q, "task_started")) /\ n \notin Rows(q, "task_started")
    BY <1>1, <1>2, FiniteRows
  <2>3. IsFiniteSet(t.turns) /\ Cardinality(t.turns) = c
    <3>1. /\ IsFiniteSet(b.turns \cup {r.turn})
          /\ Cardinality(b.turns \cup {r.turn}) = Cardinality(b.turns) + 1
      BY <1>4, <2>1, OneMore
    <3> QED
      BY <1>5, <2>1, <3>1
  <2>4. Cardinality(Rows(p, "task_started")) = c
    BY <1>2, <2>1, <2>2, OneMore
  <2> QED
    BY <2>3, <2>4
<1>11. c <= Len(h) /\ b.completed + 1 = c /\ c + 1 > b.completed + 1
  BY <1>1, <1>4
<1>12. \A k \in c + 1 .. Len(h) :
          Says(p, "item_completed", k) = {} /\ Says(p, "response_item", k) = {}
  <2>1. \A k \in c + 1 .. Len(h) : k \in b.completed + 1 .. Len(h)
    BY <1>1
  <2> QED
    BY <1>7, <2>1
<1> HIDE DEF c
<1>13. BookAgrees(t, p, h)
  BY <1>1, <1>2, <1>5, <1>6, <1>8, <1>9, <1>10, <1>11, <1>12 DEF BookAgrees
<1> QED
  BY <1>13 DEF t, p

\* The end of a turn: its fragment has been told once, under its one grant.
LEMMA RowCompletes ==
    ASSUME NEW b, NEW q, NEW h \in Seq(Nat), NEW r \in Row, BookAgrees(b, q, h),
           row_fits(b, r, h), r.kind = "task_complete"
    PROVE  BookAgrees(next_book(b, r, h), Append(q, r), h)
<1> DEFINE n == Len(q) + 1
           p == Append(q, r)
           t == next_book(b, r, h)
           c == b.completed + 1
<1>1. /\ q \in Seq(Row) /\ BookFields(b) /\ b.completed \in Nat /\ Begun(b) <= Len(h)
      /\ DOMAIN h = 1 .. Len(h) /\ Len(h) \in Nat
  BY DEF BookAgrees
<1>2. /\ p \in Seq(Row) /\ n \in Nat /\ p[n] = r /\ n \notin DOMAIN q /\ n \in DOMAIN p
      /\ \A i \in DOMAIN q : p[i] = q[i] /\ i \in Nat /\ i < n /\ i \in DOMAIN p
      /\ Rows(p, "task_started") = Rows(q, "task_started")
      /\ Rows(q, "task_started") \subseteq DOMAIN q
      /\ Rows(p, "turn_context") = Rows(q, "turn_context")
      /\ Rows(q, "turn_context") \subseteq DOMAIN q
  BY <1>1, RowAdded DEF Rows
<1>3. \A k : /\ Says(p, "item_completed", k) = Says(q, "item_completed", k)
             /\ Says(p, "response_item", k) = Says(q, "response_item", k)
             /\ Says(q, "item_completed", k) \subseteq DOMAIN q
             /\ Says(q, "response_item", k) \subseteq DOMAIN q
  BY <1>1, RowAdded DEF Says
<1>4. /\ b.active # NoTurn /\ r.turn = b.active
      /\ b.user_event = 1 /\ b.user_response = 1 /\ b.context = 1
  BY DEF row_fits, fits_complete
<1>5. /\ BookFields(t) /\ t.active = NoTurn /\ t.turns = b.turns
      /\ t.completed = c /\ Begun(b) = c /\ Begun(t) = c
  <2>1. /\ BookFields(t) /\ t.active = NoTurn /\ t.turns = b.turns /\ t.completed = c
    BY <1>1, NextBook
  <2> HIDE DEF t
  <2> QED
    BY <1>1, <1>4, <2>1 DEF Begun
<1> HIDE DEF n, p, t
<1>6. \A k \in 1 .. b.completed : Delivered(p, h, k)
  BY <1>1, DeliveredStays DEF BookAgrees, p
<1>7. \A k \in c + 1 .. Len(h) :
          Says(p, "item_completed", k) = {} /\ Says(p, "response_item", k) = {}
  BY <1>3, <1>5 DEF BookAgrees
<1>8. Delivered(p, h, c)
  <2>1. PICK from \in Rows(q, "task_started") :
        /\ q[from].turn = b.active
        /\ \A j \in Rows(q, "task_started") : j <= from
        /\ \A i \in Says(q, "item_completed", c) \cup Says(q, "response_item", c) : from < i
        /\ Cardinality(Says(q, "item_completed", c)) = b.user_event
        /\ Cardinality(Says(q, "response_item", c)) = b.user_response
        /\ Cardinality(ContextsAfter(q, from)) = b.context
        /\ \A i \in ContextsAfter(q, from) : q[i].grant = h[c]
    BY <1>4 DEF BookAgrees, Reading
  <2>2. from \in DOMAIN q /\ q[from].kind = "task_started"
    BY DEF Rows
  <2>3. Cardinality(StartsUpTo(p, from)) = c
    <3>1. StartsUpTo(p, from) = Rows(q, "task_started")
      BY <1>2, <2>1 DEF StartsUpTo
    <3> QED
      BY <1>5, <3>1 DEF BookAgrees
  <2>4. PICK i : ContextsAfter(q, from) = {i}
    <3>1. ContextsAfter(q, from) \subseteq DOMAIN q
      BY <1>2 DEF ContextsAfter
    <3>2. IsFiniteSet(ContextsAfter(q, from))
      BY <1>1, <3>1, FiniteRows
    <3> QED
      BY <1>4, <2>1, <3>2, FS_Singleton
  <2>5. /\ i \in Rows(p, "turn_context") /\ from < i /\ i < n /\ p[i].grant = h[c]
        /\ \A j \in Rows(p, "turn_context") : from < j /\ j < n => j = i
    <3>1. i \in ContextsAfter(q, from)
      BY <2>4
    <3>2. i \in Rows(q, "turn_context") /\ from < i /\ q[i].grant = h[c]
      BY <2>1, <3>1 DEF ContextsAfter
    <3>3. \A j \in Rows(q, "turn_context") : from < j => j = i
      BY <2>4 DEF ContextsAfter
    <3> QED
      BY <1>2, <3>2, <3>3
  <2>6. p[from].turn = p[n].turn /\ p[from].kind = "task_started" /\ p[n].kind = "task_complete"
    BY <1>2, <1>4, <2>1, <2>2
  <2>7. \A j \in Says(p, "item_completed", c) \cup Says(p, "response_item", c) :
           from < j /\ j < n
    BY <1>2, <1>3, <2>1
  <2>8. /\ Cardinality(Says(p, "item_completed", c)) = 1
        /\ Cardinality(Says(p, "response_item", c)) = 1
    BY <1>3, <1>4, <2>1
  <2> HIDE DEF c
  <2>9. /\ \A j \in Says(p, "item_completed", c) \cup Says(p, "response_item", c) :
              InTurn(p, c, from, n, j)
        /\ InTurn(p, c, from, n, i)
    BY <2>3, <2>5, <2>6, <2>7 DEF InTurn
  <2>10. from \in DOMAIN p /\ n \in DOMAIN p
    BY <1>2, <2>2
  <2> QED
    BY <2>5, <2>6, <2>8, <2>9, <2>10 DEF Delivered
<1>9. \A k \in 1 .. c : Delivered(p, h, k)
  <2>1. \A k \in 1 .. c : k \in 1 .. b.completed \/ k = c
    BY <1>1
  <2> QED
    BY <1>6, <1>8, <2>1
<1>10. t.turns = {p[i].turn : i \in Rows(p, "task_started")}
  <2>1. b.turns = {q[i].turn : i \in Rows(q, "task_started")}
    BY DEF BookAgrees
  <2> QED
    BY <1>2, <1>5, <2>1
<1>11. c \in Nat /\ c <= Len(h)
  BY <1>1, <1>5
<1> HIDE DEF c
<1>12. BookAgrees(t, p, h)
  BY <1>1, <1>2, <1>5, <1>7, <1>9, <1>10, <1>11 DEF BookAgrees
<1> QED
  BY <1>12 DEF t, p

\* What is accepted, once the validator has reached the end of the rows.
Whole(q, h) ==
    /\ Cardinality({q[i].turn : i \in Rows(q, "task_started")}) = Len(h)
    /\ Cardinality(Rows(q, "task_started")) = Len(h)
    /\ \A k \in 1 .. Len(h) : Delivered(q, h, k)

HelpersOK ==
    /\ turn \in Nat /\ helper \in Nat /\ helpers \in Seq(Nat)
    /\ aliases \subseteq [of : Nat, state : {"partial", "complete", "foreign"}]

Before == {"start", "sandbox", "short", "asked", "long"}

\* How many helper directories are known where.
HelpersCounted ==
    /\ phase \in Before => turn = 1
    /\ phase \in Before \cup {"turn", "ended"} \cup Bounded => Len(helpers) = turn - 1
    /\ phase \in {"events", "history", "answer"} => Len(helpers) = turn
    /\ phase = "asked" => given
    /\ phase = "verdict" /\ ~given => Len(helpers) = parts

Accepted ==
    (phase = "turn" /\ turn > 1) \/ phase = "answer" \/ (phase = "verdict" /\ ~given) =>
        Whole(history, helpers)

HistoryInv ==
    /\ HelpersOK /\ HelpersCounted /\ Accepted
    /\ BookAgrees(book, rows, helpers)
    /\ phase # "history" => book = NoBook /\ rows = <<>>

LEMMA HistoryInit == Init => HistoryInv
<1> SUFFICES ASSUME Init PROVE HistoryInv
  OBVIOUS
<1>1. /\ phase = "start" /\ turn = 1 /\ helpers = <<>> /\ helper = 0 /\ aliases = {}
      /\ book = NoBook /\ rows = <<>>
  BY DEF Init, TurnsInit, ProcessInit, NoHelper
<1>2. BookAgrees(book, rows, helpers)
  BY <1>1, NothingBooked
<1> QED
  BY <1>1, <1>2 DEF HistoryInv, HelpersOK, HelpersCounted, Accepted, Before, Bounded

\* What the process of a turn does to its runner.
LEMMA ProcessMoves ==
    ASSUME HelpersOK, ProcessStep
    PROVE  /\ phase' = phase \/ (phase \in Bounded /\ phase' \in Bounded \cup {"ended"})
           /\ turn' = turn /\ helper' \in Nat
           /\ aliases' \subseteq [of : Nat, state : {"partial", "complete", "foreign"}]
<1>1. CASE \E c \in {0, 1} : Exits(c)
  BY <1>1 DEF Exits, HelpersOK, runner
<1>2. CASE (\E holds \in BOOLEAN : Forks(holds)) \/ ClosesPipes \/ LeavesGroup \/ ChildExits
  BY <1>2 DEF Forks, ClosesPipes, LeavesGroup, ChildExits, HelpersOK, runner
<1>3. CASE BuildsAliases
  <2>1. /\ phase' = phase /\ turn' = turn /\ helper' = helper
        /\ aliases' \subseteq aliases \cup {Own("partial"), Own("foreign"), Own("complete")}
    BY <1>3 DEF BuildsAliases, runner
  <2>2. {Own("partial"), Own("foreign"), Own("complete")}
           \subseteq [of : Nat, state : {"partial", "complete", "foreign"}]
    BY DEF Own, HelpersOK
  <2> QED
    BY <2>1, <2>2 DEF HelpersOK
<1>4. CASE FindAlias
  <2>1. /\ phase = "alias" /\ phase' \in {"drain", "term"} /\ turn' = turn /\ aliases' = aliases
        /\ \/ helper' = helper
           \/ complete /\ helper' = (CHOOSE a \in aliases : TRUE).of
    BY <1>4 DEF FindAlias, Loops, Fail
  <2>2. complete => (CHOOSE a \in aliases : TRUE).of \in Nat
    BY DEF complete, HelpersOK
  <2> QED
    BY <2>1, <2>2 DEF HelpersOK, Bounded
<1>5. CASE DrainLate \/ Exceeds \/ WritePrompt \/ AliasLate
  BY <1>5 DEF DrainLate, Exceeds, WritePrompt, AliasLate, Fail, Loops, process, HelpersOK,
              Bounded
<1>6. CASE Drained \/ Wait \/ Terminate \/ Kill
  BY <1>6 DEF Drained, Wait, Terminate, Kill, Fail, process, HelpersOK, Bounded
<1> QED
  BY <1>1, <1>2, <1>3, <1>4, <1>5, <1>6 DEF ProcessStep

\* A step that leaves the conversation and its validation alone.
LEMMA OutsideKeeps ==
    ASSUME HistoryInv, UNCHANGED <<conversation, validation>>,
           HelpersOK', HelpersCounted', phase' # "history" => phase # "history",
           (phase' = "turn" /\ turn' > 1) \/ phase' = "answer" \/ (phase' = "verdict" /\ ~given') =>
              (phase = "turn" /\ turn > 1) \/ phase = "answer" \/ (phase = "verdict" /\ ~given)
    PROVE  HistoryInv'
<1>1. UNCHANGED <<helpers, history, book, rows>>
  BY DEF conversation, validation
<1>2. Accepted'
  BY <1>1 DEF HistoryInv, Accepted
<1>3. BookAgrees(book, rows, helpers)'
  BY <1>1 DEF HistoryInv
<1> QED
  BY <1>1, <1>2, <1>3 DEF HistoryInv

LEMMA HistoryStep == HistoryInv /\ [Next]_vars => HistoryInv'
<1> SUFFICES ASSUME HistoryInv, [Next]_vars PROVE HistoryInv'
  OBVIOUS
<1>1. /\ HelpersOK /\ HelpersCounted /\ Accepted /\ BookAgrees(book, rows, helpers)
      /\ phase # "history" => book = NoBook /\ rows = <<>>
  BY DEF HistoryInv
<1>2. CASE ProcessStep /\ UNCHANGED <<conversation, validation, execution>>
  <2>1. /\ phase' = phase \/ (phase \in Bounded /\ phase' \in Bounded \cup {"ended"})
        /\ turn' = turn /\ HelpersOK'
    BY <1>1, <1>2, ProcessMoves DEF HelpersOK, conversation
  <2>2. HelpersCounted'
    BY <1>1, <1>2, <2>1 DEF HelpersCounted, conversation, execution, parts, Bounded, Before
  <2> QED
    BY <1>2, <2>1, <2>2, OutsideKeeps DEF Bounded, execution
<1>3. CASE Tick /\ UNCHANGED <<conversation, validation, execution>>
  <2>1. phase' = phase /\ turn' = turn /\ given' = given /\ HelpersOK' /\ HelpersCounted'
    BY <1>1, <1>3 DEF Tick, HelpersOK, HelpersCounted, runner, process, conversation,
                      execution, parts
  <2> QED
    BY <1>3, <2>1, OutsideKeeps
<1>4. CASE Execute
  <2>1. /\ UNCHANGED <<conversation, validation, turns>>
        /\ turn' = turn /\ UNCHANGED <<helper, aliases, helpers, prompt>>
    BY <1>4 DEF Execute, Refuse, Prepare, Ask, Update, Save, Preflight, Answered, turns,
                conversation, process
  <2>2. \/ phase # "history" /\ phase' \in {"done", "raised", "closing"}
        \/ phase \in Before /\ phase' \in Before /\ (phase' = "asked" => given')
        \/ phase = "asked" /\ phase' = "verdict" /\ given' = given
    BY <1>4 DEF Execute, Refuse, Prepare, Ask, Update, Save, Preflight, Answered, Before,
                execution
  <2>3. HelpersOK' /\ HelpersCounted'
    BY <1>1, <2>1, <2>2 DEF HelpersOK, HelpersCounted, Before, Bounded
  <2> QED
    BY <1>1, <2>1, <2>2, <2>3, OutsideKeeps DEF HelpersCounted, Before
<1>5. CASE (BeginTurns \/ BeginTurn \/ RefuseTurn) /\ UNCHANGED execution
  <2>1. /\ UNCHANGED <<conversation, validation>> /\ UNCHANGED <<aliases, helpers, prompt, turn>>
        /\ phase \in {"long", "turn"} /\ helper' \in {helper, NoHelper}
        /\ phase' \in (IF phase = "long" THEN {"turn"} ELSE {"drain"}) \cup {"raised"}
    BY <1>5 DEF BeginTurns, BeginTurn, RefuseTurn, Raise, Spawn, process, conversation
  <2>2. HelpersOK' /\ HelpersCounted'
    BY <1>1, <2>1 DEF HelpersOK, HelpersCounted, Before, Bounded, NoHelper
  <2>3. ~(phase' = "turn" /\ turn' > 1)
    BY <1>1, <2>1 DEF HelpersCounted, Before
  <2> QED
    BY <2>1, <2>2, <2>3, OutsideKeeps
<1>6. CASE TakeResult
  <2>1. /\ phase = "ended" /\ turn' = turn /\ UNCHANGED <<aliases, prompt, history, validation>>
        /\ \/ phase' = "raised" /\ helpers' = helpers
           \/ phase' = "events" /\ helpers' = Append(helpers, helper)
        /\ helper' = NoHelper
    BY <1>6 DEF TakeResult, Collected, Raise
  <2>2. HelpersOK'
    BY <1>1, <2>1 DEF HelpersOK, NoHelper
  <2>3. HelpersCounted'
    BY <1>1, <2>1 DEF HelpersOK, HelpersCounted, Before, Bounded
  <2>4. BookAgrees(book, rows, helpers)' /\ book' = NoBook /\ rows' = <<>>
    BY <1>1, <2>1, <2>2, NothingBooked DEF HelpersOK, validation
  <2> QED
    BY <2>1, <2>2, <2>3, <2>4 DEF HistoryInv, Accepted
<1>7. CASE ((\E e \in Event : ReadEvent(e)) \/ StreamEnds) /\ UNCHANGED execution
  <2>1. /\ phase = "events" /\ phase' \in {"events", "history", "raised"}
        /\ UNCHANGED <<turn, helper, aliases, helpers, prompt, history, book, rows>>
    BY <1>7 DEF ReadEvent, StreamEnds, Raise, runner, process, conversation
  <2>2. HelpersOK' /\ HelpersCounted'
    BY <1>1, <2>1 DEF HelpersOK, HelpersCounted, Before, Bounded
  <2>3. BookAgrees(book, rows, helpers)' /\ book' = NoBook /\ rows' = <<>>
    BY <1>1, <2>1
  <2> QED
    BY <2>1, <2>2, <2>3 DEF HistoryInv, Accepted
<1>8. CASE (\E r \in Row : ReadRow(r)) /\ UNCHANGED execution
  <2> PICK r \in Row : ReadRow(r)
    BY <1>8
  <2>1. /\ phase = "history" /\ phase' = phase /\ row_fits(book, r, helpers)
        /\ book' = next_book(book, r, helpers) /\ rows' = Append(rows, r)
        /\ UNCHANGED <<turn, helper, aliases, helpers, prompt, history>>
    BY DEF ReadRow, runner, process, conversation
  <2>2. HelpersOK' /\ HelpersCounted'
    BY <1>1, <2>1 DEF HelpersOK, HelpersCounted, Before, Bounded
  <2>3. BookAgrees(next_book(book, r, helpers), Append(rows, r), helpers)
    BY <1>1, <2>1, RowWithin, RowStarts, RowCompletes DEF HelpersOK
  <2>4. BookAgrees(book, rows, helpers)'
    BY <2>1, <2>3
  <2> QED
    BY <2>1, <2>2, <2>4 DEF HistoryInv, Accepted
<1>9. CASE HistoryEnds /\ UNCHANGED execution
  <2>1. /\ phase = "history" /\ book' = NoBook /\ rows' = <<>>
        /\ \/ book_ends(book, history, helpers) /\ history' = rows /\ phase' = "answer"
           \/ phase' = "raised"
        /\ UNCHANGED <<turn, helper, aliases, helpers, prompt>>
    BY <1>9 DEF HistoryEnds, Raise, process
  <2>2. HelpersOK' /\ HelpersCounted'
    BY <1>1, <2>1 DEF HelpersOK, HelpersCounted, Before, Bounded
  <2>3. BookAgrees(book, rows, helpers)'
    BY <1>1, <2>1, NothingBooked DEF HelpersOK
  <2>4. book_ends(book, history, helpers) => Whole(rows, helpers)
    BY <1>1 DEF book_ends, BookAgrees, Begun, Whole
  <2>5. phase' = "answer" => Whole(history, helpers)'
    BY <2>1, <2>4
  <2> QED
    BY <2>1, <2>2, <2>3, <2>5 DEF HistoryInv, Accepted
<1>10. CASE Answer /\ UNCHANGED execution
  <2>1. /\ phase = "answer" /\ UNCHANGED <<helper, aliases, helpers, history, book, rows, given>>
        /\ parts' = parts
        /\ \/ phase' = "turn" /\ turn' = turn + 1
           \/ phase' = "verdict" /\ turn = parts
           \/ phase' = "raised"
        /\ turn' \in {turn, turn + 1}
    BY <1>10 DEF Answer, Raise, process, conversation, execution, parts
  <2>2. HelpersOK'
    BY <1>1, <2>1 DEF HelpersOK
  <2>3. HelpersCounted'
    <3>1. Len(helpers) = turn /\ helpers' = helpers /\ turn \in Nat
      BY <1>1, <2>1 DEF HelpersOK, HelpersCounted
    <3>2. CASE phase' = "turn" /\ turn' = turn + 1
      BY <3>1, <3>2 DEF HelpersCounted, Before, Bounded
    <3>3. CASE phase' = "verdict" /\ turn = parts
      BY <2>1, <3>1, <3>3 DEF HelpersCounted, Before, Bounded
    <3>4. CASE phase' = "raised"
      BY <3>4 DEF HelpersCounted, Before, Bounded
    <3> QED
      BY <2>1, <3>2, <3>3, <3>4
  <2>4. Whole(history, helpers)' /\ BookAgrees(book, rows, helpers)'
        /\ book' = NoBook /\ rows' = <<>>
    BY <1>1, <2>1 DEF Accepted
  <2> QED
    BY <2>1, <2>2, <2>3, <2>4 DEF HistoryInv, Accepted
<1>11. CASE UNCHANGED vars
  <2>1. UNCHANGED <<phase, turn, given, helper, aliases, helpers, prompt, history, book, rows,
                    conversation, validation>>
    BY <1>11 DEF vars, conversation, validation
  <2>2. HelpersOK' /\ HelpersCounted'
    BY <1>1, <2>1 DEF HelpersOK, HelpersCounted, parts
  <2> QED
    BY <2>1, <2>2, OutsideKeeps
<1> QED
  BY <1>2, <1>3, <1>4, <1>5, <1>6, <1>7, <1>8, <1>9, <1>10, <1>11 DEF Next, TurnsStep

\* Between two turns, and when the last has given its verdict, the history that
\* was accepted tells each fragment of the turns so far once, as what the user
\* sent and as what the model got, in a turn of its own with one context, which
\* grants the helper directory verified in that turn.
THEOREM TurnHistoryTellsDelivery == Spec => []HistoryTellsDelivery
<1>1. ASSUME HistoryInv PROVE HistoryTellsDelivery
  <2> SUFFICES ASSUME (phase = "turn" /\ turn > 1) \/ (phase = "verdict" /\ ~given)
               PROVE  LET n == IF phase = "turn" THEN turn - 1 ELSE parts
                      IN  /\ Cardinality({history[i].turn : i \in Tasks("task_started")}) = n
                          /\ Cardinality(Tasks("task_started")) = n
                          /\ \A k \in 1 .. n : \E from, to \in DOMAIN history :
                                /\ history[from].kind = "task_started"
                                /\ history[to].kind = "task_complete"
                                /\ Cardinality(Told(k)) = 1 /\ Cardinality(Heard(k)) = 1
                                /\ \A i \in Told(k) \cup Heard(k) : Turn(k, from, to, i)
                                /\ \E i \in Tasks("turn_context") :
                                      /\ Turn(k, from, to, i) /\ history[i].grant = helpers[k]
                                      /\ \A j \in Tasks("turn_context") :
                                            from < j /\ j < to => j = i
    BY DEF HistoryTellsDelivery
  <2> DEFINE n == IF phase = "turn" THEN turn - 1 ELSE parts
  <2>1. Len(helpers) = n /\ Whole(history, helpers)
    BY <1>1 DEF HistoryInv, HelpersCounted, Accepted, Bounded
  <2>2. /\ \A kind : Tasks(kind) = Rows(history, kind)
        /\ \A k : Told(k) = Says(history, "item_completed", k)
        /\ \A k : Heard(k) = Says(history, "response_item", k)
        /\ \A k, from, to, i : Turn(k, from, to, i) <=> InTurn(history, k, from, to, i)
    BY DEF Tasks, Told, Heard, Turn, Rows, Says, InTurn, StartsUpTo
  <2> HIDE DEF n
  <2>3. \A k \in 1 .. n : \E from, to \in DOMAIN history :
            /\ history[from].kind = "task_started" /\ history[to].kind = "task_complete"
            /\ Cardinality(Told(k)) = 1 /\ Cardinality(Heard(k)) = 1
            /\ \A i \in Told(k) \cup Heard(k) : Turn(k, from, to, i)
            /\ \E i \in Tasks("turn_context") :
                  /\ Turn(k, from, to, i) /\ history[i].grant = helpers[k]
                  /\ \A j \in Tasks("turn_context") : from < j /\ j < to => j = i
    BY <2>1, <2>2 DEF Whole, Delivered
  <2>4. /\ Cardinality({history[i].turn : i \in Tasks("task_started")}) = n
        /\ Cardinality(Tasks("task_started")) = n
    BY <2>1, <2>2 DEF Whole
  <2> QED
    BY <2>3, <2>4 DEF n
<1> QED
  BY <1>1, HistoryInit, HistoryStep, PTL DEF Spec

-----------------------------------------------------------------------------
(* The prompt: its fragments cover it, a history tells them in their order, *)
(* and the review implements PromptDelivery.                                *)

LEMMA FragmentsCover ==
    ASSUME prompt \in Prompt
    PROVE  /\ parts \in Nat \ {0} /\ prompt.chars \in Nat \ {0}
           /\ \A k \in 1 .. parts :
                 /\ fragment(k).from = (k - 1) * Chunk + 1
                 /\ fragment(k).from \in Nat /\ fragment(k).from <= prompt.chars
                 /\ fragment(k).to = IF k = parts THEN prompt.chars ELSE k * Chunk
                 /\ fragment(k).to \in Nat /\ fragment(k).from <= fragment(k).to
                 /\ fragment(k).to <= prompt.chars
<1> DEFINE n == prompt.chars
           d == (n + Chunk - 1) \div Chunk
           rest == (n + Chunk - 1) % Chunk
<1>1. n \in Nat \ {0} /\ Chunk \in Nat \ {0}
  BY TurnAssumption
<1> HIDE DEF n
<1>2. /\ d \in Nat /\ rest \in 0 .. Chunk - 1
      /\ n + Chunk - 1 = d * Chunk + rest
  BY <1>1
<1>3. parts = d
  BY DEF parts, n
<1> HIDE DEF d, rest
<1>4. d # 0
  BY <1>1, <1>2
<1>5. d * Chunk >= n /\ (d - 1) * Chunk < n
  <2>1. (d - 1) * Chunk = d * Chunk - Chunk
    BY <1>1, <1>2
  <2>2. d * Chunk \in Nat
    BY <1>1, <1>2
  <2> QED
    BY <1>1, <1>2, <2>1, <2>2
<1>6. ASSUME NEW k \in 1 .. d
      PROVE  /\ fragment(k).from = (k - 1) * Chunk + 1
             /\ fragment(k).from \in Nat /\ fragment(k).from <= n
             /\ fragment(k).to = IF k = d THEN n ELSE k * Chunk
             /\ fragment(k).to \in Nat /\ fragment(k).from <= fragment(k).to
             /\ fragment(k).to <= n
  <2>1. (k - 1) * Chunk \in Nat /\ (k - 1) * Chunk <= (d - 1) * Chunk
    <3>1. k - 1 \in Nat /\ d - k \in Nat
      BY <1>2, <1>4
    <3>2. (k - 1) * Chunk \in Nat /\ (d - k) * Chunk \in Nat
      BY <1>1, <3>1
    <3>3. (d - 1) * Chunk = (k - 1) * Chunk + (d - k) * Chunk
      BY <1>1, <1>2, <3>1
    <3> QED
      BY <3>2, <3>3
  <2>2. (k - 1) * Chunk < n
    BY <1>1, <1>2, <1>5, <2>1
  <2>3. k < d => k * Chunk < n
    <3>1. k * Chunk = (k - 1) * Chunk + Chunk
      BY <1>1
    <3>2. k < d => k * Chunk <= (d - 1) * Chunk
      <4>1. SUFFICES ASSUME k < d PROVE k * Chunk <= (d - 1) * Chunk
        OBVIOUS
      <4>2. (d - 1 - k) * Chunk \in Nat
        BY <1>1, <1>2, <4>1
      <4>3. (d - 1) * Chunk = k * Chunk + (d - 1 - k) * Chunk
        BY <1>1, <1>2
      <4> QED
        BY <1>1, <4>2, <4>3
    <3> QED
      BY <1>1, <1>2, <1>5, <3>2
  <2>4. fragment(k).to = IF k * Chunk < n THEN k * Chunk ELSE n
    BY DEF fragment, n
  <2>5. k = d => ~(k * Chunk < n)
    BY <1>1, <1>2, <1>5
  <2>6. fragment(k).from = (k - 1) * Chunk + 1
    BY DEF fragment
  <2>7. fragment(k).to = IF k = d THEN n ELSE k * Chunk
    BY <1>2, <2>3, <2>4, <2>5
  <2>8. fragment(k).from \in Nat /\ fragment(k).from <= n
    <3> DEFINE x == (k - 1) * Chunk
    <3>1. x \in Nat /\ x < n /\ fragment(k).from = x + 1
      BY <2>1, <2>2, <2>6
    <3> HIDE DEF x
    <3> QED
      BY <1>1, <3>1
  <2>9. /\ fragment(k).to \in Nat /\ fragment(k).to <= n
        /\ fragment(k).from <= fragment(k).to
    <3>1. CASE k = d
      BY <1>1, <2>7, <2>8, <3>1
    <3>2. CASE k < d
      <4> DEFINE x == (k - 1) * Chunk
                 y == k * Chunk
      <4>1. x \in Nat /\ y = x + Chunk /\ y < n
        BY <1>1, <2>1, <2>3, <3>2
      <4>2. fragment(k).from = x + 1 /\ fragment(k).to = y
        BY <2>6, <2>7, <3>2
      <4> HIDE DEF x, y
      <4> QED
        BY <1>1, <4>1, <4>2
    <3> QED
      BY <1>2, <3>1, <3>2
  <2> QED
    BY <2>6, <2>7, <2>8, <2>9
<1> QED
  BY <1>1, <1>2, <1>3, <1>4, <1>6 DEF n

Messages(q) == Rows(q, "item_completed")
Rank(q, i) == Cardinality({j \in Messages(q) : j <= i})

\* The messages of the user are the fragments 1 to n, in their order.
Tells(q, n) ==
    /\ Cardinality(Messages(q)) = n
    /\ \A i \in Messages(q) : q[i].said = Rank(q, i)
    /\ \A m \in 1 .. n : \E i \in Messages(q) : q[i].said = m

LEMMA NothingTold == Tells(<<>>, 0)
<1>1. Messages(<<>>) = {}
  BY DEF Messages, Rows
<1> QED
  BY <1>1, FS_EmptySet DEF Tells

\* Rows that never go back to an earlier fragment and have each one once.
LEMMA InOrderTells ==
    ASSUME NEW q \in Seq(Row), NEW n \in Nat,
           \A i \in Messages(q) : q[i].said \in 1 .. n,
           \A i, j \in Messages(q) : i < j => q[i].said <= q[j].said,
           \A k \in 1 .. n : Cardinality(Says(q, "item_completed", k)) = 1
    PROVE  Tells(q, n)
<1> DEFINE M == Messages(q)
           upto(k) == {i \in M : q[i].said <= k}
<1>1. M \subseteq DOMAIN q /\ \A i \in M : i \in Nat
  BY DEF Messages, Rows
<1>2. \A k \in 1 .. n : \E x : Says(q, "item_completed", k) = {x}
  <2>1. \A k \in 1 .. n : IsFiniteSet(Says(q, "item_completed", k))
    BY FiniteRows DEF Says
  <2> QED
    BY <2>1, FS_Singleton
<1>3. \A i \in M : i \in Says(q, "item_completed", q[i].said)
  BY DEF Messages, Rows, Says
<1>4. \A i, j \in M : q[i].said = q[j].said => i = j
  BY <1>2, <1>3
<1>5. \A m \in 1 .. n : \E i \in M : q[i].said = m
  BY <1>2 DEF Messages, Rows, Says
<1> HIDE DEF M
<1>6. ASSUME NEW k \in 0 .. n PROVE Cardinality(upto(k)) = k
  <2> DEFINE f == [i \in upto(k) |-> q[i].said]
  <2>1. IsFiniteSet(upto(k))
    BY <1>1, FiniteRows
  <2>2. f \in [upto(k) -> 1 .. k]
    BY DEF M
  <2>3. \A i, j \in upto(k) : f[i] = f[j] => i = j
    BY <1>4
  <2>4. \A m \in 1 .. k : \E i \in upto(k) : f[i] = m
    BY <1>5
  <2> HIDE DEF f
  <2>5. f \in Injection(upto(k), 1 .. k)
    BY <2>2, <2>3 DEF Injection, IsInjective
  <2>6. f \in Surjection(upto(k), 1 .. k)
    BY <2>2, <2>4 DEF Surjection
  <2>7. Cardinality(1 .. k) = Cardinality(upto(k))
    BY <2>1, <2>5, <2>6, FS_Surjection
  <2> QED
    BY <2>7, FS_Interval
<1>7. upto(n) = M
  BY DEF M
<1>8. ASSUME NEW i \in M PROVE {j \in M : j <= i} = upto(q[i].said)
  <2>1. \A j \in M : j <= i => q[j].said <= q[i].said
    BY <1>1 DEF M
  <2>2. \A j \in M : q[j].said <= q[i].said => j <= i
    <3> SUFFICES ASSUME NEW j \in M, q[j].said <= q[i].said, i < j PROVE FALSE
      BY <1>1
    <3>1. q[i].said <= q[j].said /\ q[i].said \in Nat /\ q[j].said \in Nat
      BY DEF M
    <3> QED
      BY <1>1, <1>4, <3>1
  <2> QED
    BY <2>1, <2>2
<1>9. \A i \in M : Rank(q, i) = q[i].said
  BY <1>6, <1>8 DEF Rank, M
<1> QED
  BY <1>5, <1>6, <1>7, <1>9 DEF Tells, M

\* While the rows are read, messages are of fragments up to the one in
\* progress, and never of an earlier one than the message before.
InSequence(b, q) ==
    /\ \A i \in Messages(q) : q[i].said \in 1 .. Begun(b)
    /\ \A i, j \in Messages(q) : i < j => q[i].said <= q[j].said

LEMMA RowKeepsSequence ==
    ASSUME NEW b, NEW q, NEW h \in Seq(Nat), NEW r \in Row, BookAgrees(b, q, h),
           InSequence(b, q), row_fits(b, r, h)
    PROVE  InSequence(next_book(b, r, h), Append(q, r))
<1> DEFINE n == Len(q) + 1
           p == Append(q, r)
           t == next_book(b, r, h)
<1>1. /\ q \in Seq(Row) /\ BookFields(b) /\ b.completed \in Nat /\ Begun(b) \in Nat
  BY DEF BookAgrees, Begun
<1>2. /\ n \in Nat /\ p[n] = r
      /\ \A i \in Messages(q) : i \in Nat /\ i < n /\ p[i] = q[i]
      /\ Messages(p) = IF r.kind = "item_completed" THEN Messages(q) \cup {n} ELSE Messages(q)
  BY <1>1, RowAdded DEF Messages, Rows
<1>3. /\ Begun(t) \in Nat /\ Begun(b) <= Begun(t)
      /\ r.kind = "item_completed" => r.said = Begun(t)
  <2>1. CASE r.kind \notin {"task_started", "task_complete"}
    <3>1. t.active = b.active /\ t.completed = b.completed
      BY <1>1, <2>1, NextBook
    <3>2. r.kind = "item_completed" => b.active # NoTurn /\ r.said = b.completed + 1
      BY DEF row_fits
    <3> HIDE DEF t
    <3> QED
      BY <1>1, <3>1, <3>2 DEF Begun
  <2>2. CASE r.kind = "task_started"
    <3>1. t.completed = b.completed
      BY <1>1, <2>2, NextBook
    <3>2. b.active = NoTurn
      BY <2>2 DEF row_fits
    <3> HIDE DEF t
    <3> QED
      BY <1>1, <2>2, <3>1, <3>2 DEF Begun
  <2>3. CASE r.kind = "task_complete"
    <3>1. t.completed = b.completed + 1 /\ t.active = NoTurn
      BY <1>1, <2>3, NextBook
    <3> HIDE DEF t
    <3> QED
      BY <1>1, <2>3, <3>1 DEF Begun
  <2> QED
    BY <2>1, <2>2, <2>3
<1> HIDE DEF n, p, t
<1>4. \A i \in Messages(q) : q[i].said \in 1 .. Begun(b)
  BY DEF InSequence
<1>5. \A i \in Messages(p) : p[i].said \in 1 .. Begun(t)
  <2>1. \A i \in Messages(q) : p[i].said \in 1 .. Begun(t)
    BY <1>1, <1>2, <1>3, <1>4
  <2>2. r.kind = "item_completed" => r.said \in 1 .. Begun(t)
    <3>1. r.kind = "item_completed" => r.said = b.completed + 1
      BY DEF row_fits
    <3> QED
      BY <1>1, <1>3, <3>1
  <2> QED
    BY <1>2, <2>1, <2>2
<1>6. \A i, j \in Messages(p) : i < j => p[i].said <= p[j].said
  <2> SUFFICES ASSUME NEW i \in Messages(p), NEW j \in Messages(p), i < j
               PROVE  p[i].said <= p[j].said
    OBVIOUS
  <2>1. i # n
    BY <1>2
  <2>2. i \in Messages(q) /\ p[i] = q[i]
    BY <1>2, <2>1
  <2>3. CASE j \in Messages(q)
    BY <1>2, <2>2, <2>3 DEF InSequence
  <2>4. CASE j = n /\ r.kind = "item_completed"
    <3>1. p[i].said \in 1 .. Begun(b)
      BY <1>4, <2>2
    <3>2. p[j].said = Begun(t)
      BY <1>2, <1>3, <2>4
    <3> QED
      BY <1>1, <1>3, <3>1, <3>2
  <2> QED
    BY <1>2, <2>3, <2>4
<1>7. InSequence(t, p)
  BY <1>5, <1>6 DEF InSequence
<1> QED
  BY <1>7 DEF t, p

\* What the validator accepts tells a fragment for each helper directory.
LEMMA AcceptedTells ==
    ASSUME NEW b, NEW q, NEW h \in Seq(Nat), NEW previous, BookAgrees(b, q, h),
           InSequence(b, q), book_ends(b, previous, h)
    PROVE  Tells(q, Len(h))
<1>1. q \in Seq(Row) /\ Len(h) \in Nat /\ b.completed = Len(h) /\ Begun(b) = Len(h)
  BY DEF BookAgrees, Begun, book_ends
<1>2. \A k \in 1 .. Len(h) : Cardinality(Says(q, "item_completed", k)) = 1
  BY <1>1 DEF BookAgrees, Delivered
<1> QED
  BY <1>1, <1>2, InOrderTells DEF InSequence

Pieces(n) == [m \in 1 .. n |-> fragment(m)]

LEMMA MessagesTell ==
    ASSUME NEW q, NEW n \in Nat, Tells(q, n)
    PROVE  /\ Cardinality(Messages(q)) = n
           /\ \A m \in 1 .. n : q[CHOOSE i \in Messages(q) : Rank(q, i) = m].said = m
<1>1. ASSUME NEW m \in 1 .. n
      PROVE  q[CHOOSE i \in Messages(q) : Rank(q, i) = m].said = m
  <2> DEFINE c == CHOOSE i \in Messages(q) : Rank(q, i) = m
  <2>1. \E i \in Messages(q) : Rank(q, i) = m
    BY DEF Tells
  <2>2. c \in Messages(q) /\ Rank(q, c) = m
    BY <2>1
  <2> HIDE DEF c
  <2>3. q[c].said = m
    BY <2>2 DEF Tells
  <2> QED
    BY <2>3 DEF c
<1> QED
  BY <1>1 DEF Tells

LEMMA ToldIs ==
    ~given => ToldSoFar =
        [m \in 1 .. Cardinality(Messages(history)) |->
            fragment(history[CHOOSE i \in Messages(history) : Rank(history, i) = m].said)]
  BY DEF ToldSoFar, Message, Place, Tasks, Messages, Rank, Rows

LEMMA ToldIsPrime ==
    ASSUME prompt' = prompt, ~given'
    PROVE  ToldSoFar' =
        [m \in 1 .. Cardinality(Messages(history')) |->
            fragment(history'[CHOOSE i \in Messages(history') : Rank(history', i) = m].said)]
  BY DEF ToldSoFar, Message, Place, Tasks, Messages, Rank, Rows, fragment

LEMMA PiecesFollow ==
    ASSUME NEW n \in Nat
    PROVE  /\ Pieces(0) = <<>>
           /\ n > 0 => Pieces(n) # <<>> /\ Len(Pieces(n)) = n /\ Pieces(n)[n] = fragment(n)
           /\ Pieces(n + 1) = Append(Pieces(n), fragment(n + 1))
<1>1. Pieces(0) = <<>>
  BY DEF Pieces
<1>2. Len(Pieces(n)) = n
  BY DEF Pieces
<1>3. n > 0 => Pieces(n)[n] = fragment(n) /\ Pieces(n) # <<>>
  BY <1>2 DEF Pieces
<1>4. Pieces(n + 1) = Append(Pieces(n), fragment(n + 1))
  <2>1. Append(Pieces(n), fragment(n + 1)) =
           [m \in 1 .. n + 1 |-> IF m = n + 1 THEN fragment(n + 1) ELSE Pieces(n)[m]]
    BY <1>2 DEF Append
  <2> QED
    BY <2>1 DEF Pieces
<1> QED
  BY <1>1, <1>2, <1>3, <1>4

\* The invariant: the fragment of a turn is one of the prompt's, what the
\* history tells follows the turns, and success is only on its way when it
\* tells the whole prompt.
Delivering == {"turn", "ended", "events", "history"} \cup Bounded

Asked ==
    /\ prompt \in Prompt /\ given \in BOOLEAN
    /\ given => phase \in {"asked", "verdict", "closing", "raised", "done"}
    /\ phase \in Delivering \cup {"answer"} => turn \in 1 .. parts

Unfinished ==
    /\ phase \in Before => history = <<>>
    /\ phase \in Delivering => Tells(history, turn - 1)
    /\ phase = "answer" => Tells(history, turn)

Concluded ==
    /\ phase \in {"verdict", "closing"} /\ ~given => Tells(history, parts)
    /\ phase # "done" => record = "none" /\ (job_status = "success" <=> phase = "closing")

DeliveryInv ==
    /\ HistoryInv /\ Asked /\ InSequence(book, rows)
    /\ Unfinished /\ Concluded

LEMMA DeliveryInit == Init => DeliveryInv
<1> SUFFICES ASSUME Init PROVE DeliveryInv
  OBVIOUS
<1>1. /\ phase = "start" /\ prompt \in Prompt /\ given = FALSE /\ history = <<>>
      /\ rows = <<>> /\ job_status = "failure" /\ record = "none"
  BY DEF Init, TurnsInit
<1>2. InSequence(book, rows)
  BY <1>1 DEF InSequence, Messages, Rows
<1> QED
  BY <1>1, <1>2, HistoryInit
  DEF DeliveryInv, Asked, Unfinished, Concluded, Delivering, Bounded, Before

LEMMA DeliveryStep == DeliveryInv /\ [Next]_vars => DeliveryInv'
<1> SUFFICES ASSUME DeliveryInv, [Next]_vars PROVE DeliveryInv'
  OBVIOUS
<1>1. /\ HistoryInv /\ Asked /\ InSequence(book, rows) /\ Unfinished /\ Concluded
      /\ HelpersOK /\ HelpersCounted /\ BookAgrees(book, rows, helpers)
      /\ phase # "history" => book = NoBook /\ rows = <<>>
  BY DEF DeliveryInv, HistoryInv
<1>2. HistoryInv' /\ (phase' # "history" => book' = NoBook /\ rows' = <<>>)
  BY <1>1, HistoryStep DEF HistoryInv
<1>3. parts \in Nat \ {0}
  BY <1>1, FragmentsCover DEF Asked
<1>4. InSequence(NoBook, <<>>)
  BY DEF InSequence, Messages, Rows
<1> USE DEF Delivering, Bounded, Before
<1>5. CASE ProcessStep /\ UNCHANGED <<conversation, validation, execution>>
  <2>1. /\ phase' = phase \/ (phase \in Bounded /\ phase' \in Bounded \cup {"ended"})
        /\ turn' = turn
        /\ UNCHANGED <<prompt, history, book, rows, given, job_status, record, parts>>
    BY <1>1, <1>5, ProcessMoves DEF conversation, validation, execution, parts
  <2> QED
    BY <1>1, <1>2, <2>1 DEF DeliveryInv, Asked, Unfinished, Concluded
<1>6. CASE Tick /\ UNCHANGED <<conversation, validation, execution>>
  <2>1. UNCHANGED <<phase, turn, prompt, history, book, rows, given, job_status, record, parts>>
    BY <1>6 DEF Tick, runner, conversation, validation, execution, parts
  <2> QED
    BY <1>1, <1>2, <2>1 DEF DeliveryInv, Asked, Unfinished, Concluded
<1>7. CASE Execute
  <2>1. UNCHANGED <<turn, prompt, history, book, rows, parts>>
    BY <1>7 DEF Execute, Refuse, Prepare, Ask, Update, Save, Preflight, Answered, turns,
                conversation, validation, parts
  <2>2. CASE Refuse \/ Prepare \/ \E passes \in BOOLEAN : Preflight(passes)
    BY <1>1, <1>2, <2>1, <2>2
    DEF Refuse, Prepare, Preflight, execution, DeliveryInv, Asked, Unfinished, Concluded
  <2>3. CASE Ask \/ \E good \in BOOLEAN : Answered(good)
    BY <1>1, <1>2, <2>1, <2>3
    DEF Ask, Answered, execution, DeliveryInv, Asked, Unfinished, Concluded, HelpersCounted
  <2>4. CASE Update \/ Save
    BY <1>1, <1>2, <2>1, <2>4 DEF Update, Save, DeliveryInv, Asked, Unfinished, Concluded
  <2> QED
    BY <1>7, <2>2, <2>3, <2>4 DEF Execute
<1>8. CASE BeginTurns /\ UNCHANGED execution
  <2>1. /\ phase = "long" /\ phase' \in {"turn", "raised"}
        /\ UNCHANGED <<turn, prompt, history, book, rows, given, job_status, record, parts>>
    BY <1>8 DEF BeginTurns, Raise, conversation, validation, execution, parts
  <2>2. turn = 1 /\ history = <<>>
    BY <1>1, <2>1 DEF HelpersCounted, Unfinished
  <2> QED
    BY <1>1, <1>2, <1>3, <2>1, <2>2, NothingTold
    DEF DeliveryInv, Asked, Unfinished, Concluded
<1>9. CASE (BeginTurn \/ RefuseTurn \/ TakeResult) /\ UNCHANGED execution
  <2>1. /\ phase \in Delivering /\ phase' \in {"drain", "raised", "events"}
        /\ UNCHANGED <<turn, prompt, history, book, rows, given, job_status, record, parts>>
    BY <1>9 DEF BeginTurn, RefuseTurn, TakeResult, Raise, conversation, validation, execution,
                parts
  <2> QED
    BY <1>1, <1>2, <2>1 DEF DeliveryInv, Asked, Unfinished, Concluded
<1>10. CASE ((\E e \in Event : ReadEvent(e)) \/ StreamEnds) /\ UNCHANGED execution
  <2>1. /\ phase = "events" /\ phase' \in {"events", "history", "raised"}
        /\ UNCHANGED <<turn, prompt, history, book, rows, given, job_status, record, parts>>
    BY <1>10 DEF ReadEvent, StreamEnds, Raise, runner, conversation, execution, parts
  <2> QED
    BY <1>1, <1>2, <2>1 DEF DeliveryInv, Asked, Unfinished, Concluded
<1>11. CASE (\E r \in Row : ReadRow(r)) /\ UNCHANGED execution
  <2> PICK r \in Row : ReadRow(r)
    BY <1>11
  <2>1. /\ phase' = phase /\ row_fits(book, r, helpers)
        /\ book' = next_book(book, r, helpers) /\ rows' = Append(rows, r)
        /\ UNCHANGED <<turn, prompt, history, parts>>
    BY DEF ReadRow, runner, conversation, parts
  <2>2. InSequence(next_book(book, r, helpers), Append(rows, r))
    BY <1>1, <2>1, RowKeepsSequence DEF HelpersOK
  <2>3. InSequence(book, rows)'
    BY <2>1, <2>2
  <2>4. UNCHANGED <<given, job_status, record>>
    BY <1>11 DEF execution
  <2> QED
    BY <1>1, <1>2, <2>1, <2>3, <2>4 DEF DeliveryInv, Asked, Unfinished, Concluded
<1>12. CASE HistoryEnds /\ UNCHANGED execution
  <2>1. /\ phase = "history" /\ book' = NoBook /\ rows' = <<>>
        /\ \/ book_ends(book, history, helpers) /\ history' = rows /\ phase' = "answer"
           \/ phase' = "raised"
        /\ UNCHANGED <<turn, prompt, given, job_status, record, parts>>
    BY <1>12 DEF HistoryEnds, Raise, execution, parts
  <2>2. book_ends(book, history, helpers) => Tells(rows, turn)
    BY <1>1, <2>1, AcceptedTells DEF HelpersOK, HelpersCounted
  <2>3. phase' = "answer" => Tells(history, turn)'
    BY <2>1, <2>2
  <2>4. InSequence(book, rows)'
    BY <1>4, <2>1
  <2> QED
    BY <1>1, <1>2, <2>1, <2>3, <2>4 DEF DeliveryInv, Asked, Unfinished, Concluded
<1>13. CASE Answer /\ UNCHANGED execution
  <2>1. /\ phase = "answer"
        /\ UNCHANGED <<prompt, history, book, rows, given, job_status, record, parts>>
        /\ \/ phase' = "turn" /\ turn < parts /\ turn' = turn + 1
           \/ phase' = "verdict" /\ turn = parts /\ turn' = turn
           \/ phase' = "raised"
    BY <1>13 DEF Answer, Raise, conversation, execution, parts
  <2>2. turn \in 1 .. parts /\ Tells(history, turn) /\ ~given /\ turn + 1 - 1 = turn
    BY <1>1, <1>3, <2>1 DEF Asked, Unfinished
  <2> QED
    BY <1>1, <1>2, <1>3, <2>1, <2>2 DEF DeliveryInv, Asked, Unfinished, Concluded
<1>14. CASE UNCHANGED vars
  BY <1>1, <1>2, <1>14 DEF vars, parts, DeliveryInv, Asked, Unfinished, Concluded
<1> QED
  BY <1>5, <1>6, <1>7, <1>8, <1>9, <1>10, <1>11, <1>12, <1>13, <1>14 DEF Next, TurnsStep

\* The steps of the abstract specification: what is told, and how it ends.
Ending == IF phase # "done" THEN "open" ELSE IF record = "success" THEN "success" ELSE "failure"

LEMMA ReachedIs ==
    ASSUME prompt \in Prompt, ~given, NEW n \in 0 .. parts, Tells(history, n)
    PROVE  /\ Delivery!reached = IF n = parts THEN prompt.chars ELSE n * Chunk
           /\ ToldSoFar = Pieces(n)
<1>1. /\ parts \in Nat \ {0} /\ Chunk \in Nat
      /\ n \in Nat /\ ToldSoFar = Pieces(n)
  <2>1. parts \in Nat \ {0} /\ Chunk \in Nat
    BY FragmentsCover, TurnAssumption
  <2>2. n \in Nat
    BY <2>1
  <2>3. ToldSoFar = Pieces(n)
    BY <2>2, ToldIs, MessagesTell DEF Pieces
  <2> QED
    BY <2>1, <2>2, <2>3
<1>2. CASE n = 0
  <2>1. Delivery!reached = 0
    BY <1>1, <1>2, PiecesFollow DEF Delivery!reached
  <2> QED
    BY <1>1, <1>2, <2>1
<1>3. CASE n > 0
  <2>1. Delivery!reached = fragment(n).to
    BY <1>1, <1>3, PiecesFollow DEF Delivery!reached
  <2> QED
    BY <1>1, <1>3, <2>1, FragmentsCover
<1> QED
  BY <1>1, <1>2, <1>3

\* The whole prompt in one message.
LEMMA AskTells ==
    ASSUME DeliveryInv, Ask
    PROVE  Delivery!Next
<1>1. /\ prompt \in Prompt /\ ~given /\ history = <<>> /\ phase = "short" /\ phase' = "asked"
      /\ given' = TRUE /\ UNCHANGED <<prompt, history, record>>
  BY DEF DeliveryInv, Asked, Unfinished, Before, Ask, turns, conversation
<1>2. /\ prompt.chars \in Nat \ {0} /\ parts \in Nat \ {0}
  BY <1>1, FragmentsCover
<1>3. Tells(history, 0)
  BY <1>1, NothingTold
<1>4. Delivery!reached = 0 /\ ToldSoFar = <<>>
  BY <1>1, <1>2, <1>3, ReachedIs, PiecesFollow, TurnAssumption
<1>5. ToldSoFar' = <<[from |-> 1, to |-> prompt.chars]>>
  BY <1>1 DEF ToldSoFar
<1>6. ToldSoFar' = Append(ToldSoFar, [from |-> 0 + 1, to |-> prompt.chars])
  BY <1>4, <1>5
<1>7. Delivery!Tell(prompt.chars)
  BY <1>1, <1>2, <1>4, <1>6 DEF Delivery!Tell
<1> QED
  BY <1>2, <1>7 DEF Delivery!Next

\* One more fragment.
LEMMA HistoryTellsMore ==
    ASSUME DeliveryInv, DeliveryInv', HistoryEnds, UNCHANGED execution, phase' = "answer"
    PROVE  Delivery!Next
<1>1. /\ prompt \in Prompt /\ ~given /\ phase = "history" /\ turn \in 1 .. parts
      /\ Tells(history, turn - 1) /\ UNCHANGED <<prompt, turn, given, record>>
  BY DEF DeliveryInv, Asked, Unfinished, Delivering, HistoryEnds, execution
<1>2. /\ prompt.chars \in Nat \ {0} /\ parts \in Nat \ {0} /\ turn - 1 \in Nat
      /\ turn - 1 \in 0 .. parts /\ turn - 1 # parts /\ turn = turn - 1 + 1
  BY <1>1, FragmentsCover
<1>3. Delivery!reached = (turn - 1) * Chunk /\ ToldSoFar = Pieces(turn - 1)
  BY <1>1, <1>2, ReachedIs
<1>4. ToldSoFar' = Pieces(turn)
  <2>1. ~given' /\ Tells(history', turn) /\ turn \in Nat
    <3>1. Tells(history, turn)'
      BY DEF DeliveryInv, Unfinished
    <3>2. Tells(history', turn')
      BY <3>1 DEF Tells, Messages, Rank, Rows
    <3> QED
      BY <1>1, <3>2
  <2> QED
    BY <1>1, <2>1, ToldIsPrime, MessagesTell DEF Pieces
<1>5. ToldSoFar' = Append(ToldSoFar, fragment(turn))
  BY <1>2, <1>3, <1>4, PiecesFollow
<1>6. /\ fragment(turn).from = Delivery!reached + 1
      /\ fragment(turn).to \in 1 .. prompt.chars /\ Delivery!reached < fragment(turn).to
      /\ fragment(turn) = [from |-> Delivery!reached + 1, to |-> fragment(turn).to]
  <2>1. /\ fragment(turn).from = (turn - 1) * Chunk + 1
        /\ fragment(turn).from \in Nat /\ fragment(turn).from <= fragment(turn).to
        /\ fragment(turn).to \in Nat /\ fragment(turn).to <= prompt.chars
    BY <1>1, FragmentsCover
  <2>2. fragment(turn) = [from |-> fragment(turn).from, to |-> fragment(turn).to]
    BY DEF fragment
  <2> DEFINE x == (turn - 1) * Chunk
  <2>3. x \in Nat
    BY <1>2, TurnAssumption
  <2>4. x = Delivery!reached /\ fragment(turn).from = x + 1
    BY <1>3, <2>1
  <2> HIDE DEF x
  <2> QED
    BY <1>2, <2>1, <2>2, <2>3, <2>4
<1>7. Delivery!Tell(fragment(turn).to)
  BY <1>1, <1>5, <1>6 DEF Delivery!Tell
<1> QED
  BY <1>6, <1>7 DEF Delivery!Next

\* The end, green only if the whole prompt was told.
LEMMA SaveConcludes ==
    ASSUME DeliveryInv, Save
    PROVE  Delivery!Next
<1>1. /\ prompt \in Prompt /\ phase \in {"raised", "closing"} /\ phase' = "done"
      /\ record' = job_status /\ UNCHANGED <<prompt, given, history>>
      /\ job_status = "success" => phase = "closing"
  BY DEF DeliveryInv, Asked, Concluded, Save, turns, conversation
<1>2. job_status = "success" => Delivery!reached = prompt.chars
  <2> SUFFICES ASSUME job_status = "success" PROVE Delivery!reached = prompt.chars
    OBVIOUS
  <2>1. CASE given
    BY <2>1 DEF Delivery!reached, ToldSoFar
  <2>2. CASE ~given
    <3>1. Tells(history, parts) /\ parts \in Nat
      BY <1>1, <2>2, FragmentsCover DEF DeliveryInv, Concluded
    <3> QED
      BY <1>1, <2>2, <3>1, ReachedIs
  <2> QED
    BY <2>1, <2>2
<1>3. ToldSoFar' = ToldSoFar
  BY <1>1 DEF ToldSoFar, Message, Place, Tasks, fragment
<1>4. Ending = "open" /\ Ending' = IF job_status = "success" THEN "success" ELSE "failure"
  BY <1>1 DEF Ending
<1>5. Delivery!Conclude
  BY <1>1, <1>2, <1>3, <1>4 DEF Delivery!Conclude, Ending
<1> QED
  BY <1>5 DEF Delivery!Next

LEMMA RefuseConcludes ==
    ASSUME DeliveryInv, Refuse, phase' = "done"
    PROVE  Delivery!Next
<1>1. /\ phase = "start" /\ record = "none"
      /\ UNCHANGED <<prompt, given, history, record>>
  BY DEF DeliveryInv, Concluded, Refuse, turns, execution, conversation
<1>2. ToldSoFar' = ToldSoFar
  BY <1>1 DEF ToldSoFar, Message, Place, Tasks, fragment
<1>3. Ending = "open" /\ Ending' = "failure"
  BY <1>1 DEF Ending
<1>4. Delivery!Conclude
  BY <1>1, <1>2, <1>3 DEF Delivery!Conclude, Ending
<1> QED
  BY <1>4 DEF Delivery!Next

LEMMA SameTelling ==
    ASSUME UNCHANGED <<prompt, given, history, record>>, phase' = "done" <=> phase = "done"
    PROVE  UNCHANGED Delivery!vars
<1>1. ToldSoFar' = ToldSoFar
  BY DEF ToldSoFar, Message, Place, Tasks, fragment
<1> QED
  BY <1>1 DEF Delivery!vars

LEMMA DeliveryRefines ==
    DeliveryInv /\ DeliveryInv' /\ [Next]_vars => [Delivery!Next]_(Delivery!vars)
<1> SUFFICES ASSUME DeliveryInv, DeliveryInv', [Next]_vars
             PROVE  Delivery!Next \/ UNCHANGED Delivery!vars
  OBVIOUS
<1>1. CASE ProcessStep /\ UNCHANGED <<conversation, validation, execution>>
  <2>1. phase' = phase \/ (phase \in Bounded /\ phase' \in Bounded \cup {"ended"})
    BY <1>1, ProcessMoves DEF DeliveryInv, HistoryInv
  <2> QED
    BY <1>1, <2>1, SameTelling DEF conversation, execution, Bounded
<1>2. CASE Tick /\ UNCHANGED <<conversation, validation, execution>>
  BY <1>2, SameTelling DEF Tick, runner, conversation, execution
<1>3. CASE Execute
  <2>1. CASE Prepare \/ Update \/ (\E passes \in BOOLEAN : Preflight(passes))
             \/ (\E good \in BOOLEAN : Answered(good)) \/ (Refuse /\ phase' # "done")
    <3>1. UNCHANGED <<prompt, given, history, record>> /\ phase # "done" /\ phase' # "done"
      BY <2>1 DEF Prepare, Update, Preflight, Answered, Refuse, turns, execution, conversation
    <3> QED
      BY <3>1, SameTelling
  <2> QED
    BY <1>3, <2>1, AskTells, SaveConcludes, RefuseConcludes DEF Execute
<1>4. CASE (BeginTurns \/ BeginTurn \/ RefuseTurn \/ TakeResult \/ Answer) /\ UNCHANGED execution
  <2>1. UNCHANGED <<prompt, given, history, record>> /\ phase # "done" /\ phase' # "done"
    BY <1>4 DEF BeginTurns, BeginTurn, RefuseTurn, TakeResult, Answer, Raise, conversation, execution
  <2> QED
    BY <2>1, SameTelling
<1>5. CASE ((\E e \in Event : ReadEvent(e)) \/ StreamEnds \/ (\E r \in Row : ReadRow(r)))
           /\ UNCHANGED execution
  <2>1. UNCHANGED <<prompt, given, history, record>> /\ phase # "done" /\ phase' # "done"
    BY <1>5 DEF ReadEvent, ReadRow, StreamEnds, Raise, runner, conversation, execution
  <2> QED
    BY <2>1, SameTelling
<1>6. CASE HistoryEnds /\ UNCHANGED execution
  <2>1. CASE phase' = "answer"
    BY <1>6, <2>1, HistoryTellsMore
  <2>2. CASE phase' # "answer"
    <3>1. UNCHANGED <<prompt, given, history, record>> /\ phase # "done" /\ phase' # "done"
      BY <1>6, <2>2 DEF HistoryEnds, Raise, execution
    <3> QED
      BY <3>1, SameTelling
  <2> QED
    BY <2>1, <2>2
<1>7. CASE UNCHANGED vars
  BY <1>7, SameTelling DEF vars
<1> QED
  BY <1>1, <1>2, <1>3, <1>4, <1>5, <1>6, <1>7 DEF Next, TurnsStep

LEMMA DeliveryBegins == Init => Delivery!Init
<1> SUFFICES ASSUME Init PROVE Delivery!Init
  OBVIOUS
<1>1. prompt \in Prompt /\ ~given /\ history = <<>> /\ phase = "start"
  BY DEF Init, TurnsInit
<1>2. ToldSoFar = <<>>
  BY <1>1, NothingTold, ToldIs, MessagesTell, PiecesFollow DEF Pieces
<1> QED
  BY <1>1, <1>2 DEF Delivery!Init

\* However its prompt is delivered, a review tells it from its beginning and
\* without a gap, and records a success only after the end of it: the initial
\* states of PromptDelivery are reached, and every step is one of its steps or
\* none.
THEOREM TurnsImplementDelivery == Spec => DeliverySpec
<1>1. Spec => []DeliveryInv
  BY DeliveryInit, DeliveryStep, PTL DEF Spec
<1> QED
  BY <1>1, DeliveryBegins, DeliveryRefines, PTL DEF Spec, DeliverySpec, Delivery!Spec

-----------------------------------------------------------------------------
(* What the abstract specification is worth: the pieces it tells are the    *)
(* prompt, each character of it once.                                       *)

\* The pieces q end at character n, and each character up to it is in one.
Piece == [from : Nat, to : Nat]
Holds(p, c) == p.from <= c /\ c <= p.to
OnlyIn(q, c, m) == \A k \in 1 .. Len(q) : Holds(q[k], c) <=> k = m
UpTo(q) == IF q = <<>> THEN 0 ELSE q[Len(q)].to
Covers(q, n) ==
    /\ q \in Seq(Piece) /\ n \in Nat /\ UpTo(q) = n
    /\ \A c \in 1 .. n : \E m \in 1 .. Len(q) : OnlyIn(q, c, m)
    /\ \A c \in Nat : c > n => \A k \in 1 .. Len(q) : ~Holds(q[k], c)

LEMMA CoversNothing == Covers(<<>>, 0)
BY DEF Covers, UpTo, Piece

LEMMA CoversMore ==
    ASSUME NEW q, NEW n, Covers(q, n), NEW to \in Nat, n < to
    PROVE  Covers(Append(q, [from |-> n + 1, to |-> to]), to)
<1> DEFINE p == [from |-> n + 1, to |-> to]
           w == Append(q, p)
           z == Len(q)
<1>1. q \in Seq(Piece) /\ n \in Nat /\ p \in Piece /\ z \in Nat
  BY DEF Covers, Piece
<1>2. /\ w \in Seq(Piece) /\ Len(w) = z + 1 /\ w # <<>> /\ w[z + 1] = p
      /\ \A k \in 1 .. z : w[k] = q[k] /\ q[k] \in Piece
  BY <1>1
<1>3. \A c \in Nat : Holds(p, c) <=> n < c /\ c <= to
  BY <1>1 DEF Holds
<1> HIDE DEF p, w, z
<1>4. UpTo(w) = to
  BY <1>2 DEF UpTo, p
<1>5. ASSUME NEW c \in 1 .. to
      PROVE  \E m \in 1 .. Len(w) : OnlyIn(w, c, m)
  <2>1. CASE c <= n
    <3>1. PICK m \in 1 .. z : OnlyIn(q, c, m)
      BY <1>1, <2>1 DEF Covers, z
    <3>2. ~Holds(p, c)
      BY <1>1, <1>3, <2>1
    <3>3. ASSUME NEW k \in 1 .. z + 1 PROVE Holds(w[k], c) <=> k = m
      <4>1. CASE k = z + 1
        BY <1>1, <1>2, <3>2, <4>1
      <4>2. CASE k \in 1 .. z
        BY <1>2, <3>1, <4>2 DEF OnlyIn, z
      <4> QED
        BY <1>1, <4>1, <4>2
    <3>4. m \in 1 .. Len(w)
      BY <1>1, <1>2
    <3>5. OnlyIn(w, c, m)
      BY <1>2, <3>3 DEF OnlyIn
    <3> QED
      BY <3>4, <3>5
  <2>2. CASE c > n
    <3>1. Holds(p, c)
      BY <1>1, <1>3, <2>2
    <3>2. \A k \in 1 .. z : ~Holds(q[k], c)
      BY <2>2 DEF Covers, z
    <3>3. ASSUME NEW k \in 1 .. z + 1 PROVE Holds(w[k], c) <=> k = z + 1
      <4>1. CASE k = z + 1
        BY <1>2, <3>1, <4>1
      <4>2. CASE k \in 1 .. z
        BY <1>1, <1>2, <3>2, <4>2
      <4> QED
        BY <1>1, <4>1, <4>2
    <3> QED
      BY <1>1, <1>2, <3>3 DEF OnlyIn
  <2> QED
    BY <1>1, <2>1, <2>2
<1>6. ASSUME NEW c \in Nat, c > to, NEW k \in 1 .. Len(w) PROVE ~Holds(w[k], c)
  <2>1. CASE k = z + 1
    BY <1>2, <1>3, <1>6, <2>1
  <2>2. CASE k \in 1 .. z
    BY <1>1, <1>2, <1>6, <2>2 DEF Covers, z
  <2> QED
    BY <1>1, <1>2, <2>1, <2>2
<1>7. Covers(w, to)
  BY <1>2, <1>4, <1>5, <1>6 DEF Covers
<1> QED
  BY <1>7 DEF w, p

\* The invariant of PromptDelivery, over what the turns tell.
ToldInv ==
    /\ prompt.chars \in Nat
    /\ Covers(ToldSoFar, Delivery!reached)
    /\ Ending = "success" => Delivery!reached = prompt.chars

LEMMA ToldBegins == Delivery!Init => ToldInv
<1> SUFFICES ASSUME Delivery!Init PROVE ToldInv
  OBVIOUS
<1>1. ToldSoFar = <<>> /\ Ending = "open" /\ prompt.chars \in Nat
  BY TurnAssumption DEF Delivery!Init, Ending
<1>2. Delivery!reached = 0
  BY <1>1 DEF Delivery!reached
<1> QED
  BY <1>1, <1>2, CoversNothing DEF ToldInv

LEMMA ToldStep == ToldInv /\ [Delivery!Next]_(Delivery!vars) => ToldInv'
<1> SUFFICES ASSUME ToldInv, [Delivery!Next]_(Delivery!vars) PROVE ToldInv'
  OBVIOUS
<1>1. Delivery!reached' = UpTo(ToldSoFar') /\ Delivery!reached = UpTo(ToldSoFar)
  BY DEF Delivery!reached, UpTo
<1>2. ASSUME NEW to \in 1 .. prompt.chars, Delivery!Tell(to) PROVE ToldInv'
  <2>1. /\ Delivery!reached < to /\ prompt.chars' = prompt.chars
        /\ ToldSoFar' = Append(ToldSoFar, [from |-> Delivery!reached + 1, to |-> to])
        /\ Ending' = "open"
    BY <1>2 DEF Delivery!Tell, Ending
  <2>2. to \in Nat
    BY DEF ToldInv
  <2>3. Covers(ToldSoFar', to)
    BY <2>1, <2>2, CoversMore DEF ToldInv
  <2>4. Delivery!reached' = to
    BY <1>1, <2>3 DEF Covers
  <2> QED
    BY <2>1, <2>3, <2>4 DEF ToldInv
<1>3. CASE Delivery!Conclude
  <2>1. /\ ToldSoFar' = ToldSoFar /\ prompt.chars' = prompt.chars
        /\ Ending' = "success" => Delivery!reached = prompt.chars
    BY <1>3 DEF Delivery!Conclude, Ending
  <2>2. Delivery!reached' = Delivery!reached
    BY <1>1, <2>1
  <2> QED
    BY <2>1, <2>2 DEF ToldInv
<1>4. CASE UNCHANGED Delivery!vars
  <2>1. ToldSoFar' = ToldSoFar /\ prompt.chars' = prompt.chars /\ Ending' = Ending
    BY <1>4 DEF Delivery!vars, Ending
  <2>2. Delivery!reached' = Delivery!reached
    BY <1>1, <2>1
  <2> QED
    BY <2>1, <2>2 DEF ToldInv
<1> QED
  BY <1>2, <1>3, <1>4 DEF Delivery!Next

\* Behind a green review, each character of the prompt was told, in one place
\* of one message: none was dropped between two fragments, or told twice.
EveryCharacterTold ==
    phase = "done" /\ record = "success" =>
        \A c \in 1 .. prompt.chars :
            \E m \in 1 .. Len(ToldSoFar) : OnlyIn(ToldSoFar, c, m)

THEOREM TurnEveryCharacterTold == Spec => []EveryCharacterTold
<1>1. ToldInv => EveryCharacterTold
  BY DEF ToldInv, EveryCharacterTold, Covers, Ending
<1> QED
  BY <1>1, ToldBegins, ToldStep, TurnsImplementDelivery, PTL DEF DeliverySpec, Delivery!Spec

-----------------------------------------------------------------------------
(* The runner only moves forward: the variant behind ReviewEnds.           *)

\* The places of the runner, in the order in which a turn meets them.
Stage ==
    CASE phase = "start" -> 0 [] phase = "sandbox" -> 1 [] phase = "long" -> 2
      [] phase = "turn" -> 3
      [] phase = "drain" -> IF stdin = "closed" THEN 6 ELSE 4
      [] phase = "alias" -> 5 [] phase = "wait" -> 7 [] phase = "term" -> 8
      [] phase = "grace" -> 9 [] phase = "ended" -> 10 [] phase = "events" -> 11
      [] phase = "history" -> 12 [] phase = "answer" -> 13 [] phase = "short" -> 14
      [] phase = "asked" -> 15 [] phase = "verdict" -> 16 [] phase = "closing" -> 17
      [] phase = "raised" -> 18 [] OTHER -> 19

Position == 20 * turn + Stage

\* Only a prompt of at most three fragments is begun.
TurnsBounded ==
    /\ turn \in 1 .. 3
    /\ phase \in Delivering \cup {"answer"} => parts \in 1 .. 3

Moves ==
    /\ TurnsBounded'
    /\ Position' >= Position
    /\ phase' # phase => Position' > Position

LEMMA StageType == Stage \in 0 .. 19
BY DEF Stage

LEMMA StageTypePrime == Stage' \in 0 .. 19
BY DEF Stage

LEMMA PositionFollows ==
    ASSUME turn \in Nat, turn' \in Nat
    PROVE  /\ turn' = turn /\ Stage' >= Stage => Position' >= Position
           /\ turn' = turn /\ Stage' > Stage => Position' > Position
           /\ turn' = turn + 1 => Position' > Position
           /\ Position \in Nat /\ Position' \in Nat
<1> DEFINE u == turn  v == turn'  s == Stage  w == Stage'
<1>1. s \in 0 .. 19 /\ w \in 0 .. 19 /\ u \in Nat /\ v \in Nat
  BY StageType, StageTypePrime
<1>2. Position = 20 * u + s /\ Position' = 20 * v + w
  BY DEF Position
<1> HIDE DEF u, v, s, w
<1>3. /\ v = u /\ w >= s => Position' >= Position
      /\ v = u /\ w > s => Position' > Position
      /\ v = u + 1 => Position' > Position
      /\ Position \in Nat /\ Position' \in Nat
  BY <1>1, <1>2
<1> QED
  BY <1>3 DEF u, v, s, w

\* A step that stays in its turn, and goes to a later place or rests.
LEMMA SameTurn ==
    ASSUME TurnsBounded, turn' = turn, prompt' = prompt, Stage' >= Stage,
           phase' # phase => Stage' > Stage,
           phase' \in Delivering \cup {"answer"} =>
               phase \in Delivering \cup {"answer"} \/ parts \in 1 .. 3
    PROVE  Moves
<1>1. parts' = parts
  BY DEF parts
<1>2. Position' >= Position /\ (phase' # phase => Position' > Position)
  BY PositionFollows DEF TurnsBounded
<1> QED
  BY <1>1, <1>2 DEF Moves, TurnsBounded

LEMMA MovesForward == TurnsBounded /\ [Next]_vars => Moves
<1> SUFFICES ASSUME TurnsBounded, [Next]_vars PROVE Moves
  OBVIOUS
<1> USE DEF Delivering, Bounded
<1>1. CASE /\ turn' = turn /\ prompt' = prompt
           /\ phase' = phase /\ stdin' = stdin
  BY <1>1, SameTurn, StageType DEF Stage
<1>2. ASSUME ProcessStep, UNCHANGED conversation
      PROVE  Moves
  <2>1. CASE (\E c \in {0, 1} : Exits(c)) \/ (\E holds \in BOOLEAN : Forks(holds))
             \/ ClosesPipes \/ LeavesGroup \/ ChildExits \/ BuildsAliases
    BY <1>1, <1>2, <2>1
    DEF Exits, Forks, ClosesPipes, LeavesGroup, ChildExits, BuildsAliases, runner, conversation
  <2>2. CASE DrainLate \/ Exceeds
    BY <1>2, <2>2, SameTurn DEF DrainLate, Exceeds, Fail, Stage, process, conversation
  <2>3. CASE WritePrompt
    BY <1>2, <2>3, SameTurn DEF WritePrompt, Loops, Stage, conversation
  <2>4. CASE FindAlias
    BY <1>2, <2>4, SameTurn DEF FindAlias, Loops, Fail, Stage, conversation
  <2>5. CASE AliasLate
    BY <1>2, <2>5, SameTurn DEF AliasLate, Fail, Stage, conversation
  <2>6. CASE Drained
    BY <1>2, <2>6, SameTurn DEF Drained, Stage, process, conversation
  <2>7. CASE Wait \/ Terminate \/ Kill
    BY <1>2, <2>7, SameTurn DEF Wait, Terminate, Kill, Fail, Stage, process, conversation
  <2> QED
    BY <1>2, <2>1, <2>2, <2>3, <2>4, <2>5, <2>6, <2>7 DEF ProcessStep
<1>3. CASE BeginTurns
  BY <1>3, SameTurn DEF BeginTurns, Raise, Stage, deliverable, conversation
<1>4. CASE BeginTurn \/ RefuseTurn
  BY <1>4, SameTurn DEF BeginTurn, RefuseTurn, Spawn, Raise, Stage, conversation
<1>5. CASE TakeResult
  BY <1>5, SameTurn DEF TakeResult, Raise, Stage
<1>6. CASE (\E e \in Event : ReadEvent(e)) \/ (\E r \in Row : ReadRow(r))
  BY <1>1, <1>6 DEF ReadEvent, ReadRow, runner, process, conversation
<1>7. CASE StreamEnds \/ HistoryEnds
  BY <1>7, SameTurn DEF StreamEnds, HistoryEnds, Raise, Stage
<1>8. CASE Answer
  <2>1. CASE turn' = turn
    <3>1. turn # turn + 1
      BY DEF TurnsBounded
    <3> QED
      BY <1>8, <2>1, <3>1, SameTurn DEF Answer, Raise, Stage, conversation
  <2>2. CASE turn' # turn
    <3>1. /\ phase = "answer" /\ phase' = "turn" /\ turn < parts /\ turn' = turn + 1
          /\ prompt' = prompt
      BY <1>8, <2>2 DEF Answer, Raise, conversation
    <3>2. parts' = parts /\ parts \in 1 .. 3 /\ turn \in 1 .. 3
      BY <3>1 DEF parts, TurnsBounded
    <3>3. TurnsBounded'
      BY <3>1, <3>2 DEF TurnsBounded
    <3>4. Position' > Position /\ Position' >= Position
      <4>1. turn \in Nat /\ turn' \in Nat /\ turn' = turn + 1
        BY <3>1, <3>2
      <4>2. Position' > Position /\ Position \in Nat /\ Position' \in Nat
        BY <4>1, PositionFollows
      <4> QED
        BY <4>2
    <3> QED
      BY <3>3, <3>4 DEF Moves
  <2> QED
    BY <2>1, <2>2
<1>9. CASE Execute
  <2>1. turn' = turn /\ prompt' = prompt
    BY <1>9 DEF Execute, Refuse, Prepare, Ask, Update, Save, Preflight, Answered, turns,
                conversation
  <2>2. CASE Refuse \/ Prepare \/ Ask \/ Update \/ Save
    BY <2>1, <2>2, SameTurn DEF Refuse, Prepare, Ask, Update, Save, Stage
  <2>3. CASE (\E passes \in BOOLEAN : Preflight(passes))
             \/ (\E good \in BOOLEAN : Answered(good))
    BY <2>1, <2>3, SameTurn DEF Preflight, Answered, Stage
  <2> QED
    BY <1>9, <2>2, <2>3 DEF Execute
<1>10. CASE (Tick /\ UNCHANGED conversation) \/ UNCHANGED vars
  BY <1>1, <1>10 DEF Tick, vars, runner, process, conversation
<1> QED
  BY <1>2, <1>3, <1>4, <1>5, <1>6, <1>7, <1>8, <1>9, <1>10 DEF Next, TurnsStep

LEMMA TurnsBoundedInit == Init => TurnsBounded
BY DEF Init, TurnsInit, TurnsBounded, Delivering, Bounded

\* The runner never returns to a place it has left, whatever its processes,
\* its clock and its files do: a review is over after at most 59 moves, or
\* rests in a place for ever.
THEOREM TurnNeverReturns ==
    Spec => /\ [](Position \in 20 .. 79)
            /\ [][/\ Position' >= Position
                  /\ phase' # phase => Position' > Position]_vars
<1>1. TurnsBounded => Position \in 20 .. 79
  BY StageType DEF Position, TurnsBounded
<1>2. TurnsBounded /\ [Next]_vars => TurnsBounded'
  BY MovesForward DEF Moves
<1>3. TurnsBounded /\ [Next]_vars =>
        [/\ Position' >= Position
         /\ phase' # phase => Position' > Position]_vars
  BY MovesForward DEF Moves
<1> QED
  BY <1>1, <1>2, <1>3, TurnsBoundedInit, PTL DEF Spec

-----------------------------------------------------------------------------
(* At the deadline less the margin nothing keeps the runner in a process.  *)

\* What the runner waits for while a process is there, and until when.
WaitsFor ==
    /\ clock \in 0 .. Deadline
    /\ phase \in Bounded => native \in {"running", "exited"}
    /\ phase = "alias" => limit \in 0 .. (Deadline - Margin)

\* The guards of DrainLate, AliasLate, Wait, Terminate and Kill.
Stops ==
    \/ phase = "drain" /\ late
    \/ phase = "alias" /\ clock >= limit
    \/ phase = "wait" /\ (native = "exited" \/ (native = "running" /\ late))
    \/ phase \in {"term", "grace"}

DeadlineStops == phase \in Bounded /\ late => Stops

LEMMA WaitsForStep == WaitsFor /\ [Next]_vars => WaitsFor'
<1> SUFFICES ASSUME WaitsFor, [Next]_vars PROVE WaitsFor'
  OBVIOUS
<1> USE TimeAssumption DEF WaitsFor, Bounded
<1>1. CASE ProcessStep
  <2>1. CASE (\E c \in {0, 1} : Exits(c)) \/ (\E holds \in BOOLEAN : Forks(holds))
    BY <2>1 DEF Exits, Forks, runner
  <2>2. CASE ClosesPipes \/ LeavesGroup \/ ChildExits \/ BuildsAliases
    BY <2>2 DEF ClosesPipes, LeavesGroup, ChildExits, BuildsAliases, runner, tree
  <2>3. CASE DrainLate \/ Exceeds \/ Drained \/ Wait \/ Terminate
    BY <2>3 DEF DrainLate, Exceeds, Drained, Wait, Terminate, Fail, process
  <2>4. CASE FindAlias \/ AliasLate
    BY <2>4 DEF FindAlias, AliasLate, Fail, Loops, tree
  <2>5. CASE WritePrompt
    <3>1. clock' = clock /\ native' = native /\ native \in {"running", "exited"}
      BY <2>5 DEF WritePrompt, tree
    <3>2. phase' = "drain" \/ limit' \in 0 .. (Deadline - Margin)
      BY <2>5 DEF WritePrompt, Loops
    <3> QED
      BY <3>1, <3>2
  <2>6. CASE Kill
    BY <2>6 DEF Kill
  <2> QED
    BY <1>1, <2>1, <2>2, <2>3, <2>4, <2>5, <2>6 DEF ProcessStep
<1>2. CASE BeginTurns \/ BeginTurn \/ RefuseTurn \/ TakeResult
  BY <1>2 DEF BeginTurns, BeginTurn, RefuseTurn, TakeResult, Raise, Spawn, process
<1>3. CASE \/ (\E e \in Event : ReadEvent(e)) \/ (\E r \in Row : ReadRow(r))
           \/ StreamEnds \/ HistoryEnds \/ Answer
  BY <1>3 DEF ReadEvent, ReadRow, StreamEnds, HistoryEnds, Answer, Raise, process, runner
<1>4. CASE Tick \/ UNCHANGED vars
  BY <1>4 DEF Tick, vars, process, runner
<1>5. CASE Execute
  <2>1. clock' = clock /\ phase' \notin Bounded
    BY <1>5 DEF Execute, Refuse, Prepare, Ask, Update, Save, Preflight, Answered, turns
  <2> QED
    BY <2>1
<1> QED
  BY <1>1, <1>2, <1>3, <1>4, <1>5 DEF Next, TurnsStep

\* run_bounded, capture_helper_alias: the limits within the limits agree.  With
\* Margin left of the conversation's time, wherever the runner is with a
\* process, whatever that does, the step that gives up may be taken: also the
\* search for the helper, whose own limit never outlasts the conversation's.
THEOREM TurnDeadlineStops == Spec => []DeadlineStops
<1>1. Init => WaitsFor
  BY TimeAssumption DEF Init, TurnsInit, ProcessInit, WaitsFor, Bounded
<1>2. WaitsFor => DeadlineStops
  BY TimeAssumption DEF WaitsFor, DeadlineStops, Stops, late, Bounded
<1> QED
  BY <1>1, <1>2, WaitsForStep, PTL DEF Spec
=============================================================================
