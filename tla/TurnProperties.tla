----------------------------- MODULE TurnProperties -----------------------------
(* What a review in one or several turns promises to its publisher.         *)
EXTENDS ReviewExecution

\* When the private files of a turn are read, nothing of its process group is
\* alive to change them: neither the program, which may ignore SIGTERM, nor a
\* child that outlived it without holding a pipe.
NothingSurvives ==
    phase \notin {"start", "sandbox", "short", "asked"} \cup Bounded =>
        native # "running" /\ child # "member"

ItemKinds == {"item.started", "item.updated", "item.completed"}

\* A finished turn, as a grammar of its lines: one thread, one turn, and in
\* between the items, each of one type, completed once, with nothing after it,
\* never started twice or updated unstarted, and none left open.
FinishedTurn(q) ==
    LET n == Len(q)
        At(k, id) == {i \in 3 .. n - 1 : q[i].kind = k /\ q[i].id = id}
    IN  /\ n >= 3
        /\ q[1].kind = "thread.started" /\ q[2].kind = "turn.started"
        /\ q[n].kind = "turn.completed"
        /\ \A i \in 3 .. n - 1 : q[i].kind \in ItemKinds
        /\ \A i, j \in 3 .. n - 1 : q[i].id = q[j].id => q[i].type = q[j].type
        /\ \A i \in 3 .. n - 1 :
              LET id == q[i].id
                  ends == At("item.completed", id)
                  starts == At("item.started", id)
              IN  /\ Cardinality(ends) = 1 /\ Cardinality(starts) <= 1
                  /\ \A j \in ends : i <= j
                  /\ \A j \in starts : j <= i
                  /\ q[i].kind = "item.updated" => starts # {}

\* Only a whole turn of the first turn's thread, whose last message is the
\* answer in the file, is accepted: no truncated, reordered or repeated stream.
StreamsAreWellFormed ==
    [][phase = "events" /\ phase' = "history" =>
          /\ FinishedTurn(read)
          /\ thread \in {NoThread, read[1].thread}
          /\ \E i \in DOMAIN read :
                /\ read[i].kind = "item.completed" /\ read[i].type = "agent_message"
                /\ read[i].text = final'
                /\ \A j \in i + 1 .. Len(read) :
                      read[j].kind = "item.completed" => read[j].type # "agent_message"]_vars

\* The places in the history where the user is told fragment k.
Told(k) == {i \in DOMAIN history : history[i].kind = "item_completed" /\ history[i].said = k}
Heard(k) == {i \in DOMAIN history : history[i].kind = "response_item" /\ history[i].said = k}
Tasks(kind) == {i \in DOMAIN history : history[i].kind = kind}
Turn(k, from, to, i) ==
    from < i /\ i < to /\ history[from].turn = history[to].turn
    /\ Cardinality({j \in Tasks("task_started") : j <= from}) = k

\* The history of the turns so far has each fragment of theirs once, as what
\* the user sent and as what the model got, in a turn of its own whose only
\* context grants the helper directory that was verified in that turn.
HistoryTellsDelivery ==
    (phase = "turn" /\ turn > 1) \/ (phase = "verdict" /\ ~given) =>
        LET n == IF phase = "turn" THEN turn - 1 ELSE parts
        IN  /\ Cardinality({history[i].turn : i \in Tasks("task_started")}) = n
            /\ Cardinality(Tasks("task_started")) = n
            /\ \A k \in 1 .. n : \E from, to \in DOMAIN history :
                  /\ history[from].kind = "task_started"
                  /\ history[to].kind = "task_complete"
                  /\ Cardinality(Told(k)) = 1 /\ Cardinality(Heard(k)) = 1
                  /\ \A i \in Told(k) \cup Heard(k) : Turn(k, from, to, i)
                  /\ \E i \in Tasks("turn_context") :
                        /\ Turn(k, from, to, i) /\ history[i].grant = helpers[k]
                        /\ \A j \in Tasks("turn_context") : from < j /\ j < to => j = i

\* What the reviewer was told, by the accepted history: the fragments that its
\* messages are, in the order of the rows.
Place(i) == Cardinality({j \in Tasks("item_completed") : j <= i})
Message(m) == history[CHOOSE i \in Tasks("item_completed") : Place(i) = m]
ToldSoFar ==
    IF given THEN <<[from |-> 1, to |-> prompt.chars]>>
    ELSE [m \in 1 .. Cardinality(Tasks("item_completed")) |-> fragment(Message(m).said)]

Delivery == INSTANCE PromptDelivery WITH
    Length <- {p.chars : p \in Prompt},
    length <- prompt.chars,
    told <- ToldSoFar,
    outcome <- IF phase # "done" THEN "open"
               ELSE IF record = "success" THEN "success" ELSE "failure"

\* A recorded success rests on the whole prompt, told in order and without a
\* gap: the turns implement PromptDelivery.
DeliverySpec == Delivery!Spec

\* A review ends, whatever its processes do: they may hang, hold their pipes
\* open, ignore SIGTERM and never build their aliases.
ReviewEnds == <>(phase = "done")
=============================================================================
