------------------------------- MODULE TurnStream -------------------------------
(***************************************************************************)
(* validate_events of scripts/review_transport.py: the lines a native      *)
(* program has written to its standard output, read one by one.  The locals *)
(* of the function are the fields of a record; a line that does not fit     *)
(* raises.  A name that is new is the least one unused: which one it is     *)
(* makes no difference.                                                     *)
(***************************************************************************)
EXTENDS Naturals, Sequences, FiniteSets

CONSTANTS Threads, Items    \* bounds on the names of threads and of items

ASSUME NamesAssumption == Threads \in Nat /\ Items \in Nat

Thread == 1 .. Threads
Item == 1 .. Items
NoThread == 0

\* What the program says: the acknowledgement that is due, or something else.
Text == {"ack", "findings"}
Type == {"agent_message", "command_execution"}

Lifecycle == [kind : {"turn.started", "turn.completed", "error"}]
Started == [kind : {"thread.started"}, thread : Thread]
ItemEvent == [kind : {"item.started", "item.updated"}, id : Item, type : Type]
Completed ==
    [kind : {"item.completed"}, id : Item, type : {"agent_message"}, text : Text]
    \cup [kind : {"item.completed"}, id : Item, type : {"command_execution"}]
Event == Lifecycle \cup Started \cup ItemEvent \cup Completed

NoStream == [state |-> 0, thread |-> NoThread, last |-> "none",
             pending |-> [i \in {} |-> "none"], finished |-> {}]

started(s, i) == i \in DOMAIN s.pending

\* The guard of each kind of line; expected is the thread of the first turn.
\* Mutant: an item may end after it has been completed.
M_fits_item(s, e) ==
    /\ s.state = 2
    /\ CASE e.kind = "item.started" -> ~started(s, e.id) /\ e.id \notin s.finished
         [] e.kind = "item.updated" -> started(s, e.id) /\ s.pending[e.id] = e.type
         [] OTHER -> started(s, e.id) => s.pending[e.id] = e.type
fits_item(s, e) ==
    /\ s.state = 2
    /\ e.id \notin s.finished
    /\ CASE e.kind = "item.started" -> ~started(s, e.id)
         [] e.kind = "item.updated" -> started(s, e.id) /\ s.pending[e.id] = e.type
         [] OTHER -> started(s, e.id) => s.pending[e.id] = e.type

\* The names a line may bring up.
named(s, e, expected) ==
    CASE e.kind = "thread.started" -> e.thread <= expected + 1
      [] e.kind \in {"item.started", "item.updated", "item.completed"} ->
            e.id <= Cardinality(DOMAIN s.pending \cup s.finished) + 1
      [] OTHER -> TRUE

fits(s, e, expected) ==
    CASE e.kind = "thread.started" ->
            s.state = 0 /\ expected \in {NoThread, e.thread}
      [] e.kind = "turn.started" -> s.state = 1
      [] e.kind = "turn.completed" -> s.state = 2 /\ DOMAIN s.pending = {}
      [] e.kind = "error" -> FALSE
      [] OTHER -> fits_item(s, e)

with(f, i, x) == [j \in DOMAIN f \cup {i} |-> IF j = i THEN x ELSE f[j]]
without(f, i) == [j \in DOMAIN f \ {i} |-> f[j]]

after(s, e) ==
    CASE e.kind = "thread.started" -> [s EXCEPT !.state = 1, !.thread = e.thread]
      [] e.kind = "turn.started" -> [s EXCEPT !.state = 2]
      [] e.kind = "turn.completed" -> [s EXCEPT !.state = 3]
      [] e.kind = "item.started" ->
            [s EXCEPT !.pending = with(@, e.id, e.type)]
      [] e.kind = "item.completed" ->
            [s EXCEPT !.pending = without(@, e.id), !.finished = @ \cup {e.id},
                      !.last = IF e.type = "agent_message" THEN e.text ELSE @]
      [] OTHER -> s

\* The end of the stream, against the file of the final answer.
ends_with(s, final) == s.state = 3 /\ s.last = final
=============================================================================
