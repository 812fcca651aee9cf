------------------------------ MODULE TurnHistory ------------------------------
(***************************************************************************)
(* validate_history of scripts/review_transport.py: the rows of the private *)
(* history file, read from its first row on after every turn.  The locals   *)
(* of the function are the fields of a record; a row that does not fit      *)
(* raises.  Settings that every turn must repeat (directory, model, effort, *)
(* policy) are right or wrong; the grant of a helper directory is the turn  *)
(* whose directory it is.                                                   *)
(***************************************************************************)
EXTENDS Naturals, Sequences, FiniteSets

CONSTANT MaxTurns   \* fragments of the longest prompt

\* The identities of turns, of which a new one is the least unused.
TurnId == 1 .. MaxTurns
NoTurn == 0

\* What a message of the user says: one of the prompts, or something else.
Said == 0 .. MaxTurns
Unknown == 0

Row ==
    [kind : {"session_meta", "thread_settings_applied", "compacted"}]
    \cup [kind : {"turn_context"}, turn : TurnId, grant : 0 .. MaxTurns]
    \cup [kind : {"response_item"}, said : Said]
    \cup [kind : {"task_started", "task_complete"}, turn : TurnId]
    \cup [kind : {"item_completed"}, turn : TurnId, said : Said]

NoBook == [row |-> 0, active |-> NoTurn, turns |-> {}, completed |-> 0,
           user_event |-> 0, user_response |-> 0, context |-> 0]

\* The guard of a row, with the prompts and the helpers of the turns so far.
\* Mutant: a context of any turn's helper directory.
M_fits_context(b, r, helpers) ==
    b.active # NoTurn /\ r.turn = b.active /\ r.grant \in {helpers[i] : i \in DOMAIN helpers}
fits_context(b, r, helpers) ==
    /\ b.active # NoTurn /\ r.turn = b.active
    /\ b.completed < Len(helpers) /\ r.grant = helpers[b.completed + 1]

\* Only a message that is one of the prompts so far is looked at.
fits_response(b, r, prompts) ==
    r.said \in prompts =>
        b.active # NoTurn /\ b.completed + 1 \in prompts /\ r.said = b.completed + 1

fits_complete(b, r) ==
    /\ b.active # NoTurn /\ r.turn = b.active
    /\ b.user_event = 1 /\ b.user_response = 1 /\ b.context = 1

row_fits(b, r, helpers) ==
    LET prompts == DOMAIN helpers
    IN  CASE r.kind = "session_meta" -> b.row = 0
          [] b.row = 0 -> FALSE
          [] r.kind = "turn_context" -> fits_context(b, r, helpers)
          [] r.kind = "response_item" -> fits_response(b, r, prompts)
          [] r.kind = "task_started" ->
                /\ b.active = NoTurn /\ b.completed + 1 \in prompts
                /\ r.turn \notin b.turns
                /\ r.turn <= Cardinality(b.turns) + 1
          [] r.kind = "task_complete" -> fits_complete(b, r)
          [] r.kind = "item_completed" ->
                b.active # NoTurn /\ r.turn = b.active /\ r.said = b.completed + 1
          [] r.kind = "thread_settings_applied" -> b.active = NoTurn
          [] OTHER -> FALSE

\* The counters after a row that fits.
booked(b, r, helpers) ==
    CASE r.kind = "turn_context" -> [b EXCEPT !.context = @ + 1]
      [] r.kind = "response_item" ->
            IF r.said \in DOMAIN helpers THEN [b EXCEPT !.user_response = @ + 1] ELSE b
      [] r.kind = "item_completed" -> [b EXCEPT !.user_event = @ + 1]
      [] r.kind = "task_started" ->
            [b EXCEPT !.active = r.turn, !.turns = @ \cup {r.turn},
                      !.user_event = 0, !.user_response = 0, !.context = 0]
      [] r.kind = "task_complete" ->
            [b EXCEPT !.active = NoTurn, !.completed = @ + 1]
      [] OTHER -> b

next_book(b, r, helpers) == [booked(b, r, helpers) EXCEPT !.row = @ + 1]

\* data.startswith(previous), row by row.
extends(previous, b, r) == b.row < Len(previous) => r = previous[b.row + 1]

\* Every turn is finished, and nothing of the last history is missing.
book_ends(b, previous, helpers) ==
    /\ b.row >= Len(previous)
    /\ b.active = NoTurn /\ b.completed = Len(helpers)
=============================================================================
