------------------------------- MODULE ReviewTurns -------------------------------
(***************************************************************************)
(* execute_turns of scripts/review_transport.py: a prompt too long for one  *)
(* message is cut into fragments, each delivered in a turn of one           *)
(* conversation by a process of its own (TurnProcess) whose output          *)
(* (TurnStream) and history (TurnHistory) are validated before the next     *)
(* turn.                                                                    *)
(*                                                                         *)
(* The lines and rows that the program has written are chosen as they are   *)
(* read.  The locals of a validator and of a process return to their        *)
(* initial values once the turn has moved on.                               *)
(***************************************************************************)
EXTENDS TurnProcess, TurnStream, TurnHistory

CONSTANTS
    Prompt,     \* prompts, by their characters and bytes
    Native,     \* NATIVE_CHARS
    Chunk,      \* CHUNK_CHARS
    Envelope,   \* characters around a fragment
    MaxBytes,   \* of the whole prompt
    MaxEvents,  \* bound on the lines of one turn's output
    MaxRows     \* bound on the rows of a turn, without the metadata

ASSUME TurnAssumption ==
    /\ Prompt \subseteq [chars : Nat \ {0}, bytes : Nat]
    /\ \A p \in Prompt : p.bytes >= p.chars
    /\ Chunk \in Nat \ {0} /\ Native \in Nat /\ Envelope \in Nat
    /\ Chunk + Envelope <= Native
    /\ MaxBytes \in Nat /\ MaxEvents \in Nat /\ MaxRows \in Nat
    /\ MaxTurns \in Nat

VARIABLES
    prompt, thread, helpers, history, final,
    stream, read,   \* validate_events, and the lines it has read
    book, rows      \* validate_history, and the rows it has read

conversation == <<prompt, thread, helpers, history>>
validation == <<stream, read, book, rows, final>>

\* chunks_for: the fragments of the prompt, in order, by their first and last
\* character.
\* Mutant: the last, shorter fragment is forgotten.
M_parts == prompt.chars \div Chunk
parts == (prompt.chars + Chunk - 1) \div Chunk
fragment(i) ==
    [from |-> (i - 1) * Chunk + 1,
     to |-> IF i * Chunk < prompt.chars THEN i * Chunk ELSE prompt.chars]
deliverable ==
    /\ prompt.bytes <= MaxBytes /\ parts \in 1 .. 3
    /\ \A i \in 1 .. parts :
          fragment(i).to + 1 - fragment(i).from + Envelope <= Native

TurnsInit ==
    /\ ProcessInit
    /\ prompt \in Prompt
    /\ turn = 1 /\ clock = 0 /\ failing = FALSE
    /\ thread = NoThread /\ helpers = <<>> /\ history = <<>> /\ final = "none"
    /\ stream = NoStream /\ read = <<>> /\ book = NoBook /\ rows = <<>>

Raise == phase' = "raised" /\ failing' = FALSE

BeginTurns ==
    /\ phase = "long"
    /\ \/ deliverable /\ phase' = "turn" /\ UNCHANGED failing
       \/ ~deliverable /\ Raise
    /\ UNCHANGED <<turn, clock, process, conversation, validation>>

\* The file of a turn's answer is new, and there is time.
BeginTurn ==
    /\ phase = "turn" /\ ~late
    /\ phase' = "drain" /\ UNCHANGED failing
    /\ Spawn
    /\ UNCHANGED <<turn, clock, conversation, validation>>

RefuseTurn ==
    /\ phase = "turn"
    /\ Raise
    /\ UNCHANGED <<turn, clock, process, conversation, validation>>

\* The end of run_bounded, the exit code and read_bounded of the answer, which
\* may be missing or too long.
TakeResult ==
    /\ phase = "ended"
    /\ Collected
    /\ \/ Raise /\ UNCHANGED helpers
       \/ /\ ~failing /\ code = 0
          /\ helpers' = Append(helpers, helper)
          /\ phase' = "events" /\ UNCHANGED failing
    /\ UNCHANGED <<turn, clock, aliases, prompt, thread, history, validation>>
-----------------------------------------------------------------------------
\* The lines that the stream still needs to end: one without room for them is
\* not read on, since StreamEnds may refuse it anywhere.
open_items(s) == (IF s.state = 3 THEN 0 ELSE 1) + Cardinality(DOMAIN s.pending)

ReadEvent(e) ==
    /\ phase = "events"
    /\ fits(stream, e, thread) /\ named(stream, e, thread)
    /\ stream' = after(stream, e)
    /\ read' = Append(read, e)
    /\ Len(read') + open_items(stream') <= MaxEvents
    /\ UNCHANGED <<runner, turn, clock, process, conversation, book, rows, final>>

\* The end of the stream, against the file of the answer; or a line that does
\* not fit, which may follow any other.
StreamEnds ==
    /\ phase = "events"
    /\ \/ \E answer \in Text :
          /\ ends_with(stream, answer)
          /\ thread' = stream.thread /\ final' = answer
          /\ phase' = "history" /\ UNCHANGED failing
       \/ Raise /\ UNCHANGED <<thread, final>>
    /\ stream' = NoStream /\ read' = <<>>
    /\ UNCHANGED <<turn, clock, process, prompt, helpers, history, book, rows>>

\* The rows that the active turn still needs to end: a history without room
\* for them is not read on, since HistoryEnds may refuse it anywhere.
needed(b) ==
    IF b.active = NoTurn THEN 0
    ELSE 1 + Cardinality({f \in {"user_event", "user_response", "context"} : b[f] = 0})

ReadRow(r) ==
    /\ phase = "history"
    /\ extends(history, book, r) /\ row_fits(book, r, helpers)
    /\ book' = next_book(book, r, helpers)
    /\ rows' = Append(rows, r)
    /\ Len(rows') + needed(book') <= turn * MaxRows + 1
    /\ UNCHANGED <<runner, turn, clock, process, conversation, stream, read, final>>

HistoryEnds ==
    /\ phase = "history"
    /\ \/ /\ book_ends(book, history, helpers)
          /\ history' = rows
          /\ phase' = "answer" /\ UNCHANGED failing
       \/ /\ Raise /\ UNCHANGED history
    /\ book' = NoBook /\ rows' = <<>>
    /\ UNCHANGED <<turn, clock, process, prompt, thread, helpers, stream, read, final>>

acknowledged == final = "ack"

\* The acknowledgement of a fragment, or the verdict, of which
\* gate.parse_review makes the findings, or refuses to.
Answer ==
    /\ phase = "answer"
    /\ \/ /\ turn < parts /\ acknowledged /\ clock < Deadline
          /\ turn' = turn + 1 /\ phase' = "turn" /\ UNCHANGED failing
       \/ /\ turn = parts /\ final = "findings" /\ clock < Deadline
          /\ phase' = "verdict" /\ UNCHANGED <<failing, turn>>
       \/ /\ turn < parts => ~acknowledged \/ clock >= Deadline
          /\ Raise /\ UNCHANGED turn
    /\ final' = "none"
    /\ UNCHANGED <<clock, process, conversation, stream, read, book, rows>>

TurnsStep ==
    \/ (Tick \/ ProcessStep) /\ UNCHANGED <<conversation, validation>>
    \/ BeginTurns \/ BeginTurn \/ RefuseTurn \/ TakeResult
    \/ \E e \in Event : ReadEvent(e)
    \/ \E r \in Row : ReadRow(r)
    \/ StreamEnds \/ HistoryEnds \/ Answer

TurnsFairness ==
    /\ ProcessFairness
    /\ WF_phase(BeginTurns) /\ WF_phase(BeginTurn \/ RefuseTurn)
    /\ WF_phase(TakeResult) /\ WF_phase(StreamEnds) /\ WF_phase(HistoryEnds)
    /\ WF_phase(Answer)
=============================================================================
