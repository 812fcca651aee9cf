------------------------------ MODULE TurnProcess ------------------------------
(***************************************************************************)
(* One bounded process of a review turn: run_bounded and                   *)
(* capture_helper_alias of scripts/review_transport.py.                    *)
(*                                                                         *)
(* The native program is free: it may exit, fork, let a child leave the    *)
(* process group, close its pipes, and build its directory of helper       *)
(* aliases, or leave an old one behind.  Only SIGKILL is certain to end    *)
(* it, which is taken to act at once.  An unfinished directory does not     *)
(* outlive its program, a finished one may.  A private directory below     *)
(* TMPDIR, where the program makes no aliases and none are looked for, is  *)
(* left out.                                                               *)
(***************************************************************************)
EXTENDS Naturals, FiniteSets

CONSTANTS
    Deadline,   \* seconds of the whole conversation
    Margin,     \* the two seconds kept to stop the process
    Patience    \* the five seconds of capture_helper_alias

ASSUME TimeAssumption ==
    /\ Deadline \in Nat /\ Margin \in Nat /\ Patience \in Nat
    /\ Margin < Deadline

NoHelper == 0

VARIABLES
    phase,      \* where the runner is, from one await to the next
    turn,       \* the turn being run
    clock,
    failing,    \* an exception is on its way through the finally block
    native, child, pipes,   \* the program, a child of it, and who of the two
                            \* holds its output pipes
    stdin,      \* open, sent (the whole prompt is written) or closed
    code, aliases, helper, limit

runner == <<phase, failing>>
tree == <<native, child, pipes, code>>
process == <<native, child, pipes, stdin, code, aliases, helper, limit>>

Bounded == {"drain", "alias", "wait", "term", "grace"}

ProcessInit ==
    /\ native = "none" /\ child = "none" /\ pipes = {} /\ code = 0
    /\ stdin = "closed" /\ aliases = {} /\ helper = NoHelper /\ limit = 0

ProcessTypeOK ==
    /\ native \in {"none", "running", "exited"}
    /\ child \in {"none", "member", "escaped"}
    /\ pipes \subseteq {"native", "child"} /\ code \in {0, 1}
    /\ stdin \in {"open", "sent", "closed"}
    /\ aliases \subseteq [of : Nat, state : {"partial", "complete", "foreign"}]
    /\ helper \in Nat /\ limit \in Nat

Tick ==
    /\ clock < Deadline
    /\ clock' = clock + 1
    /\ UNCHANGED <<runner, turn, process>>
-----------------------------------------------------------------------------
(* The native program and its child.                                       *)

Live == phase \in Bounded

Exits(c) ==
    /\ Live /\ native = "running"
    /\ native' = "exited" /\ code' = c
    /\ pipes' = pipes \ {"native"}
    /\ \E kept \in {{}, {"complete"}} :
          aliases' = {a \in aliases : a.of # turn \/ a.state \in kept}
    /\ UNCHANGED <<runner, turn, clock, child, stdin, helper, limit>>

ClosesPipes ==
    /\ Live /\ "native" \in pipes
    /\ pipes' = pipes \ {"native"}
    /\ UNCHANGED <<runner, turn, clock, native, child, code, stdin, aliases,
                   helper, limit>>

Forks(holds) ==
    /\ Live /\ native = "running" /\ child = "none"
    /\ child' = "member"
    /\ pipes' = IF holds THEN pipes \cup {"child"} ELSE pipes
    /\ UNCHANGED <<runner, turn, clock, native, code, stdin, aliases, helper, limit>>

LeavesGroup ==
    /\ Live /\ child = "member"
    /\ child' = "escaped"
    /\ UNCHANGED <<runner, turn, clock, native, pipes, code, stdin, aliases,
                   helper, limit>>

ChildExits ==
    /\ Live /\ child # "none"
    /\ child' = "none" /\ pipes' = pipes \ {"child"}
    /\ UNCHANGED <<runner, turn, clock, native, code, stdin, aliases, helper, limit>>

Own(state) == [of |-> turn, state |-> state]

BuildsAliases ==
    /\ Live /\ native = "running" /\ stdin # "closed"
    /\ LET own == {a \in aliases : a.of = turn}
       IN  \/ own = {} /\ aliases' \in {aliases \cup {Own(s)} : s \in {"partial", "foreign"}}
           \/ own = {Own("partial")} /\ aliases' = (aliases \ own) \cup {Own("complete")}
    /\ UNCHANGED <<runner, turn, clock, tree, stdin, helper, limit>>
-----------------------------------------------------------------------------
(* run_bounded, up to the finally block.                                   *)

late == clock >= Deadline - Margin

Spawn ==
    /\ native' = "running" /\ child' = "none" /\ pipes' = {"native"} /\ code' = 0
    /\ stdin' = "open" /\ helper' = NoHelper
    /\ UNCHANGED <<aliases, limit>>

Fail == failing' = TRUE /\ phase' = "term"
Loops == phase' = "drain" /\ UNCHANGED failing

\* The loop's checks: the deadline, and the bounds of output and history.
DrainLate ==
    /\ phase = "drain" /\ late
    /\ Fail
    /\ UNCHANGED <<turn, clock, process>>

Exceeds ==
    /\ phase = "drain"
    /\ Fail
    /\ UNCHANGED <<turn, clock, process>>

\* The last write of the prompt, also one that finds nobody reading it.
WritePrompt ==
    /\ phase = "drain" /\ stdin = "open"
    /\ \/ /\ native = "running"
          /\ stdin' = "sent" /\ phase' = "alias" /\ UNCHANGED failing
          /\ limit' = IF clock + Patience < Deadline - Margin
                      THEN clock + Patience ELSE Deadline - Margin
       \/ /\ native = "exited"
          /\ stdin' = "closed" /\ Loops /\ UNCHANGED limit
    /\ UNCHANGED <<turn, clock, tree, aliases, helper>>

\* inspect_helper_alias: one directory, complete, of links to this program.
invalid == Cardinality(aliases) > 1 \/ \E a \in aliases : a.state = "foreign"
complete == \E a \in aliases : a.state = "complete"

FindAlias ==
    /\ phase = "alias" /\ clock < limit
    /\ \/ /\ ~invalid /\ complete
          /\ helper' = (CHOOSE a \in aliases : TRUE).of
          /\ stdin' = "closed" /\ Loops
       \/ /\ invalid \/ (~complete /\ native = "exited")
          /\ Fail /\ UNCHANGED <<helper, stdin>>
    /\ limit' = 0
    /\ UNCHANGED <<turn, clock, tree, aliases>>

AliasLate ==
    /\ phase = "alias" /\ clock >= limit
    /\ Fail
    /\ limit' = 0
    /\ UNCHANGED <<turn, clock, tree, stdin, aliases, helper>>

\* Both pipes are at their end and stdin is closed.
Drained ==
    /\ phase = "drain" /\ stdin = "closed" /\ pipes = {}
    /\ phase' = "wait"
    /\ UNCHANGED <<failing, turn, clock, process>>

\* Mutant: process.wait() without a timeout.
M_Wait ==
    /\ phase = "wait" /\ native = "exited"
    /\ phase' = "term"
    /\ UNCHANGED <<failing, turn, clock, process>>
Wait ==
    /\ phase = "wait"
    /\ \/ native = "exited" /\ phase' = "term" /\ UNCHANGED failing
       \/ native = "running" /\ late /\ Fail
    /\ UNCHANGED <<turn, clock, process>>
-----------------------------------------------------------------------------
(* The finally block: SIGTERM to the group, half a second, SIGKILL.        *)

\* SIGTERM may be heeded or not, so that it allows the steps above and forces
\* none of them.
Terminate ==
    /\ phase = "term"
    /\ phase' = "grace"
    /\ UNCHANGED <<failing, turn, clock, process>>

\* Mutant: process.kill() instead of os.killpg().
M_killed(c) == c
killed(c) == IF c = "member" THEN "none" ELSE c

Kill ==
    /\ phase = "grace"
    /\ phase' = "ended"
    /\ native' = "exited"
    /\ code' = IF native = "running" THEN 1 ELSE code
    /\ child' = killed(child)
    /\ pipes' = {} /\ stdin' = "closed"
    /\ UNCHANGED <<failing, turn, clock, aliases, helper, limit>>

\* What a turn leaves once its result is taken.
Collected == /\ native' = "none" /\ child' = "none" /\ pipes' = {} /\ code' = 0
             /\ stdin' = "closed" /\ helper' = NoHelper /\ limit' = 0

ProcessStep ==
    \/ \E c \in {0, 1} : Exits(c)
    \/ \E holds \in BOOLEAN : Forks(holds)
    \/ ClosesPipes \/ LeavesGroup \/ ChildExits \/ BuildsAliases
    \/ DrainLate \/ Exceeds \/ WritePrompt \/ FindAlias \/ AliasLate
    \/ Drained \/ Wait \/ Terminate \/ Kill

ProcessFairness ==
    /\ WF_clock(Tick)
    /\ WF_<<runner, process>>(DrainLate \/ AliasLate \/ Wait \/ Terminate \/ Kill)
=============================================================================
