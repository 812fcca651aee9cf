------------------------------- MODULE OwnedServer -------------------------------
(***************************************************************************)
(* scripts/integration/server.py: a devnet that a context manager starts,  *)
(* and whose end and whose private files it answers for, while SIGINT and  *)
(* SIGTERM may arrive between any two of its steps.                        *)
(*                                                                         *)
(* SIGKILL, which no process can answer, is left out.                      *)
(***************************************************************************)
EXTENDS Naturals

CONSTANT MaxSignals     \* bound on the signals to the process

Signals == {"SIGINT", "SIGTERM"}

VARIABLES
    pc,         \* where the main thread is
    raising,    \* an exception is on its way out
    handler,    \* default, interrupted or ignored
    saved,      \* the keys of previous
    signals,
    hit,        \* history: the places in which a signal was taken
    server,     \* none, running or exited
    known,      \* whether the variable server holds it
    code,       \* how it exited: failed, term, kill
    secrets,    \* the private files that exist
    stopped     \* server-stopped.txt

manager == <<raising, handler, saved, known, secrets, stopped>>
world == <<signals, hit, server, code>>
serverVars == <<pc, raising, handler, saved, signals, hit, server, known, code,
                secrets, stopped>>

\* The labels within the try of local_server, the body of its caller included.
Tried == {"install", "log", "start", "popen", "listen", "keys", "declare",
          "deploy", "compare", "readback"}
Ended == {"done", "raised", "killed"}

ServerInit ==
    /\ raising = FALSE
    /\ handler = [s \in Signals |-> "default"] /\ saved = {}
    /\ signals = 0 /\ hit = {}
    /\ server = "none" /\ known = FALSE /\ code = "none"
    /\ secrets = {} /\ stopped = "none"

\* Where an exception leads.
raised == IF pc \in Tried THEN "ignore" ELSE "raised"

Raise ==
    /\ pc' = raised
    /\ raising' = TRUE
-----------------------------------------------------------------------------
(* Around the process.                                                     *)

\* By default SIGINT raises KeyboardInterrupt and SIGTERM ends the process.
Receive(s) ==
    /\ pc \notin Ended /\ signals < MaxSignals
    /\ handler[s] # "ignored"
    /\ signals' = signals + 1
    /\ IF s = "SIGTERM" /\ handler[s] = "default"
       THEN pc' = "killed" /\ UNCHANGED <<raising, hit>>
       ELSE Raise /\ hit' = hit \cup {pc}
    /\ UNCHANGED <<handler, saved, server, known, code, secrets, stopped>>

Dies ==
    /\ server = "running"
    /\ server' = "exited" /\ code' = "failed"
    /\ UNCHANGED <<pc, manager, signals, hit>>

\* SIGTERM ends the devnet, or not.
Heeds ==
    /\ pc = "wait" /\ server = "running"
    /\ server' = "exited" /\ code' = "term"
    /\ UNCHANGED <<pc, manager, signals, hit>>
-----------------------------------------------------------------------------
(* The try block up to the yield.                                          *)

unset(s) == handler[s] = "default"

\* A handler is installed first, and its predecessor stored after that.
Install ==
    /\ pc = "install"
    /\ LET next == IF unset("SIGINT") \/ "SIGINT" \notin saved THEN "SIGINT" ELSE "SIGTERM"
       IN  \/ /\ unset(next)
              /\ handler' = [handler EXCEPT ![next] = "interrupted"]
              /\ UNCHANGED <<pc, saved>>
           \/ /\ ~unset(next) /\ saved' = saved \cup {next}
              /\ pc' = IF next = "SIGTERM" THEN "log" ELSE pc
              /\ UNCHANGED handler
    /\ UNCHANGED <<raising, known, secrets, stopped, world>>

OpenLog ==
    /\ pc = "log"
    /\ secrets' = secrets \cup {"server-private.log"}
    /\ pc' = "start"
    /\ UNCHANGED <<raising, handler, saved, known, stopped, world>>

\* One that finds its port taken exits at once.
StartServer(taken) ==
    /\ pc = "start"
    /\ \/ /\ server' = (IF taken THEN "exited" ELSE "running")
          /\ code' = IF taken THEN "failed" ELSE code
          /\ pc' = "popen" /\ UNCHANGED raising
       \/ Raise /\ UNCHANGED <<server, code>>
    /\ UNCHANGED <<handler, saved, known, secrets, stopped, signals, hit>>

Assign ==
    /\ pc = "popen"
    /\ known' = TRUE /\ pc' = "listen"
    /\ UNCHANGED <<raising, handler, saved, secrets, stopped, world>>
-----------------------------------------------------------------------------
(* The finally block.                                                      *)

\* Mutant: signals are not ignored during the cleanup.
M_Ignore ==
    /\ pc = "ignore"
    /\ pc' = (IF known THEN "wait" ELSE "clean")
    /\ UNCHANGED <<raising, handler, saved, known, secrets, stopped, world>>
Ignore ==
    /\ pc = "ignore"
    /\ LET left == {s \in saved : handler[s] # "ignored"}
           next == IF "SIGINT" \in left THEN "SIGINT" ELSE "SIGTERM"
       IN  \/ /\ left # {}
              /\ handler' = [handler EXCEPT ![next] = "ignored"] /\ UNCHANGED pc
           \/ /\ left = {}
              /\ pc' = (IF known THEN "wait" ELSE "clean") /\ UNCHANGED handler
    /\ UNCHANGED <<raising, saved, known, secrets, stopped, world>>

\* Mutant: no timeout and no kill after terminate().
M_Wait ==
    /\ pc = "wait" /\ server = "exited"
    /\ pc' = "clean"
    /\ UNCHANGED <<server, code, manager, signals, hit>>
\* A kill is taken to end the devnet within the five seconds waited for it.
Wait ==
    /\ pc = "wait"
    /\ pc' = "clean"
    /\ \/ server = "exited" /\ UNCHANGED <<server, code>>
       \/ server = "running" /\ server' = "exited" /\ code' = "kill"
    /\ UNCHANGED <<manager, signals, hit>>

\* The private files go, the exit code is written, the handlers come back.
Clean ==
    /\ pc = "clean"
    /\ secrets' = {}
    /\ stopped' = IF known THEN code ELSE stopped
    /\ handler' = [s \in Signals |-> IF s \in saved THEN "default" ELSE handler[s]]
    /\ pc' = IF raising THEN "raised" ELSE "stopped"
    /\ UNCHANGED <<raising, saved, known, world>>

ServerStep == Install \/ OpenLog \/ Assign \/ Ignore \/ Wait \/ Clean
=============================================================================
