----------------------------- MODULE BotProcess -----------------------------
(***************************************************************************)
(* What a process of scripts/run_live.py promises to those who command it: *)
(* the operator, whose commands a second thread queues, and the supervisor,*)
(* who sees it end with an exit code. LiveTrading is the detailed          *)
(* specification and implements this one; RemoteControl composes this one  *)
(* with the commander and the supervisor.                                  *)
(***************************************************************************)
EXTENDS Sequences

Commands == {"status", "pause", "resume", "flatten", "stop", "restart"}
RestartExitCode == 42

VARIABLES
  phase,       \* "running", "ending" (it will not trade any more), "dead"
  inbox,       \* commands queued and not yet taken up
  cmds,        \* commands taken up and not yet handled
  paused,
  killed,      \* the kill switch
  rc,          \* the exit code it will end, or has ended, with
  lastRequest  \* "none", "order" or "flatten": the last thing it asked of the bridge

botVars == <<phase, inbox, cmds, paused, killed, rc, lastRequest>>

Queue(cmd) ==
  /\ phase # "dead"
  /\ inbox' = Append(inbox, cmd)
  /\ UNCHANGED <<phase, cmds, paused, killed, rc, lastRequest>>

\* All that is queued is taken up at once.
Take ==
  /\ phase = "running"
  /\ cmds = <<>>
  /\ inbox # <<>>
  /\ cmds' = inbox
  /\ inbox' = <<>>
  /\ UNCHANGED <<phase, paused, killed, rc, lastRequest>>

\* /stop ends the process as it stands, /restart flattens first. Either drops
\* the commands behind it.
Handle ==
  /\ phase = "running"
  /\ cmds # <<>>
  /\ cmds' = Tail(cmds)
  /\ LET cmd == Head(cmds) IN
       /\ paused' = IF cmd = "pause" THEN TRUE ELSE IF cmd = "resume" THEN FALSE ELSE paused
       /\ phase' = IF cmd \in {"stop", "restart"} THEN "ending" ELSE "running"
       /\ rc' = IF cmd = "restart" THEN RestartExitCode ELSE rc
       /\ lastRequest' = IF cmd \in {"flatten", "restart"} THEN "flatten" ELSE lastRequest
  /\ UNCHANGED <<inbox, killed>>

\* An order is sent only while nothing blocks it, and never between commands.
Enter ==
  /\ phase = "running"
  /\ cmds = <<>>
  /\ ~paused
  /\ ~killed
  /\ lastRequest' = "order"
  /\ UNCHANGED <<phase, inbox, cmds, paused, killed, rc>>

ForceFlatten ==
  /\ phase = "running"
  /\ cmds = <<>>
  /\ lastRequest' = "flatten"
  /\ UNCHANGED <<phase, inbox, cmds, paused, killed, rc>>

\* A crash of the loop is caught: kill switch, flatten, and the exit code of a
\* clean stop.
Crash ==
  /\ phase = "running"
  /\ phase' = "ending"
  /\ killed' = TRUE
  /\ lastRequest' = "flatten"
  /\ UNCHANGED <<inbox, cmds, paused, rc>>

TimeIsUp ==
  /\ phase = "running"
  /\ phase' = "ending"
  /\ UNCHANGED <<inbox, cmds, paused, killed, rc, lastRequest>>

\* SIGINT. While the process is ending its flatten may come too late.
Interrupt ==
  /\ phase # "dead"
  /\ ~killed
  /\ phase' = "ending"
  /\ killed' = TRUE
  /\ rc' = 0
  /\ \/ lastRequest' = "flatten"
     \/ phase = "ending" /\ UNCHANGED lastRequest
  /\ UNCHANGED <<inbox, cmds, paused>>

End ==
  /\ phase = "ending"
  /\ phase' = "dead"
  /\ UNCHANGED <<inbox, cmds, paused, killed, rc, lastRequest>>

\* A process that has just been started.
Fresh ==
  /\ phase = "running"
  /\ inbox = <<>>
  /\ cmds = <<>>
  /\ paused = FALSE
  /\ killed = FALSE
  /\ rc = 0
  /\ lastRequest = "none"

\* A process is started where another has been.
Start ==
  /\ phase' = "running"
  /\ inbox' = <<>>
  /\ cmds' = <<>>
  /\ paused' = FALSE
  /\ killed' = FALSE
  /\ rc' = 0
  /\ lastRequest' = "none"

BotStep == Take \/ Handle \/ Enter \/ ForceFlatten \/ Crash \/ TimeIsUp \/ Interrupt \/ End

BotNext == BotStep \/ \E cmd \in Commands : Queue(cmd)

BotSpec == Fresh /\ [][BotNext]_botVars

\* Commands are taken up and handled, and an ending process ends: every call
\* of its loop returns.
BotFairness ==
  /\ WF_botVars(Take)
  /\ WF_botVars(Handle)
  /\ WF_botVars(End)
=============================================================================
