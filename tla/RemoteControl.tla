--------------------------- MODULE RemoteControl ---------------------------
(***************************************************************************)
(* The bot under remote control: scripts/supervisor.py, which relaunches   *)
(* the process of run_live.py, and the Telegram commander, the thread of   *)
(* that process that polls Telegram's server and queues the operator's     *)
(* commands. The process itself is BotProcess.                             *)
(*                                                                         *)
(* Telegram keeps an update until a getUpdates with a higher offset; the   *)
(* offset is kept in the memory of the process, so a new one starts with   *)
(* none. It asks once for what is pending, to skip it, and a failure of    *)
(* that one call is only logged.                                           *)
(***************************************************************************)
EXTENDS BotProcess, Lists, SequencesExt, Integers

CONSTANTS
  Messages,              \* what the chat may contain: commands and others
  MaxUpdates,            \* bound: messages sent
  MaxConsecutiveCrashes, \* MAX_CONSECUTIVE_CRASHES
  CrashWindow            \* CRASH_WINDOW_SEC, in ticks

ASSUME RemoteAssumption ==
  /\ MaxUpdates \in Nat
  /\ MaxConsecutiveCrashes \in Nat \ {0}
  /\ CrashWindow \in Nat

VARIABLES
  server,   \* updates Telegram holds: id, text, and whether it precedes the launch
  nextId,
  offset,   \* commander._offset
  batch,    \* the updates of the last answer that _run has still to look at
  child,    \* "none", "boot" (up to the end of commander.start), "up", "dead"
  sup,      \* the supervisor: "spawn", "forked", "waiting", "cooldown",
            \* "stopping" (in its SIGINT handler), "exited"
  crashes,  \* crash_times, as ages in ticks
  \* history
  skipped,  \* the last update that preceded the launch, once it is known
  taken,    \* ids the commander of this process has looked at
  crashed,  \* the loop of this process has crashed
  stopped,  \* the supervisor got SIGINT
  deaths    \* ages of all the failed launches of the last CrashWindow ticks

telegram   == <<server, nextId>>
commander  == <<offset, batch, taken>>
supervisor == <<sup, crashes, stopped, deaths>>
vars == <<botVars, telegram, commander, supervisor, child, skipped, crashed>>

NoOffset == 0
Unknown == -1

-----------------------------------------------------------------------------
(***************************************************************************)
(* Telegram.                                                               *)
(***************************************************************************)
OperatorSends ==
  /\ nextId <= MaxUpdates
  /\ \E text \in Messages :
       server' = Append(server, [id |-> nextId, text |-> text, old |-> FALSE])
  /\ nextId' = nextId + 1
  /\ UNCHANGED <<botVars, commander, supervisor, child, skipped, crashed>>

-----------------------------------------------------------------------------
(***************************************************************************)
(* The process: start, commander, loop.                                    *)
(***************************************************************************)
\* Configuration, --confirm or the feed's preflight: exit code 1, 2 or 3.
LaunchFails ==
  /\ child = "boot"
  /\ child' = "dead"
  /\ rc' \in {1, 2, 3}
  /\ UNCHANGED <<phase, inbox, cmds, paused, killed, lastRequest, telegram,
                 commander, supervisor, skipped, crashed>>

\* Mutant: what is pending is skipped up to the first update.
AfterPendingFirst(pending) == IF pending = <<>> THEN NoOffset ELSE Head(pending).id + 1

\* _init_offset: the last pending update and all before it are skipped.
AfterPending(pending) == IF pending = <<>> THEN NoOffset ELSE Last(pending).id + 1

\* commander.start, and the loop begins.
LaunchSucceeds ==
  /\ child = "boot"
  /\ child' = "up"
  /\ \/ /\ offset' = AfterPending(server)
        /\ skipped' = IF server = <<>> THEN 0 ELSE Last(server).id
     \/ UNCHANGED <<offset, skipped>>
  /\ UNCHANGED <<botVars, telegram, batch, taken, supervisor, crashed>>

Listening == child = "up" /\ phase # "dead" /\ batch = <<>>

\* getUpdates confirms every update below the offset. Its answer may be lost.
Confirmed == Keep(server, {u \in Range(server) : u.id >= offset})

PollAnswered ==
  /\ Listening
  /\ Confirmed # <<>>
  /\ server' = Confirmed
  /\ batch' = Confirmed
  /\ UNCHANGED <<botVars, nextId, offset, taken, supervisor, child, skipped, crashed>>

PollUnanswered ==
  /\ Listening
  /\ server' = Confirmed
  /\ server' # server
  /\ UNCHANGED <<botVars, nextId, commander, supervisor, child, skipped, crashed>>

\* Mutant: the offset is the update's own id.
OffsetAfterSame(u) == u.id

\* Mutant: one update more is confirmed.
OffsetAfterSkips(u) == u.id + 2

OffsetAfter(u) == u.id + 1

\* One turn of _run's loop over the answer: what is not a known command of the
\* chat is passed over.
LookAtUpdate ==
  /\ child = "up"
  /\ phase # "dead"
  /\ batch # <<>>
  /\ offset' = OffsetAfter(Head(batch))
  /\ batch' = Tail(batch)
  /\ taken' = taken \cup {Head(batch).id}
  /\ \/ /\ Head(batch).text \in Commands
        /\ Queue(Head(batch).text)
     \/ /\ Head(batch).text \notin Commands
        /\ UNCHANGED botVars
  /\ UNCHANGED <<telegram, supervisor, child, skipped, crashed>>

\* A step of the loop; the process is gone with its last.
LoopStep ==
  /\ child = "up"
  /\ BotStep
  /\ crashed' = (crashed \/ Crash)
  /\ child' = IF phase' = "dead" THEN "dead" ELSE "up"
  /\ UNCHANGED <<telegram, commander, supervisor, skipped>>

-----------------------------------------------------------------------------
(***************************************************************************)
(* The supervisor.                                                         *)
(***************************************************************************)
\* subprocess.Popen forks the process before "current" is assigned.
Fork ==
  /\ sup = "spawn"
  /\ sup' = "forked"
  /\ child' = "boot"
  /\ server' = [i \in 1 .. Len(server) |-> [server[i] EXCEPT !.old = TRUE]]
  /\ offset' = NoOffset
  /\ batch' = <<>>
  /\ taken' = {}
  /\ skipped' = Unknown
  /\ crashed' = FALSE
  /\ Start
  /\ UNCHANGED <<nextId, crashes, stopped, deaths>>

Assign ==
  /\ sup = "forked"
  /\ sup' = "waiting"
  /\ UNCHANGED <<botVars, telegram, commander, crashes, stopped, deaths, child,
                 skipped, crashed>>

\* Mutant: only the crash that has just happened counts.
InWindowLast(ages) == Keep(ages, {0})

InWindow(ages) == Keep(ages, 0 .. CrashWindow)

\* Mutant: a restart is taken for a clean stop.
IsCleanStopAny(code) == code \in {0, RestartExitCode}

IsCleanStop(code) == code = 0

ChildExits ==
  /\ sup = "waiting"
  /\ child = "dead"
  /\ \/ /\ IsCleanStop(rc)
        /\ sup' = "exited"
        /\ UNCHANGED <<crashes, deaths>>
     \/ /\ ~IsCleanStop(rc)
        /\ rc = RestartExitCode
        /\ sup' = "cooldown"
        /\ UNCHANGED <<crashes, deaths>>
     \/ /\ ~IsCleanStop(rc)
        /\ rc # RestartExitCode
        /\ crashes' = InWindow(Append(crashes, 0))
        /\ deaths' = Append(deaths, 0)
        /\ sup' = IF Len(crashes') >= MaxConsecutiveCrashes THEN "exited" ELSE "cooldown"
  /\ UNCHANGED <<botVars, telegram, commander, child, stopped, skipped, crashed>>

CooldownOver ==
  /\ sup = "cooldown"
  /\ sup' = "spawn"
  /\ UNCHANGED <<botVars, telegram, commander, crashes, stopped, deaths, child,
                 skipped, crashed>>

\* Time passes; only its length next to the crash window matters.
Tick ==
  /\ sup # "exited"
  /\ \E ages \in {[i \in 1 .. Len(crashes) |->
                     IF crashes[i] <= CrashWindow THEN crashes[i] + 1 ELSE crashes[i]]} :
       crashes' = ages /\ ages # crashes
  /\ deaths' = Keep([i \in 1 .. Len(deaths) |-> deaths[i] + 1], 0 .. CrashWindow)
  /\ UNCHANGED <<botVars, telegram, commander, sup, stopped, child, skipped, crashed>>

Alive == child \in {"boot", "up"}

\* _forward_sigint. With no live "current" the supervisor exits at once, and
\* "current" is not the new process before it is assigned.
SupervisorInterrupted ==
  /\ sup \in {"spawn", "forked", "waiting", "cooldown"}
  /\ stopped' = TRUE
  /\ sup' = IF sup = "waiting" /\ Alive THEN "stopping" ELSE "exited"
  /\ UNCHANGED <<botVars, telegram, commander, crashes, deaths, child, skipped,
                 crashed>>

\* The signal reaches the process. Before its own handler is installed it dies
\* of it.
SignalArrives ==
  /\ sup = "stopping"
  /\ \/ /\ child = "up"
        /\ Interrupt
        /\ UNCHANGED child
     \/ /\ child = "boot"
        /\ child' = "dead"
        /\ UNCHANGED botVars
  /\ UNCHANGED <<telegram, commander, supervisor, skipped, crashed>>

\* The process has ended within 15 seconds, or sending the signal or waiting
\* has raised and it is killed as it stands.
StopEnds ==
  /\ sup = "stopping"
  /\ sup' = "exited"
  /\ child' = "dead"
  /\ UNCHANGED <<botVars, telegram, commander, crashes, stopped, deaths, skipped,
                 crashed>>

Init ==
  /\ Fresh
  /\ server = <<>>
  /\ nextId = 1
  /\ offset = NoOffset
  /\ batch = <<>>
  /\ child = "none"
  /\ sup = "spawn"
  /\ crashes = <<>>
  /\ skipped = Unknown
  /\ taken = {}
  /\ crashed = FALSE
  /\ stopped = FALSE
  /\ deaths = <<>>

Commander == PollAnswered \/ PollUnanswered \/ LookAtUpdate
Launch == LaunchFails \/ LaunchSucceeds
Supervise == Fork \/ Assign \/ ChildExits \/ CooldownOver \/ StopEnds

Next ==
  \/ OperatorSends \/ Launch \/ Commander \/ LoopStep
  \/ Supervise \/ SupervisorInterrupted \/ SignalArrives \/ Tick

Spec == Init /\ [][Next]_vars

\* The supervisor, the start of the process and the loop never block for ever;
\* LiveTrading shows of the loop what is assumed of it. The commander retries
\* every call that fails, and the network is assumed not to fail every time.
FairSpec ==
  /\ Spec
  /\ WF_vars(Supervise)
  /\ WF_vars(Launch)
  /\ WF_vars(LoopStep /\ (Take \/ Handle \/ End))
  /\ WF_vars(LookAtUpdate)
  /\ SF_vars(PollAnswered)

-----------------------------------------------------------------------------
(***************************************************************************)
(* Properties.                                                             *)
(***************************************************************************)
\* The variables have the types the code gives them.
RemoteTypeOK ==
  /\ phase \in {"running", "ending", "dead"}
  /\ rc \in {0, 1, 2, 3, RestartExitCode}
  /\ offset \in 0 .. MaxUpdates + 1
  /\ \A u \in Range(server) \cup Range(batch) : u.id \in 1 .. MaxUpdates
  /\ skipped \in Unknown .. MaxUpdates
  /\ child \in {"none", "boot", "up", "dead"}
  /\ sup \in {"spawn", "forked", "waiting", "cooldown", "stopping", "exited"}
  /\ Len(crashes) <= MaxConsecutiveCrashes
  /\ child = "up" => phase # "dead"

\* Each update is looked at once by a process, in the order of the chat, also
\* when answers are lost and asked for again.
EachUpdateOnce ==
  [][batch # <<>> /\ batch' = Tail(batch) =>
       \A id \in taken : id < Head(batch).id]_vars

\* A command from before the launch fires only when the one call that finds
\* out what to skip has failed.
StaleOnlyUnskipped ==
  [][batch # <<>> /\ batch' = Tail(batch) /\ Head(batch).old => skipped = Unknown]_vars

\* A message that reaches the chat while the loop runs is looked at, or that
\* process ends.
MessagesArrive ==
  \A id \in 1 .. MaxUpdates :
    (child = "up" /\ id > skipped /\ \E u \in Range(server) : u.id = id)
      ~> (id \in taken \/ child # "up")

\* The supervisor relaunches while fewer than the budget's launches failed in
\* the window, and gives up only when that many did. So docs/OPERATING.md:126
\* has it; the docstring of scripts/supervisor.py:4-6 says that it exits on the
\* first failure, which it does not.
CrashBudget ==
  /\ sup = "spawn" => Len(deaths) < MaxConsecutiveCrashes
  /\ sup = "exited" /\ ~stopped /\ rc # 0 => Len(deaths) >= MaxConsecutiveCrashes

\* A /restart that is handled leads to a new process, unless SIGINT comes first.
RestartRelaunches ==
  (child = "dead" /\ rc = RestartExitCode) ~> (child = "boot" \/ stopped)

\* "Anything else (crash) -> relaunch" (docs/OPERATING.md:126): the supervisor
\* does not take a crash of the loop for a clean stop.
CrashIsRelaunched == sup = "exited" /\ ~stopped => ~crashed
=============================================================================
