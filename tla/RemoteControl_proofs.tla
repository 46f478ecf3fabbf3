------------------------ MODULE RemoteControl_proofs ------------------------
(***************************************************************************)
(* Theorems about the bot under remote control, for any number of messages *)
(* and launches, any crash budget and window, and whatever Telegram loses. *)
(***************************************************************************)
EXTENDS RemoteControl, DataLemmas

(***************************************************************************)
(* The process: a part of the invariant that rests on no other.            *)
(***************************************************************************)
ProcessInv ==
  /\ phase \in {"running", "ending", "dead"}
  /\ rc \in {0, 1, 2, 3, RestartExitCode}
  /\ child \in {"none", "boot", "up", "dead"}
  /\ child = "boot" => phase = "running"
  /\ child = "up" => phase # "dead"

\* The process starts running, and is gone with the step that ends its loop.
LEMMA ProcessStep == ProcessInv /\ [Next]_vars => ProcessInv'
<1> SUFFICES ASSUME ProcessInv, [Next]_vars PROVE ProcessInv'
  OBVIOUS
<1> USE DEF ProcessInv, botVars, telegram, commander, supervisor
<1>1. CASE OperatorSends \/ PollAnswered \/ PollUnanswered \/ Assign \/ ChildExits
           \/ CooldownOver \/ SupervisorInterrupted \/ Tick \/ UNCHANGED vars
  BY <1>1 DEF OperatorSends, PollAnswered, PollUnanswered, Assign, ChildExits, CooldownOver,
              SupervisorInterrupted, Tick, vars
<1>2. CASE Launch
  BY <1>2 DEF Launch, LaunchFails, LaunchSucceeds
<1>3. CASE LookAtUpdate
  BY <1>3 DEF LookAtUpdate, Queue
<1>4. CASE LoopStep
  <2>1. phase' \in {"running", "ending", "dead"} /\ rc' \in {0, 1, 2, 3, RestartExitCode}
    BY <1>4 DEF LoopStep, BotStep, Take, Handle, Enter, ForceFlatten, Crash, TimeIsUp,
                Interrupt, End
  <2> QED  BY <1>4, <2>1 DEF LoopStep
<1>5. CASE Fork
  BY <1>5 DEF Fork, Start
<1>6. CASE SignalArrives
  BY <1>6 DEF SignalArrives, Interrupt
<1>7. CASE StopEnds
  BY <1>7 DEF StopEnds
<1> QED
  BY <1>1, <1>2, <1>3, <1>4, <1>5, <1>6, <1>7 DEF Next, Commander, Supervise

-----------------------------------------------------------------------------
(***************************************************************************)
(* The chat. What Telegram holds and what the commander has still to look  *)
(* at are in the order of the chat; what it has looked at lies below the   *)
(* offset, and what it has still to look at does not.                      *)
(***************************************************************************)
Update == [id : 1 .. MaxUpdates, text : Messages, old : BOOLEAN]

Increasing(s) == \A i, j \in 1 .. Len(s) : i < j => s[i].id < s[j].id

ChatInv ==
  /\ nextId \in 1 .. MaxUpdates + 1
  /\ server \in Seq(Update)
  /\ batch \in Seq(Update)
  /\ Increasing(server)
  /\ Increasing(batch)
  /\ \A i \in 1 .. Len(server) : server[i].id < nextId

OffsetInv ==
  /\ offset \in 0 .. MaxUpdates + 1
  /\ \A i \in 1 .. Len(batch) : batch[i].id >= offset
  /\ taken \subseteq Nat /\ \A id \in taken : id < offset
  /\ child = "boot" => taken = {} /\ batch = <<>>

\* Once it is known what to skip, what is older lies below the offset.
SkipInv ==
  /\ skipped \in Unknown .. MaxUpdates
  /\ skipped # Unknown => skipped = 0 \/ skipped < offset
  /\ skipped # Unknown =>
       /\ \A i \in 1 .. Len(server) : server[i].old => server[i].id <= skipped
       /\ \A i \in 1 .. Len(batch) : batch[i].old => batch[i].id <= skipped

CommanderInv == ChatInv /\ OffsetInv /\ SkipInv

\* Every update of a list has a number of those given out.
LEMMA UpdatesNumbered ==
  ASSUME NEW s \in Seq(Update)
  PROVE  /\ MaxUpdates \in Nat
         /\ \A i \in 1 .. Len(s) :
              s[i] \in Update /\ s[i].id \in Nat /\ s[i].id >= 1 /\ s[i].id <= MaxUpdates
<1>1. \A u \in Update : u.id \in 1 .. MaxUpdates
  BY DEF Update
<1>2. \A i \in 1 .. Len(s) : s[i] \in Update
  OBVIOUS
<1> QED  BY <1>1, <1>2, RemoteAssumption

\* A poll confirms a part of what Telegram holds, in its order.
LEMMA ConfirmedPart ==
  ASSUME CommanderInv
  PROVE  /\ Confirmed \in Seq(Update)
         /\ Increasing(Confirmed)
         /\ \A i \in 1 .. Len(Confirmed) :
              /\ Confirmed[i].id >= offset
              /\ Confirmed[i].id < nextId
              /\ skipped # Unknown /\ Confirmed[i].old => Confirmed[i].id <= skipped
<1> DEFINE k == Confirmed
           S == {u \in Range(server) : u.id >= offset}
<1>1. server \in Seq(Update)
  BY DEF CommanderInv, ChatInv
<1>2. k \in Seq(Update) /\ Selects(k, server, S)
  BY <1>1, KeepSelects DEF Confirmed
<1>3. \A i \in 1 .. Len(k) : k[i] \in S
  BY <1>2 DEF Selects
<1>4. \A i \in 1 .. Len(k) : \E m \in 1 .. Len(server) : k[i] = server[m]
  BY <1>2 DEF Selects
<1>5. \A i, j \in 1 .. Len(k) : i < j =>
        \E m, n \in 1 .. Len(server) : m < n /\ k[i] = server[m] /\ k[j] = server[n]
  BY <1>2 DEF Selects
<1>6. \A i \in 1 .. Len(k) : k[i].id >= offset
  BY <1>3
<1> HIDE DEF k, S
<1>7. Increasing(k)
  BY <1>5 DEF Increasing, CommanderInv, ChatInv
<1>8. \A i \in 1 .. Len(k) : k[i].id < nextId
  BY <1>4 DEF CommanderInv, ChatInv
<1>9. \A i \in 1 .. Len(k) : skipped # Unknown /\ k[i].old => k[i].id <= skipped
  BY <1>4 DEF CommanderInv, SkipInv
<1> QED
  BY <1>2, <1>6, <1>7, <1>8, <1>9 DEF k

\* What leaves the chat alone leaves its invariant alone.
LEMMA ChatUntouched ==
  CommanderInv /\ UNCHANGED <<telegram, commander, skipped>> /\ (child' = "boot" => child = "boot")
    => CommanderInv'
BY DEF CommanderInv, ChatInv, OffsetInv, SkipInv, Increasing, telegram, commander

LEMMA SendStep == CommanderInv /\ OperatorSends => CommanderInv'
<1> SUFFICES ASSUME CommanderInv, OperatorSends PROVE CommanderInv'
  OBVIOUS
<1> USE DEF CommanderInv
<1>1. PICK text \in Messages :
        server' = Append(server, [id |-> nextId, text |-> text, old |-> FALSE])
  BY DEF OperatorSends
<1> DEFINE u == [id |-> nextId, text |-> text, old |-> FALSE]
<1>2. nextId \in 1 .. MaxUpdates /\ nextId' = nextId + 1 /\ u \in Update /\ server \in Seq(Update)
  BY RemoteAssumption DEF OperatorSends, ChatInv, Update
<1>3. /\ server' \in Seq(Update)
      /\ Len(server') = Len(server) + 1
      /\ server'[Len(server) + 1] = u
      /\ \A i \in 1 .. Len(server) : server'[i] = server[i]
  BY <1>1, <1>2
<1>4. u.id = nextId /\ u.old = FALSE
  OBVIOUS
<1> HIDE DEF u
<1>5. \A i \in 1 .. Len(server') : i \in 1 .. Len(server) \/ i = Len(server) + 1
  BY <1>2, <1>3
<1>6. UNCHANGED <<offset, batch, taken, child, skipped>>
  BY DEF OperatorSends, commander
<1>7. \A i \in 1 .. Len(server') : server'[i].id \in Nat /\ server'[i].id <= nextId
  <2>1. \A i \in 1 .. Len(server) : server[i].id \in Nat /\ server[i].id < nextId
    BY <1>2, UpdatesNumbered DEF ChatInv
  <2> QED  BY <1>2, <1>3, <1>4, <1>5, <2>1
<1>8. ChatInv'
  <2>1. Increasing(server')
    <3> SUFFICES ASSUME NEW i \in 1 .. Len(server'), NEW j \in 1 .. Len(server'), i < j
                 PROVE  server'[i].id < server'[j].id
      BY DEF Increasing
    <3>1. i \in 1 .. Len(server)
      BY <1>2, <1>3
    <3>2. CASE j \in 1 .. Len(server)
      BY <1>3, <3>1, <3>2 DEF ChatInv, Increasing
    <3>3. CASE j = Len(server) + 1
      BY <1>3, <1>4, <3>1, <3>3 DEF ChatInv
    <3> QED  BY <1>5, <3>2, <3>3
  <2>2. \A i \in 1 .. Len(server') : server'[i].id < nextId'
    BY <1>2, <1>7
  <2>3. nextId' \in 1 .. MaxUpdates + 1 /\ server' \in Seq(Update) /\ batch' = batch
    BY <1>2, <1>3, <1>6, RemoteAssumption
  <2>4. batch \in Seq(Update) /\ Increasing(batch)
    BY DEF ChatInv
  <2> QED  BY <2>1, <2>2, <2>3, <2>4 DEF ChatInv
<1>9. OffsetInv' /\ SkipInv'
  BY <1>3, <1>4, <1>5, <1>6 DEF OffsetInv, SkipInv
<1> QED  BY <1>8, <1>9

LEMMA LaunchStep == CommanderInv /\ Launch => CommanderInv'
<1> SUFFICES ASSUME CommanderInv, LaunchSucceeds PROVE CommanderInv'
  BY ChatUntouched DEF Launch, LaunchFails, telegram, commander
<1> USE DEF CommanderInv
<1>0. taken = {} /\ batch = <<>> /\ child' = "up" /\ UNCHANGED <<server, nextId, batch, taken>>
  BY DEF LaunchSucceeds, OffsetInv, telegram
<1>1. ChatInv'
  BY <1>0 DEF ChatInv, Increasing
<1>2. CASE UNCHANGED <<offset, skipped>>
  BY <1>0, <1>1, <1>2 DEF OffsetInv, SkipInv
<1>3. CASE offset' = AfterPending(server) /\ skipped' = IF server = <<>> THEN 0 ELSE Last(server).id
  <2>1. CASE server = <<>>
    <3>1. offset' = 0 /\ skipped' = 0
      BY <1>3, <2>1 DEF AfterPending, NoOffset
    <3> QED  BY <1>0, <1>1, <2>1, <3>1, RemoteAssumption DEF OffsetInv, SkipInv, Unknown
  <2>2. CASE server # <<>>
    <3> DEFINE last == server[Len(server)]
    <3>1. server \in Seq(Update) /\ Len(server) \in 1 .. Len(server) /\ last \in Update
      BY <2>2 DEF ChatInv
    <3>2. offset' = last.id + 1 /\ skipped' = last.id
      BY <1>3, <2>2 DEF AfterPending, Last
    <3>3. last.id \in 1 .. MaxUpdates
      BY <3>1 DEF Update
    <3>4. \A i \in 1 .. Len(server) : server[i].id \in 1 .. MaxUpdates /\ server[i].id <= last.id
      <4>1. \A i \in 1 .. Len(server) : i < Len(server) => server[i].id < last.id
        BY <3>1 DEF ChatInv, Increasing
      <4>2. \A i \in 1 .. Len(server) : i < Len(server) \/ i = Len(server)
        BY <3>1
      <4>3. \A i \in 1 .. Len(server) : server[i].id \in 1 .. MaxUpdates
        BY <3>1, UpdatesNumbered
      <4> QED  BY <4>1, <4>2, <4>3
    <3> HIDE DEF last
    <3>5. OffsetInv'
      BY <1>0, <3>2, <3>3, RemoteAssumption DEF OffsetInv
    <3>6. SkipInv'
      BY <1>0, <3>2, <3>3, <3>4, RemoteAssumption DEF SkipInv, Unknown
    <3> QED  BY <1>1, <3>5, <3>6
  <2> QED  BY <2>1, <2>2
<1> QED  BY <1>2, <1>3 DEF LaunchSucceeds

LEMMA PollStep == CommanderInv /\ (PollAnswered \/ PollUnanswered) => CommanderInv'
<1> SUFFICES ASSUME CommanderInv, PollAnswered \/ PollUnanswered PROVE CommanderInv'
  OBVIOUS
<1> USE DEF CommanderInv
<1>1. /\ server' = Confirmed
      /\ batch' = Confirmed \/ batch' = batch
      /\ UNCHANGED <<nextId, offset, taken, child, skipped>>
      /\ child = "up"
  BY DEF PollAnswered, PollUnanswered, Listening, commander
<1> DEFINE k == Confirmed
<1>2. /\ k \in Seq(Update)
      /\ Increasing(k)
      /\ \A i \in 1 .. Len(k) :
           /\ k[i].id >= offset
           /\ k[i].id < nextId
           /\ skipped # Unknown /\ k[i].old => k[i].id <= skipped
  BY ConfirmedPart
<1>3. server' = k /\ (batch' = k \/ batch' = batch)
  BY <1>1
<1> HIDE DEF k
<1>4. ChatInv'
  BY <1>1, <1>2, <1>3 DEF ChatInv, Increasing
<1>5. OffsetInv' /\ SkipInv'
  BY <1>1, <1>2, <1>3 DEF OffsetInv, SkipInv
<1> QED  BY <1>4, <1>5

LEMMA LookStep == CommanderInv /\ LookAtUpdate => CommanderInv'
<1> SUFFICES ASSUME CommanderInv, LookAtUpdate PROVE CommanderInv'
  OBVIOUS
<1> USE DEF CommanderInv
<1>1. /\ batch # <<>> /\ batch \in Seq(Update)
      /\ offset' = batch[1].id + 1
      /\ batch' = Tail(batch)
      /\ taken' = taken \cup {batch[1].id}
      /\ UNCHANGED <<server, nextId, skipped, child>>
      /\ child = "up"
  BY DEF LookAtUpdate, OffsetAfter, telegram, ChatInv
<1>2. /\ batch' \in Seq(Update) /\ Len(batch') = Len(batch) - 1
      /\ Len(batch) \in Nat \ {0}
      /\ \A i \in 1 .. Len(batch') : batch'[i] = batch[i + 1] /\ i + 1 \in 1 .. Len(batch)
  BY <1>1
<1>3. batch[1] \in Update /\ batch[1].id \in 1 .. MaxUpdates /\ batch[1].id >= offset
  BY <1>1, <1>2, UpdatesNumbered DEF OffsetInv
<1>4. \A i \in 1 .. Len(batch') : batch'[i].id \in Nat /\ batch'[i].id > batch[1].id
  <2>1. \A i \in 1 .. Len(batch') : batch[1].id < batch[i + 1].id
    BY <1>2 DEF ChatInv, Increasing
  <2>2. \A i \in 1 .. Len(batch') : batch[i + 1].id \in Nat
    BY <1>1, <1>2, UpdatesNumbered
  <2> QED  BY <1>2, <1>3, <2>1, <2>2
<1>5. ChatInv'
  BY <1>1, <1>2 DEF ChatInv, Increasing
<1>6. OffsetInv'
  <2>1. \A id \in taken' : id < offset'
    <3>1. offset \in Nat /\ \A id \in taken : id \in Nat /\ id < offset
      BY <1>3, RemoteAssumption DEF OffsetInv
    <3> QED  BY <1>1, <1>3, <3>1
  <2>2. offset' \in 0 .. MaxUpdates + 1 /\ taken' \subseteq Nat
    <3>1. taken \subseteq Nat
      BY DEF OffsetInv
    <3>2. batch[1].id \in Nat
      BY <1>3
    <3>3. taken' \subseteq Nat
      BY <1>1, <3>1, <3>2
    <3> QED  BY <1>1, <1>3, <3>3, RemoteAssumption
  <2>3. \A i \in 1 .. Len(batch') : batch'[i].id >= offset'
    BY <1>1, <1>3, <1>4
  <2> QED  BY <1>1, <2>1, <2>2, <2>3 DEF OffsetInv
<1>7. SkipInv'
  BY <1>1, <1>2, <1>3, RemoteAssumption DEF SkipInv, OffsetInv, Unknown
<1> QED  BY <1>5, <1>6, <1>7

LEMMA ForkStep == CommanderInv /\ Fork => CommanderInv'
<1> SUFFICES ASSUME CommanderInv, Fork PROVE CommanderInv'
  OBVIOUS
<1> USE DEF CommanderInv
<1>1. /\ server' = [i \in 1 .. Len(server) |-> [server[i] EXCEPT !.old = TRUE]]
      /\ offset' = 0 /\ batch' = <<>> /\ taken' = {} /\ skipped' = Unknown
      /\ nextId' = nextId /\ server \in Seq(Update)
  BY DEF Fork, NoOffset, ChatInv
<1>2. \A u \in Update : [u EXCEPT !.old = TRUE] \in Update /\ [u EXCEPT !.old = TRUE].id = u.id
  BY DEF Update
<1>3. /\ server' \in Seq(Update) /\ Len(server') = Len(server)
      /\ \A i \in 1 .. Len(server) : server'[i].id = server[i].id
  <2>1. \A i \in 1 .. Len(server) : server[i] \in Update
    BY <1>1
  <2> DEFINE aged == [i \in 1 .. Len(server) |-> [server[i] EXCEPT !.old = TRUE]]
  <2>2. \A i \in 1 .. Len(server) : aged[i] \in Update /\ aged[i].id = server[i].id
    BY <1>2, <2>1
  <2>3. DOMAIN aged = 1 .. Len(server) /\ aged = [i \in 1 .. Len(server) |-> aged[i]]
        /\ Len(server) \in Nat
    BY <1>1
  <2>4. server' = aged
    BY <1>1
  <2> HIDE DEF aged
  <2> QED  BY <2>2, <2>3, <2>4
<1>4. ChatInv'
  BY <1>1, <1>3 DEF ChatInv, Increasing
<1>5. OffsetInv' /\ SkipInv'
  BY <1>1, RemoteAssumption DEF OffsetInv, SkipInv, Unknown
<1> QED  BY <1>4, <1>5

LEMMA CommanderStep == CommanderInv /\ [Next]_vars => CommanderInv'
<1> SUFFICES ASSUME CommanderInv, [Next]_vars PROVE CommanderInv'
  OBVIOUS
<1>1. CASE LoopStep \/ Assign \/ ChildExits \/ CooldownOver \/ StopEnds
           \/ SupervisorInterrupted \/ SignalArrives \/ Tick \/ UNCHANGED vars
  <2>1. UNCHANGED <<telegram, commander, skipped>> /\ (child' = "boot" => child = "boot")
    BY <1>1 DEF LoopStep, Assign, ChildExits, CooldownOver, StopEnds, SupervisorInterrupted,
                SignalArrives, Tick, vars, supervisor
  <2> QED  BY <2>1, ChatUntouched
<1> QED
  BY <1>1, SendStep, LaunchStep, PollStep, LookStep, ForkStep DEF Next, Commander, Supervise

-----------------------------------------------------------------------------
(***************************************************************************)
(* The crash budget. The deaths in the window are those of the crash list  *)
(* that are; the list is below the budget as long as the supervisor runs.  *)
(***************************************************************************)
Window == 0 .. CrashWindow

BudgetInv ==
  /\ sup \in {"spawn", "forked", "waiting", "cooldown", "stopping", "exited"}
  /\ crashes \in Seq(Nat)
  /\ deaths = Keep(crashes, Window)
  /\ Len(crashes) <= MaxConsecutiveCrashes
  /\ sup # "exited" => Len(crashes) < MaxConsecutiveCrashes
  /\ sup = "stopping" => stopped
  /\ sup = "exited" /\ ~stopped => child = "dead"
  /\ sup = "exited" /\ ~stopped /\ rc # 0 => Len(deaths) >= MaxConsecutiveCrashes

\* What the window keeps is no longer than the list.
LEMMA KeptIsShorter ==
  ASSUME NEW s \in Seq(Nat)
  PROVE  /\ Keep(s, Window) \in Seq(Nat)
         /\ Len(Keep(s, Window)) <= Len(s)
         /\ \A i \in 1 .. Len(Keep(s, Window)) : Keep(s, Window)[i] \in Window
<1>1. Keep(s, Window) \in Seq(Nat) /\ Selects(Keep(s, Window), s, Window)
  BY KeepSelects
<1> QED  BY <1>1 DEF Selects

\* A crash more: what was in the window stays, and the crash is in it.
LEMMA CrashCounts ==
  ASSUME NEW s \in Seq(Nat)
  PROVE  /\ Keep(Append(s, 0), Window) = Append(Keep(s, Window), 0)
         /\ Keep(Keep(Append(s, 0), Window), Window) = Keep(Append(s, 0), Window)
<1>1. 0 \in Window
  BY RemoteAssumption DEF Window
<1>2. Keep(Append(s, 0), Window) = Append(Keep(s, Window), 0)
  BY <1>1, KeepAppend
<1> DEFINE k == Keep(Append(s, 0), Window)
<1>3. Append(s, 0) \in Seq(Nat)
  OBVIOUS
<1>4. k \in Seq(Nat) /\ \A i \in 1 .. Len(k) : k[i] \in Window
  BY <1>3, KeptIsShorter
<1> HIDE DEF k
<1>5. Keep(k, Window) = k
  BY <1>4, KeepAll
<1> QED  BY <1>2, <1>5 DEF k

\* A tick: what leaves the window leaves it in the list as in the window.
LEMMA AgesTogether ==
  ASSUME NEW s \in Seq(Nat)
  PROVE  LET older == [i \in 1 .. Len(s) |-> IF s[i] <= CrashWindow THEN s[i] + 1 ELSE s[i]]
             kept  == Keep(s, Window)
         IN  /\ older \in Seq(Nat) /\ Len(older) = Len(s)
             /\ Keep(older, Window) = Keep([i \in 1 .. Len(kept) |-> kept[i] + 1], Window)
<1> DEFINE f == [a \in Nat |-> IF a <= CrashWindow THEN a + 1 ELSE a]
           g == [a \in Nat |-> a + 1]
           older == [i \in 1 .. Len(s) |-> IF s[i] <= CrashWindow THEN s[i] + 1 ELSE s[i]]
           kept == Keep(s, Window)
<1>1. f \in [Nat -> Nat] /\ g \in [Nat -> Nat]
  OBVIOUS
<1>2. (\A a \in Nat : f[a] \in Window => a \in Window) /\ \A a \in Nat : a \in Window => g[a] = f[a]
  BY RemoteAssumption DEF Window
<1>3. kept \in Seq(Nat)
  BY KeptIsShorter
<1>4. older = Mapped(s, f)
  BY DEF Mapped
<1>5. [i \in 1 .. Len(kept) |-> kept[i] + 1] = Mapped(kept, g)
  <2> HIDE DEF kept
  <2>1. \A i \in 1 .. Len(kept) : kept[i] \in Nat
    BY <1>3
  <2>2. \A i \in 1 .. Len(kept) : g[kept[i]] = kept[i] + 1
    BY <2>1
  <2> HIDE DEF g
  <2> QED  BY <2>2 DEF Mapped
<1>6. older \in Seq(Nat) /\ Len(older) = Len(s)
  OBVIOUS
<1> HIDE DEF f, g, older
<1>7. \A z \in Seq(Nat) : Keep(Mapped(z, f), Window) = Keep(Mapped(Keep(z, Window), g), Window)
  <2>1. \A a \in Nat : f[a] \in Window => a \in Window  BY <1>2
  <2>2. \A a \in Nat : a \in Window => g[a] = f[a]  BY <1>2
  <2> QED  BY <2>1, <2>2, KeepMapped
<1> QED  BY <1>4, <1>5, <1>6, <1>7 DEF older

LEMMA BudgetStep == BudgetInv /\ ProcessInv /\ [Next]_vars => BudgetInv'
<1> SUFFICES ASSUME BudgetInv, ProcessInv, [Next]_vars PROVE BudgetInv'
  OBVIOUS
<1> USE DEF BudgetInv
<1>0. sup = "exited" /\ ~stopped => child = "dead"
  OBVIOUS
<1>1. CASE OperatorSends \/ Launch \/ Commander \/ LoopStep
  BY <1>1 DEF OperatorSends, Launch, LaunchFails, LaunchSucceeds, Commander, PollAnswered,
              PollUnanswered, LookAtUpdate, Listening, Queue, LoopStep, supervisor, botVars
<1>2. CASE Fork \/ Assign \/ CooldownOver \/ UNCHANGED vars
  BY <1>2 DEF Fork, Assign, CooldownOver, vars, supervisor, botVars
<1>3. CASE ChildExits
  <2>1. sup = "waiting" /\ child = "dead" /\ child' = "dead" /\ rc' = rc /\ stopped' = stopped
    BY <1>3 DEF ChildExits, botVars
  <2>2. CASE IsCleanStop(rc) \/ rc = RestartExitCode
    BY <1>3, <2>1, <2>2 DEF ChildExits, IsCleanStop
  <2>3. CASE ~IsCleanStop(rc) /\ rc # RestartExitCode
    <3>1. /\ crashes' = Keep(Append(crashes, 0), Window) /\ deaths' = Append(deaths, 0)
          /\ sup' = IF Len(crashes') >= MaxConsecutiveCrashes THEN "exited" ELSE "cooldown"
      BY <1>3, <2>3 DEF ChildExits, InWindow, Window
    <3>2. deaths' = crashes' /\ deaths' = Keep(crashes', Window)
      BY <3>1, CrashCounts
    <3>3. crashes' \in Seq(Nat) /\ Len(crashes') <= Len(crashes) + 1
      <4>1. Append(crashes, 0) \in Seq(Nat) /\ Len(Append(crashes, 0)) = Len(crashes) + 1
        OBVIOUS
      <4> QED  BY <3>1, <4>1, KeptIsShorter
    <3> QED  BY <2>1, <3>1, <3>2, <3>3, RemoteAssumption
  <2> QED  BY <2>2, <2>3
<1>4. CASE SupervisorInterrupted
  BY <1>4 DEF SupervisorInterrupted, botVars
<1>5. CASE SignalArrives
  BY <1>5 DEF SignalArrives, supervisor
<1>6. CASE StopEnds
  BY <1>6 DEF StopEnds, botVars
<1>7. CASE Tick
  <2>1. sup # "exited" /\ UNCHANGED <<sup, stopped, child, rc>>
    BY <1>7 DEF Tick, botVars
  <2>2. /\ crashes' = [i \in 1 .. Len(crashes) |->
                        IF crashes[i] <= CrashWindow THEN crashes[i] + 1 ELSE crashes[i]]
        /\ deaths' = Keep([i \in 1 .. Len(deaths) |-> deaths[i] + 1], Window)
    BY <1>7 DEF Tick, Window
  <2>3. crashes' \in Seq(Nat) /\ Len(crashes') = Len(crashes) /\ deaths' = Keep(crashes', Window)
    BY <2>2, AgesTogether
  <2> QED  BY <2>1, <2>3
<1> QED
  BY <1>1, <1>2, <1>3, <1>4, <1>5, <1>6, <1>7 DEF Next, Supervise

-----------------------------------------------------------------------------
RemoteInv == ProcessInv /\ CommanderInv /\ BudgetInv

LEMMA RemoteInit == Init => RemoteInv
<1> SUFFICES ASSUME Init PROVE RemoteInv
  OBVIOUS
<1>1. ProcessInv
  BY DEF Init, Fresh, ProcessInv
<1>2. CommanderInv
  BY RemoteAssumption
  DEF Init, CommanderInv, ChatInv, OffsetInv, SkipInv, Increasing, NoOffset, Unknown
<1>3. BudgetInv
  BY RemoteAssumption, KeepNone DEF Init, Fresh, BudgetInv
<1> QED  BY <1>1, <1>2, <1>3 DEF RemoteInv

LEMMA RemoteStep == RemoteInv /\ [Next]_vars => RemoteInv'
BY ProcessStep, CommanderStep, BudgetStep DEF RemoteInv

\* The invariant holds in every reachable state: process, chat and budget.
THEOREM RemoteInvariant == Spec => []RemoteInv
BY RemoteInit, RemoteStep, PTL DEF Spec

\* The variables have the types the code gives them, over any number of
\* launches.
THEOREM RemoteTypesHold == Spec => []RemoteTypeOK
<1>1. RemoteInv => RemoteTypeOK
  <2> SUFFICES ASSUME RemoteInv PROVE RemoteTypeOK
    OBVIOUS
  <2>1. \A u \in Range(server) \cup Range(batch) : u.id \in 1 .. MaxUpdates
    <3>1. server \in Seq(Update) /\ batch \in Seq(Update)
      BY DEF RemoteInv, CommanderInv, ChatInv
    <3>2. Range(server) \subseteq Update /\ Range(batch) \subseteq Update
      BY <3>1 DEF Range
    <3> QED  BY <3>2 DEF Update
  <2> QED
    BY <2>1 DEF RemoteInv, ProcessInv, CommanderInv, OffsetInv, SkipInv, BudgetInv, RemoteTypeOK
<1> QED  BY <1>1, RemoteInvariant, PTL

\* The supervisor relaunches exactly while fewer launches than the budget have
\* failed in the window: its list, filtered only when a launch fails, never
\* tells anything else than the deaths of the window.
THEOREM BudgetIsExact == Spec => []CrashBudget
<1>1. RemoteInv => CrashBudget
  <2> SUFFICES ASSUME RemoteInv PROVE CrashBudget
    OBVIOUS
  <2>1. Len(deaths) <= Len(crashes) /\ Len(deaths) \in Nat /\ Len(crashes) \in Nat
    BY KeptIsShorter DEF RemoteInv, BudgetInv
  <2> QED  BY <2>1, RemoteAssumption DEF RemoteInv, BudgetInv, CrashBudget
<1> QED  BY <1>1, RemoteInvariant, PTL

\* No update is looked at twice by a process, nor after a later one, also when
\* answers are lost and asked for again.
THEOREM UpdatesLookedAtOnce == Spec => EachUpdateOnce
<1>1. RemoteInv => (batch # <<>> => \A id \in taken : id < Head(batch).id)
  <2> SUFFICES ASSUME RemoteInv, batch # <<>>, NEW id \in taken PROVE id < Head(batch).id
    OBVIOUS
  <2>1. batch \in Seq(Update) /\ 1 \in 1 .. Len(batch) /\ Head(batch) = batch[1]
    BY DEF RemoteInv, CommanderInv, ChatInv
  <2>2. id \in Nat /\ offset \in Nat /\ id < offset /\ batch[1].id >= offset
    BY <2>1, RemoteAssumption DEF RemoteInv, CommanderInv, OffsetInv
  <2>3. batch[1].id \in Nat
    BY <2>1, UpdatesNumbered
  <2> QED  BY <2>1, <2>2, <2>3
<1>2. RemoteInv /\ [Next]_vars =>
        [batch # <<>> /\ batch' = Tail(batch) => \A id \in taken : id < Head(batch).id]_vars
  BY <1>1
<1> QED  BY <1>2, RemoteInvariant, PTL DEF Spec, EachUpdateOnce

\* Once a process has found out what to skip, no command from before its
\* launch is looked at.
THEOREM OldCommandsSkipped == Spec => StaleOnlyUnskipped
<1>1. RemoteInv => (batch # <<>> /\ Head(batch).old => skipped = Unknown)
  <2> SUFFICES ASSUME RemoteInv, batch # <<>>, Head(batch).old, skipped # Unknown PROVE FALSE
    OBVIOUS
  <2>1. batch \in Seq(Update) /\ 1 \in 1 .. Len(batch) /\ Head(batch) = batch[1] /\ batch[1] \in Update
    BY DEF RemoteInv, CommanderInv, ChatInv
  <2>2. batch[1].id \in 1 .. MaxUpdates /\ batch[1].id >= offset /\ batch[1].id <= skipped
    BY <2>1, UpdatesNumbered DEF RemoteInv, CommanderInv, OffsetInv, SkipInv
  <2> QED  BY <2>2, RemoteAssumption DEF RemoteInv, CommanderInv, OffsetInv, SkipInv, Unknown
<1>2. RemoteInv /\ [Next]_vars =>
        [batch # <<>> /\ batch' = Tail(batch) /\ Head(batch).old => skipped = Unknown]_vars
  BY <1>1
<1> QED  BY <1>2, RemoteInvariant, PTL DEF Spec, StaleOnlyUnskipped
=============================================================================
