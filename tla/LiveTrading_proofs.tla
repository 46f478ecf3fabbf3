------------------------ MODULE LiveTrading_proofs ------------------------
(***************************************************************************)
(* Theorems about the live loop, for every feed, every signal, every       *)
(* window and every behaviour of the bridge and the operator.              *)
(***************************************************************************)
EXTENDS LiveTrading, DataLemmas

(***************************************************************************)
(* The inductive invariant. Each part says what holds of one actor's state *)
(* while the loop stands at a given place.                                 *)
(***************************************************************************)
\* A place of the loop, and of the flatten it may be waiting for.
PlaceOK ==
  /\ pc \in {"top", "commands", "feed", "bars", "decide", "signals", "posted",
             "flattening", "ending", "dead"}
  /\ after \in {"top", "commands", "ending"}

\* The kill switch trips only on the way out.
KilledOnTheWayOut == killed => Phase # "running"

\* The bars are handled with no command left over.
NoCommandLeft ==
  /\ pc \in {"top", "feed", "bars", "decide", "signals", "posted"} => cmds = <<>>
  /\ pc = "flattening" /\ after = "top" => cmds = <<>>

\* What the gate was decided on has not changed.
GateIsFresh == pc \in {"signals", "posted"} /\ gate => GateOpen

\* A loop that was left by a crash, SIGINT or /restart has flattened last.
LeftFlat ==
  cause \in {"crash", "sigint", "restart"} => Phase # "running" /\ lastRequest = "flatten"

\* The bridge says "ok" only of an order it has executed.
AnswerBacked == reply = "ok" => executed

LiveInv ==
  /\ PlaceOK
  /\ KilledOnTheWayOut
  /\ NoCommandLeft
  /\ GateIsFresh
  /\ LeftFlat
  /\ AnswerBacked
  /\ ExecutedRowsBacked

LEMMA LiveInit == Init => LiveInv
BY DEF Init, LiveInv, PlaceOK, KilledOnTheWayOut, NoCommandLeft, GateIsFresh, LeftFlat,
   AnswerBacked, ExecutedRowsBacked, Phase

\* Every step keeps the invariant: the commands, the feed.
LEMMA CommandSteps ==
  LiveInv /\ (MaxRuntimeReached \/ PollCommands \/ HandleCommand \/ CommandsHandled) => LiveInv'
<1> USE DEF LiveInv, PlaceOK, KilledOnTheWayOut, NoCommandLeft, GateIsFresh, LeftFlat,
            AnswerBacked, ExecutedRowsBacked, Phase, loop, mind, world, bars, runner,
            todo, bridge, channel, shadow
<1>1. LiveInv /\ MaxRuntimeReached => LiveInv'
  BY DEF MaxRuntimeReached
<1>2. LiveInv /\ PollCommands => LiveInv'
  BY DEF PollCommands
<1>3. LiveInv /\ HandleCommand => LiveInv'
  BY DEF HandleCommand, StartFlatten
<1>4. LiveInv /\ CommandsHandled => LiveInv'
  BY DEF CommandsHandled
<1>5. QED  BY <1>1, <1>2, <1>3, <1>4

LEMMA FeedSteps == LiveInv /\ (NoSnapshot \/ Snapshot) => LiveInv'
<1> USE DEF LiveInv, PlaceOK, KilledOnTheWayOut, NoCommandLeft, GateIsFresh, LeftFlat,
            AnswerBacked, ExecutedRowsBacked, Phase, loop, mind, world, bars, runner,
            todo, bridge, channel, shadow
<1>1. LiveInv /\ NoSnapshot => LiveInv'
  BY DEF NoSnapshot
<1>2. LiveInv /\ Snapshot => LiveInv'
  BY DEF Snapshot, Crash, StartFlatten
<1>3. QED  BY <1>1, <1>2

\* Every step keeps the invariant: a bar and its signals.
LEMMA BarSteps ==
  LiveInv /\ (BeginBar \/ ForceFlatBar \/ Detect \/ HandleSignal \/ OrderReturns \/ SignalsHandled)
    => LiveInv'
<1> USE DEF LiveInv, PlaceOK, KilledOnTheWayOut, NoCommandLeft, GateIsFresh, LeftFlat,
            AnswerBacked, ExecutedRowsBacked, Phase, loop, mind, world, bars, runner,
            todo, bridge, channel, shadow
<1>1. LiveInv /\ BeginBar => LiveInv'
  BY DEF BeginBar
<1>2. LiveInv /\ ForceFlatBar => LiveInv'
  BY DEF ForceFlatBar, StartFlatten
<1>3. LiveInv /\ Detect => LiveInv'
  BY DEF Detect, GateOpen, LastTs
<1>4. LiveInv /\ HandleSignal => LiveInv'
  BY DEF HandleSignal, Record, Crash, StartFlatten, Post, MarkSeen, GateOpen, LastTs
<1>5. LiveInv /\ OrderReturns => LiveInv'
  <2>1. CASE reply = "garbled"
    BY <2>1 DEF OrderReturns, Crash, StartFlatten
  <2>2. CASE reply # "garbled"
    <3> SUFFICES ASSUME LiveInv, OrderReturns PROVE LiveInv'
      OBVIOUS
    <3>1. /\ pc = "posted" /\ pc' = "signals"
          /\ UNCHANGED <<after, cause, killed, executed, lastRequest, rows, lim, paused,
                         cmds, gate>>
          /\ reply' = "none"
          /\ row' = IF reply = "ok" THEN "executed" ELSE "rejected"
      BY <2>2 DEF OrderReturns, Record, Accepted
    <3>2. GateOpen' = GateOpen
      BY <3>1 DEF GateOpen, LastTs
    <3>3. QED  BY <3>1, <3>2
  <2>3. QED  BY <2>1, <2>2
<1>6. LiveInv /\ SignalsHandled => LiveInv'
  BY DEF SignalsHandled
<1>7. QED  BY <1>1, <1>2, <1>3, <1>4, <1>5, <1>6

\* Every step keeps the invariant: what comes from outside.
LEMMA OutsideSteps ==
  LiveInv /\ (FlattenReturns \/ Cleanup \/ Environment) => LiveInv'
<1> USE DEF LiveInv, PlaceOK, KilledOnTheWayOut, NoCommandLeft, GateIsFresh, LeftFlat,
            AnswerBacked, ExecutedRowsBacked, Phase, loop, mind, world, bars, runner,
            todo, bridge, channel, shadow
<1>1. LiveInv /\ FlattenReturns => LiveInv'
  BY DEF FlattenReturns, GateOpen, LastTs
<1>2. LiveInv /\ Cleanup => LiveInv'
  BY DEF Cleanup
<1>3. LiveInv /\ Sigint => LiveInv'
  BY DEF Sigint, StartFlatten
<1>4. LiveInv /\ Command => LiveInv'
  BY DEF Command, GateOpen, LastTs
<1>5. LiveInv /\ BridgeOrder => LiveInv'
  BY DEF BridgeOrder, GateOpen, LastTs
<1>6. LiveInv /\ BridgeLateOrder => LiveInv'
  BY DEF BridgeLateOrder, GateOpen, LastTs
<1>7. LiveInv /\ PositionCloses => LiveInv'
  BY DEF PositionCloses, GateOpen, LastTs
<1>8. QED  BY <1>1, <1>2, <1>3, <1>4, <1>5, <1>6, <1>7 DEF Environment

LEMMA LiveStep == LiveInv /\ [Next]_vars => LiveInv'
<1>1. LiveInv /\ UNCHANGED vars => LiveInv'
  BY DEF LiveInv, PlaceOK, KilledOnTheWayOut, NoCommandLeft, GateIsFresh, LeftFlat,
         AnswerBacked, ExecutedRowsBacked, Phase, GateOpen, LastTs, vars, loop, mind, world,
         bars, runner, todo, bridge, channel, shadow
<1>2. QED
  BY <1>1, CommandSteps, FeedSteps, BarSteps, OutsideSteps DEF Next, Loop

\* The invariant holds in every reachable state.
THEOREM LiveInvariant == Spec => []LiveInv
BY LiveInit, LiveStep, PTL DEF Spec

\* A row of the shadow log that says "executed" is backed by an order the
\* bridge has executed, whatever is lost, late or unreadable.
THEOREM RowsBacked == Spec => []ExecutedRowsBacked
<1>1. LiveInv => ExecutedRowsBacked
  BY DEF LiveInv
<1>2. QED  BY <1>1, LiveInvariant, PTL

\* After a crash, SIGINT or /restart the flatten is the last thing the bot has
\* asked of the bridge.
THEOREM FlattensLast == Spec => []FlattenIsLast
<1>1. LiveInv => FlattenIsLast
  BY DEF LiveInv, LeftFlat, FlattenIsLast
<1>2. QED  BY <1>1, LiveInvariant, PTL

\* In each mode the shadow log evaluates, its label says of every minute what
\* the entry gate of that mode would have said.
THEOREM LabelsAreGates ==
  ASSUME NEW t \in Minutes, NEW mode \in ShadowModes
  PROVE  SessionTag(t) \in mode <=> EntriesAllowedIn(mode, t)
<1> USE DEF SessionTag, EntriesAllowedIn, NewsBlock, Lunch, ForceFlat, InWindow, Before, Within,
            At, Minutes
<1>1. CASE mode = SilverBulletMode
  BY <1>1 DEF SilverBulletMode
<1>2. CASE mode = NewYorkMode
  BY <1>2 DEF NewYorkMode, SilverBulletMode
<1>3. CASE mode = WindowNames
  BY <1>3 DEF WindowNames
<1> QED
  BY <1>1, <1>2, <1>3 DEF ShadowModes

\* Where the gate lets entries in, the label names a window that is allowed.
LEMMA EntriesAreLabelled ==
  ASSUME NEW t, NewEntriesAllowed(t), AllowedWindows \in {WindowNames, SilverBulletMode}
  PROVE  SessionTag(t) \in AllowedWindows
<1>1. ~NewsBlock(t) /\ ~Lunch(t) /\ \E name \in AllowedWindows : InWindow(name, t)
  BY DEF NewEntriesAllowed, EntriesAllowedIn
<1>2. ~ForceFlat(t)
  BY <1>1 DEF ForceFlat, InWindow, Before, Within, At
<1>3. PICK name \in AllowedWindows : InWindow(name, t)
  BY <1>1
<1>4. name \in WindowNames
  BY <1>3 DEF WindowNames, SilverBulletMode
<1>5. CASE AllowedWindows = WindowNames
  BY <1>1, <1>2, <1>3, <1>4, <1>5 DEF SessionTag, WindowNames
<1>6. CASE AllowedWindows = SilverBulletMode
  BY <1>1, <1>2, <1>3, <1>6 DEF SessionTag, SilverBulletMode
<1> QED
  BY <1>5, <1>6

\* No order is sent while anything blocks entries, whatever arrives between
\* the gate and the order.
THEOREM EntriesUnblocked == Spec => NoEntryWhileBlocked
<1> DEFINE Unblocked ==
      pc # "posted" /\ pc' = "posted" =>
        /\ ~paused /\ ~killed
        /\ NewEntriesAllowed(MinuteOf(LastTs))
        /\ AllowedWindows \in {WindowNames, SilverBulletMode} =>
             SessionTag(MinuteOf(LastTs)) \in AllowedWindows
        /\ MidnightFilterPasses(Head(sigs).side, Head(sigs).entry, midOpen)
<1>1. LiveInv /\ [Next]_vars => [Unblocked]_vars
  <2> SUFFICES ASSUME LiveInv, Next, pc # "posted", pc' = "posted"
               PROVE  Unblocked
    OBVIOUS
  <2>1. HandleSignal
    BY DEF LiveInv, PlaceOK, Next, Loop, Environment, MaxRuntimeReached, PollCommands,
           HandleCommand, CommandsHandled, NoSnapshot, Snapshot, BeginBar, ForceFlatBar,
           Detect, OrderReturns, SignalsHandled, FlattenReturns, Cleanup, Sigint, Command,
           BridgeOrder, BridgeLateOrder, PositionCloses, StartFlatten, Crash, Record,
           loop, mind, world, bars, runner,
            todo, bridge, channel, shadow
  <2>2. pc = "signals" /\ ~Blocked(Head(sigs))
    BY <2>1 DEF HandleSignal, Record, Crash, StartFlatten
  <2>3. GateOpen /\ MidnightFilterPasses(Head(sigs).side, Head(sigs).entry, midOpen)
    BY <2>2 DEF Blocked, LiveInv, GateIsFresh
  <2>4. NewEntriesAllowed(MinuteOf(LastTs))
    BY <2>3 DEF GateOpen
  <2>5. AllowedWindows \in {WindowNames, SilverBulletMode} =>
          SessionTag(MinuteOf(LastTs)) \in AllowedWindows
    BY <2>4, EntriesAreLabelled
  <2>6. QED  BY <2>3, <2>5 DEF GateOpen
<1>2. QED  BY <1>1, LiveInvariant, PTL DEF Spec, NoEntryWhileBlocked

(***************************************************************************)
(* The loop implements BotProcess.                                         *)
(***************************************************************************)
LEMMA BotStart == Init => Bot!Fresh
BY DEF Init, Bot!Fresh, Phase

\* The steps that are a step of the process.
LEMMA VisibleSteps ==
  LiveInv /\ (MaxRuntimeReached \/ PollCommands \/ HandleCommand \/ ForceFlatBar \/ Cleanup
              \/ Sigint \/ Command) => [Bot!BotNext]_(Bot!botVars)
<1> USE DEF Bot!BotNext, Bot!BotStep, Bot!botVars, Phase, loop, mind, world, bars, runner,
            todo, bridge, channel, shadow
<1>1. MaxRuntimeReached => Bot!TimeIsUp
  BY DEF MaxRuntimeReached, Bot!TimeIsUp
<1>2. LiveInv /\ PollCommands => Bot!Take \/ UNCHANGED Bot!botVars
  BY DEF PollCommands, Bot!Take, LiveInv, NoCommandLeft
<1>3. HandleCommand => Bot!Handle
  BY DEF HandleCommand, StartFlatten, Bot!Handle, Bot!RestartExitCode
<1>4. LiveInv /\ ForceFlatBar => Bot!ForceFlatten
  BY DEF ForceFlatBar, StartFlatten, Bot!ForceFlatten, LiveInv, NoCommandLeft
<1>5. Cleanup => Bot!End
  BY DEF Cleanup, Bot!End
<1>6. Sigint => Bot!Interrupt
  BY DEF Sigint, StartFlatten, Bot!Interrupt
<1>7. Command => \E cmd \in Bot!Commands : Bot!Queue(cmd)
  BY DEF Command, Bot!Queue
<1>8. QED  BY <1>1, <1>2, <1>3, <1>4, <1>5, <1>6, <1>7

\* The steps that are its crash, its order, or none of its own.
LEMMA InnerSteps ==
  LiveInv /\ (CommandsHandled \/ NoSnapshot \/ Snapshot \/ BeginBar \/ Detect \/ HandleSignal
              \/ OrderReturns \/ SignalsHandled \/ FlattenReturns \/ BridgeOrder
              \/ BridgeLateOrder \/ PositionCloses)
    => Bot!Crash \/ Bot!Enter \/ UNCHANGED Bot!botVars
<1> USE DEF Bot!botVars, Phase, loop, mind, world, bars, runner,
            todo, bridge, channel, shadow
<1>1. CommandsHandled \/ NoSnapshot \/ BeginBar \/ Detect \/ SignalsHandled
        => UNCHANGED Bot!botVars
  BY DEF CommandsHandled, NoSnapshot, BeginBar, Detect, SignalsHandled
<1>2. LiveInv /\ FlattenReturns => UNCHANGED Bot!botVars
  BY DEF FlattenReturns, LiveInv, PlaceOK
<1>3. BridgeOrder \/ BridgeLateOrder \/ PositionCloses => UNCHANGED Bot!botVars
  BY DEF BridgeOrder, BridgeLateOrder, PositionCloses
<1>4. Snapshot => Bot!Crash \/ UNCHANGED Bot!botVars
  BY DEF Snapshot, Crash, StartFlatten, Bot!Crash
<1>5. LiveInv /\ HandleSignal => Bot!Crash \/ Bot!Enter \/ UNCHANGED Bot!botVars
  BY DEF HandleSignal, Record, Crash, StartFlatten, Post, Blocked, GateOpen, Bot!Crash,
         Bot!Enter, LiveInv, NoCommandLeft, GateIsFresh
<1>6. OrderReturns => Bot!Crash \/ UNCHANGED Bot!botVars
  BY DEF OrderReturns, Record, Crash, StartFlatten, Bot!Crash
<1>7. QED  BY <1>1, <1>2, <1>3, <1>4, <1>5, <1>6

\* The live loop implements the process its operator and its supervisor deal
\* with.
THEOREM LiveImplementsBot == Spec => ImplementsBot
<1>1. LiveInv /\ [Next]_vars => [Bot!BotNext]_(Bot!botVars)
  <2>1. UNCHANGED vars => UNCHANGED Bot!botVars
    BY DEF vars, Bot!botVars, Phase, loop, mind, world, bars, runner,
            todo, bridge, channel, shadow
  <2>2. Bot!Crash \/ Bot!Enter => Bot!BotNext
    BY DEF Bot!BotNext, Bot!BotStep
  <2>3. QED
    BY <2>1, <2>2, VisibleSteps, InnerSteps DEF Next, Loop, Environment
<1>2. QED
  BY <1>1, BotStart, LiveInvariant, PTL DEF Spec, ImplementsBot, Bot!BotSpec

-----------------------------------------------------------------------------
(***************************************************************************)
(* The window of bars.                                                     *)
(***************************************************************************)
Bar == [ts : Stamps, open : Prices]

BarsInv ==
  /\ rows \in Seq(Bar)
  /\ cur \in [ts : Stamps \cup {NoMinute}, open : Prices \cup {0}]
  /\ cur.ts = NoMinute => rows = <<>>
  /\ cur.ts # NoMinute => cur \in Bar
  /\ WindowSound
  /\ pc \in {"bars", "decide", "signals", "posted"} => rows # <<>>

\* A bar's stamp is a minute.
LEMMA StampsAreMinutes ==
  ASSUME NEW s \in Seq(Bar)
  PROVE  \A i \in 1 .. Len(s) : s[i] \in Bar /\ s[i].ts \in Nat
<1>1. \A b \in Bar : b.ts \in Nat
  BY LiveAssumption DEF Bar
<1>2. \A i \in 1 .. Len(s) : s[i] \in Bar
  OBVIOUS
<1> QED  BY <1>1, <1>2

\* A list whose neighbours are in order is in order.
LEMMA InOrder ==
  ASSUME NEW s \in Seq(Bar), \A i \in 1 .. Len(s) - 1 : s[i].ts < s[i + 1].ts
  PROVE  \A i, j \in 1 .. Len(s) : i < j => s[i].ts < s[j].ts
<1> DEFINE T == {n \in Nat : \A i, j \in 1 .. Len(s) : i < j /\ j <= n => s[i].ts < s[j].ts}
<1>1. 0 \in T
  OBVIOUS
<1>2. ASSUME NEW n \in Nat, n \in T PROVE n + 1 \in T
  <2>1. ASSUME NEW i \in 1 .. Len(s), NEW j \in 1 .. Len(s), i < j, j <= n + 1
        PROVE  s[i].ts < s[j].ts
    <3>1. s[i].ts \in Nat /\ s[j].ts \in Nat
      BY StampsAreMinutes
    <3>2. CASE j <= n
      BY <1>2, <2>1, <3>2
    <3>3. CASE j = n + 1
      <4>1. n \in 1 .. Len(s) - 1 /\ n \in 1 .. Len(s)
        BY <2>1, <3>3
      <4>2. s[n].ts < s[n + 1].ts /\ s[n].ts \in Nat
        BY <4>1, StampsAreMinutes
      <4>3. i = n \/ s[i].ts < s[n].ts
        BY <1>2, <2>1, <3>3, <4>1
      <4> QED  BY <3>1, <3>3, <4>2, <4>3
    <3>4. j <= n \/ j = n + 1
      BY <2>1
    <3> QED  BY <3>2, <3>3, <3>4
  <2> QED  BY <2>1
<1> HIDE DEF T
<1>3. Nat \subseteq T
  BY <1>1, <1>2, NaturalsFollow
<1>4. Len(s) \in T
  BY <1>3
<1> QED  BY <1>4 DEF T

\* The bars up to now with the one that closes are in order.
LEMMA ClosingInOrder ==
  ASSUME BarsInv, cur.ts # NoMinute
  PROVE  /\ Append(rows, cur) \in Seq(Bar)
         /\ Len(Append(rows, cur)) = Len(rows) + 1
         /\ Append(rows, cur)[Len(rows) + 1] = cur
         /\ \A i \in 1 .. Len(rows) : Append(rows, cur)[i] = rows[i]
         /\ \A i, j \in 1 .. Len(rows) + 1 : i < j =>
              Append(rows, cur)[i].ts < Append(rows, cur)[j].ts
<1> DEFINE s == Append(rows, cur)
<1>1. rows \in Seq(Bar) /\ cur \in Bar
  BY DEF BarsInv
<1>2. /\ s \in Seq(Bar) /\ Len(s) = Len(rows) + 1 /\ s[Len(rows) + 1] = cur
      /\ \A i \in 1 .. Len(rows) : s[i] = rows[i]
      /\ Len(rows) \in Nat
  BY <1>1
<1> HIDE DEF s
<1>3. \A i \in 1 .. Len(rows) : rows[i].ts < cur.ts
  BY DEF BarsInv, WindowSound
<1>4. \A i, j \in 1 .. Len(rows) : i < j => rows[i].ts < rows[j].ts
  BY <1>1, InOrder DEF BarsInv, WindowSound
<1>5. ASSUME NEW i \in 1 .. Len(rows) + 1, NEW j \in 1 .. Len(rows) + 1, i < j
      PROVE  s[i].ts < s[j].ts
  <2>1. i \in 1 .. Len(rows)
    BY <1>2, <1>5
  <2>2. CASE j \in 1 .. Len(rows)
    BY <1>2, <1>4, <1>5, <2>1, <2>2
  <2>3. CASE j = Len(rows) + 1
    BY <1>2, <1>3, <2>1, <2>3
  <2>4. j \in 1 .. Len(rows) \/ j = Len(rows) + 1
    BY <1>2
  <2> QED  BY <2>2, <2>3, <2>4
<1> QED  BY <1>2, <1>5 DEF s

\* What the trim leaves: bars of the window, in order; the bar that closed is
\* the last, unless nothing is left; and each bar before it was there before.
LEMMA TrimKeepsOrder ==
  ASSUME BarsInv, cur.ts # NoMinute, NEW minute \in Stamps, ClosesBar(minute)
  PROVE  /\ Trim(minute) \in Seq(Bar)
         /\ \A i \in 1 .. Len(Trim(minute)) :
              Trim(minute)[i].ts >= minute - WindowMinutes /\ Trim(minute)[i].ts < minute
         /\ \A i, j \in 1 .. Len(Trim(minute)) : i < j =>
              Trim(minute)[i].ts < Trim(minute)[j].ts
         /\ Trim(minute) # <<>> => Last(Trim(minute)) = cur
         /\ \A i \in 1 .. Len(Trim(minute)) : i < Len(Trim(minute)) =>
              \E m \in 1 .. Len(rows) : Trim(minute)[i] = rows[m]
<1> DEFINE s == Append(rows, cur)
           S == WithinWindow(minute)
           k == Trim(minute)
<1>1. /\ s \in Seq(Bar) /\ Len(s) = Len(rows) + 1 /\ s[Len(rows) + 1] = cur
      /\ \A i \in 1 .. Len(rows) : s[i] = rows[i]
      /\ \A i, j \in 1 .. Len(s) : i < j => s[i].ts < s[j].ts
  BY ClosingInOrder
<1>2. rows \in Seq(Bar) /\ cur \in Bar /\ cur.ts \in Nat /\ minute \in Nat /\ cur.ts < minute
      /\ Len(rows) \in Nat /\ WindowMinutes \in Nat
  <2>1. rows \in Seq(Bar) /\ cur \in Bar /\ cur.ts < minute
    BY DEF BarsInv, ClosesBar
  <2>2. cur.ts \in Stamps
    BY <2>1 DEF Bar
  <2>3. Stamps \subseteq Nat /\ WindowMinutes \in Nat
    BY LiveAssumption
  <2>4. Len(rows) \in Nat
    BY <2>1
  <2> QED  BY <2>1, <2>2, <2>3, <2>4
<1>3. k = Keep(s, S)
  BY DEF Trim
<1>4. \A r \in S : r.ts >= minute - WindowMinutes
  BY DEF WithinWindow
<1>5. \A i \in 1 .. Len(s) : s[i].ts >= minute - WindowMinutes => s[i] \in S
  BY <1>1 DEF WithinWindow, Range
<1> HIDE DEF s, S, k
<1>6. k \in Seq(Bar) /\ Selects(k, s, S) /\ Len(k) \in Nat
  BY <1>1, <1>3, KeepSelects
<1>7. \A i \in 1 .. Len(k) : k[i].ts >= minute - WindowMinutes
  BY <1>4, <1>6 DEF Selects
<1>8. \A i \in 1 .. Len(k) : \E m \in 1 .. Len(s) : k[i] = s[m]
  BY <1>6 DEF Selects
<1>9. \A i, j \in 1 .. Len(k) : i < j =>
        \E m, n \in 1 .. Len(s) : m < n /\ k[i] = s[m] /\ k[j] = s[n]
  BY <1>6 DEF Selects
<1>10. \A i \in 1 .. Len(s) : s[i].ts \in Nat /\ s[i].ts <= cur.ts
  <2>1. \A i \in 1 .. Len(s) : i = Len(rows) + 1 \/ i < Len(rows) + 1
    BY <1>1, <1>2
  <2>2. Len(rows) + 1 \in 1 .. Len(s)
    BY <1>1, <1>2
  <2> QED  BY <1>1, <1>2, <2>1, <2>2, StampsAreMinutes
<1>11. \A i \in 1 .. Len(k) : k[i].ts < minute
  BY <1>2, <1>8, <1>10
<1>12. \A i, j \in 1 .. Len(k) : i < j => k[i].ts < k[j].ts
  BY <1>1, <1>9
<1>13. k # <<>> => Last(k) = cur
  <2>1. SUFFICES ASSUME k # <<>> PROVE Last(k) = cur
    OBVIOUS
  <2>2. 1 \in 1 .. Len(k)
    BY <1>6, <2>1
  <2>3. PICK m \in 1 .. Len(s) : k[1] = s[m]
    BY <1>8, <2>2
  <2>4. s[m].ts >= minute - WindowMinutes /\ s[m].ts \in Nat /\ s[m].ts <= cur.ts
    BY <1>7, <1>10, <2>2, <2>3
  <2>5. cur.ts >= minute - WindowMinutes
    BY <1>2, <2>4
  <2>6. cur \in S
    BY <1>1, <1>2, <1>5, <2>5
  <2>7. k = Append(Keep(rows, S), cur)
    BY <1>2, <1>3, <2>6, KeepAppend DEF s
  <2>8. Keep(rows, S) \in Seq(Bar)
    BY <1>2, KeepSelects
  <2> QED  BY <1>2, <2>7, <2>8 DEF Last
<1>14. ASSUME NEW i \in 1 .. Len(k), i < Len(k)
       PROVE  \E m \in 1 .. Len(rows) : k[i] = rows[m]
  <2>1. PICK m \in 1 .. Len(s), n \in 1 .. Len(s) : m < n /\ k[i] = s[m]
    <3>1. Len(k) \in 1 .. Len(k)
      BY <1>6, <1>14
    <3> QED  BY <1>9, <1>14, <3>1
  <2>2. m \in 1 .. Len(rows)
    BY <1>1, <1>2, <2>1
  <2> QED  BY <1>1, <2>1, <2>2
<1> QED  BY <1>6, <1>7, <1>11, <1>12, <1>13, <1>14 DEF k

\* Only a snapshot touches the bars.
LEMMA OnlySnapshotsFeed == Next /\ ~Snapshot => UNCHANGED bars
BY DEF Next, Loop, Environment, MaxRuntimeReached, PollCommands, HandleCommand,
       CommandsHandled, NoSnapshot, BeginBar, ForceFlatBar, Detect, HandleSignal,
       OrderReturns, SignalsHandled, FlattenReturns, Cleanup, Sigint, Command, BridgeOrder,
       BridgeLateOrder, PositionCloses, StartFlatten, Crash, loop, mind, world, runner,
       todo, bridge, channel, shadow

\* Only a closed bar leads to "bars", and from there on the window stands.
LEMMA PlacesFollow ==
  PlaceOK /\ Next /\ ~Snapshot =>
    /\ pc' = "bars" => pc = "bars"
    /\ pc' = "decide" => pc \in {"bars", "decide"}
    /\ pc' = "signals" => pc \in {"decide", "signals", "posted"}
    /\ pc' = "posted" => pc \in {"signals", "posted"}
BY DEF Next, Loop, Environment, MaxRuntimeReached, PollCommands, HandleCommand,
       CommandsHandled, NoSnapshot, BeginBar, ForceFlatBar, Detect, HandleSignal,
       OrderReturns, SignalsHandled, FlattenReturns, Cleanup, Sigint, Command, BridgeOrder,
       BridgeLateOrder, PositionCloses, StartFlatten, Crash, Record, Post, loop, mind, world,
       runner, todo, bridge, channel, shadow, PlaceOK

\* What a snapshot does to the bars.
LEMMA SnapshotCases ==
  ASSUME Snapshot
  PROVE  \E minute \in Stamps, price \in Prices :
           \/ /\ cur.ts = NoMinute
              /\ cur' = [ts |-> minute, open |-> price]
              /\ pc' = "top" /\ rows' = rows
              /\ UNCHANGED <<lastRequest, after>>
           \/ /\ cur.ts # NoMinute
              /\ pc' = "top" /\ cur' = cur /\ rows' = rows
              /\ UNCHANGED <<lastRequest, after>>
           \/ /\ cur.ts # NoMinute
              /\ ClosesBar(minute)
              /\ cur' = [ts |-> minute, open |-> price]
              /\ rows' = Trim(minute)
              /\ \/ rows' # <<>> /\ pc' = "bars" /\ UNCHANGED lastRequest
                 \/ rows' = <<>> /\ pc' = "flattening" /\ lastRequest' = "flatten"
BY DEF Snapshot, Crash, StartFlatten, bars, channel

LEMMA BarsStep == BarsInv /\ PlaceOK /\ [Next]_vars => BarsInv'
<1> SUFFICES ASSUME BarsInv, PlaceOK, [Next]_vars PROVE BarsInv'
  OBVIOUS
<1>1. CASE Snapshot
  <2>1. PICK minute \in Stamps, price \in Prices :
          \/ /\ cur.ts = NoMinute
             /\ cur' = [ts |-> minute, open |-> price]
             /\ pc' = "top" /\ rows' = rows
          \/ /\ cur.ts # NoMinute
             /\ pc' = "top" /\ cur' = cur /\ rows' = rows
          \/ /\ cur.ts # NoMinute
             /\ ClosesBar(minute)
             /\ cur' = [ts |-> minute, open |-> price]
             /\ rows' = Trim(minute)
             /\ \/ rows' # <<>> /\ pc' = "bars"
                \/ rows' = <<>> /\ pc' = "flattening"
    BY <1>1, SnapshotCases
  <2>2. minute \in Nat /\ minute # NoMinute
    BY LiveAssumption DEF NoMinute
  <2>3. CASE /\ cur.ts = NoMinute
             /\ cur' = [ts |-> minute, open |-> price]
             /\ pc' = "top" /\ rows' = rows
    <3>1. rows' = <<>> /\ rows' \in Seq(Bar)
      BY <2>3 DEF BarsInv
    <3>2. cur' \in Bar /\ cur' \in [ts : Stamps \cup {NoMinute}, open : Prices \cup {0}]
      BY <2>3 DEF Bar
    <3>3. cur'.ts = minute
      BY <2>3
    <3>4. WindowSound'
      BY <3>1 DEF WindowSound
    <3> QED  BY <2>2, <2>3, <3>1, <3>2, <3>3, <3>4 DEF BarsInv
  <2>4. CASE cur.ts # NoMinute /\ pc' = "top" /\ cur' = cur /\ rows' = rows
    BY <2>4 DEF BarsInv, WindowSound
  <2>5. CASE /\ cur.ts # NoMinute
             /\ ClosesBar(minute)
             /\ cur' = [ts |-> minute, open |-> price]
             /\ rows' = Trim(minute)
             /\ \/ rows' # <<>> /\ pc' = "bars"
                \/ rows' = <<>> /\ pc' = "flattening"
    <3> DEFINE k == Trim(minute)
    <3>1. /\ k \in Seq(Bar)
          /\ \A i \in 1 .. Len(k) : k[i].ts >= minute - WindowMinutes /\ k[i].ts < minute
          /\ \A i, j \in 1 .. Len(k) : i < j => k[i].ts < k[j].ts
      BY <2>5, TrimKeepsOrder
    <3>2. cur' \in Bar /\ cur' \in [ts : Stamps \cup {NoMinute}, open : Prices \cup {0}]
      BY <2>5 DEF Bar
    <3>3. cur'.ts = minute /\ rows' = k
      BY <2>5
    <3> HIDE DEF k
    <3>4. WindowSound'
      <4>1. Len(k) \in Nat
        BY <3>1
      <4>2. \A i \in 1 .. Len(k) - 1 : k[i].ts < k[i + 1].ts
        BY <3>1, <4>1
      <4> QED  BY <3>1, <3>3, <4>2 DEF WindowSound
    <3> QED  BY <2>2, <2>5, <3>1, <3>2, <3>3, <3>4 DEF BarsInv
  <2> QED  BY <2>1, <2>3, <2>4, <2>5
<1>2. CASE Next /\ ~Snapshot
  <2>1. rows' = rows /\ cur' = cur
    BY <1>2, OnlySnapshotsFeed DEF bars
  <2>2. pc' \in {"bars", "decide", "signals", "posted"} => rows # <<>>
    BY <1>2, PlacesFollow DEF BarsInv
  <2> QED  BY <2>1, <2>2 DEF BarsInv, WindowSound
<1>3. CASE UNCHANGED vars
  BY <1>3 DEF BarsInv, WindowSound, vars, loop, mind, bars
<1> QED  BY <1>1, <1>2, <1>3

LEMMA BarsInit == Init => BarsInv
<1> SUFFICES ASSUME Init PROVE BarsInv
  OBVIOUS
<1>1. rows = <<>> /\ cur = [ts |-> NoMinute, open |-> 0] /\ pc = "top"
  BY DEF Init
<1>2. cur.ts = NoMinute /\ cur \in [ts : Stamps \cup {NoMinute}, open : Prices \cup {0}]
  BY <1>1
<1>3. rows \in Seq(Bar) /\ WindowSound
  BY <1>1 DEF WindowSound
<1> QED  BY <1>1, <1>2, <1>3 DEF BarsInv

\* The window is sound in every reachable state.
LEMMA BarsInvariant == Spec => [](BarsInv /\ PlaceOK)
<1>1. LiveInv => PlaceOK
  BY DEF LiveInv
<1> QED  BY <1>1, BarsInit, BarsStep, LiveInvariant, PTL DEF Spec

\* The window is in the order of time, ends before the open bar and reaches
\* back at most the configured minutes, whatever the feed's clock does.
THEOREM WindowsAreSound == Spec => []WindowSound
<1>1. BarsInv => WindowSound
  BY DEF BarsInv
<1> QED  BY <1>1, BarsInvariant, PTL

\* A bar that is handled is later than the one before: no bar is handled
\* twice, also when the clock steps back.
THEOREM BarsAreHandledOnce == Spec => BarsHandledOnce
<1>1. BarsInv /\ PlaceOK /\ [Next]_vars =>
        [pc = "feed" /\ pc' = "bars" /\ rows # <<>> => Last(rows').ts > LastTs]_vars
  <2> SUFFICES ASSUME BarsInv, PlaceOK, Next, pc = "feed", pc' = "bars", rows # <<>>
               PROVE  Last(rows').ts > LastTs
    OBVIOUS
  <2>1. Snapshot
    BY PlacesFollow
  <2>2. PICK minute \in Stamps :
          /\ cur.ts # NoMinute /\ ClosesBar(minute)
          /\ rows' = Trim(minute) /\ rows' # <<>>
    BY <2>1, SnapshotCases
  <2>3. Last(rows') = cur
    BY <2>2, TrimKeepsOrder
  <2>4. rows \in Seq(Bar) /\ cur \in Bar
    BY <2>2 DEF BarsInv
  <2>5. Len(rows) \in 1 .. Len(rows) /\ LastTs = rows[Len(rows)].ts
    BY <2>4 DEF LastTs, Last
  <2>6. rows[Len(rows)].ts < cur.ts
    BY <2>5 DEF BarsInv, WindowSound
  <2>7. cur.ts \in Nat /\ rows[Len(rows)].ts \in Nat
    BY <2>4, <2>5, StampsAreMinutes, LiveAssumption DEF Bar
  <2> QED  BY <2>3, <2>5, <2>6, <2>7
<1> QED  BY <1>1, BarsInvariant, PTL DEF Spec, BarsHandledOnce

-----------------------------------------------------------------------------
(***************************************************************************)
(* Quiet after 16:30.                                                      *)
(***************************************************************************)
\* The window holds the 16:30 bar of its last bar's day.
AfterFlat == \E i \in 1 .. Len(rows) : Flattened(i)

\* From that bar on the last request is no order, except while the bar itself
\* is about to be flattened.
QuietInv ==
  AfterFlat =>
    \/ lastRequest # "order"
    \/ pc \in {"bars", "decide"} /\ ForceFlat(MinuteOf(LastTs))

\* A later minute is of a later day, or of the same.
LEMMA LaterDay ==
  ASSUME NEW a \in Nat, NEW b \in Nat, a <= b
  PROVE  DayOf(a) <= DayOf(b)
BY DEF DayOf

\* From 16:30 on no entry window of the day is open.
LEMMA ClosedFromFlat ==
  ASSUME NEW a \in Nat, NEW b \in Nat, a <= b, DayOf(a) = DayOf(b),
         MinuteOf(a) >= At(16, 30)
  PROVE  ~NewEntriesAllowed(MinuteOf(b))
<1>1. MinuteOf(b) \in Nat /\ MinuteOf(b) >= 60 * 16 + 30
  BY DEF DayOf, MinuteOf, At
<1> QED
  BY <1>1 DEF NewEntriesAllowed, EntriesAllowedIn, InWindow, Within, Before, At

\* After a bar of its day stamped 16:30 or later the last bar lets no entry in.
LEMMA NoEntryAfterClose ==
  ASSUME BarsInv, NEW i \in 1 .. Len(rows), Closed(i)
  PROVE  ~NewEntriesAllowed(MinuteOf(LastTs))
<1>1. MinuteOf(rows[i].ts) >= At(16, 30) /\ DayOf(rows[i].ts) = DayOf(LastTs)
  BY DEF Closed
<1>2. rows \in Seq(Bar)
  BY DEF BarsInv
<1>3. Len(rows) \in 1 .. Len(rows) /\ LastTs = rows[Len(rows)].ts
  BY <1>1, <1>2 DEF LastTs, Last
<1>4. rows[i].ts \in Nat /\ LastTs \in Nat
  BY <1>2, <1>3, StampsAreMinutes
<1>5. rows[i].ts <= LastTs
  <2>1. i = Len(rows) \/ i < Len(rows)
    BY <1>3
  <2>2. i < Len(rows) => rows[i].ts < rows[Len(rows)].ts
    BY <1>2, <1>3, InOrder DEF BarsInv, WindowSound
  <2> QED  BY <1>3, <1>4, <2>1, <2>2
<1> QED
  BY <1>1, <1>4, <1>5, ClosedFromFlat, Zenon

LEMMA NoEntryAfterFlat ==
  ASSUME BarsInv, AfterFlat
  PROVE  ~NewEntriesAllowed(MinuteOf(LastTs))
<1>1. PICK i \in 1 .. Len(rows) : Flattened(i)
  BY DEF AfterFlat
<1>2. Closed(i)
  BY <1>1 DEF Flattened, Closed, ForceFlat, At
<1> QED  BY <1>2, NoEntryAfterClose

\* Only an order is an order, and the 16:30 bar is left by a flatten.
LEMMA RequestsFollow ==
  LiveInv /\ Next /\ ~Snapshot =>
    /\ lastRequest # "order" /\ lastRequest' = "order" =>
         NewEntriesAllowed(MinuteOf(LastTs))
    /\ pc \in {"bars", "decide"} /\ ForceFlat(MinuteOf(LastTs)) =>
         pc' \in {"bars", "decide"} \/ lastRequest' = "flatten"
<1> SUFFICES ASSUME LiveInv, Next, ~Snapshot
             PROVE  /\ lastRequest # "order" /\ lastRequest' = "order" =>
                         NewEntriesAllowed(MinuteOf(LastTs))
                    /\ pc \in {"bars", "decide"} /\ ForceFlat(MinuteOf(LastTs)) =>
                         pc' \in {"bars", "decide"} \/ lastRequest' = "flatten"
  OBVIOUS
<1>1. CASE HandleSignal
  <2>1. pc = "signals"
    BY <1>1 DEF HandleSignal
  <2>2. lastRequest # "order" /\ lastRequest' = "order" => ~Blocked(Head(sigs))
    BY <1>1 DEF HandleSignal, Record, Crash, StartFlatten, channel
  <2> QED
    BY <2>1, <2>2 DEF Blocked, LiveInv, GateIsFresh, GateOpen
<1>2. CASE ~HandleSignal
  BY <1>2 DEF Next, Loop, Environment, MaxRuntimeReached, PollCommands, HandleCommand,
         CommandsHandled, NoSnapshot, BeginBar, ForceFlatBar, Detect, OrderReturns,
         SignalsHandled, FlattenReturns, Cleanup, Sigint, Command, BridgeOrder,
         BridgeLateOrder, PositionCloses, StartFlatten, Crash, Record, loop, mind, world,
         runner, todo, bridge, channel, shadow, bars
<1> QED  BY <1>1, <1>2

\* A bar that closes after the 16:30 bar of its day finds it in the window
\* before, or is that bar.
LEMMA QuietSnapshot == BarsInv /\ PlaceOK /\ QuietInv /\ Snapshot => QuietInv'
<1> SUFFICES ASSUME BarsInv, PlaceOK, QuietInv, Snapshot, AfterFlat'
             PROVE  \/ lastRequest' # "order"
                    \/ pc' \in {"bars", "decide"} /\ ForceFlat(MinuteOf(LastTs'))
  BY DEF QuietInv
<1>0. pc = "feed"
  BY DEF Snapshot
<1>1. PICK minute \in Stamps, price \in Prices :
        \/ /\ cur.ts = NoMinute
           /\ rows' = rows
           /\ UNCHANGED lastRequest
        \/ /\ cur.ts # NoMinute
           /\ rows' = rows
           /\ UNCHANGED lastRequest
        \/ /\ cur.ts # NoMinute
           /\ ClosesBar(minute)
           /\ rows' = Trim(minute)
           /\ \/ rows' # <<>> /\ pc' = "bars" /\ UNCHANGED lastRequest
              \/ rows' = <<>> /\ lastRequest' = "flatten"
  BY SnapshotCases
<1>2. CASE rows' = rows /\ UNCHANGED lastRequest
  <2>1. AfterFlat
    BY <1>2 DEF AfterFlat, Flattened, LastTs
  <2> QED  BY <1>0, <1>2, <2>1 DEF QuietInv
<1>3. CASE rows' = <<>> /\ lastRequest' = "flatten"
  BY <1>3
<1>4. CASE /\ cur.ts # NoMinute /\ ClosesBar(minute) /\ rows' = Trim(minute)
           /\ rows' # <<>> /\ pc' = "bars" /\ UNCHANGED lastRequest
  <2> DEFINE k == Trim(minute)
  <2>1. /\ k \in Seq(Bar) /\ k # <<>> /\ Last(k) = cur
        /\ \A i \in 1 .. Len(k) : i < Len(k) => \E m \in 1 .. Len(rows) : k[i] = rows[m]
    BY <1>4, TrimKeepsOrder
  <2>2. PICK i \in 1 .. Len(rows') :
          ForceFlat(MinuteOf(rows'[i].ts)) /\ DayOf(rows'[i].ts) = DayOf(LastTs')
    BY DEF AfterFlat, Flattened
  <2>3. rows' = k
    BY <1>4
  <2> HIDE DEF k
  <2>4. LastTs' = cur.ts
    BY <2>1, <2>3 DEF LastTs
  <2>5. Len(k) \in 1 .. Len(k) /\ k[Len(k)] = cur
    BY <2>1 DEF Last
  <2>6. CASE i = Len(k)
    BY <1>4, <2>2, <2>3, <2>4, <2>5, <2>6
  <2>7. CASE i < Len(k)
    <3>1. PICK m \in 1 .. Len(rows) : k[i] = rows[m]
      BY <2>1, <2>2, <2>3, <2>7
    <3>2. rows \in Seq(Bar) /\ cur \in Bar
      BY <1>4 DEF BarsInv
    <3>3. Len(rows) \in 1 .. Len(rows) /\ LastTs = rows[Len(rows)].ts
      BY <3>1, <3>2 DEF LastTs, Last
    <3>4. rows[m].ts \in Nat /\ LastTs \in Nat
      BY <3>2, <3>3, StampsAreMinutes
    <3>5. cur.ts \in Nat
      <4>1. cur.ts \in Stamps
        BY <3>2 DEF Bar
      <4> QED  BY <4>1, LiveAssumption
    <3>6. rows[m].ts <= LastTs
      <4>1. m = Len(rows) \/ m < Len(rows)
        BY <3>3
      <4>2. m < Len(rows) => rows[m].ts < rows[Len(rows)].ts
        BY <3>2, <3>3, InOrder DEF BarsInv, WindowSound
      <4> QED  BY <3>3, <3>4, <4>1, <4>2
    <3>7. LastTs <= cur.ts
      <4>1. LastTs < cur.ts
        BY <3>3 DEF BarsInv, WindowSound
      <4> QED  BY <3>4, <3>5, <4>1
    <3>8. DayOf(rows[m].ts) = DayOf(cur.ts) /\ ForceFlat(MinuteOf(rows[m].ts))
      BY <2>2, <2>3, <2>4, <3>1
    <3>9. DayOf(rows[m].ts) <= DayOf(LastTs)
      BY <3>4, <3>6, LaterDay, Zenon
    <3>10. DayOf(LastTs) <= DayOf(cur.ts)
      BY <3>4, <3>5, <3>7, LaterDay, Zenon
    <3>11. DayOf(LastTs) \in Nat /\ DayOf(cur.ts) \in Nat
      BY <3>4, <3>5 DEF DayOf
    <3>12. DayOf(rows[m].ts) = DayOf(LastTs)
      BY <3>8, <3>9, <3>10, <3>11
    <3>13. AfterFlat
      BY <3>8, <3>12 DEF AfterFlat, Flattened
    <3> QED  BY <1>0, <1>4, <3>13 DEF QuietInv
  <2> QED  BY <2>2, <2>3, <2>5, <2>6, <2>7
<1> QED  BY <1>1, <1>2, <1>3, <1>4

LEMMA QuietStep == LiveInv /\ BarsInv /\ QuietInv /\ [Next]_vars => QuietInv'
<1> SUFFICES ASSUME LiveInv, BarsInv, QuietInv, [Next]_vars PROVE QuietInv'
  OBVIOUS
<1>1. CASE Snapshot
  BY <1>1, QuietSnapshot DEF LiveInv
<1>2. CASE Next /\ ~Snapshot
  <2>1. rows' = rows
    BY <1>2, OnlySnapshotsFeed DEF bars
  <2>2. (AfterFlat' <=> AfterFlat) /\ LastTs' = LastTs
    BY <2>1 DEF AfterFlat, Flattened, LastTs
  <2> QED
    BY <1>2, <2>2, RequestsFollow, NoEntryAfterFlat DEF QuietInv
<1>3. CASE UNCHANGED vars
  BY <1>3 DEF QuietInv, AfterFlat, Flattened, LastTs, vars, loop, mind, bars, world, channel
<1> QED  BY <1>1, <1>2, <1>3

\* Once the bar stamped 16:30 is handled the last request of its day is no order,
\* and from the first bar stamped so or later none is sent that day, whichever
\* minutes are silent: for every feed, offset of the stamps, window and set of
\* entry windows.
THEOREM QuietAfterFlat == Spec => QuietAfter1630
<1> DEFINE Quiet == pc = "top" /\ (\E i \in 1 .. Len(rows) : Flattened(i)) => lastRequest # "order"
           Enters == pc # "posted" /\ pc' = "posted"
<1>1. Init => QuietInv
  BY DEF Init, QuietInv
<1>2. QuietInv => Quiet
  BY DEF QuietInv, AfterFlat
<1>3. BarsInv /\ [Enters => NewEntriesAllowed(MinuteOf(LastTs))]_vars
        => [Enters => \A i \in 1 .. Len(rows) : ~Closed(i)]_vars
  <2>1. BarsInv /\ NewEntriesAllowed(MinuteOf(LastTs)) => \A i \in 1 .. Len(rows) : ~Closed(i)
    BY NoEntryAfterClose
  <2> QED  BY <2>1
<1>4. Spec => [][Enters => NewEntriesAllowed(MinuteOf(LastTs))]_vars
  <2>1. [ Enters =>
            /\ ~paused /\ ~killed
            /\ NewEntriesAllowed(MinuteOf(LastTs))
            /\ AllowedWindows \in {WindowNames, SilverBulletMode} =>
                 SessionTag(MinuteOf(LastTs)) \in AllowedWindows
            /\ MidnightFilterPasses(Head(sigs).side, Head(sigs).entry, midOpen)]_vars
          => [Enters => NewEntriesAllowed(MinuteOf(LastTs))]_vars
    OBVIOUS
  <2> QED  BY <2>1, EntriesUnblocked, PTL DEF NoEntryWhileBlocked
<1> QED
  BY <1>1, <1>2, <1>3, <1>4, QuietStep, LiveInvariant, BarsInvariant, PTL DEF Spec, QuietAfter1630

-----------------------------------------------------------------------------
(***************************************************************************)
(* Types.                                                                  *)
(***************************************************************************)
RunnerTypes ==
  /\ lim.day \in Day /\ lim.startEquity \in EquityReadings \cup {0}
  /\ midOpen \in Prices \cup {NoOpen}
  /\ seenIdx \subseteq Nat

ChannelTypes ==
  /\ reply \in {"none", "ok", "rejected", "garbled"}
  /\ rc \in {0, 42}
  /\ pc = "posted" => lastRequest = "order" /\ sigs # <<>>

\* The midnight open is the open of a bar of the window, or there is none.
LEMMA MidnightOpenIsAPrice ==
  ASSUME rows \in Seq(Bar), NEW today
  PROVE  MidnightOpenIn(today) \in Prices \cup {NoOpen}
<1> DEFINE S == {r \in Range(rows) : DayOf(r.ts) = today /\ MinuteOf(r.ts) = 0}
           found == Keep(rows, S)
<1>1. found \in Seq(Bar)
  BY KeepSelects
<1>2. MidnightOpenIn(today) = IF found = <<>> THEN NoOpen ELSE Head(found).open
  BY DEF MidnightOpenIn
<1> HIDE DEF found
<1>3. found # <<>> => Head(found) \in Bar
  BY <1>1
<1> QED  BY <1>2, <1>3 DEF Bar

LEMMA RunnerTypesStep == RunnerTypes /\ BarsInv /\ [Next]_vars => RunnerTypes'
<1> SUFFICES ASSUME RunnerTypes, BarsInv, [Next]_vars PROVE RunnerTypes'
  OBVIOUS
<1>1. CASE BeginBar
  <2>1. rows \in Seq(Bar) /\ rows # <<>> /\ LastTs = rows[Len(rows)].ts
    BY <1>1 DEF BeginBar, BarsInv, LastTs, Last
  <2>2. LastTs \in Nat
    BY <2>1, StampsAreMinutes
  <2>3. DayOf(LastTs) \in Day
    BY <2>2 DEF DayOf, Day
  <2>4. CASE UNCHANGED <<lim, midOpen>>
    BY <1>1, <2>4 DEF BeginBar, RunnerTypes
  <2>5. CASE ~UNCHANGED <<lim, midOpen>>
    <3>1. PICK eq \in EquityReadings : lim' = ResetForDay(lim, DayOf(LastTs), eq)
      BY <1>1, <2>5 DEF BeginBar
    <3>2. midOpen' = MidnightOpenIn(DayOf(LastTs)) /\ seenIdx' = seenIdx
      BY <1>1, <2>5 DEF BeginBar
    <3>3. lim'.day \in Day /\ lim'.startEquity \in EquityReadings
      BY <2>3, <3>1 DEF ResetForDay, FreshLimits
    <3>4. midOpen' \in Prices \cup {NoOpen}
      BY <2>1, <3>2, MidnightOpenIsAPrice
    <3> QED  BY <3>2, <3>3, <3>4 DEF RunnerTypes
  <2> QED  BY <2>4, <2>5
<1>2. CASE HandleSignal \/ OrderReturns
  <2>1. Len(rows) - 1 \in Nat
    <3>1. rows \in Seq(Bar) /\ rows # <<>>
      BY <1>2 DEF HandleSignal, OrderReturns, BarsInv
    <3> QED  BY <3>1
  <2>2. UNCHANGED <<lim, midOpen>> /\ (seenIdx' = seenIdx \/ seenIdx' = seenIdx \cup {Len(rows) - 1})
    BY <1>2 DEF HandleSignal, OrderReturns, MarkSeen
  <2> QED  BY <2>1, <2>2 DEF RunnerTypes
<1>3. CASE ~BeginBar /\ ~HandleSignal /\ ~OrderReturns
  <2>1. UNCHANGED <<lim, midOpen, seenIdx>>
    BY <1>3 DEF Next, Loop, Environment, MaxRuntimeReached, PollCommands, HandleCommand,
         CommandsHandled, NoSnapshot, Snapshot, ForceFlatBar, Detect, SignalsHandled,
         FlattenReturns, Cleanup, Sigint, Command, BridgeOrder, BridgeLateOrder,
         PositionCloses, loop, mind, world, runner, vars
  <2> QED  BY <2>1 DEF RunnerTypes
<1> QED  BY <1>1, <1>2, <1>3

LEMMA ChannelTypesStep == ChannelTypes /\ PlaceOK /\ [Next]_vars => ChannelTypes'
<1> SUFFICES ASSUME ChannelTypes, PlaceOK, [Next]_vars PROVE ChannelTypes'
  OBVIOUS
<1> USE DEF ChannelTypes, PlaceOK, loop, mind, world, bars, runner, todo, bridge, channel, shadow
<1>1. CASE MaxRuntimeReached \/ PollCommands \/ HandleCommand \/ CommandsHandled
  BY <1>1 DEF MaxRuntimeReached, PollCommands, HandleCommand, CommandsHandled, StartFlatten
<1>2. CASE NoSnapshot \/ Snapshot \/ BeginBar \/ ForceFlatBar \/ Detect
  BY <1>2 DEF NoSnapshot, Snapshot, BeginBar, ForceFlatBar, Detect, Crash, StartFlatten
<1>3. CASE HandleSignal
  BY <1>3 DEF HandleSignal, Record, Crash, StartFlatten, Post
<1>4. CASE OrderReturns \/ SignalsHandled \/ FlattenReturns \/ Cleanup
  BY <1>4 DEF OrderReturns, Record, SignalsHandled, FlattenReturns, Cleanup, Crash, StartFlatten
<1>5. CASE Sigint \/ Command \/ BridgeOrder \/ BridgeLateOrder \/ PositionCloses
  BY <1>5 DEF Sigint, Command, BridgeOrder, BridgeLateOrder, PositionCloses, StartFlatten
<1>6. CASE UNCHANGED vars
  BY <1>6 DEF vars
<1> QED  BY <1>1, <1>2, <1>3, <1>4, <1>5, <1>6 DEF Next, Loop, Environment

\* The loop's variables keep their types, whatever is fed, found and answered.
THEOREM LiveTypesHold == Spec => []LiveTypeOK
<1>1. Init => RunnerTypes /\ ChannelTypes
  BY DEF Init, RunnerTypes, ChannelTypes, FreshLimits, Day, NoDay
<1>2. BarsInv /\ PlaceOK /\ RunnerTypes /\ ChannelTypes => LiveTypeOK
  BY DEF BarsInv, PlaceOK, RunnerTypes, ChannelTypes, LiveTypeOK, Bar
<1> QED
  BY <1>1, <1>2, RunnerTypesStep, ChannelTypesStep, BarsInvariant, PTL DEF Spec
=============================================================================
