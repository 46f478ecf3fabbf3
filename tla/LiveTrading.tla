---------------------------- MODULE LiveTrading ----------------------------
(***************************************************************************)
(* The live bot: the main loop of scripts/run_live.py, the LiveRunner      *)
(* (execution/runner.py) it drives, and the Quantower broker with its      *)
(* Lucid bridge (execution/quantower), when orders are real.               *)
(*                                                                         *)
(* One thread runs the loop                                                *)
(*                                                                         *)
(*   top -> commands -> feed -> bars -> decide -> signals -> top ...       *)
(*                                                                         *)
(* and waits ("posted", "flattening") for the reply to an HTTP call or for *)
(* httpx's timeout; an order that timed out may still be executed. The     *)
(* bridge, the operator's commands and SIGINT act at any time in between.  *)
(***************************************************************************)
EXTENDS Risk, Sessions, Lists, SequencesExt

CONSTANTS
  Times,           \* the minutes in New York, counted from some midnight, at which
                   \* a snapshot may be read
  StampOffset,     \* how far, in minutes, a stamp is ahead of New York's clock
  WindowMinutes,   \* connection.bar_window_minutes
  Prices,          \* mid prices
  SignalBatches,   \* what the detectors may find on the last bar of a window
  EquityReadings,  \* what equity_usd may return: whole units, or NaN
  NaN,
  MaxCommands,     \* bound: commands the operator sends
  MaxLate          \* bound: orders that are late at a time

Signal == [side : {"BUY", "SELL"}, entry : Int, sl : Int]

\* to_ny(datetime.fromtimestamp(...)): the host's local time, without a zone, is
\* taken for UTC. The stamp is New York's minute on a host that runs on UTC, and
\* elsewhere as far from it as the host's local time is from UTC. All that
\* follows, windows, 16:30 and midnight, is judged on the stamp.
Stamped(minute) == minute + StampOffset
Stamps == {Stamped(minute) : minute \in Times}

ASSUME LiveAssumption ==
  /\ Times \subseteq Int /\ StampOffset \in Int
  /\ Stamps \subseteq Nat
  /\ WindowMinutes \in Nat
  /\ Prices \subseteq Int
  /\ SignalBatches \subseteq Seq(Signal)
  /\ EquityReadings \subseteq Int \cup {NaN}
  /\ NaN \notin Int
  /\ MaxCommands \in Nat
  /\ MaxLate \in Nat

NoMinute == -1
DayOf(ts) == ts \div 1440
MinuteOf(ts) == ts % 1440

VARIABLES
  pc,
  after,       \* where the loop goes on once a flatten is answered
  cur,         \* aggregator._current_minute, with _o
  rows,        \* aggregator._closed_rows: stamp and open of each closed bar
  cmds,        \* the commands drained from the queue and not yet handled
  sigs,        \* bar_signals not yet handled
  gate,        \* gate_reason is empty
  lim,         \* runner.state
  midOpen,     \* runner.last_mid_open
  seenIdx,     \* runner.seen_bar_signal_indices
  paused,      \* runner.paused
  killed,      \* kill.tripped
  inbox,       \* commander._queue
  call,        \* the order the loop waits for, until the bridge handles it
  reply,       \* the bridge's answer to it
  late,        \* orders that timed out before the bridge handled them
  pos,         \* the account's net position, at the bridge
  rc,          \* exit code
  \* history
  cause,       \* why the loop was left
  sent,        \* commands sent
  lastRequest, \* the last request sent to the bridge
  unrecorded,  \* signals of the last bar that have no shadow row
  executed,    \* the bridge has executed the order of the last call
  row,         \* what the shadow row of that order says
  streak       \* losing closes in a row today, at the bridge

\* What the process is to its operator and its supervisor.
Phase ==
  IF pc = "dead" THEN "dead"
  ELSE IF pc = "ending" \/ (pc = "flattening" /\ after = "ending") THEN "ending"
  ELSE "running"

Bot == INSTANCE BotProcess WITH phase <- Phase

loop    == <<pc, after, rc, cause>>
bars    == <<cur, rows>>
runner  == <<lim, midOpen, seenIdx, paused, killed>>
todo    == <<cmds, sigs, gate>>
bridge  == <<pos, streak>>
channel == <<call, reply, late, executed, lastRequest>>
shadow  == <<unrecorded, row>>
mind    == <<bars, runner, todo>>
world   == <<bridge, channel, shadow, inbox, sent>>
vars == <<loop, mind, world>>

-----------------------------------------------------------------------------
(***************************************************************************)
(* Requests.                                                               *)
(***************************************************************************)
NoCall == [qty |-> 0]

\* The loop no longer waits: an order the bridge has not handled is late. One
\* beyond the bound is lost.
Abandon ==
  late' = IF call = NoCall \/ Cardinality(late) = MaxLate THEN late ELSE late \cup {call}

\* broker.flatten_all: the result is logged and not looked at. What the
\* request does to the position, now or late, is PositionCloses.
StartFlatten(next) ==
  /\ pc' = "flattening"
  /\ after' = next
  /\ lastRequest' = "flatten"
  /\ Abandon
  /\ call' = NoCall
  /\ reply' = "none"
  /\ UNCHANGED executed

\* Mutant: the loop dies without flattening.
CrashUnflattened(why) ==
  /\ killed' = TRUE
  /\ cause' = why
  /\ pc' = "ending"
  /\ UNCHANGED <<after, channel>>

\* "except Exception": the kill switch, a flatten, and the exit code stays 0.
Crash(why) ==
  /\ killed' = TRUE
  /\ cause' = why
  /\ StartFlatten("ending")

\* Mutant: whatever the flatten was part of, the loop goes on.
FlattenReturnsToTop ==
  /\ pc = "flattening"
  /\ pc' = "top"
  /\ after' = "top"
  /\ UNCHANGED <<rc, cause, mind, world>>

\* The call returns, answered or not.
FlattenReturns ==
  /\ pc = "flattening"
  /\ pc' = after
  /\ after' = "top"
  /\ UNCHANGED <<rc, cause, mind, world>>

-----------------------------------------------------------------------------
(***************************************************************************)
(* Commands.                                                               *)
(***************************************************************************)
MaxRuntimeReached ==
  /\ pc = "top"
  /\ pc' = "ending"
  /\ cause' = "runtime"
  /\ UNCHANGED <<after, rc, mind, world>>

\* commander.poll_commands empties the queue.
PollCommands ==
  /\ pc = "top"
  /\ pc' = "commands"
  /\ cmds' = inbox
  /\ inbox' = <<>>
  /\ UNCHANGED <<after, rc, cause, bars, runner, sigs, gate, bridge, channel, shadow, sent>>

HandleCommand ==
  /\ pc = "commands"
  /\ cmds # <<>>
  /\ cmds' = Tail(cmds)
  /\ LET cmd == Head(cmds) IN
       \/ /\ cmd = "status"
          /\ UNCHANGED <<loop, runner, channel>>
       \/ /\ cmd \in {"pause", "resume"}
          /\ paused' = (cmd = "pause")
          /\ UNCHANGED <<loop, lim, midOpen, seenIdx, killed, channel>>
       \/ /\ cmd = "flatten"
          /\ StartFlatten("commands")
          /\ UNCHANGED <<rc, cause, runner>>
       \/ /\ cmd = "stop"
          /\ pc' = "ending"
          /\ cause' = "stop"
          /\ UNCHANGED <<after, rc, runner, channel>>
       \/ /\ cmd = "restart"
          /\ StartFlatten("ending")
          /\ rc' = 42
          /\ cause' = "restart"
          /\ UNCHANGED runner
  /\ UNCHANGED <<bars, sigs, gate, bridge, shadow, inbox, sent>>

CommandsHandled ==
  /\ pc = "commands"
  /\ cmds = <<>>
  /\ pc' = "feed"
  /\ UNCHANGED <<after, rc, cause, mind, world>>

-----------------------------------------------------------------------------
(***************************************************************************)
(* The feed and the bar aggregator. A bar closes when a snapshot of a later*)
(* minute arrives, however much later; a clock that steps back feeds the   *)
(* bar that is open. A silence longer than the window leaves no row, and a *)
(* data frame without rows has no "ts_ny" column: the aggregator raises.   *)
(***************************************************************************)
NoSnapshot ==
  /\ pc = "feed"
  /\ pc' = "top"
  /\ UNCHANGED <<after, rc, cause, mind, world>>

\* Mutant: a bar closes when the minute changes, in either direction.
ClosesOnChange(minute) == minute # cur.ts

ClosesBar(minute) == minute > cur.ts

\* The bars closed by now that opened at most WindowMinutes before a minute.
WithinWindow(minute) == {r \in Range(Append(rows, cur)) : r.ts >= minute - WindowMinutes}

\* Mutant: the window is counted from the bar that closed.
TrimFromClosed(minute) == Keep(Append(rows, cur), WithinWindow(cur.ts))

Trim(minute) == Keep(Append(rows, cur), WithinWindow(minute))

Snapshot ==
  /\ pc = "feed"
  /\ \E minute \in Stamps, price \in Prices :
       \/ /\ cur.ts = NoMinute
          /\ cur' = [ts |-> minute, open |-> price]
          /\ pc' = "top"
          /\ UNCHANGED <<rows, after, cause, killed, channel>>
       \/ /\ cur.ts # NoMinute
          /\ ~ClosesBar(minute)
          /\ pc' = "top"
          /\ UNCHANGED <<bars, after, cause, killed, channel>>
       \/ /\ cur.ts # NoMinute
          /\ ClosesBar(minute)
          /\ rows' = Trim(minute)
          /\ cur' = [ts |-> minute, open |-> price]
          /\ \/ /\ rows' # <<>>
                /\ pc' = "bars"
                /\ UNCHANGED <<after, cause, killed, channel>>
             \/ /\ rows' = <<>>
                /\ Crash("crash")
  /\ UNCHANGED <<rc, lim, midOpen, seenIdx, paused, todo, bridge, shadow, inbox, sent>>

-----------------------------------------------------------------------------
(***************************************************************************)
(* LiveRunner.on_bars_window.                                              *)
(***************************************************************************)
LastTs == Last(rows).ts

MidnightOpenIn(today) ==
  LET found == Keep(rows, {r \in Range(rows) : DayOf(r.ts) = today /\ MinuteOf(r.ts) = 0})
  IN  IF found = <<>> THEN NoOpen ELSE Head(found).open

\* The first window of a day resets the limits with the equity the bridge
\* reports, and fixes the day's midnight open. (The window is never empty
\* here: the aggregator has raised.)
BeginBar ==
  /\ pc = "bars"
  /\ pc' = "decide"
  /\ LET today == DayOf(LastTs) IN
       \/ /\ lim.day # today
          /\ \E eq \in EquityReadings : lim' = ResetForDay(lim, today, eq)
          /\ midOpen' = MidnightOpenIn(today)
          /\ streak' = 0
       \/ /\ lim.day = today
          /\ UNCHANGED <<lim, midOpen, streak>>
  /\ UNCHANGED <<after, rc, cause, bars, seenIdx, paused, killed, todo, pos, channel, shadow,
                 inbox, sent>>

\* Mutant: the bar is skipped and nothing is flattened.
ForceFlatBarSkipped ==
  /\ pc = "decide"
  /\ ForceFlat(MinuteOf(LastTs))
  /\ pc' = "top"
  /\ UNCHANGED <<after, rc, cause, mind, world>>

ForceFlatBar ==
  /\ pc = "decide"
  /\ ForceFlat(MinuteOf(LastTs))
  /\ StartFlatten("top")
  /\ UNCHANGED <<rc, cause, bridge, shadow, inbox, sent, mind>>

\* Mutant: the pause is forgotten.
GateOpenPaused ==
  /\ NewEntriesAllowed(MinuteOf(LastTs))
  /\ CanTrade(lim)
  /\ ~killed

\* _gate_reason, at the stamp (the opening minute) of the bar that closed.
GateOpen ==
  /\ ~paused
  /\ NewEntriesAllowed(MinuteOf(LastTs))
  /\ CanTrade(lim)
  /\ ~killed

\* A signal's bar_index is its position in the window, and an index that was
\* submitted once is filtered out, whichever bar it stands for now.
Detect ==
  /\ pc = "decide"
  /\ ~ForceFlat(MinuteOf(LastTs))
  /\ \E batch \in SignalBatches :
       /\ sigs' = IF Len(rows) - 1 \in seenIdx THEN <<>> ELSE batch
       /\ unrecorded' = Len(batch)
  /\ gate' = GateOpen
  /\ pc' = "signals"
  /\ UNCHANGED <<after, rc, cause, bars, runner, cmds, bridge, channel, row, inbox, sent>>

Blocked(s) == ~gate \/ ~MidnightFilterPasses(s.side, s.entry, midOpen)

\* _record_shadow and on to the next signal.
Record(outcome) ==
  /\ unrecorded' = unrecorded - 1
  /\ row' = outcome
  /\ sigs' = Tail(sigs)
  /\ pc' = "signals"

MarkSeen == seenIdx' = seenIdx \cup {Len(rows) - 1}

\* size_position with NaN raises on int(nan), unless the distance is zero.
Unsizable(eq, s) == eq = NaN /\ s.entry # s.sl

\* The order as Lucid takes it; the bracket's distances are left out.
OrderOf(s, qty) ==
  [id |-> <<LastTs, Len(sigs)>>, qty |-> IF s.side = "BUY" THEN qty ELSE -qty]

Post(order) ==
  /\ call' = order
  /\ reply' = "none"
  /\ executed' = FALSE
  /\ row' = "none"
  /\ lastRequest' = "order"
  /\ pc' = "posted"

HandleSignal ==
  /\ pc = "signals"
  /\ sigs # <<>>
  /\ LET s == Head(sigs) IN
       \/ /\ Blocked(s)
          /\ Record("skipped")
          /\ UNCHANGED <<after, cause, seenIdx, killed, channel>>
       \/ /\ ~Blocked(s)
          /\ \E eq \in EquityReadings :
               \/ /\ Unsizable(eq, s)
                  /\ Crash("crash")
                  /\ UNCHANGED <<sigs, shadow, seenIdx>>
               \/ /\ ~Unsizable(eq, s)
                  /\ SizePosition(eq, s.entry, s.sl) = 0
                  /\ Record("skipped")
                  /\ UNCHANGED <<after, cause, seenIdx, killed, channel>>
               \/ /\ ~Unsizable(eq, s)
                  /\ SizePosition(eq, s.entry, s.sl) # 0
                  \* no_feed_price, or a bracket distance of zero
                  /\ \/ /\ Record("skipped")
                        /\ MarkSeen
                        /\ UNCHANGED <<after, cause, killed, channel>>
                     \/ /\ Post(OrderOf(s, SizePosition(eq, s.entry, s.sl)))
                        /\ UNCHANGED <<after, cause, seenIdx, killed, sigs, late, unrecorded>>
  /\ UNCHANGED <<rc, bars, lim, midOpen, paused, cmds, gate, bridge, inbox, sent>>

\* The order call returns. A timeout counts as a rejection; an answer that
\* cannot be read raises.
\* Mutant: no answer is taken for an acceptance.
AcceptedUnlessRejected == reply \in {"ok", "none"}

Accepted == reply = "ok"

\* Mutant: the call waits for its answer, however long.
OrderReturnsAnswered ==
  /\ pc = "posted"
  /\ reply \in {"ok", "rejected"}
  /\ call' = NoCall
  /\ reply' = "none"
  /\ MarkSeen
  /\ Record(IF Accepted THEN "executed" ELSE "rejected")
  /\ UNCHANGED <<after, cause, killed, executed, late, lastRequest, rc, bars, lim, midOpen,
                 paused, cmds, gate, bridge, inbox, sent>>

OrderReturns ==
  /\ pc = "posted"
  /\ \/ /\ reply = "garbled"
        /\ Crash("crash")
        /\ UNCHANGED <<sigs, shadow, seenIdx>>
     \/ /\ reply # "garbled"
        /\ Abandon
        /\ call' = NoCall
        /\ reply' = "none"
        /\ MarkSeen
        /\ Record(IF Accepted THEN "executed" ELSE "rejected")
        /\ UNCHANGED <<after, cause, killed, executed, lastRequest>>
  /\ UNCHANGED <<rc, bars, lim, midOpen, paused, cmds, gate, bridge, inbox, sent>>

SignalsHandled ==
  /\ pc = "signals"
  /\ sigs = <<>>
  /\ pc' = "top"
  /\ gate' = FALSE
  /\ UNCHANGED <<after, rc, cause, bars, runner, cmds, sigs, world>>

\* finally: commander.stop, broker.disconnect, shadow.close.
Cleanup ==
  /\ pc = "ending"
  /\ pc' = "dead"
  /\ UNCHANGED <<after, rc, cause, mind, world>>

-----------------------------------------------------------------------------
(***************************************************************************)
(* The environment, as long as the process lives.                          *)
(***************************************************************************)

\* SIGINT runs its handler on the loop's thread, wherever that is. Once the
\* clients are being closed its flatten may fail.
Sigint ==
  /\ pc # "dead"
  /\ ~killed
  /\ killed' = TRUE
  /\ rc' = 0
  /\ \/ /\ pc # "ending"
        /\ cause' = "sigint"
        /\ StartFlatten("ending")
     \/ /\ pc = "ending"
        /\ UNCHANGED <<pc, after, cause, channel>>
  /\ UNCHANGED <<bars, lim, midOpen, seenIdx, paused, todo, bridge, shadow, inbox, sent>>

\* The commander's thread queues a command of the operator.
Command ==
  /\ pc # "dead"
  /\ sent < MaxCommands
  /\ sent' = sent + 1
  /\ \E cmd \in Bot!Commands : inbox' = Append(inbox, cmd)
  /\ UNCHANGED <<loop, bridge, channel, shadow, mind>>

\* The bridge executes the order or refuses it. Either may be answered with
\* something that is not JSON, which counts as a rejection, or is no object,
\* which raises; an execution also with a price that is null or no number, which
\* raises too. Only "ok": false is a refusal to the executor: that the bridge
\* refuses in no other words (but a status other than 200) is assumed of it.
BridgeOrder ==
  /\ pc = "posted"
  /\ call # NoCall
  /\ \/ /\ pos' = pos + call.qty
        /\ executed' = TRUE
        /\ reply' \in {"ok", "rejected", "garbled"}
     \/ /\ reply' \in {"rejected", "garbled"}
        /\ UNCHANGED <<pos, executed>>
  /\ call' = NoCall
  /\ UNCHANGED <<loop, streak, late, lastRequest, shadow, inbox, sent, mind>>

BridgeLateOrder ==
  /\ pc # "dead"
  /\ \E order \in late :
       /\ late' = late \ {order}
       /\ pos' \in {pos, pos + order.qty}
  /\ UNCHANGED <<loop, streak, call, reply, executed, lastRequest, shadow, inbox, sent, mind>>

\* The position closes, by its bracket or by a flatten, with a loss or a win,
\* and the bot is not told. The streak saturates at the cap.
PositionCloses ==
  /\ pc # "dead"
  /\ pos # 0
  /\ pos' = 0
  /\ streak' \in {0, LesserOf(streak + 1, MaxConsecutiveLosses)}
  /\ UNCHANGED <<loop, channel, shadow, inbox, sent, mind>>

Init ==
  /\ pc = "top"
  /\ after = "top"
  /\ cur = [ts |-> NoMinute, open |-> 0]
  /\ rows = <<>>
  /\ cmds = <<>>
  /\ sigs = <<>>
  /\ gate = FALSE
  /\ lim = FreshLimits
  /\ midOpen = NoOpen
  /\ seenIdx = {}
  /\ paused = FALSE
  /\ killed = FALSE
  /\ inbox = <<>>
  /\ call = NoCall
  /\ late = {}
  /\ reply = "none"
  /\ pos = 0
  /\ rc = 0
  /\ cause = "none"
  /\ sent = 0
  /\ lastRequest = "none"
  /\ unrecorded = 0
  /\ executed = FALSE
  /\ row = "none"
  /\ streak = 0

Loop ==
  \/ MaxRuntimeReached \/ PollCommands \/ HandleCommand \/ CommandsHandled
  \/ NoSnapshot \/ Snapshot
  \/ BeginBar \/ ForceFlatBar \/ Detect \/ HandleSignal \/ OrderReturns
  \/ SignalsHandled \/ FlattenReturns \/ Cleanup

Environment == Sigint \/ Command \/ BridgeOrder \/ BridgeLateOrder \/ PositionCloses

Next == Loop \/ Environment

Spec == Init /\ [][Next]_vars

\* Every call of the loop's thread returns: the HTTP clients have timeouts and
\* nothing else blocks. Nothing is assumed of the bridge, the feed or SIGINT.
FairSpec == Spec /\ WF_vars(Loop)

-----------------------------------------------------------------------------
(***************************************************************************)
(* Properties.                                                             *)
(***************************************************************************)

\* The loop's variables have the types the code gives them.
LiveTypeOK ==
  /\ pc \in {"top", "commands", "feed", "bars", "decide", "signals", "posted",
            "flattening", "ending", "dead"}
  /\ after \in {"top", "commands", "ending"}
  /\ cur \in [ts : Stamps \cup {NoMinute}, open : Prices \cup {0}]
  /\ rows \in Seq([ts : Stamps, open : Prices])
  /\ pc \in {"bars", "decide", "signals", "posted"} => rows # <<>>
  /\ lim.day \in Day /\ lim.startEquity \in EquityReadings \cup {0}
  /\ midOpen \in Prices \cup {NoOpen}
  /\ seenIdx \subseteq Nat
  /\ reply \in {"none", "ok", "rejected", "garbled"}
  /\ rc \in {0, 42}
  /\ pc = "posted" => lastRequest = "order" /\ sigs # <<>>

\* The window handed to the detectors is in the order of time, ends with the
\* bar that just closed and reaches back at most the configured minutes.
WindowSound ==
  /\ \A i \in 1 .. Len(rows) - 1 : rows[i].ts < rows[i + 1].ts
  /\ \A i \in 1 .. Len(rows) : rows[i].ts >= cur.ts - WindowMinutes /\ rows[i].ts < cur.ts

\* Each bar is handled once, in the order of time, also when the clock steps
\* back: what one bar's signals ordered is not ordered again.
BarsHandledOnce ==
  [][pc = "feed" /\ pc' = "bars" /\ rows # <<>> => Last(rows').ts > LastTs]_vars

\* No order is sent while the bot is paused or the kill switch is tripped, on a
\* bar stamped outside the entry windows or against the midnight open, whatever
\* arrives between the gate and the order; and a bot that runs in all windows or
\* in the Silver Bullet ones sends orders only where the shadow log's label of
\* the stamp says so.
NoEntryWhileBlocked ==
  [][pc # "posted" /\ pc' = "posted" =>
       /\ ~paused /\ ~killed
       /\ NewEntriesAllowed(MinuteOf(LastTs))
       /\ AllowedWindows \in {WindowNames, SilverBulletMode} =>
            SessionTag(MinuteOf(LastTs)) \in AllowedWindows
       /\ MidnightFilterPasses(Head(sigs).side, Head(sigs).entry, midOpen)]_vars

\* After a crash, SIGINT or /restart no order follows the flatten: the bot
\* does not leave with an order as its last word.
FlattenIsLast ==
  pc = "dead" /\ cause \in {"crash", "sigint", "restart"} => lastRequest = "flatten"

Flattened(i) == ForceFlat(MinuteOf(rows[i].ts)) /\ DayOf(rows[i].ts) = DayOf(LastTs)
Closed(i) == MinuteOf(rows[i].ts) >= At(16, 30) /\ DayOf(rows[i].ts) = DayOf(LastTs)

\* Once the bar stamped 16:30 is handled, the day's last request is no order, and
\* from the first bar stamped so or later, whether or not that minute itself came,
\* none is sent before the next day. A silent minute still leaves the day's
\* positions without their flatten, which the code asks for on no other bar.
QuietAfter1630 ==
  /\ [](pc = "top" /\ (\E i \in 1 .. Len(rows) : Flattened(i)) => lastRequest # "order")
  /\ [][pc # "posted" /\ pc' = "posted" => \A i \in 1 .. Len(rows) : ~Closed(i)]_vars

\* A row of the shadow log that says "executed" is backed by an order the
\* bridge executed, whatever is lost or late. The converse does not hold: an
\* order that executes after a timeout has a row that says it was not.
ExecutedRowsBacked == row = "executed" => executed

\* The loop implements the process that the operator and the supervisor deal
\* with: whatever its own steps are, the commands are handled in order, orders
\* are sent only between commands and while nothing blocks them, and it ends
\* in the ways, and with the exit codes, of BotProcess.
ImplementsBot == Bot!BotSpec

\* And it keeps that process's promises: the commands are taken up and
\* handled, and it ends once it is told to. A hanging bridge or a silent feed
\* keeps nobody out.
ServesItsOperator == Bot!BotFairness

\* "Daily loss + consecutive-loss tracking (reuses LimitsState)"
\* (execution/runner.py:10): a day with the capped losing streak takes no
\* entry any more.
StreakStopsEntries ==
  [][pc # "posted" /\ pc' = "posted" => streak < MaxConsecutiveLosses]_vars

\* "accumulates every detected signal, even ones that didn't execute"
\* (docs/OPERATING.md:174).
EverySignalRecorded == pc = "top" => unrecorded = 0
=============================================================================
