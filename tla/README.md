# Verification of ict_x_claude

`ict_bot` detects chart patterns in one-minute futures bars, turns them into
trade signals, and either replays history with them (backtest) or sends market
orders through a bridge (live). This directory holds TLA+ models of it, the TLC
configurations that check them on small instances, and proofs, checked by
TLAPS, of the properties that matter most.

    tlc -workers 2 -config Backtest.cfg MCBacktest.tla     # a model-checking run
    tlapm Backtest_proofs.tla                              # a proof module

`PROJECT.json` lists the components, the runs, the findings, the hazards, the
theorems, which lines of the source each definition models, and for each
property a mutant: a plausible slip in one definition (kept beside it, marked
"Mutant") under which TLC finds the property violated.

Paths below are relative to `src/src/ict_bot/` unless they start with
`scripts/`, `docs/` or `configs/`.

## 1. The system

Data flows one way, `bars -> marks -> signals -> entries -> fills`, and control
comes from outside: the clock, the operator, the bridge, the supervisor.

| Component | State it keeps | Operations | Talks to |
|---|---|---|---|
| Data (`data/`) | parquet cache | load, clean, resample, report gaps | source files, a local HTTP server |
| Validation (`validation/`) | none | walk-forward folds, bootstrap, sensitivity | the data, the engine |
| Detectors (`structure/`, `signals/imbalance, liquidity, blocks, ranges`) | none: functions of a series | swings, displacement, legs, gaps, pools, sweeps, clusters, order blocks, breakers, mitigations, rejections, dealing ranges, structure events | each reads the marks of those before it |
| Signal pipeline (`signals/setups`, `backtest/runner.py`) | none | four setups, `detect_all_signals` | called once by a backtest, once per bar by the live runner |
| Sessions (`sessions/`) | none | entry windows, news block, lunch, force-flat minute, midnight filter, session labels | asked by engine, live runner and shadow log |
| Risk (`risk/`) | `LimitsState`: day, start equity, pnl, trades, streak, lock | reset, register, `can_trade`; `size_position` | kept by the engine and by the live runner, separately |
| Backtest engine (`backtest/engine.py, portfolio.py`) | pending entries, positions, equity, limits, trades | one pass over the bars | sessions, risk |
| Paper broker (`execution/paper_broker.py`) | orders, positions, brackets | submit, on_bar, cancel | live runner, in a dry run |
| Live loop (`scripts/run_live.py`) | bar aggregator, kill switch, paused, exit code | commands, feed, bar, SIGINT, crash, clean-up | all of the below |
| Live runner (`execution/runner.py`) | limits, midnight open, seen indices, paused | `on_bars_window` | pipeline, broker, shadow log |
| Quantower broker, Lucid executor (`execution/quantower/`) | last feed price | market order with bracket, flatten, equity | the bridge, over HTTP with timeouts |
| DOM client (`execution/quantower/dom2_client.py`) | last snapshot | read the feed file | the file another program writes |
| Telegram commander (`notifications/telegram_commander.py`) | offset, queue | start (skip what is pending), poll in a thread | Telegram; the loop drains the queue |
| Supervisor (`scripts/supervisor.py`) | crash times, current process | launch, wait, cooldown, forward SIGINT | the process's exit code |
| Shadow log, notices (`notifications/`) | today's file | append a row, summarise | the live runner |
| Reporting, ML, configuration, scripts | none that changes | batch computations | files |

What is hard about it:

- **Time of knowledge.** A detector may look at bars after the one it speaks of.
  A backtest sees the whole series at once, the live runner only its past: where
  the two disagree, the backtest is worth nothing. No unit test compares them.
- **Checks made once.** A signal passes the limits, the window and the position
  check on its own bar and is filled on the next without most of them; closes
  and a change of day lie in between.
- **One thread for everything** in the live bot: feed, detectors, orders with
  timeouts, flattens, commands and the SIGINT handler, which interrupts the
  others anywhere.
- **Answers that are lost or late**: an order that timed out may be executed; a
  Telegram update may be delivered twice, or to the next process.
- **Restarts**: everything is in memory, and each exit code has a meaning.
- **Clocks**: stamps that are the host's local time taken for UTC, minutes that
  never come, 16:30 exactly.
- **Two brokers and one contract.** The bracket of a live order is made of
  distances from one price and laid around another; the paper broker claims to
  mirror an engine that fills and exits by rules of its own.
- **Data that is told twice.** A cache file is trusted because it is there,
  whoever wrote it, from whatever source, for whatever dates, and whether or not
  the write ended.

What makes each part correct, in a sentence: the *engine* never holds a position
outside its rules and accounts for every signal; the *limits* once reached hold
for the day; the *sizer* stays in its budget; the *detectors* say on time what
they say and do not revise it; the *pipeline* gives a backtest the signals the
live runner had, but for targets at pools told since; the *live loop* sends no
order while something blocks it, ends when told and flattens on the way out; the
*commander* takes each command once and in order, and none from before its
start; the *supervisor* relaunches what should be relaunched and nothing else; a
*broker* opens at most one lot for an order, whatever becomes of the call; a
*load* is one version of one source, and what is derived of it neither looks
ahead nor counts a moment twice.

## 2. The modules

| Module | Models | Role |
|---|---|---|
| `Sessions` | `sessions/killzones.py`, `midnight_open.py`, `sessions.py`, the modes of the shadow log | operators on minutes of the day |
| `Risk` | `risk/limits.py`, `risk/sizing.py` | operators on a `LimitsState` and on prices |
| `Backtest` | `backtest/engine.py`, `portfolio.py` | state machine; extends the two above |
| `Broker` | `execution/broker.py` as its callers rely on it | the abstract specification of a broker |
| `PaperBroker` | `execution/paper_broker.py` | state machine; implements `Broker` |
| `Parity` | the paper broker beside the engine | composition of `Backtest` and `PaperBroker` |
| `QuantowerBridge` | `execution/quantower/broker.py, lucid_executor.py, dom2_client.py` | state machine; implements `Broker` |
| `BotProcess` | `run_live.py` as seen from outside | the abstract specification of the live process |
| `LiveTrading` | `run_live.py`, `execution/runner.py`, `execution/quantower/` | state machine; implements `BotProcess` |
| `RemoteControl` | `telegram_commander.py`, `supervisor.py` | state machine; composes `BotProcess` with commander and supervisor |
| `Lists` | the list comprehensions of the live loop and the supervisor (`[r for r in rows if ...]`) | a filter as a recursive function, which proofs can reason about |
| `Series` | `signals/base.py` | candles and intervals |
| `Structure` | `swings.py`, `displacement.py`, `liquidity/pools.py, sweep.py` | functions of a series |
| `PDArrays` | `imbalance/fvg.py, bpr.py`, `blocks/order_block.py, breaker.py` | functions of a series and marks |
| `MarketStructure` | `structure/market_structure.py` | the walk that emits BoS, ChoCH, MSS |
| `Setups` | `signals/setups/`, `detect_all_signals` | from marks to signals |
| `PDRegistry` | `imbalance/volume_imbalance.py`, `blocks/mitigation.py, rejection.py`, clusters of pools, `ranges/` | the detectors no setup reads |
| `Pipeline` | the above on a growing series, `execution/runner.py` 91-97 | state machine |
| `Frames` | `data/loaders/`, `resampler.py`, `validators.py` | operators on tables |
| `WalkForward` | `validation/walk_forward.py` | the cut into folds |
| `MarketData` | loads with their cache, and the studies on them | state machine; extends the two above |

`MCBacktest`, `MCLiveTrading`, `MCPipeline` and `MCMarketData` are the instances
TLC checks; `X_proofs` holds the theorems about `X` (`Backtest_proofs` also those
about `Parity`), and `DataLemmas` the lemmas on lists, sums and finite sets that
they share.

Prices are whole ticks and money whole units; thresholds that are fractions in
the code are hundredths (tenths for a reward ratio), and comparisons are
multiplied out, so no rounding is introduced. The bar the code calls index `i`
is bar `i + 1`.

### Backtest

The loop body of `run_backtest` runs numbered sections; each is a phase,
`next -> flat -> stops -> fill -> signals -> next`, then `final -> done`, and
each turn of a section's own loop is one action: `NextBar` (reset on a new day,
midnight open), `FlattenOne`/`FlattenDone` (16:30), `ExamineStop` (stop before
target, slippage), `FillPending` (entries of an earlier bar, at this bar's open:
window, gap past the stop, size), `TakeSignal` (limits, window, midnight filter,
no *filled* position), `RecordEquityPoint`, `FinalFlatten`. `CloseAndRegister`
is `close_position` with `register_trade`, in one step as in the code. The
stamps of the series are a constant; candles and signals are chosen as the run
reaches them, so the properties hold whatever the detectors find.

### Broker, PaperBroker and Parity

`Broker` says what the callers of `execution/broker.py` may count on: an order
opens one lot at most, at once, later or never; a lot goes away by a bracket or a
flatten; nothing else opens one. `PaperBroker` has an action per method.
`FeedPrice` compares the new price with the bracket (stop first, which slips),
`SubmitMarket` fills at the last price fed plus the slip, `CancelAll` takes the
bracket of an open position with it, `FlattenAll` closes at the last price. Money
is kept, so that `EquityUsd` can be compared before and after.

`Parity` runs the engine as in `Backtest` and feeds the broker the open of each
bar and then its extremes in either order. `agreement` records whether the
bars have so far decided what happens ("exact"), left open which level came first
("pessimistic"), or hit a case where the two differ by design ("none": a level
touched on the bar of the fill, an open past a level at 16:30, a second fill of a
bar).

### QuantowerBridge

The adapter, its feed and its executor without a runner. `SubmitMarket` reads a
snapshot, makes two distances of the levels and posts; `BridgeHandles` and the
late variant execute or refuse; `OrderReturns` is the answer or the timeout; a
fill lays the bracket around its own price. An answer that does not literally
say `"ok": false` is an acceptance to the executor (`lucid_executor.py:177`); that
the bridge, which is not part of this code, has then executed the order is
assumed here and in `LiveTrading`: what is said of accepted and executed orders
rests on it. `Reads` is the feed: its stamp of
freshness is set before the rest is parsed, so a read that fails may still keep
the feed alive. The dry run is told that its orders were accepted, and its
flattens are sent. `LiveTrading` has the same calls without prices, inside the
loop.

### LiveTrading and BotProcess

`pc` is the place of the one thread; "posted" and "flattening" are the places
where it waits for an HTTP call. `Sigint`, `Command`, the bridge's answers and
the closing of positions at the exchange may happen at any of them. A call ends
with an answer or a timeout; an order whose call has timed out stays in `late`
and may still be executed. `Snapshot` is the aggregator: it may skip minutes and
the clock may step back. A bar's stamp is what `scripts/run_live.py:294` makes
of the feed's time: the host's local time without a zone, which `utils/tz.py:22`
takes for UTC. So a stamp is the minute in New York plus the host's distance
from UTC (`Stamped`, `StampOffset`: any integer), which is nothing only on a
host that runs on UTC (what polars makes of zoned times in the frame of line 116
is taken to keep them, and could only add to that distance); a change to or from
summer time is a step of that clock. Windows, 16:30 and midnight are judged on
stamps in the code and here, and whatever is said below of minutes of the live
bot is about stamps. The detectors are the choice of a batch in `Detect`.
History variables (`cause`, `lastRequest`, `executed`, `row`, `streak`, ...) are
grouped at the end of the declaration and read by no guard of the code.

`BotProcess` is what the process promises to those outside: it takes up
commands, handles them in order, sends orders only between commands while
nothing blocks it, and ends in a few ways with a given exit code. `LiveTrading`
maps its places to three phases (`Phase`) and implements it, fairness included;
`RemoteControl` uses it in place of the loop.

### RemoteControl

Telegram keeps updates until a `getUpdates` with a higher offset. The offset
lives in the process; `LaunchSucceeds` is `commander.start`, whose one call may
fail and be only logged. Answers may be lost after the server has confirmed
(`PollUnanswered`). The supervisor's `Fork` and `Assign` are two steps, as
`Popen` and the assignment of `current` are; crash times are kept as ages.
SIGINT to the supervisor may come at any step.

### The pipeline

Every detector is a function of the series, so the modules define functions, not
steps. Where the code walks forward and stops at the first hit, the definition
says which bar that is (`FirstOf`, `Stands`, `LegEnd`); where it carries state
from bar to bar (Wilder's average, the structure walk), it is a recursive
function over bars. `ScaledAtr` keeps the average as an exact fraction by
scaling it with a power of the lookback. `Pipeline` appends a bar per step and
recomputes, as the live runner does, and remembers in `live` which signals were
on the last bar when they were found. The runner calls `detect_all_signals` without
a configuration (`execution/runner.py:94`), so the target strategy of the run is
the default, `nearest_pool`. The series only grows: the trimming of the
window and the indices seen before are in `LiveTrading`.

While the modules were written, their definitions were compared with the Python
detectors on random series with the same parameters, and gave equal results; the
comparison is not part of this directory and nothing below rests on it. The two
look-backs the code fixes (50 bars for a taken pool, 10 for the breaking gap)
are constants here so that they bite within a short series.

### MarketData

A process uses one loader. Its sources grow by themselves; a load is given one of
them (`csv_path`, `url`, `csv_dir`) and works through its cache files, whose names
hold the family, the symbol, or the symbol and the day, and never the source
(`Key`). It goes through the
files one at a time: trusted if there (`CacheHit`), raised on if torn or
missing (`Raises`), else parsed and written (`Parse` truncates the file,
`WriteDone` completes it), and `Dies` may come at any step. What the three
parsers make of a source is in `Frames`: `Continuous` (the contract of the day
with the most volume, one row of a moment), `Normalized`, `TicksOf`. Where the
code sorts or drops duplicates without promising an order, the operator is the
set of results it may give. `written` and `maker` remember what a file was made of
and of which source. `Study` resamples what was loaded and cuts it into
folds; divisions of time round as `timedelta` does.

## 3. The runs

| Run | Distinct question | Outcome |
|---|---|---|
| `backtest` | Do limits, gate, sizing and accounting hold together over two days, and beside the paper broker? | passes |
| `backtest_parity` | Does the paper broker mirror the engine (`execution/paper_broker.py:5`)? | violated: its entries slip, the engine's do not |
| `live` | Are window, gate and end of the live loop right under every interleaving? | passes |
| `live_limits` | Does the losing streak stop live entries (`execution/runner.py:10`)? | violated: no trade is ever registered |
| `live_shadow` | Is every detected signal recorded (`docs/OPERATING.md:174`)? | violated: window indices outlive their window |
| `remote` | Are commands taken once, restarts honoured, the crash budget exact (`docs/OPERATING.md:126`)? | passes |
| `remote_crash` | Is a crash relaunched (`docs/OPERATING.md:126`)? | violated: a crash of the loop exits with 0 |
| `pipeline` | Is what is said of a bar final when it should be? | passes |
| `pipeline_lookahead` | Was each signal there on its bar (`signals/setups/base.py:35`)? | violated by silver_bullet and ob_ote |
| `paper` | Is the paper broker a broker, and does a flatten only realise? | passes |
| `bridge` | Is the live broker a broker, with the bracket that was asked for, under lost and late answers? | passes |
| `data` | Is a load one version of one source, and does nothing made of it look ahead or count twice? | passes |

What the passing runs show:

- **backtest.** Although the fill loop asks neither the limits nor the open
  positions, no entry waits while the limits forbid trading
  (`PendingUnderLimits`); no position outlives 16:30 (`NothingCarriedPast1630`,
  when the entry windows are enforced: with them off, an entry may fill on the
  16:30 bar after its flatten); positions that are open together were signalled
  on one bar; the daily count is exceeded by at most a bar's signals; a locked
  day stays locked; a stop always costs; the risk from the actual fill is within
  the budget; every signal is accounted for once. On bars that decide what
  happens the paper broker and the engine are the same account but for the slip
  of the entries (`ParityOnClearBars`), and on those that do not, the engine
  never shows more (`StopFirstIsPessimistic`).
- **live.** The window is ordered and bounded, each bar is handled once even
  when the clock steps back; an order is never sent while paused, killed,
  outside the windows or against the midnight open, whatever arrives between the
  decision and the order, and in the modes the shadow log evaluates it is sent
  only where the log's label says so; after a crash, SIGINT or /restart the
  flatten is the last request; an executed row is backed by an execution (the
  converse fails by design: a late execution has a row that says it was not);
  once the bar stamped 16:30 is handled the day's last request is no order, and
  from the first bar stamped so or later none is sent before the next day,
  whether or not that minute came (`QuietAfter1630`); and the loop implements
  `BotProcess`. "Outside the windows" and "after 16:30" are about the bar's
  stamp. That the positions of the day are closed at 16:30 is not shown, since
  it is not so (below).
- **remote.** Each update is looked at once and in order in spite of lost
  answers; a command from before the launch fires only if the start's call
  failed; messages to a running process are looked at or the process ends;
  /restart relaunches; the supervisor relaunches failures and gives up after
  exactly the budget (`CrashBudget`), as `docs/OPERATING.md:126` says and the
  docstring of the supervisor denies (below).
- **pipeline.** Swings, sweeps and taken pools are told on time and never
  revised; displacement, gaps, blocks, imbalances and rejections likewise, once
  the bars they look ahead are there (a mitigation may be withdrawn while its
  grace lasts); structure events settle two bars after their bar. So do the
  signals of mss_fvg and silver_bullet, with the target strategy the live runner
  has: a later bar may only aim them at a pool which that bar confirms, or take
  them away because that pool is too near to pay (`SignalsSettle`). What the
  live runner took from ob_ote or unicorn, a backtest over any longer series
  finds, at the target it had or at a pool told since, unless such a pool is too
  near (`LiveSignalsStand`). So what a backtest and the live runner disagree on
  is named: later pools, and the signals of silver_bullet and ob_ote that lie on
  bars before their knowledge (`pipeline_lookahead`, whose trace says nothing of
  targets).
- **paper.** Whatever is fed, cancelled and disconnected in between, an order
  opens one lot once (`KeepsContract`); a flatten turns the estimate of
  `equity_usd` into money at the same prices and leaves no bracket behind.
- **bridge.** Every lot has its stop and target on the proper sides of its fill,
  at the distances the order named from its reference (`LotsAreGuarded`,
  `BracketMovesWithFill`), which the market may have left by then; an order that
  was acknowledged is settled, never still open (`AcceptedIsSettled`); a timeout
  decides nothing about the order; and it is a broker (`ImplementsBroker`).
- **data.** Whoever filled the cache, with whatever dates, and whichever writes
  died, an answer holds, of each file it reads, all rows of one version of one
  source for the dates asked: of its own source if it does not take the cache,
  else of the source the cache was made of (`AnswersAreOneVersion`); the
  continuous series says of a day that is over what it would have said then; no
  moment is tested in two folds and the embargo separates all training from all
  testing, if it is of a bar at least, which `validation/walk_forward.py` does
  not check (its default is 60); resampling in steps is resampling at once, by
  the clock of the frame (a bucket over a change of summer time is not
  modelled); the gap report counts exactly the missing bars, and with the filter
  exactly those that lie in no gap about the break: a gap about it is forgiven
  whole, however long, as its docstring says (`data/validators.py:55`).

What was met while modelling and is not a run:

- A load that takes the cache answers the rows of whichever source filled it: the
  file is named by the family (`data/loaders/cme_csv.py:34`), the symbol
  (`ohlcv_http.py:59`) or the symbol and the day (`l2_csv.py:74`), so
  `scripts/run_backtest_cme.py --csv other.csv` without `--refresh-cache` tests the
  first CSV again.
- The docstring of the supervisor (`scripts/supervisor.py:4-6`) says that a crash
  "is respected and the supervisor exits too", `docs/OPERATING.md:126` that it
  relaunches up to five times in ten minutes. The code does the second, and `remote`
  shows it.
- The force-flat asks for a bar stamped exactly 16:30 (`execution/runner.py:86`) and
  does not retry: a minute without a snapshot, or a call that fails, leaves the
  positions open past it, where `docs/OPERATING.md:85` and `scripts/run_live.py:16`
  say that they are flattened. Nor is the stamp New York's 16:30 unless the host
  runs on UTC, though `docs/architecture.md:61` says that every time is converted
  on ingest.
- `configs/lucid_propfirm.yaml:52-56` gives thresholds and `tp_strategy: fixed_R`,
  which the live path does not read: `execution/runner.py:94` passes no configuration,
  and the targets are pools.
- A silence longer than the window ends the bot: the rows are empty when the next
  bar closes, and a frame of no rows has no stamps to convert, which raises
  (`scripts/run_live.py:116`).
- Two signals of one bar are both filled (the position check asks only for *filled*
  positions, `backtest/engine.py:277`), and live orders are sized one by one, so
  the account may exceed `max_quantity` (`configs/lucid_propfirm.yaml:29`).
- Commands from before a launch fire when the one call of the start fails
  (`notifications/telegram_commander.py:58`).
- The structure walk compares roles where `docs/concepts/02_market_structure.md:44`
  speaks of the latest swings; a rejection may use a pool that was taken although
  `blocks/rejection.py:29` says active; a stop of `mss_fvg` may lie past its entry
  after a jump between bars (`signals/setups/mss_fvg.py:64`), and it is the
  engine's gap check that drops the fill; the power-of-three gate takes sweeps in
  the order of their pools, not of time (`po3.py:67`); the selector drops order
  blocks by default, as nothing sets `htf_anchored`.

### Bounds, and why they are enough

- `Backtest.cfg`: ten bars on two days at the minutes where some answer changes
  (midnight, both sides of the news block, a morning in which a position can
  fill, stop out and be followed, the last entry minute and 16:30 right after
  it, a second morning without a midnight bar); four candle shapes (quiet, stop
  and opposite target, target, a gap past the short's stop); batches of none and
  of two signals. Limits are small (two trades, two losses, 12 %) so that each
  of them is reached by a day of this length.
- `LiveTrading.cfg`: seven stamps over two days, among them one in the evening
  after 16:30, any of which may be silent, on a host an hour off UTC; silences
  longer than the 600-minute window and two bars that get the same index; one
  command and one late order at a time (`MaxCommands`, `MaxLate`); a batch of
  two signals, one of which the equity cannot carry; equity readings that
  include NaN. Commands are handled one at a time and carry no history beyond
  `paused`, so a second one meets the states the first one can leave. Batches of
  several commands are in `remote`.
- `RemoteControl.cfg`: two messages, a crash budget of two, a window of two
  ticks: enough for a batch of two commands, one confirmed and one not, a crash
  that has aged out beside one that has not, and any number of launches (the
  budget and the ids are the only counters; ages stop just past the window).
- `Pipeline.cfg`: series of up to twelve bars that go on for five bars from
  eight stories of seven, with eight bar shapes (bodies that displace, with and
  without a jump at the open, small bodies, wicks that pierce). The parameters
  are the least at which every detector finds something: fractals of one, an
  average of two bars, legs that bridge one bar, runs of two. Every setup gives
  signals in both directions in this space.

- `PaperBroker.cfg`: two symbols, three prices (at, beyond and between a stop and
  a target), two orders: enough for both sides at once, a second order on a held
  symbol, a flatten of one and of all.
- `QuantowerBridge.cfg`: three prices, two orders, either sign, with the market
  free to move between snapshot and fill: one order may be late while the next is
  waited for.
- `MarketData.cfg`: two days of four minutes with the break in the third, three
  rows of a source (a tie between contracts, a spread, a minute told twice, a
  malformed row), and a second source of the same family with one row or none, two
  and three folds, timeframes of one, two and four minutes. A cache is written by
  one call and read by another with the source grown in between, or given the
  other source.

Deadlock is not checked in `Backtest`, `LiveTrading`, `RemoteControl` and
`Pipeline`: the engine and the processes end, and the series is bounded. The
brokers and the loads never stop, and it is checked there.

### Fairness

- `Backtest`, `Pipeline`, the brokers, `MarketData`: none, since no property of
  theirs is about what must happen.
- `LiveTrading`: weak fairness of `Loop` only. Every HTTP call of the thread has
  a timeout and nothing else in it waits, so its call returns; the bridge, the
  feed, the operator and SIGINT get none.
- `RemoteControl`: weak fairness of the supervisor's steps, of the launch, of
  the loop's handling of commands and its end (`LiveTrading` shows it of the
  loop: `ServesItsOperator`) and of looking at an answer; strong fairness of an
  answered poll, since the commander retries for ever and the network is
  assumed not to fail for ever. Nothing is assumed of the operator, of crashes
  or of time.

## 4. The proofs

Checked by `tlapm` for every value of the constants that satisfies the named
assumptions.

**`DataLemmas`.** The library's induction theorems take an operator as a
parameter, which the installed provers cannot instantiate. Here induction is
stated for a set instead: a set of numbers that holds 0 and is closed under
successor holds all numbers (`NaturalsFollow`, from the well-foundedness of `<`
by `WFMin`), and in the same form for lists (`SequencesGrow`) and finite sets
(`FiniteSetsGrow`). A definition by recursion is then a choice of a function that
exists and is unique, and both are proved. What follows is what the other modules
cite: what a filter keeps of any list (`KeepSelects`), what the sum over a finite
set does with an element, with two sets apart and with the sums of
parts (`SumAdd`, `SumApart`, `SumOfSums`), and that a finite set has
a first element in any total order (`FirstElement`).

**`Backtest_proofs`**, the engine (from `EngineAssumption`,
`LimitsAssumption`, `SizingAssumption`): `TypeCorrect`, `FillsUnderLimits`,
`TradesPerDayBounded`, `FillsOnTheNextBar`, `PositionsNeverStack`, `LocksHold`,
`RiskIsBounded`, `FlatAfter1630`, `EverySignalAccounted`, `StopsLose`: all its
properties without the paper broker. None of those of the pending list is inductive:
the fill loop does not ask what they say. The strengthening ties the list to the
phase: what is pending was submitted on this bar or the one before; when
it was submitted nothing was open and the limits allowed it; and only a close
changes the limits, which needs an open position. So as long as something waits
the limits are those of its submission, except that a new day resets them.
`PendingInvariant` is that argument, and the properties follow from it. A lock
holds because `RegisterTrade` only adds to the day's trades and because a streak
that a later win resets leaves the lock's own flag set. The risk bound is
arithmetic on `SizePosition` (floor division, then the clip), given a minimum
quantity of at most one: a larger minimum overrides the budget, in the code too.
`FlatAfter1630` rests on the gate: a position is filled at a minute at which
entries are allowed, which 16:30 never is (`NoEntryAt1630`). `StopsLose` needs
that a position was filled on the proper side of its stop (`SoundPosition`);
`EverySignalAccounted` that the fill loop and the closes move, and never copy.

The two accounts (also from `MarketAssumption` of `Parity`: a bar opens within its
range, and a target is no nearer than its stop): `AccountsAgree` and
`EngineIsPessimistic`. Engine and paper
broker close one position at different moments of a bar, so at most moments the
accounts differ, and equality at the bars' ends is not inductive. `Accounts` names
the four ways they can stand: both flat; both holding, with the one's bracket
equal to the other's levels (`Twin`); the broker out on the open and the engine
about to close at the same level (`BrokerFirst`); or the engine out in its
section 2 while the price that decides is still to be fed (`EngineFirst`). Each
says by how much the accounts differ, as an equality while the bars decide what
happens and as an inequality when they leave it open. That the deciding price
touches the bracket, and is worth to the broker what the engine booked, is
arithmetic on the levels (`DecidingPriceTouches`).

**`LiveTrading_proofs`** (from `LiveAssumption`): `LiveInvariant`,
`RowsBacked`, `FlattensLast`, `EntriesUnblocked`, `LiveImplementsBot`, and
`LabelsAreGates`: in each mode the label of a minute says what the gate of that
mode says, although one is a first match over a list and the other a
disjunction with exceptions. The
invariant `LiveInv` has a part per actor: where the thread can stand
(`PlaceOK`), that the kill switch trips only on the way out
(`KilledOnTheWayOut`), that bars are handled with no command left
(`NoCommandLeft`), that what the gate was decided on has not changed since
(`GateIsFresh`: only the thread itself, and SIGINT, which ends the loop, can
change it), that a loop left by crash, SIGINT or /restart flattened last
(`LeftFlat`), and that "ok" is only said of an executed order (`AnswerBacked`).
`LiveImplementsBot` is the safety part of the refinement; each step maps to a
step of `BotProcess` or to a stutter, and the invariant supplies the guards
`BotProcess` has and the loop does not test. The window has an invariant of its
own, `BarsInv`: a trim keeps an ordered part of an ordered list (`KeepSelects`),
and the bar that is appended is later than all of it, since a clock that steps
back closes no bar. From it `WindowsAreSound` and `BarsAreHandledOnce`.
`QuietAfterFlat` adds that while the window holds the 16:30 bar of its last bar's
day, the gate is closed and what was sent last is no order; the trim cannot drop
that bar and keep the day open, because from 16:30 on no entry window of the day
is open (`ClosedFromFlat`, `NoEntryAfterClose`), which is also why no order follows
a later bar when 16:30 itself was silent. All of it holds for every offset of the
stamps. `LiveTypesHold` is the type invariant.

**`RemoteControl_proofs`** (from `RemoteAssumption`): `UpdatesLookedAtOnce`,
`OldCommandsSkipped`, `BudgetIsExact` and `RemoteTypesHold`, from the invariant
`RemoteInv`. What was looked at lies below the offset, what the commander has
still to look at does not, and both lists are in the order of the chat
(`ChatInv`, `OffsetInv`): so an update that is fetched again because its answer
was lost is above what was looked at. Once the start's call told what to skip,
everything older than the launch is below it (`SkipInv`). The supervisor
filters its list of crashes only when a process has failed; that what the window
keeps of that list is every death the window holds, however long ago the list
was filtered, is `BudgetInv`, and that the supervisor gives up exactly at the
budget follows.

**`Pipeline_proofs`** (from `PipelineAssumption`, `SoundBars` where named, and
the assumptions on the parameters of the detectors): a step appends one candle,
so each theorem compares a detector on a series with the same detector on the
longer one. `LiquidityCausal`: swings, pools, sweeps and consumptions; for
sweeps and consumptions because whether a pool still stands at a bar is decided
by the bars up to it (`SameTouches`). `ArraysCausal`: the other detectors.
Wilder's average, the leaders of the clusters and the structure walk are
recursive functions; each is shown to be equal on both series at the bars they
share, by induction over the bars or the prices. A leg at the end of the series
may still grow, and what is looked for from a block on is found once
(`InvalidationStays`, `RetestStays`): hence the shape of what may be revised.
`EventsSettled`: the walk reads of a bar only marks that are settled two bars
later (`TaleOfWalk`). `SignalsSettled` and `LiveSignalsStay` hold for both
target strategies. What a later bar can do to a target is to confirm a pool: the
nearest pool in reach may then be a new one (`Retold`) or one too near to pay
(`Crowded`). `SignalsSettled` takes `FallbackPays`, that the target used when no
pool is in reach pays: by the defaults it is 3.0 times the risk and has to be
1.5. Otherwise a signal that was dropped for want of a pool could come up when a
pool is confirmed. `LiveSignalsStay` takes that `ob_ote` asks for no place
within the leg (`RequireInsideOte = FALSE`, the default of
`signals/setups/ob_ote.py`), as the range of a leg still grows.
`PipelineTypesHold` needs `SoundBars`: a candle's high and low enclose its open
and close. The aggregator and the resampler build such bars; of those read from
a file it is what the columns mean, and no loader checks it. On a bar without it
`Interval` raises (`signals/base.py:55`), which the models leave out.

**`PaperBroker_proofs`** (from `PaperAssumption`): `PaperShape`, that a position
has a price, a number and a symbol that was fed, and that only a position has a
bracket; with it `PaperImplementsBroker`. A feed, a flatten and a disconnect map
to `Exit` or a stutter, `SubmitMarket` to a `Submit` that executes at once.
`PaperTypesHold` is the type invariant. `FlattenRealisesHolds`: what a flatten
books for the symbols it closes, and the estimate leaves for those it does not,
add up to the estimate before it less the commissions, for any finite set of
symbols.

**`QuantowerBridge_proofs`** (from `BridgeAssumption`): `BridgeInvariant` says
that request, late orders and lots are disjoint parts of the orders issued, each
with a valid bracket, and that an answer is only there when the request is not.
From it `LotsStayGuarded`, `BracketsMoveWithFills`, `AcceptedOrdersSettle` and
`BridgeImplementsBroker`, where `asked` is the request together with what is late:
a timeout is then no step at all. `BridgeExecutesOnce` is concluded from the
contract alone: no order stands for two lots, and none is still open once
executed.

**`MarketData_proofs`** (from `MarketAssumption`, `FramesAssumption`,
`WalkForwardAssumption`): all five properties. `MarketInvariant` says of each
file what it may hold given what its source held when it was made, and of a call
under way what it has collected. `LoadsAreOneVersion` follows for a single file
at once; for ticks it needs `TicksInv`, that what a call has gathered is what
the files hold of the days it is through with. That a load which passes by the
cache answers its own source is `MakerInv`: the files it is through with it made
itself. `RollsAreCausal` needs that the source is in the order of its time
stamps (`TimeInv`): the rows of a day that was over are then the same in every
longer file (`PastTellsTheSame`), and so are its volumes, its front month and
the row kept of each moment. `StudiesTestOnce` is the arithmetic of the folds (a
division that rounds to the nearest stays within its bounds, so a fold's window
ends before the next begins). `GapsAreCounted`: between two labels there are as
many labels as the quotient says (`MissingCounts`); every label that is missing
lies in the gap of one pair of neighbours, and each gap holds nothing else
(`DueAfterBars`, `GapsHoldTheMissing`); so a sum over the gaps that are counted
counts their union, with the filter as without it (`PartsCount`).
`ResamplingComposes`: the rows of a coarse bucket are those of its fine buckets,
in order (`BucketsNest`), so open and close, extremes and volume of the one are
those of the others (`BucketTwice`); nothing is assumed of missing rows, of ties
or of the order of the table. It uses that prices and volumes are integers:
prices are in ticks, and the code's volumes are counts.

Assumptions on constants are of three kinds: types; the shape of data the code
relies on (`MarketAssumption` of `Parity`, `SoundBars`); and finiteness of what is
finite in a program (`Symbols`).

Only model-checked: the liveness properties `ServesItsOperator`,
`MessagesArrive` and `RestartRelaunches`, and the fairness part of the refinement
of `BotProcess`, since the prover handles neither ENABLED nor fairness. Every
other property of a passing run is a theorem; the expected violations are TLC's
counterexamples.

## 5. Not modelled, and why

- Reporting, ML, configuration, logging, the research scripts: batch
  computations or layout, without a state to go wrong. The classifier is called
  by no path of the bot.
- Bootstrap and sensitivity: numerical resampling; the statistics of a fold.
- The power-of-three gate, the selector and the inducement filter: nothing in the
  program calls them but their tests. What was seen of them is in section 3.
- `LiveRunner.run`, `KillSwitch.reset`: nothing calls them.
- The change of the shadow log's file at midnight, and notices: written, never
  read back. The executor's `modificar_sl`, which no caller uses.
- The wording of notices, r-multiples, timestamps of records, the depth and
  footprint columns of the data: no property reads them. The confidence of a
  signal is not compared by anything either.
- The configuration and the preflight of `run_live.py`: their exit codes are
  outcomes of `RemoteControl`'s launch.
- Changes to and from summer time: in `LiveTrading` they are steps of the clock; the
  resampling by local time of a frame that spans one is left out.
- The root of the cache directory and the symbol or family: one of each. Two
  processes at one cache directory at the same time.

## 6. Plan

Done, in this order: `Backtest` on `Risk` and `Sessions`; `BotProcess` and
`LiveTrading`; `RemoteControl`; `Series` to `Pipeline`; `Broker`, `PaperBroker`,
`Parity` and `QuantowerBridge`; `Frames`, `WalkForward` and `MarketData`;
`PDRegistry` and the session labels.

Proved after that, in this order: the engine's properties and the brokers'
contracts; induction over data (`DataLemmas`), and with it the live window, the
remote control, parity, the whole of the pipeline and of the loads.

Worth doing next:

1. The refinement of `Broker` by `Parity`'s broker read from the engine's side,
   so that a fill of the backtest is an execution of the contract.
2. `LiveTrading` with `QuantowerBridge` in place of its own calls, so that the
   bracket of an order that is late meets the limits and the flattens of the
   runner; today the two share the contract, not the prices.
3. The power-of-three gate and the selector, once a path of the program uses
   them.
