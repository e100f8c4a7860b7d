# StockRipper in TLA+

StockRipper runs LLM "tracks" against an Alpaca paper account: at fixed windows
of a trading day every track's agents discuss a set of symbols, the track's judge
decides on a plan of action items, and an execution adapter turns the items into
orders, under universal floors and the track's risk policy. A reconciliation pass
copies the broker's account back into a relational ledger; scoring and a
dashboard read that ledger.

This directory models the parts of the program where order, failure and
concurrency decide whether it is right: the trading day, the window runner and
the agents it runs, submission, reconciliation, the control plane, the
dashboard's event bus and the file cache and request limiter of the data layer.
Of its pure algorithms it models those whose results are stored or traded on:
the risk gate, the validators, the deterministic baselines, fundamentals,
universes and scores. TLC checks them on small instances. TLAPS proves, for all
instances, every safety property that a run expects to hold: of the execution
layer, windows, the orchestrator and the deterministic judges, the trading day,
the event bus, the data commands, the scores and the caps of the risk gate, with
two refinements of an abstract specification and one of a component by its caller.
Liveness is left to TLC.
Paths below are relative to `src/stockripper/` of the repository.

## 1. Inventory

| component | state | operations | hard behaviour | what makes it correct | model |
|---|---|---|---|---|---|
| Execution adapter (`execution/adapter.py`, `client_order_id.py`) | none of its own; one database transaction per action item | `submit_action` | reads, a broker call and writes in one READ COMMITTED transaction; several processes; answers lost; crash before commit | no order without an audited action; verdict, row and order agree; one order per intent | `Execution` |
| Universal floors (`risk/floors.py`) | none | `check_floors` | read once, before the broker call | nothing passes a kill, pause, unknown track or missing audit row | `Execution` |
| Risk gate (`risk/gate.py`, `risk/portfolio.py`) | none | `RiskGate.evaluate` | boundaries, zero equity, caps on sums over long runs | approvals stay within the policy | `RiskGate`, `RiskBook` |
| Control plane (`db/repository.py`, CLI) | kill switch, track pauses | engage, release, pause, resume | changes at any time, from another process | a block stops orders | `Execution` |
| Ledger (`db/repository.py`, `db/models.py`, `db/engine.py`) | orders, fills, actions, audit, snapshots; runs, track runs, agent runs, recommendations; scores | upserts, lookups | two writers per row, stale lookups, unique keys, widths, foreign keys | never claims what the broker did not do | `Execution`, `OrderLifecycle`, `TrackRun`, `RunDay`, `Scoring`; partly |
| Reconciliation (`agents/reconciliation.py`) | none; one transaction per pass | `reconcile_via_mcp`, `apply_reconciliation` | stale payload, one bad order aborts a pass, overlapping passes, a bounded report | every order and fill reaches the ledger, under its own track | `Execution`, `RunDay` |
| Alpaca paper account | orders, fills, equity | submit, query | fills at any time, other people's orders, lost answers | external | `Execution` |
| Window runner (`agents/window_runner.py`, `agents/persistence.py`) | the invocation; rows of the run | `run_window` | control plane read twice, failed pairs, swallowed persistence failures, overlap, crash | each plan item answered once; rows tell what happened | `WindowRunner`, `TrackRun` |
| Dashboard event bus (`dashboard/events.py`, `dashboard/app.py`) | queues of subscribers | publish, subscribe, close | bounded queues, slow or leaving clients, shutdown | order kept, only old events lost | `EventBus` |
| Run-day scheduler (`__main__.py`) | none | `run_day` | skipped windows, a pass that raises ends the day, a pass of the operator meanwhile | every window is run or skipped for its time; windows begin on current books | `RunDay` |
| Track orchestrator (`agents/orchestrator.py`, `base.py`, `registry.py`) | the results of the stages | `run_track` | agents on threads, quarantine, exceptions, fallbacks | stages are barriers; a quarantined agent never stops its track | `TrackRun` |
| LLM clients (`agents/llm.py`, `canned_llm.py`) | the packet a client is bound to | `run_structured` | refusals, exceptions, pairs at the same time | a canned client answers for the pair that asked; of a model nothing is promised | `TrackRun` |
| Council, adversaries, judges, baselines (`agents/*.py`) | none | prompts; deterministic baselines | ties, rounding | a baseline's plan is what its description says | `Baselines`, `TrackRun`; prompts left out |
| Schemas, ids (`agents/schemas.py`, `ids.py`) | none | validators, deterministic ids | ids and tracks that come from a model's answer | nothing unsupported goes downstream | `AgentSchemas`; partly |
| Prompt injection, sanitizer, evidence | none | text processing | none | | no |
| Scoring (`scoring/*.py`) | scores in the ledger | leaderboard, reward, judge regret | zero equity, single days, re-runs over a ledger that grows | agrees with its definition, and its parts with each other | `Scoring` |
| Data layer (`data/*.py`) | file cache, rate limiter | get/put, fetch, derive | readers and writers of one file, crash, retries, amended filings | whole documents, a limit kept, values that can be traced to a fact | `Research`, `Fundamentals`; partly |
| Universe (`data/universe.py`, `universe_policy.py`, CLI) | none | build | boundaries, missing answers, truncation | the most liquid of what the policy allows | `Universe`, `Research` |
| Alpaca MCP client and server (`agents/alpaca_mcp_client.py`, `tools/alpaca_mcp`) | a subprocess | calls over stdio | transport failure, bounded lists | | the two requests of a pass, in `RunDay` |
| Tracks, configuration, migrations, CLI pages | configuration | | none | | no |

How they interact: the scheduler calls the window runner and, around it, the
reconciler; the runner calls the orchestrator for every (track, symbol) pair,
then the persistence functions, then the adapter item by item; adapter and
reconciler share the ledger and the broker with each other, with other
invocations and with the operator's commands, and share nothing else. Events go
from the runner to the dashboard over HTTP and from there to websockets. The
universe commands come before the window, and the scoring commands after it, read
and write the ledger and nothing else; the data commands share the cache's files
and, within a process, its lock and the limiter.

## 2. Modules

```
RiskGate <--EXTENDS-- RiskBook <---------------------------- MCRiskBook
   ^                    ^------ RiskBookProofs
   ^------EXTENDS---- Execution <-- WindowRunner <---------- MCWindowRunner
                        |   |          ^---- ExecutionProofs    |
                        |   ^------ MCExecution <---------------+
                        +--INSTANCE-- OrderLifecycle
EventBus <-------------------------------------------------- MCEventBus
   ^------ EventBusProofs
RunDay <---------------------------------------------------- MCRunDay
   ^------ RunDayProofs
AgentSchemas <-- Baselines <-- TrackRun <------------------- MCTrackRun
                                  |  ^------ TrackRunProofs
                                  +--INSTANCE-- PairLifecycle
Universe <-- Research <------------------------------------- MCResearch
                |  ^------ ResearchProofs
                +--INSTANCE-- Fundamentals
Scoring <--------------------------------------------------- MCScoring
   ^------ ScoringProofs
Lists <-- Baselines, Universe, Fundamentals, Scoring, DataLemmas
DataLemmas <-- ExecutionProofs, TrackRunProofs, RunDayProofs, ResearchProofs,
               ScoringProofs, RiskBookProofs
```
(arrows without a label are EXTENDS)

**RiskGate** holds the gate as operators: `Evaluate(item, portfolio, policy)` is
the set of rejection codes of `RiskGate.evaluate`, one operator per check. Money
is an integer, a fraction of equity an integer percentage, so nothing is rounded.

**RiskBook** feeds the gate's answers back into a book of positions (`Trade`),
under changing equity (`Snapshot`): what the gate would guarantee if it were
shown the positions a track really has.

**OrderLifecycle** is the abstract specification: an order is placed, filled,
booked (order row) and settled (fill row); rows only follow the broker and are
never taken back; its liveness is that every placed order is booked and every
fill settled.

**Execution** is the execution layer. `submit_action` walks through
`floors -> gate -> submit -> answered -> commit -> idle`:

| action | code |
|---|---|
| `Begin` | `_action_to_intent`, which raises for an item sized in percent |
| `CheckFloors` | the track row, control plane and audit row are read, once |
| `Gate` | policy, gate, idempotency lookup |
| `BrokerAccepts`, `AnswerLost`, `BrokerRefuses` | `broker.submit`: the order is placed at the broker, with or without the answer, or the id is taken |
| `Upsert`, `Commit` | the lookups of `upsert_order`/`record_fill`, then the flush and commit; a row somebody else inserted meanwhile is an integrity error |
| `Fail` | any other exception, or a crash: rollback, but the broker keeps what it did |
| `Fetch`, `Stage`, `CommitPass`, `PassFails` | a reconciliation pass: payload, lookups, one transaction |
| `EngageKill` ... `ResumeTrack` | the operator |
| `PersistPlan` | the action rows of a judge's plan |
| `AccountMoves`, `BrokerFill`, `ExternalOrder`, `NextDay` | the world |

An order id is the tuple (track, intent, window label) that the code digests, so
the same intent of the same window of another day has the same id, as it has in
the code. `Strict` says whether the database enforces column widths and foreign
keys (PostgreSQL, the default) or not (SQLite as the tests use it). An upsert
writes only the columns that differ from what was loaded (`Merge`), as the ORM
does. `late` is a history variable: which process got an order of which track in
since that track was blocked.

**WindowRunner** drives Execution the way `run_window` does. Every process is one
invocation (its run id contains its start time): `Preflight`, `AgentsFinish`,
`Recheck`, `PersistOutcome` once per pair, `Finalize`, then `Submit`/`Attempt`/
`AttemptFails` per item, `EndExecution`; `Dies` is a crash.

**EventBus** has `Publish`, `Subscribe`, `Close` as steps (no coroutine is
suspended while it holds the bus's lock) and a subscriber's loop with its two
awaits: `Get` for `queue.get()`, `Sent`/`ClientGone` for `send_text`, and
`Finalized` for the generator's `finally`.

**AgentSchemas** holds the validators of `schemas.py` that a later step relies
on (`RecommendationValid`, `PlanValid`) and the ledger rows made of their values.
**Baselines** holds the plans of the three deterministic tracks as operators:
`QuantItems` takes the strongest buys (by conviction, then symbol, then the council's
order), `RandomItemSets` is the set of plans a
shuffle may lead to, `BenchmarkItems` is one item.

**Lists** says what Python's `sorted()` and comprehensions make of a list: the
k-th of a sorted list is the element with k - 1 others before it. Baselines,
Universe, Fundamentals and Scoring sort and filter with it rather than with
`SortSeq` and `SelectSeq`, which the prover cannot look into.

**PairLifecycle** is the abstract specification of a pair: it ends once, as `ok`,
`partial` or `failed`, only when every pair has ended are rows written, and a row
says how its pair ended. This is all WindowRunner assumes of `run_track`.

**TrackRun** is `run_track` for all (track, symbol) pairs of a window at once:

| action | code |
|---|---|
| `Begin` | `_run_one_track` up to the first stage: packet, client, binding; either may raise |
| `Answer`, `AnswerBadly`, `CallFails`, `NoClient`, `DecideLocally`, `Raise` | the ways out of `BaseAgent.run`, one step of one thread |
| `AfterClimate`, `AfterCouncil`, `AfterAdversarial`, `AfterJudge` | what `run_track` does between two `gather`s; the events at its end |
| `Abort` | `gather` raises the first exception, the threads go on |
| `Persist` | `_persist_window_outcomes`, one transaction per pair |

An id is the tuple it is derived from, or `Reused`, an id that two answers share.
`canned` says which clients the window was started with: those of the default factory
answer about the packet they are bound to (`CannedAnswer`, `CannedPlan`), a model
answers with any symbol, track, agent and id (`AnyAnswer`).

**RunDay** is the process of `run_day` and the passes around its windows:

| action | code |
|---|---|
| `PassStarts`, `GetOrders`, `Apply`, `Commit`, `PassFails` | `_do_reconcile`: `get_account`, `get_orders`, `apply_reconciliation`, commit; or any exception. One pass of the day and one of the operator may be under way |
| `Choose` | the head of the loop: skip, sleep, end, or `replace()` raises |
| `WindowBegins`, `WindowSubmits`, `WindowEnds` | `_run_one_scheduled_window`, of which only the orders that get in matter here |
| `DayDies` | an exception nobody catches, or a crash |
| `Tick`, `BrokerFill`, `ExternalOrder` | the world |

An equity is named by the second in which the account had it, so "which equity
does the newest snapshot hold" is a comparison of two instants.

**Scoring** computes rewards, regret and leaderboard over a ledger that grows
(`NewSnapshot`, `PriceKnown`), with `ScoreRun`, `JudgeRegret` and `Leaderboard` as
the three commands. Numbers are exact ratios; only what is stored is rounded.

**Fundamentals** and **Universe** are pure: `Derive` is `derive_fundamentals`,
`Build` is `UniverseBuilder.build` with the eight default policies. Money in
Universe is in units of 100,000 dollars for volumes, a million for market caps and
ten cents for prices. **Research** runs them as commands of two workers: `Lookup`,
`Unlink`, `OpenTmp`, `WriteTmp` and `Rename` are the steps of the file cache,
`Acquire`, `Send`, `Answered`, `NotServed`, `Refused` and `WakeUp` those of `_get_json`;
`AskAsset` and `BuildUniverse` those of a build. `Crash` kills a process.

### What is abstracted

- Names, prices, quantities and rationale; an action is a model value with its
  track, symbol, side, instrument and size. Packets and logging are left out, and
  events everywhere but in TrackRun and EventBus.
- The reads of one step (the three lookups of the floors; snapshot, policy and
  idempotency lookup) are one atomic step each; what lies between two groups and
  around the broker call is interleaved.
- A broker order is open or filled. That it is filled in part, cancelled, rejected or
  expires is left out: to the code these are words copied into the row's status, and
  quantities.
- A multi-leg item is one ticket and one position, as the adapter places it; whether
  its legs together are worth more or less than nothing is given (`Credits`).
- Floors that cannot fire for settings and items that were constructed: paper
  endpoint, schema validity, length of the id.
- In Execution `get_orders` reports every order, and there is one pass at a time;
  RunDay has the bound on the report, overlapping passes and the attribution of
  ids by their prefix, but not the steps of an attempt. In both a strict
  database refuses a pass that would store an order without a track (`Homeless`,
  `PassAborts`). `OwnerOf` of RunDay is the track of the prefix: the ids of the
  default tracks differ in their first four characters (`PrefixAssumption`).
- In WindowRunner the agents of a pair are one step with any outcome `run_track`
  can have: an `ok` pair has a judge decision, a `partial` one may have none.
  `ImplementsPairs` is where TrackRun shows that these are the outcomes.
- A call to a model is one step of its thread: prompts, retries inside the OpenAI
  client and the tool loop have no effect but the answer.
- Sharpe and Sortino ratios are their sign, and whether they exist at all.
- A document of the cache is its age, or `Torn`; what it says is fixed per
  setting. A tick is half a second, the unit of the backoff.
- Two workers with one cache are threads that share `JsonFileCache` and
  `SecEdgarClient`. The classes are written for that (locks, "across the process");
  the commands of the repository themselves are single-threaded, and meet as
  processes.
- Windows of WindowRunner lie within one day.
- `MockBrokerClient` is the broker that fills at once.

## 3. Runs

`tlc -config <cfg> <module>`, where the module is the part of the cfg's name before
the underscore; the runs named under "Symmetry" below use it, all others are an
exhaustive search without.

| run | cfg | checks | shows |
|---|---|---|---|
| risk_caps | `MCRiskBook_caps` | `CapsHold` | with real positions the gate keeps its caps over any run of approvals |
| exec_race | `MCExecution_race` | `LedgerBacked`, `AuditBeforeOrder`, `ApprovedHasOrder`, `Provenance`, `AtMostOneLateOrder` | two processes of overlapping windows, two actions of one intent, a reconciler, operators |
| exec_verdicts | `MCExecution_verdicts` | `OrdersWithinPolicy` | an item no equity admits, one that one equity admits, one in percent, one without a policy: no order escapes its policy |
| exec_recovery | `MCExecution_recovery` | `IInv`, `Lifecycle`, `OrdersBooked`, `FillsSettled`, `StatusConverges` | refinement of OrderLifecycle; passes repair what adapters lose, over midnight too |
| window_isolation | `MCWindowRunner_isolation` | `AccountsTruthful`, `EveryItemAnswered`, `WindowsEnd` | one pair's failure does not reach another; rows and reports are truthful; windows end |
| window_overlap | `MCWindowRunner_overlap` | `OrdersTraceToRuns`, `DrivesExecution` | two overlapping windows with one plan; the runner is a user of Execution as Execution assumes |
| bus_fanout | `MCEventBus_fanout` | `InOrder`, `NewestKept`, `QueuedIsDelivered` | order, loss only of old events, drain at close |
| track_run | `MCTrackRun_run` | `InputsSound`, `OwnPacket`, `QuarantineContained`, `AccountsAgree`, `BaselineSound`, `ImplementsPairs`, `PairsEnd` | an LLM pair and two baseline pairs at once, with canned clients and with models that answer about anything, one fault anywhere |
| run_day | `MCRunDay_day` | `WindowsAccounted`, `BooksCurrent`, `BooksBeforeWindow`, `TakenBackOnlyInOverlap`, `DayProceeds` | a day of two windows with passes that overlap, fail and see only the newest order, over a database that enforces foreign keys or not |
| scoring_ledger | `MCScoring_ledger` | `RanksRanked`, `MetricsAgree`, `ScoresMatchRegret` | scores computed again and again, over every short history of equities and every order in which prices become known |
| research_data | `MCResearch_data` | `DocumentsServed`, `LimiterHonoured`, `SummaryTraceable`, `UniverseSound`, `CommandsEnd` | two workers over one set of files, a crash, a retry; many filings; many markets under every policy |

A property that is a conjunction has its parts stated and commented one by one in
its module (`CapsHold` is `GrossSound`, `ShortSound`, `OptionsSound` and
`HoldingsBounded`). Every module states its type invariant too. No run lists one by
itself: those of Execution, WindowRunner, TrackRun, RunDay, EventBus, RiskBook and
Scoring are proved, and that of Research can be added to the cfg of its run as an
INVARIANT (`TypeOK`) and holds (it needs powers of two, of which the provers know
nothing).

One run finds the code in disagreement with what it says of itself (a finding):

| run | property | what the run shows |
|---|---|---|
| exec_unattributed | `OrdersBooked` | one order placed by hand is attributed to `unattributed`, a track without a row; where foreign keys are enforced, every pass rolls back from then on, although the comment at `reconciliation.py:220-222` says that an order is never lost |

More disagreements can be reproduced with a property that is stated in the module
and a cfg that is not among the runs above:

| cfg | property | what TLC finds |
|---|---|---|
| `MCExecution_late` | `BlockStopsOrders` | a kill that lands between `check_floors` and the broker call does not stop the order (`window_runner.py:753-755` says it does). `AtMostOneLateOrder` bounds the damage: one order per process and block |
| `MCExecution_window` | `LaterWindowNotCoalesced` | the adapter is built with the bare window label, so the same intent in the next day's window is answered `duplicate` (`client_order_id.py:14-16` says a later window is not coalesced) |
| `MCExecution_gross` | `GrossCapHolds` | the adapter shows the gate no positions (`portfolio.py:122`), so caps on sums bound single orders (`risk/__init__.py:36`) |
| `MCExecution_unlogged` | `RiskVerdictLogged` | a risk rejection's label is wider than `String(32)`: where widths are enforced, the attempt raises and nothing is logged (`PROJECT_SPEC.md:70`) |
| `MCScoring_daily` | `ScoreCoversDay` | the row of an agent's day is that of the run scored last, not of all its recommendations of the day (`models.py:417-422`) |
| `MCResearch_live` | `BandNotRequiredServed` | the live snapshot provider knows no market cap, and the cap rule rejects an unknown cap under every policy, also one that allows every band: a live universe is always empty (`live.py:61-64` says assets are rejected "when the track's policy requires" a band) |
| `MCTrackRun_run` with `INVARIANT RowPerRecommendation` | `RowPerRecommendation` | two answers with one `recommendation_id` share a row, and the first is lost: ids come from the model, not from `ids.py` |

Further disagreements that were met while modelling and have no run of their own:

- An item sized by `target_pct_equity` raises in `_action_to_intent`
  (`adapter.py:505`) before any floor or gate is asked (`Begin`).
- The verdict reaches `decision_actions.risk_status` after the broker call, not
  before it (`Commit`); after a lost answer it is never stored.
- A plain sell of more than is held opens a short that the short permissions
  never see (`ShortSound` therefore speaks of short sales and covers), and the
  position cap bounds an order, not the position orders add up to.
- Every exception of the adapter is reported as `rejected_floor`, a lost answer
  of the broker included, although the order is at the broker (`Report`).
- The registry names three adversarial agents that "always run on LLM tracks"
  (`registry.py:64-69`); `run_track` runs two of them, never the
  `prompt_injection_detector` (`Members`).
- Regret takes as selected every recommendation for a symbol of the plan whose own
  action is not hold or avoid; the comment (`judge_regret.py:74-78`) speaks of a
  non-HOLD *decision* action (`Selected`).
- "cover" is rewarded as a bearish call (`reward.py:20-22`, `SellActions`).
- The CLI's scoring commands score with returns of zero (`__main__.py:1664-1674`,
  `1760`); Scoring has the functions they call, with any returns.
- The cumulative return starts from the *last* snapshot of the first day, so what
  the account did on that day is not in it (`Daily`, `CumulativeReturn`).
- Every pass writes the account's equity to every track's snapshot, so all tracks
  have the same curve until sub-accounting exists (`Recorded`).
- `_pick_instantaneous` promises the most recent fact "from any of" the tags and
  returns that of the first tag that has one (`PickFirst`); `FundamentalsGrounded`
  therefore compares facts of one tag.
- A debt of which one component is missing is the other component, dated and
  rated as that one alone (`CombineSum`); a ratio may be rated `medium` although
  the debt in it is rated `low` (`DebtToEquity`).
- Two processes, or two cache objects of one, write to the same temporary name
  (`cache.py:133`): one of them may fail in `os.replace`, or put a torn file in
  place, although the header (`cache.py:12-13`) calls writes atomic. `OnlyWhole`
  and `FailuresExplained` say precisely when.
- A subscriber that waits in `queue.get()` when the bus closes is never woken
  (`Close`); the dashboard closes its bus when it shuts down (`dashboard/app.py:152`).
- `events.py:103-105` says a subscription yields events "until the bus is closed"; what
  is queued by then is delivered too (`QueuedIsDelivered`), and a bus that is closed
  still takes subscribers (`Subscribe`).
- The header of `sec_edgar.py` (6-7) keeps the client below the SEC's ceiling. The
  limiter counts when it lets a request go, not when it is sent (`sec_edgar.py:254`
  and `256`): a thread held up in between makes one more than `MaxRps` arrive in a
  window (`Acquire`, `Send`, `LimiterHonoured`). The commands of the repository have one
  thread, so there it is one more and never two.
- The symbol of a recommendation and the track and symbol of an action item are what the
  model answered (`schemas.py:287`, `470-472`): nothing compares them with the packet the
  model was given (`base.py:209-247`, `orchestrator.py:281-286`), and the adapter acts on
  the item's (`Recommendation`, `Decision`). `OwnPacket` is about the canned client only.

### Bounds and why they are enough

- *Two processes, two windows, two actions with one intent* (exec_race): the
  adapter's races are over one order id, between two writers of one row; a third
  process would only repeat one of their roles. The reconciler is the third
  writer. Two window labels make room for a second order of the same track, which
  `AtMostOneLateOrder` is about.
- *MaxAttempts* 1 or 2: two attempts race, or one follows the other. *MaxFaults*
  is 0 in exec_race and 1 in exec_recovery and window_isolation: every place a
  single fault may strike. The proofs of section 5 have no such bounds.
- *Equities* of one value where equity plays no role; two in exec_verdicts,
  where one item is within its cap under one equity only and one under neither.
- *MaxDay* 1: today and another day.
- *Pairs*: a pair that cannot be stored before a pair that can (isolation).
- *AgentResults* without `partial` in window_overlap, to keep it small.
- *MaxEvents* 3 with *QueueSize* 2: an overflow, with every order of the kinds.
- *MCRiskBook*: three symbols under a limit of two, every side, an option and a
  leveraged ETF, both sizings, an equity of zero. Position keys are finite and
  sizes are bounded by the gross cap, so runs of approvals are of any length.
- *track_run*: one LLM track and two baselines over two symbols; a council of two,
  of which the LLM track excludes one; answers that are valid, invalid, and valid
  with an id, a symbol or a track that is somebody else's or nobody's; one fault, and
  foreign keys enforced. With two pairs on one symbol every sharing of a client or a row that a
  third could show is there.
- *run_day*: the lists `<<0, 1>>`, `<<1, 0>>` (the second has passed), `<<0, 24>>`
  (an hour that is none) and `--once`; seconds 0 and 1, so that passes meet within
  a second and across it; a report of one order out of two; one pass of the
  operator and one fault.
- *scoring*: two tracks, three days, up to three snapshots of one of them and one
  more that arrives in between, equities 0..3: every shape of three points,
  zero in every place. Two runs with five recommendations on two symbols, each of
  the three returns below, at and above the benchmark.
- *research*: two workers as threads of one cache, with a cache each, and as
  processes, over no files or, with one cache, over one that was left torn; one request
  per two ticks and one retry, so that both meet in the limiter; both documents are
  fetched by the threads, the first only in the other settings; documents that
  expire while the other works; one crash. Twelve filers combine the orders, periods
  and gaps of filings; the 35 markets of three assets of six kinds, of which two may
  be alike, are built under all eight policies and two limits.
- Symmetry (over processes) is used in exec_race and window_overlap, which check
  no liveness.

### Fairness

- `FairSpec` of Execution: the steps of a pass are weakly fair. `run_day`
  reconciles before its first and after each window and the operator may at any
  time. That a pass that has begun finishes or fails is an assumption about the
  environment: the code asks over stdio without a timeout (`alpaca_mcp_client.py:179`),
  so a server that never answers would hang the pass. Nothing is assumed of adapters,
  and faults are bounded: a broker that can never be reached is not repaired by anyone.
- `RFairSpec` of WindowRunner: an invocation is a coroutine that waits for
  nobody but the database and the broker. That their calls return is assumed, too. A
  process may die instead.
- `FairSpec` of TrackRun: the event loop runs until `run_window` returns, and
  every call to a model has a timeout, so each thread returns.
- `FairSpec` of RunDay: the clock goes on, the loop of the day goes on when it
  can, and its window ends, which `WindowsEnd` shows of WindowRunner. Its pass gets
  its answers or an exception: the same assumption as above, without which
  `DayProceeds` does not hold, as a hung call would hang the day. Nothing is assumed of
  the operator.
- `FairSpec` of Research: threads run on, requests end (the client has a
  timeout), and time passes. A process may be killed instead.
- `FairSpec` of EventBus: the event loop gets to every coroutine that can run,
  and sends to a client end, in success or failure. Nothing is assumed of
  publishers.

`CHECK_DEADLOCK FALSE` is said where the program really stops: a window that has
returned, a day that has ended, a command that is done.

## 4. Reading the properties

- `LedgerBacked`: a row is backed by a broker order of the row's day, `filled` by
  a fill. Hard because adapter and pass both write rows from old answers.
- `AuditBeforeOrder`, `Provenance`, `ApprovedHasOrder`: order, action and verdict
  belong together although they are written by different transactions.
- `OrdersWithinPolicy`: for *some* equity the account had, as the gate works on
  the newest snapshot.
- `StatusConverges`: an overtaken adapter may put `new` over `filled`; the row is
  `filled` for good in the end.
- `OrdersTraceToRuns`: although persistence failures are swallowed and submission
  goes on, the audit floor keeps an order from going out without a stored plan.
  The stored plan may be that of another, overlapping window.
- `AccountsTruthful`: the run's status is computed from outcomes some of which are
  then not stored, and a report from an answer that may have been a duplicate.
- `EveryItemAnswered`: reports and what is left of the queue are always the plan.
- `InputsSound`: history of what each agent was given, against what the
  earlier stages came to; it breaks when a stage is left early, on any of the
  orders in which threads end.
- `OwnPacket`: a canned client is made once per pair and bound to its packet; were it
  shared, pairs that interleave would answer for each other. It promises nothing of a
  model, whose answers name any symbol, track and id.
- `QuarantineContained`, `ImplementsPairs`: the two ways a failure may go, kept
  apart; the second ties TrackRun to what WindowRunner assumes.
- `AccountsAgree`: rows of one transaction agree with each other and with an
  agent of that pair even where ids collide and foreign keys fail; the events, sent
  earlier, tell the same.
- `WindowsAccounted`: no window of the list is forgotten or run twice, whether it
  is skipped, slept for, or ends the day.
- `BooksBeforeWindow`: the unguarded pass between two windows is what keeps the
  next window from working on books that lack an order; the price is that its
  exception ends the day.
- `BooksCurrent`: says exactly under which overlap the ledger and the gate's equity
  may be behind; the time of a snapshot is not that of the question.
- `TakenBackOnlyInOverlap`: a pass may show a filled order as open again, if it asked
  before the fill and looked at the row after another pass had written it. That takes
  an overlap with the operator, the fill stays, and nothing else does it: a pass that
  looked earlier finds its old status unchanged and does not write it (`Written`).
- `ScoresMatchRegret`: two commands, two code paths (`score_recommendations_for_window`
  and `compute_rewards_by_recommendation`), one meaning.
- `RanksRanked`: entries of one window are upserted one by one, over those of an
  earlier ranking.
- `BaselineSound`: items and buys are matched one to one, by their place and not by
  an id, as two recommendations may share an id that a model answered. The weights of
  a plan are rounded one by one. With the three picks of the code (`RandomPicks`) they
  stay within one; six picks of 0.1667 would not, so this is a fact about a constant of
  the code (`BaselineAssumption`), not about rounding.
- `DocumentsServed`: what the lock of a cache object is worth, and
  what it is not. It speaks of files that this run tears: one that an earlier run
  left torn is found by a reader, once, and unlinked.
- `LimiterHonoured`: what a process *sends* in a window, against a limiter that
  counts what it has let go, forgets from the left end of its deque only, and is gone
  when the process is killed. The price of the gap between the two is one request per
  thread, however long a thread is held up.
- `SummaryTraceable`: a date handed through sums, ratios and products. "Of the same
  kind of period" (`PeriodOf`) tells a quarter's duration from a value at its end: a
  filer may put both under one tag, and `_pick_instantaneous` looks at the second only.
- `UniverseSound`: said of the assets and answers, not of the rules in their order, so
  that a rule that is skipped, counted twice or applied after the cut shows.

## 5. Proofs

Everything below is proved for any values of the constants that satisfy the
named assumptions of the module: any sets of processes, actions, tracks, pairs,
subscribers, workers or orders, any policies, lists and bounds. The assumptions
say what types constants have, that markers such as `None` are not data, what the
code's own tables and constants guarantee (`PrefixAssumption`: the first four
characters of the ids of the default tracks tell them apart; `BaselineAssumption`:
`RandomPicks` shares and `QuantTop` weights do not exceed the equity) and what the
data sources do (`MarketAssumption`: Alpaca lists an asset once; `FilingsAssumption`: a
tag belongs to one taxonomy; `AnswersAssumption`: an answer has the fields of its
schema). TLC evaluates every one of them in the runs.

| theorem | states | from |
|---|---|---|
| **ExecutionProofs**, part 1 (Execution) | | `ExecutionAssumption` |
| `Invariance`, `TypeCorrect` | `[]IInv`, `[]TypeOK` | |
| `LedgerIsBacked`, `AuditComplete`, `ApprovalsHaveOrders`, `ProvenanceHolds` | `LedgerBacked`, `AuditBeforeOrder`, `ApprovedHasOrder`, `Provenance` | |
| `PolicyKept` | `OrdersWithinPolicy` | |
| `LateOrdersBounded` | `AtMostOneLateOrder` | |
| `Refinement` | `Lifecycle`: Execution implements OrderLifecycle (its safety) | |
| **ExecutionProofs**, part 2 (WindowRunner) | | also `RunnerAssumption` |
| `RunnerInvariance`, `RunnerTypeCorrect` | `[]RInv`, `[]RTypeOK` | |
| `Drives` | `DrivesExecution`: every window is a use of Execution | |
| `WindowsKeepExecution` | what Execution promises, of overlapping windows | |
| `OrdersTraced`, `ItemsAnswered`, `AccountsTrue` | `OrdersTraceToRuns`, `EveryItemAnswered`, `AccountsTruthful` | |
| **TrackRunProofs** | | `TrackRunAssumption`, `AnswersAssumption` |
| `Invariance`, `TypeCorrect` | `[]IInv`, `[]TypeOK` | |
| `InputsAreSound`, `AnswersForOwnPair`, `QuarantinesContained`, `AccountsOfWindowAgree` | `InputsSound`, `OwnPacket`, `QuarantineContained`, `AccountsAgree` | |
| `Implements` | `ImplementsPairs`: TrackRun implements PairLifecycle (its safety) | |
| `BaselinesAreSound` | `BaselineSound` | also `BaselineAssumption` |
| **RunDayProofs** | | `DayAssumption`, `PrefixAssumption` |
| `Invariance`, `TypeCorrect` | `[]IInv`, `[]TypeOK` | |
| `NoWindowForgotten`, `BooksAreCurrent`, `WindowsBeginOnBooks`, `StatusTakenBackOnlyInOverlap` | `WindowsAccounted`, `BooksCurrent`, `BooksBeforeWindow`, `TakenBackOnlyInOverlap` | |
| **EventBusProofs** | | `BusAssumption` |
| `Invariance` | `[]Inv`, with `TypeOK` | |
| `DeliversInOrder`, `KeepsNewest` | `InOrder`, `NewestKept` | |
| **ResearchProofs** | | `ResearchAssumption` |
| `Invariance` | `[]IInv` | |
| `LimiterKept`, `DocumentsAreServed` | `LimiterHonoured`, `DocumentsServed` | |
| `UniverseIsSound` | `UniverseSound` | also `MarketAssumption` |
| `SummariesTraceable` | `SummaryTraceable` | also `FilingsAssumption` |
| **ScoringProofs** | | `ScoringAssumption` |
| `Invariance`, `TypeCorrect` | `[]Inv`, `[]TypeOK` | |
| `RanksKept`, `RegretsMatch`, `FiguresAgree` | `RanksRanked`, `ScoresMatchRegret`, `MetricsAgree` | |
| **RiskBookProofs** | | `BookAssumption` |
| `Invariance`, `TypeCorrect` | `[]IInv`, `[]TypeOK` | |
| `CapsAreKept` | `CapsHold`, all four caps | |

None of the invariants that the runs check is inductive. What each proof adds:

**Execution.** An attempt acts on what it read several steps ago, a pass on what
it fetched. `IInv` says what makes their stale knowledge safe:

- `AttemptSound`: past the floors an attempt's action is audited (audit rows are
  never deleted), and an answer it holds is true of the broker (orders are never
  unplaced or unfilled). Gives `AuditBeforeOrder`, `Provenance`, and the
  adapter's half of `LedgerBacked`.
- `PayloadBacked`: what a pass fetched is still true of the broker, in the sense
  that the broker has only moved on. Gives the reconciler's half.
- `LateSound`: a process in `late` has no further attempt of that track past the
  floors. Gives `AtMostOneLateOrder`.

`OrdersWithinPolicy` needs one thing more: that an attempt whose verdict is
"approved" stands for an equity that admitted its item, also when the account has
moved since. The proof goes action by action: `StepCases` splits Next, a footprint
lemma per group of variables says which actions write it, and one lemma per
conjunct handles those. `MergeTyped`, `CommitRow` and `PassRow` say what a row may
become under an upsert from a stale lookup. TLC checks this `IInv` in
exec_recovery, so proof and run are about the same formula.

**Windows.** `Drives` shows that each step of the runner is a step of Execution,
or none; so `WindowsKeepExecution` gets Execution's theorems for windows without
a second proof. The rest of `RInv` says how far an invocation is and what it knows
by then (`StageOK`), that rows come after results (`RowsOK`), that the attempt
under way is for the head of the queue (`AttemptOK`), that reports and queue
together are the plan (`AnsweredOK`), and who has decided what is at the broker
(`DecidedOK`) and in the audit (`StoredOK`): the last two are what an order is
traced by once its own window is over.

**Pairs.** A stage says which agents have settled, which are out and which have
not begun (`StageOK`). An agent that has settled never changes (`Settled`), so
what a later stage was given of it (`SeenOK`), its rows (`RowsOK`, `RecordsOK`) and
its events (`EventsOK`) stay true while other threads go on. `Implements` maps
each step of a thread to a step of PairLifecycle or to a stutter.

What the deterministic judges make of *any* recommendations is proved apart from the
steps: `StrongestFirst` and `QuantSound` (the sorted candidates, cut at `QuantTop`,
leave out none that is stronger), `RandomSound` (any choice of different candidates),
`BenchmarkSound`, and `WeightsSum`. `JudgeOK` then says that a judge has decided on
what it was launched with, and by `SeenOK` that is what the pair's council came to.

**The day.** `LoopOK` and `DoneOK` say where the loop is: the windows before
`day.next` are in `ran` or in `skipped`, no other and none twice. `PassesOK` says
what a pass may rely on while others commit: reports stay true, and rows that were
found stay. `AloneOK` and `SettledOK` say what holds in addition while and after
the day's pass was alone, which is what `BooksCurrent` and `BooksBeforeWindow`
need; `Current` and `Latest` are their parts.

**The event bus.** What a client got, what it is sent and what it has queued is
one line. Getting and sending move the boundaries in it, publishing appends to it,
a full queue and a client that leaves take one event out. It is increasing, it
begins after the subscription, and an event k places before its end is at least
k events old (`Aged`): so a full queue drops no new one.

**The data commands.** `LimiterOK` says that what the server saw of a process in
the last `Window` is what its limiter remembers, or remembered when the process
was killed; the count of a sequence's places per age ties the histogram `sent` to
the ages in the deque (`SumOfCounts`); a request let go and not yet sent is counted
with its thread. `LockOK` and `FilesOK` say that while one
cache object is used the file aside belongs to the one worker that holds the lock;
`RetriesOK` counts the attempts.

*Universes.* `BuildIsTop` and `BuildCounts` are about `Build` alone: for any assets
that are listed once and any snapshots of some of them. Keys partition the tradable
assets, so the counts add up; the candidates are the first of a sequence sorted by
`Ahead`, so none that was cut is ahead of one that was not. `UniverseInv` ties that to
a command: all it knows are snapshots of assets that have a price, and what it has
built it built from all of them and under the policy of its track.

*Summaries.* `NewestIs` says what `Newest` finds, the first among the newest;
`InstantSound` and `AnnualSound` that a picked value is a fact than which none of its
kind of period is newer, `OlderSound` that a sum or ratio keeps the older date,
`DeriveSound` puts them together for any filings, price and day. `SummaryInv` says that
a finished fundamentals command has derived from the filings of its company.

**The scores.** `Inv` has a part per table. `BoardOK`: the entries of a window belong
to tracks that have snapshots in it (a ledger only grows, so they go on to have them),
hence computing a window again rewrites *all* its entries and no old rank survives;
`RanksOf` shows that the ranks are 1 to their number. `ScoresOK` and `RegretsOK`: a row
counts the recommendations that were priced when it was computed, an average does not
exceed what none of its rewards exceeds (`RewardsBelow`, `AverageBelow`, with the
rounding), and the best of all is such a bound. `CountsMatch` sums the counts over a
partition. `MetricsAgree` is about every curve: `DrawdownByDay` unfolds the fold of the
drawdown day by day and `FallFromPeak`, `NoWorse` and `WorstFall` compare it with every
pair of days; `GrownByDay` does the same for the product of daily returns. `TypeOK`
relies on that too: a drawdown is a share of its peak because the worst fall is no
better than no fall (`DrawdownShare`), and what is rounded stays a share
(`QuantizedTyped`).

**The risk book.** Gross, short and options exposure are sums over positions of
which one changes. `GrossIsTotal`, `ShortIsTotal` and `OptionsIsTotal` show that
the folds are sums, `TotalWithout` takes the changed position out of them, and
`GrossGrows`, `ShortGrows` and `OptionsGrow` bound what a booked order adds:
the target that the gate has added to its own figure. The percentages and equity
stay symbols, so no policy is special.

**DataLemmas** has what several of these rest on. The prover cannot instantiate an
induction rule that takes a predicate, so `Induction` is stated for a set of
numbers, which each proof builds. `FlattenElements` is about `FlattenSeq`,
`SortedSequence` about `Sorted` (under a strict total order of a finite set, the k-th
element exists and is the only one with k - 1 before it: `Ranking`), `ChosenElements`
about `Only`, and `FoldExists` about `FoldLeft`, of which it gives the partial results.
`CountsSumUp` and `SumsAreTotals` show what `MapThenSumSet` computes: the sum of
natural numbers is the number of their units, and counting is what the library's
theorems about cardinality can do.

Checked with TLC only:

- all liveness: `OrdersBooked`, `FillsSettled`, `StatusConverges`, `WindowsEnd`,
  `QueuedIsDelivered`, `PairsEnd`, `DayProceeds`, `CommandsEnd` (fairness and
  ENABLED are not within the prover's reach).
- `BandNotRequiredServed` and the other properties that the code does not satisfy
  (section 3) are refuted, not proved.

Not within reach of a proof is what a `RECURSIVE` operator computes, so the proved
modules have none.

## 6. State of the project

The plan is done: what the code's core logic is made of is modelled, every safety
property of a passing run is a theorem, and every liveness property is checked by TLC.
Steps that would add to it:

1. A model of the HTTP emitter between the window runner and the event bus, if a
   state of the program ever comes to depend on an event.
2. Positions shown to the gate (`portfolio.py:122`): when the code does so, Execution
   and RiskBook can be composed, and `CapsAreKept` becomes a theorem about windows.

### Not modelled

Text processing (prompts, sanitizer, injection detection, evidence), transport
beyond its outcomes (MCP over stdio, HTTP to the dashboard), the tools of the MCP
server the program does not call, news and filings lists, provenance, page layout,
configuration and migrations: they hold no state the properties depend on. The
length limits of schemas, and the reports of the adversarial agents, which no later
code looks into, are left out of AgentSchemas. The HTTP emitter awaits each post
and swallows its failure: an event arrives at most once and in order, or not at
all, or after its timeout, and nothing but the page depends on it.
