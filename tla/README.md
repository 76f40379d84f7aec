# A TLA+ model of otelbench

`otelbench` measures what it costs to carry a W3C trace context from a Go
client to PostgreSQL.  A *cell* of its grid is one propagation mode under one
latency preset: connect, set up, warm up, measure, report.  The figures mean
something only if every iteration's statements carry that iteration's context
and no other, if every iteration is counted once, if the cell was measured
under the latency its label names, and if a report is not mistaken for more
than it is.  All of that has to hold while requests fail half way, connections
break, contexts are cancelled, processes are killed and several of them share
one proxy and one database.  This directory states those claims in TLA+, checks
them with TLC and proves most of them with TLAPS for every value of the
constants.

Paths like `runner.go:58` are relative to `internal/<package>/` of the
repository, `init.sh` is in `deploy/postgres/`; `PROJECT.json` names the exact
lines of every definition.

## 1. Inventory

| Component | State it keeps | Operations | Talks to |
|---|---|---|---|
| Runner (`runner/runner.go`) | one connection, the loop counters, the cell | `Run`, `oneIteration` | modes, workload, pgstat, metrics, tracing |
| Modes (`modes/*.go`) | none; what they leave in the session | `Setup`, `RunOne`, `Teardown` | pgx, `ExecuteSequential` |
| Workloads (`workload/*.go`) | id counter; the table `bench_single`, shared by all processes | `Setup`, `NextStatements`, `ExecuteSequential` | pgx |
| Session (pgx + PostgreSQL, external) | socket, statement cache (LRU, 512), write buffer; transaction status, GUCs, request headers, prepared statements | one request at a time | - |
| Statistics (`pgstat/snapshot.go`) | none | `Take`, `Delta`, `Reset` (no caller) | pgx |
| Metrics (`metrics/metrics.go`) | histogram, error count | `Observe`, `ObserveError`, `Finalize` | - |
| Latency client (`latency/toxiproxy.go`) | two named toxics in the proxy, which outlive the process | `New`, `Apply`, `Clear` | toxiproxy's HTTP API |
| Bench command (`cli/bench.go`) | loop indices, cells, deferred calls | `runBench`, `emitReport` | latency client, runner, tracing |
| Registry (`modes/mode.go`, `registry_*.go`) | map of modes | `Get`, `IDs` | - |
| Tracing (`tracing/tracing.go`) | span queue of the SDK | `Setup`, `Shutdown` | collector |
| Demo (`cli/demo.go`) | one connection, two snapshots | pool-break loop | mode 3, pgstat |
| Check, flags (`cli/check.go`, `root.go`) | none | `check` is a stub | - |
| Bootstrap (`init.sh`, `entrypoint.sh`) | `PGDATA` volume | first boot, later boots | initdb, pg_ctl, psql |
| Compose stack, smoke test (`deploy/`) | - | configuration | third-party services |

The program is mostly sequential Go; what makes it hard is everything that
can happen *between* two of its lines:

- **Partial failure.**  A mode's iteration is up to N + 4 requests on one
  connection, and each may be refused before it is written, lost with the
  connection or answered with an error.  The session that is left behind is
  used by the next iteration.
- **Cancellation.**  SIGINT, SIGTERM or `--max-duration` may end the context at
  any step, including between an error and its rollback.
- **State that outlives its owner.**  A session GUC outlives the iteration, an M
  frame that was queued and not flushed outlives the call, the toxics in the
  proxy outlive the process - and not the proxy, which may restart.
- **Multi-request calls to the proxy**, without the context, that fail with or
  without having taken effect.
- **Sharing without locks.**  Two benches seed one table and shape one proxy;
  each removes what the other has added.
- **Full containers.**  The statement cache evicts and deallocates one call
  later; the span queue drops what it has no room for.
- **A first boot that is interrupted.**  Ten commands fill the data volume, and
  the next boot looks at one file to decide whether they have run.
- **Liveness.**  No request of an iteration has a timeout of its own.

What makes each component correct:

- *Modes*: attribution (no statement under a foreign context), a clean session
  afterwards, the number of round trips the documentation claims.
- *Runner*: each measured iteration counted exactly once; the result tells a
  complete cell from one cut short; termination after cancellation.
- *Latency client and bench*: a cell is measured under its preset on both legs;
  a report is the whole grid or is not written; no toxics left behind.
- *Workload*: what an iteration reads exists, whoever seeded it; Setup may be
  repeated; all rows are used alike.
- *Statement cache and snapshots*: the backend never holds more than the cap and
  a few, a delta counts the iterations' texts and nothing else, the workload's
  own SELECT stays cached - also after iterations that failed and were counted.
- *Tracing*: a span that is not exported was given up, not forgotten.
- *Bootstrap*: an undisturbed first boot leaves configuration and extensions,
  later ones keep them, and nobody reaches the server in between.

## 2. Modules

| Module | Models |
|---|---|
| `Session` | one pgx connection and its backend (external): context, socket, request in flight, transaction status, session and local GUC value, applied headers, queued M frame |
| `Modes` (extends `Session`) | `RunOne` of modes 0, 1a, 1b, 2a, 2b, 3, 4 and `ExecuteSequential` |
| `Runner` (extends `Modes`) | `runner.Run`; the properties of a cell |
| `Propagation` | abstract specification of a cell; `Runner` implements it |
| `RunnerInv`, `RunnerProofs` | the inductive invariant, the proofs |
| `Latency` | `latency.Client` and the proxy |
| `Spans` | `tracing.Provider` and the SDK's batch span processor |
| `Bench` (extends `Latency`, `Spans`) | `runBench` over several process lifetimes, with a proxy that may restart |
| `Sweep` | abstract specification of an invocation; `Bench` implements it |
| `BenchInv`, `BenchProofs`, `SweepProofs` | the inductive invariant, the proofs, the refinement |
| `Workload` | `Setup` and `NextStatements` of several processes on one database |
| `TwoBenches` (extends `Workload`, instantiates `Latency` per process) | several benches on one proxy and one database |
| `TwoBenchesInv`, `TwoBenchesProofs`, `RotationProofs` | the inductive invariants, the proofs; the rotation of the ids |
| `StmtCache`, `StmtCacheProofs` | pgx's automatic statement cache and the statements on the server; lemmas about its operations |
| `PoolBreak` (extends `StmtCache`) | the demo and the cells of `Run` between their two snapshots |
| `PoolBreakInv`, `PoolBreakProofs` | the inductive invariant, the proofs |
| `Bootstrap`, `BootstrapProofs` | `init.sh` and `entrypoint.sh` over several boots; the proofs |
| `MCBench`, `MCTwoBenches`, `MCBootstrap` | instances for TLC; `Runner` and `PoolBreak` are checked directly |

### Session, Modes, Runner

`pc` is the control state of `Run` and, inside an iteration, the request that
`RunOne` is about to write or waits for (`begin`, `setlocal`, `exec`, ...; the
list is at the top of `Modes`).  A request is two steps, `Send` and one of:

- an `...Ok` action - the backend answers; the operators `Begin`, `SetLocal`,
  `EndTxn`, ... say what it did to the session;
- an `...Err` action - an ErrorResponse; the session is aborted, undone or
  unchanged, depending on the request;
- `Lose` - the connection is gone, or the context was done and pgx broke the
  read off (it then closes the connection).

`Refuse` is the call that fails before it writes.  In each case `ErrorPc` says
where the Go code goes next: the deferred `tx.Rollback` of mode 1a
(`m1a.go:47`), the best-effort RESET of mode 1b (`m1b.go:41`), or the return.
pgx gives up a connection on which BEGIN or ROLLBACK failed, and one it could
not write a COMMIT to; `TxnErr` and `Refuse` say so.

| State | Code |
|---|---|
| `it`, also the name of the iteration's trace context | loop variables of `Run`, `traceContextFromSpan` (a fresh id each, `runner.go:198`) |
| `k`, `seen` | position in `stmts`; the contexts the backend attributed the statements to |
| `cached`, `cold` | is the statement text in pgx's statement cache, was it missing when the iteration began |
| `stale`, `due` | has the cache given up statements that the server still holds, had it when the iteration began |
| `evicted` | preparing this iteration's text pushed another one out of the cache |
| `rtt` | requests written in this iteration |
| `observed`, `errors` | `Recorder.Observe`, `ObserveError` |
| `before`, `after` | the two `pgstat.Take` calls and whether they failed |
| `result` | what `Run` returns: no cell, a cell and an error from the warm-up or the measured loop, or a cell and nil |

Abstractions, each on the side of more behaviours where there is a choice:

- A trace context is the number of its iteration; the formatting of traceparent,
  sqlcommenter prefix and mode 2a's interpolated text is left out.  Mode 3 is a
  text that changes every iteration: never cached at the start of an iteration,
  and cached from its second statement on, since all statements of an iteration
  share their text.
- The cache is one bit for the workload's statement and one for what it has given
  up.  A failed statement may or may not be dropped from it.  Every call of
  pgx.Conn (`CallPc`; mode 2a calls pgconn) that finds something given up first
  closes it on the server, in an exchange of its own (`Deallocates`: its `Send`
  comes before the request's, `DeallocateOk` goes on with the request,
  `DeallocateErr` fails the call).  pgx leaves it out in an aborted transaction,
  and between the prepare and the execute of one Query.
- Whether a new text evicts another depends on how many came before it; here it
  may at any time in modes 2b and 3, whose texts are new in every iteration
  (`FillsCache`).  With the default 100 + 1000 iterations and pgx's 512 entries it
  does from about the 500th on.  The other modes prepare a handful of texts.
  Capacity and order are the subject of `PoolBreak`, which also shows
  (`SelectStaysCached`) that eviction never clears the bit of the workload's
  statement in the modes that rely on it.
- Whether headers of an M frame outlive the Sync that ends the request is up to
  the patched server, which is not in the repository: `AfterSync` allows both.
  Therefore mode 4's later statements may run with its own context or with none,
  and never with another iteration's.
- Set-up and the statistics queries are one step each that succeeds or fails,
  with the connection kept or lost.  Their queries cannot carry a context.
  `TakeBefore` and `TakeAfter` cannot succeed in an aborted transaction.
- Row counts and times are left out (`Run` discards the row count,
  `runner.go:189`).  Rollback of mode 2b's transaction does not exist in the
  code and hence not in the model.

### Latency, Spans, Bench, Sweep

`toxics` is the delay on each leg of the proxy.  A call of `Apply` or `Clear` is
a list request, one removal per listed toxic, then the two additions; each is a
step, and `RequestFails` ends the call with the request having reached the proxy
or not (`Effects`).  The proxy refuses to add a toxic it has and to remove one
it has not.  Presets are names.  `Bench` follows `runBench` through its deferred
calls, last first: tracer shutdown, then `Clear`.  `Kill` is SIGKILL or a crash:
nothing deferred runs.  `Start` is the next process, with new flags and the
proxy as it was left.  `ProxyRestarts` empties the proxy at any moment, between
two requests of a call or between two cells; a cell records in `kept` whether
that happened since the Apply of its row.  `runner.Run` is one step with the
results `Runner` has: a complete cell (not if the context was done to begin
with), or an error with or without a cell.

Spans end before that step (`IterationRecorded`) and wait in `queued`; the SDK's
goroutine exports or gives up batches at any time (`BatchExported`).  `dropped`
remembers that something was given up.  `Shutdown` returns with an empty queue
or after five seconds, whatever became of the context of the runs.

`Sweep` is what a reader of a report relies on: cells come one after the other
in the order of the grid, an incomplete one is the last, one report at most
follows, of exactly the finished grid.  `Bench` maps `pc # "off"` to `running`,
`cells` to `measured`, `report` to `published`.

### Workload, TwoBenches

`Setup` is up to four requests: `CREATE TABLE IF NOT EXISTS` in two steps -
looking for the table, then creating it, which fails with a unique violation if
another process was faster - then the count and the `INSERT ... ON CONFLICT DO
NOTHING`, a single statement and so a single step.  `found` remembers whether
the table was there at the beginning.  `issued` is the ids of all statements of
a process; `nextID` is the counter of its workload, which lives through all its
cells.  Payloads are left out.  The row count of Setup's check is looked at as
the code does (`rows` against `SingleSeedRows`).

In `TwoBenches` each process has a client, `C(p) == INSTANCE Latency WITH ...`,
over one `toxics`.  `Iterate` is one iteration: it reads its rows, and `wrong`
remembers whether the proxy had other delays than its preset's.  One that fails
(`IterationFails`) is no sample; it may have advanced the ids.  `disturbed`
remembers whether another process changed the toxics since this one listed them
in its Apply.  The processes start over what a killed one left (`Leftovers`).
A restart of the proxy is not repeated here.

### StmtCache, PoolBreak

A connection is the cached texts in order of use, those given up that are not
deallocated yet, and what is prepared on the server.  A call first deallocates,
then hits or prepares; a batch looks all its texts up first and then prepares
the ones it has not found, each of which may evict (`SendBatch`; the only
batches are mode 2b's, of four different texts).  `Failed` is the set of outcomes
of a query that fails; one whose execution fails leaves the cache
(`Invalidate`).  A text is its kind and, if it changes, the number of the
iteration; `RunOne` says for each mode what it asks of the cache: requests
without arguments use the simple protocol and are not prepared, those in a batch
are (mode 2b's BEGIN, SET LOCAL and COMMIT), mode 2a bypasses the cache, mode 3
has a new text each time.  The demo is mode 3
behind `Setup` and between two `pgstat.Take`; `Run` does the same with any mode,
so both are one state machine.  `Take` is its two or three queries, which use
the cache as well; it counts itself.

An iteration is one step, `Iterate` or `IterationFails`.  A failure ends the demo
and the warm-up of `Run`; in the measured loop it is counted in `errors` and the
loop goes on, with whatever is left of the connection (`runner.go:149-153`), up to
the second snapshot.  What a failure does to the cache depends on where it
strikes: before the statement is asked for (`RequestFails`), in it or behind it
(`QueryFails`), while the server prepares the texts of a batch (`BatchRefused`), or
in the batch itself (`BatchFails`).  pgx learns of the texts of a batch all
together, so one that is refused leaves those before it on the server without the
client knowing: `orphans`.  Their names are digests of the text, so the next batch
prepares them again and is refused (`Preparable`).  `aborted` is the transaction a
failed batch leaves behind; nothing is prepared or deallocated in it.  `prepared`
counts the SELECTs the iterations prepare.  `iterations` includes the `warmup`
first ones; in the demo that is all of them, since each failure ends it.

### Bootstrap

`pc` is the command `init.sh` or `entrypoint.sh` is at.  `initdb` is three steps
(directory, PG_VERSION, catalog), `install` two (it creates the file, then
copies).  Any command may fail (`set -e`), and `Stop` ends the container
anywhere; the volume stays.  `listen` says who can connect: the socket only
(`-c listen_addresses=''`), localhost (initdb's default), or all (the bench's
configuration).  `interrupted` remembers that a container ended while it was
initialising the volume; `Wipe` is `docker compose down -v`.

## 3. Runs

| Run | Configuration | Question |
|---|---|---|
| `runner` | `Runner.cfg` | all properties of a cell, all seven modes (18384 states) |
| `bench` | `MCBench.cfg` | all properties of an invocation (98174 states) |
| `two_benches` | `MCTwoBenches.cfg` | what processes that share proxy and database may rely on (372051 states) |
| `pool_break` | `PoolBreak.cfg` | statement cache and deltas, all modes and the demo (1406476 states) |
| `bootstrap` | `MCBootstrap.cfg` | the data volume over four boots (248 states) |
| `runner_mode4` | `RunnerMode4.cfg` | violated: one round trip in mode 4 |
| `runner_aborted_batch` | `RunnerAbortedBatch.cfg` | violated: a failed batch of mode 2b is cleared |
| `runner_snapshots` | `RunnerSnapshots.cfg` | violated: a complete cell has both snapshots |
| `bench_passthrough` | `MCBenchPassthrough.cfg` | violated: `none` is a passthrough |
| `bench_report` | `MCBenchReport.cfg` | violated: measured cells are reported |
| `pool_break_near_one` | `PoolBreakNearOne.cfg` | violated: mode 2b keeps the server's statements near one |
| `bootstrap_served` | `MCBootstrapServed.cfg` | violated: what is served is complete |

Properties of `Runner`:

- `NoStaleTrace` - no completed or executing statement is attributed to a
  context that is not its iteration's, whatever the iteration before left in the
  session.
- `CleanSession` - between iterations an open connection is in no transaction,
  has no SET LOCAL value and (while the context lives) no M frame queued; mode
  2b is excepted, see the findings.
- `SuccessLeavesClean` - an iteration that reports success ran all N statements
  and left neither a transaction nor its context in a GUC, in all modes.
- `LeakOnlyFromReset` - mode 1b leaves its session value on an open connection
  only when a SET or RESET itself failed.
- `RoundTrips` - a successful iteration pays N + 3 (1a), N + 2 (1b), 1 (2a), 2
  (2b) or N (0, 3, 4) requests; one more when the statement was not prepared yet,
  which in mode 3 is always; one more when the cache had given something up since
  the last call of the iteration before: an evicted text (modes 2b and 3, past 512
  texts) or a statement that failed; and in mode 3 one when its own text evicts
  another and a second statement follows.  Nothing else ever costs one.
- `Accounting` - samples and errors add up to the measured iterations, at every
  point and for every result.
- `ImplementsPropagation` - all of it together as the abstract cell.
- `LostRunReturns` - a cancelled run, or one whose connection is gone, returns.

Properties of `Bench`:

- `MeasuredUnderPreset` - a cell of an invocation with a client was measured
  under its preset on both legs, after failed calls, killed predecessors and
  restarts of the proxy too; only a restart behind the Apply of its own row is
  excepted, and the next row is right again.
- `ReportIsGrid` - a report has one complete cell for every preset and mode, in
  order.
- `CleanExit` - a process that was not killed and whose last `Clear` succeeded
  leaves no toxics.
- `SpansAreExported` - a process that returned has spans left only if the queue
  was full, the collector refused a batch or the five seconds ran out; a
  cancelled run does not shorten them.
- `ImplementsSweep` - cells and report together as the abstract invocation.
- `CancelledBenchExits` - a cancelled bench ends.

Properties of `TwoBenches` (the first three are defined in `Workload`):

- `StatementsReadRows` - every statement finds its row, whoever was creating or
  seeding the table at the time.
- `RetrySetsUp` - Setup meets a duplicate only if the table was not there when
  it began: trying again succeeds.
- `EvenRotation` - no row is read twice while another is due, over all cells and
  batch sizes.
- `UndisturbedCells` - nothing but another process's request puts an iteration
  under a wrong delay.
- `SharedCleanExit` - when all have ended with a `Clear` that succeeded, no toxic
  is left, in whatever order their requests met.

Properties of `PoolBreak`:

- `ServerBounded` - the backend holds at most the cap and what one call adds (four
  in mode 2b, one otherwise), with what refused batches left there.
- `DeltaCountsIterations` - a delta of two good snapshots has the own texts of all
  iterations that succeeded, may have those of failed ones, and nothing else, until
  the cap is reached; from there on it is the room that was left, or one more, or,
  after a failure, one less.  Without failures it is exact.  In the modes that
  share one SELECT a failure may have taken it from the cache.
- `SelectStaysCached` - one-shot texts never push out the workload's statement: it
  is prepared once, and once more for each failed iteration at most.

Properties of `Bootstrap`:

- `UninterruptedIsComplete` - only an interrupted initialisation damages a volume.
- `ProxyNeverSeesBootstrap` - whoever connects over TCP from another host gets
  the real server with the bench's configuration.
- `CompleteIsFinal`, `DamageIsFinal` - no later boot changes a complete volume,
  or repairs a damaged one; only wiping it does.
- `GoodVolumeServes` - a boot of a volume that was never interrupted ends in a
  server, or something failed.

Bounds.  `N = 2` distinguishes the first statement of an iteration from a later
one (first failing, second failing, cache hit on the second, M frame in front of
the first only).  `Warmup = 1` and `Iterations = 2` give a successor to a failed
measured iteration and a first measured iteration behind a warm-up; the proofs
cover every other value.  `MaxStarts = 2` is a killed process and the one that
finds its toxics.  The sweep has `none`, then two presets, so that a preset is
applied to an empty proxy and over another preset; single presets `none` and
`intradc` are the invocations without a client and with one.  The second mode
list has a mode the registry lacks behind a known one.  `MaxRestarts = 1` is a
restart of the proxy at every point of every call and row.  `QueueCap = 2` has a
queue that is empty, partly full and full; more spans change nothing else.

`TwoBenches`: two processes under different presets, the single workload and a
batch of three; `SingleSeedRows = 2` is not a multiple of it, so that a batch
wraps inside; `Cells = 2` sets up twice and carries the counter over; one
iteration per cell, which succeeds or fails, is enough for each flag to be set;
`LeftBehind` puts leftovers of either leg in front of them.  The proofs cover
any number of processes, cells and iterations.  `PoolBreak`: `Cap = 9` holds the
five texts of Setup and Take and a batch; up to six iterations, the first two of
which may be the warm-up: the cache never fills in the shorter runs and fills in
the loop in the longer ones, so that evictions and failures meet in every order.
The proofs cover pgx's 512 and every other capacity from nine on (`RoomAssumption`).
`Bootstrap`: four boots are an interrupted one, one that shows the damage, one
that serves it, and one behind a wipe; three extensions are the script's.

Each passing property has a mutant in `PROJECT.json`: a plausible mistake (a
missing transaction, rollback, RESET or Clear, an off-by-one in a loop, a
context that is not passed on) with which TLC reports the property violated.

Fairness.  `Runner`: weak fairness on the client's own steps (`ClientStep` - the
goroutine is scheduled; connecting is included because `--connect-timeout`, five
seconds by default, ends it) and on `BreakOff` - pgx ends a request once its
context is done, and fails one on a closed connection at once.  Nothing is
assumed of the server: it may never answer, and then, as in the code, a run
without `--max-duration` waits for ever.  With `--connect-timeout=0` only the
context bounds the connection attempt.  `Bench`: weak fairness on `runBench`'s
own steps, in which the proxy's control plane is assumed to answer or refuse
(its HTTP calls carry no context), and on a run whose context is done, which
`LostRunReturns` justifies.  Nothing is assumed of spans or exports: the five
seconds of `Shutdown` end it.  `Bootstrap`: weak fairness on `InitStep` - the
commands of a container that runs end, `pg_ctl -w` included.  `TwoBenches` and
`PoolBreak` state safety only and assume nothing.

## 4. Proofs

| Module | Theorems | For every |
|---|---|---|
| `RunnerProofs` | `TraceInvariant`, `TypeCorrect`, `NoStaleTraceCorrect`, `CleanSessionCorrect`, `SuccessLeavesCleanCorrect`, `LeakOnlyFromResetCorrect`, `AccountingCorrect`, `RoundTripsCorrect`, `OneStatementTakesOneRoundTrip` (`N = 1`), `RunnerImplementsPropagation` | `N >= 1`, `Warmup`, `Iterations` in Nat, set of the seven modes |
| `BenchProofs` | `BenchInvariant`, `BenchTypeCorrect`, `MeasuredUnderPresetCorrect`, `ReportIsGridCorrect`, `CleanExitCorrect`, `SpansAreExportedCorrect` | presets, sweeps, mode lists, registry, starts, restarts, queue |
| `SweepProofs` | `BenchImplementsSweep` | the same |
| `TwoBenchesProofs` | `TwoBenchesInvariant`, `TwoBenchesTypeCorrect`, `StatementsReadRowsCorrect`, `RetrySetsUpCorrect`, `UndisturbedCellsCorrect`, `SharedCleanExitCorrect` | processes, presets, batch sizes, seeded rows, cells, iterations |
| `RotationProofs` | `RotatingInvariant`, `EvenRotationCorrect` | the same |
| `PoolBreakProofs` | `PoolInvariant`, `PoolTypeCorrect`, `ServerBoundedCorrect`, `DeltaCountsIterationsCorrect`, `SelectStaysCachedCorrect`, `OtherModesStayNearOne` (without mode 2b) | `Cap >= 9`, iterations, warm-ups, set of modes |
| `BootstrapProofs` | `BootInvariant`, `BootTypeCorrect`, `UninterruptedIsCompleteCorrect`, `ProxyNeverSeesBootstrapCorrect`, `CompleteIsFinalCorrect`, `DamageIsFinalCorrect` | number of extensions and of boots |

The assumptions are the named ASSUMEs of the modules that declare the
constants; TLC evaluates them in the passing runs.

**Runner.**  None of the properties is inductive: `NoStaleTrace` speaks of the moment a
statement executes, and what makes it true was done several requests earlier.
`TraceInv` (module `RunnerInv`) adds what holds at the points in between:

- `ModePc`, `Wire`, `Progress` - each mode sends its own requests only, a request
  is in flight only on an open connection inside `RunOne`, and how far `k` is;
- `Txn` - in which transaction status the backend is at each request of each
  mode (2b alone may be left in an aborted one);
- `Where` - which of the four places for a context (session value, local value,
  applied headers, queued frame) may hold which context.

`Where` is the heart of it: on `exec`, mode 1a's local value and mode 1b's
session value *are* this iteration's, while mode 4's context is either still
queued, or applied, or gone.  One lemma per action shows `TraceInv` preserved;
`Session`'s operators are characterised once in the lemmas `Ops`, `Delivery` and
`Delivered`.  `Accounting` needs `Counting` (where the counters stand before the
loops and behind them), `RoundTrips` needs `Paid`: at each request what has been
paid so far, the deallocation included if it was due and is over, which `Paid`
reads off `due`, `stale` and `evicted`.  The refinement maps an iteration that
is running to `busy`, `k` to `done` and `seen` to `ran`; an `ExecOk` is an
`Attribute`, `Observe` a `Succeed`, `WarmupFailed` and `ObserveError` a `Fail`,
leaving the loop a `Stop`, everything else a stutter.

**Bench.**  `BenchInv` adds to the properties where the loop indices stand and
that the cells so far are the beginning of the grid (`Loops`, `Collected`: cell
`(pi - 1) * Len(modes) + mi` comes next, and the lemma `Position` turns the
product back into row and column), what a call has done to the proxy at each of
its requests (`Requests`) and for whom (`Shaping`).  `Requests` is why a proxy
found in any state, or emptied in the middle of a call, does no harm: at
`remove` no leg outside `listed` has a toxic, at `upstream` neither leg has one,
and a call that could go wrong ends with an error.  In `SweepProofs` a run that
returns a cell is a `Measure`, `EmitReport` a `Publish`, `NewClientFails`,
`Exit`, `Kill` and a `Clear` without a client an `End`, and everything else
changes nothing that `Sweep` sees.

**TwoBenches.**  The invariant has two halves that do not touch.
`DatabaseSide`: the rows come all at once, a process that is about to create the
table has not found it, and one whose Setup returned nil has seen the rows.
`ProxySide`: `Alone` - as long as nobody disturbed a process, its view of its
Apply is right; `Answered` - for every toxic there is a process that still has
to remove it or has failed to.  The second is what makes `SharedCleanExit` true
although benches remove each other's toxics.

**Rotation.**  `Rotating` says what the counter stands for: the `j`-th id that a
process has asked for is `j - 1`, plus 1 with the single workload and 0 with
batches, modulo the size of the table, through all cells (`StatementsRotate`
for the step).  That such a sequence is even (`RotationIsEven`) is about a set
of positions and needs no induction: two uses of one id are at least a round
apart (`RoundApart`), so a fixed distance in front of every use of `a` but the
first there is a use of `b` (`Earlier`), and the step back is an injection.

**PoolBreak.**  What the properties say of the end of a loop depends on what was
in the cache long before.  `PoolInv` (module `PoolBreakInv`) adds

- `Consistent` - the cached texts are different and not more than the cap, the
  server has them and the ones given up;
- `Fresh` - no text is on the server before its time: none of a later iteration,
  none of the loop while the loop is `Cold`;
- `LeftBehind` - only mode 2b leaves orphans or an aborted transaction; the orphans
  are those of one batch, BEGIN among them, so that every later batch is refused
  at its first text and nothing is added;
- `Filling`, `FewBefore`, `Held` - the first snapshot counts five texts at most;
  from then on the cache holds at least the texts that are certain to be there
  (`TextsKept`) or is `Full`, and at most those the iterations can have asked for,
  as long as they fit.  A full cache from which a failure takes a text is refilled
  before it loses another, hence "one less" in the property;
- `Shared` - a SELECT shared by the iterations leaves the cache only when it fails.
  In mode 2b SET LOCAL is new every time, so the eviction comes close: `Shared`
  keeps the three other texts of the batch among the four used last, and each new
  batch evicts something older.

`StmtCacheProofs` says of every operation of the cache what it does to lengths,
to the set of cached texts and to the order of the most recent ones
(`TouchResult`, `PutResult`, `QueryResult`, `FailedResult`, `InvalidateResult`,
`SendBatchResult`, ...); `PoolBreakProofs` has one lemma per action, and one per
kind of mode for `Iterate` and for `IterationFails`.  `RoomAssumption` is not for
the prover's sake: with too small a cache the texts of Take or of one batch evict
each other.

Two theorems draw the boundary of a finding of section 5.
`OneStatementTakesOneRoundTrip`: what mode 4's comment says is right for a
workload of one statement, and finding 3 begins at two.  `OtherModesStayNearOne`:
mode 2b is the only mode for which finding 6 holds.

**Bootstrap.**  `Found` says what each command finds on the volume, `Servers`
which server runs at each command.  The two action properties follow because
outside the initialisation only `Wipe` changes the volume.

Only model-checked: `LostRunReturns`, `CancelledBenchExits` and
`GoodVolumeServes`, since liveness is beyond the prover.  Every safety property
of the passing runs is stated by a theorem.  `PoolInv` and `Rotating` were
themselves checked with TLC before they were proved.

## 5. Where code and documents disagree

Seven runs find a statement of a document or comment violated; `PROJECT.json`
quotes each:

1. a failed batch of mode 2b leaves an aborted transaction, and all later
   iterations of the run fail (`m2b.go:56`);
2. a failed snapshot is taken for zeros in a complete cell (`runner.go:158`);
3. mode 4 is not pipelined: N round trips, the M frame before the first
   (`m4.go:77`);
4. `--latency=none` does not clear toxics left in the proxy (`bench.go:110`);
5. a failing cell loses the report of those before it (`bench.go:166`);
6. mode 2b fills the statement cache as mode 3 does, since pgx prepares its
   SET LOCAL with the trace context in it (`m2b.go:49`);
7. a first boot that is interrupted behind initdb is never completed, and a
   later one may serve what is there (`init.sh:15`).

Noticed while reading, not the subject of a run:

- a batch of mode 2b that the server refuses to prepare half way leaves statements
  that pgx does not know of under names it will use again, so all later iterations
  of the run fail (`m2b.go:55`; `orphans` in `PoolBreak`);
- the round trips in the modes' comments leave out that pgx closes evicted
  statements in an exchange of its own: past 512 texts modes 2b and 3 pay one more
  per iteration;
- `m2b.go:34` and its Description say one round trip where the main README
  (44-48) and the model have two; `m3.go:21` says every query pays a Parse,
  within a batch only the first does; `m2a.go:82` lists `[]byte`, which
  `literalize` refuses;
- `mode.go:55` says the runner validates the row count, which it drops;
  `mode.go:84` promises registration order and iterates over a map;
- `bench.go:106-108` says an unreachable toxiproxy falls back to `none`, line 113
  returns an error; the README's latency table and `toxiproxy.go:45-51` give
  different delays and jitters;
- `toxiproxy.go:86` calls Apply idempotent and safe to repeat; of two benches
  that remove toxics at once, one is refused and returns at its first toxic;
- `snapshot.go:53-56` says the delta captures only the harness's queries in a
  noisy environment, too; line 69 sums the calls of all sessions.
  `snapshot.go:17-19` expects mode 3's comments to make new rows, `demo.go`
  (60-67) explains why they do not;
- `single.go:12` and the first id that `NextStatements` returns differ by one;
- `postgresql.conf:3-6` speaks of being appended, `init.sh:33` replaces;
- `deploy/smoke.sh` (from line 87) accepts services that an earlier run left in
  Jaeger, and the health check of `docker-compose.yml:65` is answered by the
  bootstrap server of `init.sh`, too.

## 6. Not modelled, and what is left

Not modelled: the compose files, the collector's configuration and the smoke
test (configuration of third-party services, a linear script), the `check` stub
and flag binding (no state).  Partly: of the registry only the set of modes; of
the metrics only what is counted, not the clamping and the percentiles of the
histogram; of the snapshots only `pg_prepared_statements`, because the counters
of `pg_stat_statements` belong to all sessions of the server.  The text that
mode 2a interpolates, span names, report layout and wall-clock times are data
no property tells apart.

Left to do, in this order:

1. the pure functions against reference definitions: `interpolate`, `literalize`,
   `spanNameFromSQL`, the clamping of `Observe`;
2. a restart of the proxy under two benches, and the start of the stack: health
   check, proxy and smoke test around `Bootstrap`.
