# TTT-Cache-Lab: specifications, model checks and proofs

TTT-Cache-Lab measures what happens to a cached prompt prefix (the K/V tensors of
a transformer) when the model's adapter keeps being updated. A *strategy* decides
at each adapter version whether to reuse, correct, restart or recompute the cache;
a *runner* drives the strategies through samples, update targets and versions and
writes one record per decision; an *exploration* looks for the smallest set of
cache cells worth repairing; a *matrix* of such runs is made over days on one
machine. This directory specifies the parts of the program in which state lives
across steps, checks them with TLC and proves part of them with TLAPS.

Paths below are relative to `src/ttt_cache_lab/` of the repository, unless they
begin with `scripts/` or `docs/`.

## 1. Inventory

| Component | State | Operations | Hard behaviour | What makes it correct |
|---|---|---|---|---|
| Versioned cache manager (`cache/blocks.py`, `cache/manager.py`) | ordered entries per (adapter, version), their bytes, a running total, an eviction counter | get, put, remove | overwrite, oversize entries, eviction by two limits and two policies | total = sum, limits hold, oldest goes first, no newer or foreign block under a key |
| Planner (`cache/planner.py`) | none (a failure map read once) | plan | rules in order, budgets, ablations, nearest map cell | answers are executable, bounded in age, drift and cost |
| Strategies (`cache/strategies.py`) | none | decide | 28 names over one interface | "exact" means exact; refreshing is for good |
| Versioned runner (`experiments/versioned.py`) | per strategy: output, version, norm, block metadata, refresh counter, a manager | one step per strategy and version | state committed by some actions only, metadata carried over, managers shared by scope | labels match tensors, cache and manager agree, nothing is missed |
| Static adapter runner (`experiments/static_adapters.py`) | latest output per strategy, a manager | one step per element of the sequence | adapters come back, repeat, are evicted | exact reuse is exact, no needless rebuild |
| Hugging Face backend (`models/hf.py`) | weights, LoRA state, captured hidden states | prefill, recompute, reuse, restart, correct, restore | what an action recomputes and what it keeps; a missing capture | an output is what its action promises |
| Updaters (`updates/updater.py`) | norms of the last update | update | norm control | numerical |
| Result files (`experiments/results.py`, `failures.py`) | `records.jsonl`, `summary.csv` and two more pairs, progress, failure | write, merge, resume | kill or exception between two files, identity of a record | nothing lost, "completed" is true, progress is close |
| Formal matrix (`scripts/*formal*`) | markers, `done.json`, queues, command-line processes, devices | run, retry, skip, wait, finalize | signals, reboots, torn files, phases | a device has one owner, success is final, every script ends |
| Dynamic controller (`cache/dynamic_controller.py`) | best repair, its score, stagnation, stop | probe, stop, roll back | probes without a value, plateaus, caps | commits the best of what it tried |
| Blockwise exploration (`experiments/blockwise.py`) | rows and files of five kinds, conditions explored | explore a block size, checkpoint, resume | kill between five files, options that leave some empty | no finished search lost or mixed with another |
| Selectors and searches (`experiments/blockwise.py`) | a table of rows per condition | rank, gate, route, search, oracle | NaN, ties, budgets, pools | gates let nothing worse through, searches are ordered, budgets kept |
| Block ranker (`experiments/block_ranker.py`) | tables of finished conditions, the fitted policies | fit gates, pools, routers, guards | calibration against run time, quantiles of few values | no worse than what was calibrated, no harm where harm was seen |
| Studies, sweeps, conditions | progress files | select, shard, complete | | shards partition the work |
| Task probe, failure map, analyses, data, CLI | files | batch | none across steps | numerical or formatting |

The runners call everything else and nothing calls them back. Everything in one
process is sequential; concurrency exists between the processes of the matrix, and
what else can go wrong between two steps is that a process ends. Strategies of a
run share the backend and the history of the adapter; each has its own cache and
manager and reads no other's. That is what lets a runner be specified for one
strategy at a time. A run and an exploration meet the outside in their output
directories, which is why those are modules of their own: a runner's steps are
there reduced to "a condition was computed", and what remains is which files were
replaced when the process ended.

The list of hazards, each at its line and with the properties that watch it, is in
`PROJECT.json`.

## 2. Modules

    CacheIndex ──── CacheManager ──── CacheManager_proofs
        │                └─ implements BoundedStore
        │
    CachePlanner ── CacheStrategies ──┬── StrategyDecisions ── StrategyDecisions_proofs
                                      └── Backend ──┬── VersionedRunner ── VersionedRunner_proofs
                             (with CacheIndex) ─────┴── StaticRunner ── StaticRunner_proofs

    ProbeScores ──┬── BudgetController
                  │        │
                  ├── BlockSearch ──┴── BlockwiseCondition ──┐
                  └── RankerPolicies ────────────────────────┴── FittedCondition ── BlockwiseCondition_proofs

(The runners' proofs take the lemmas about a manager from `CacheManager_proofs`.)

    RunDirectory ── RunDirectory_proofs
    BlockwiseRun ── BlockwiseRun_proofs
    FormalMatrix ── FormalMatrix_proofs

### Caches and runners

* **CacheIndex** — a manager as a value, its methods as operators on it: the
  runners keep several managers with the same limits, so the index is not a
  variable. The eviction loop is given by its result: the fewest oldest entries
  after which nothing is over capacity, the protected key excepted.
* **CacheManager** — the same as a state machine: an action per method, with the
  answer of the last call and, as a history, which key was used before which.
* **BoundedStore** — what the runners rely on, without an order: a lookup answers
  the last entry stored under its key or nothing, entries go only to make room,
  no more than needed, and each is counted. `CacheManager` implements it with
  `store <- mgr.entries, evicted <- mgr.evictions`.
* **CachePlanner** — `CachePlanner.plan` as the set of decisions it may take. It
  is a set because ties between equally near map gaps and equally fast actions are
  broken in the code by the order of a set or of the rows of a file.
* **CacheStrategies** — the strategies and `build_strategy`, as `Decide`.
* **StrategyDecisions** — a strategy asked about one cache that ages and is never
  refreshed, so that age and norm only grow.
* **Backend** — an output is described by the version under which the K/V of each
  layer, and the hidden state entering it, are those of a full recompute. An
  update of layer *l* leaves the layers below it alone; a Q or MLP update changes
  what leaves the layer, not its own K/V. A restart recomputes from a layer's
  cached input, a correction changes the K/V of the layers that carry the adapter
  and nothing above them, and is no version's (`Approx`).
* **VersionedRunner** — `VersionedExperimentRunner.run` for one strategy: start a
  condition, warm up, install, update, record, finish. A record step is one action
  from the strategy's answer to the commit, since nothing can come between.
  `recorded` and `refreshed` are histories. `RestartRefused` is the `RuntimeError`
  of the backend, which ends the run.
* **StaticRunner** — `StaticAdapterExperimentRunner.run` for one strategy; a
  version is the number of an adapter there.

### Files and processes

* **RunDirectory** — the directory of a versioned run: progress file, failure file
  and up to three tables, each a `.jsonl` and a `.csv`. One action per file that
  is replaced, in the order of the code; `Fail` (an exception, which leaves a
  failure file) and `Killed` may come between any two. A record is its identity
  and the attempt that measured it. `resume` and `checkpoint` are options.
* **FormalMatrix** — the supervisor script as a list of commands, the queues it
  starts, the command-line process each queue waits for, the marker files and
  `done.json`, which is written in place and so may be torn. `Signal` is the
  script's trap, which kills what was started and does not exit; of a queue it may
  reach only the shell around it. `Reboot` takes everything down and starts the
  script again.
* **BlockwiseRun** — `run_blockwise_exploration` around the conditions: which
  conditions a restart takes for explored, the five files of a checkpoint, the
  restoring of the model between groups. Which files get rows depends on the
  options.

### Exploring a condition

* **ProbeScores** — scores that may be NaN: every comparison with it is false.
* **BlockSearch** — rankings, greedy, beam and swap searches, the exhaustive
  search, the choice of a size under a price per cell, the signed residual order,
  the candidate pool of the oracle and the frontier of the token blocks. A cell is
  a number, a mask a set of cells, a score a function on masks.
* **BudgetController** — `dynamic_budget_controller`'s loop: try one cell more,
  stop at the target, at a plateau or at the cap, commit the best or nothing.
* **BlockwiseCondition** — a condition passes through its selectors in the code's
  order, each adding rows to the table. What a probe of a mask finds is a function
  chosen at the start, as the evaluation caches of the code make it one. It
  contains `BudgetController` (its variables are part of the state; the step
  `TryMore` is the controller's `Probe` of the next mask).
* **RankerPolicies** — what `fit_block_ranker` keeps from tables of conditions:
  gates with margins, pools grown greedily, routers, the error a committed router
  subtracts, its guard. Each fit is the set of policies it may return, where the
  code breaks ties by latency.
* **FittedCondition** — a condition explored with rankers fitted to conditions,
  itself among them: the fit reads the rows, the run meets the fit.

Definitions named after a mistake (preceded by a comment "Mistake: ...") take no
part in the specifications. They are variants of the definition that follows, and
the properties of the runs tell each of them from it; `PROJECT.json` says which.

### Abstractions

* Payloads are what `Backend` tells apart; tokens, tensors and timings are not
  modelled. Latencies are what the backend may have measured.
* Norms are in hundredths, budgets in percent, error proxies in thousandths,
  scores and gains in small integers, so that comparisons are exact. The code adds
  floats and compares with a tolerance of 1e-15 here and there; a comparison at
  exactly the threshold may differ by rounding.
* A correction that finds nothing to correct falls back to the old cache; whether
  it does is left open even for targets it could correct.
* Whether hidden states are captured is forced by the strategy itself if it is on
  the code's list, and open otherwise, since other strategies of the run or a
  metric may ask for them.
* A block's metadata is reduced to its layer, adapter, version and state.
* What a ridge regression of the ranker predicts is any number of a small set;
  what a router does with it is not abstracted.
* A file that is written to a temporary name and renamed is old or new, never
  torn. `done.json` of a queue is the one that is not written so.

## 3. Runs

| Run | Bounds | Shows |
|---|---|---|
| `manager` | 3 keys of 2 adapters, sizes 1, 3 and 5, two entries and four bytes, lru, up to 3 evictions | every sequence of calls, oversize and overwriting entries and blocks of every kind included |
| `decisions` | 28 strategies, 8 targets, ages to 9, norms to 8, 2 configurations without a map and 8 with one of 2 maps, 3 backends | what rules, budgets and maps answer as a cache ages |
| `versioned_steps` | 28 strategies, 6 targets, 3 layers, versions 0 to 4 of which 1, 2 and 4 are recorded | labels, exempted outputs, drift, counters, no step missed |
| `versioned_shared` | 5 strategies, 3 conditions, versions to 3, 3 entries, 5 bytes, one manager | commits and eviction with one manager for all |
| `static_workload` | 28 strategies, 3 adapters in 7 steps, 2 plans of 3 conditions, 4 entries, 9 bytes, fifo | reuse by adapter and eviction |
| `run_directory` | 2 conditions, 2 tables, a strategy that may decide otherwise when run again, 3 starts | what the files say of each other after any failure or kill |
| `formal_matrix` | 7 queues, three of them with runs (one with two), a reboot, a signal | devices, markers, the summary, the end of the script |
| `blockwise_killed` | 2 groups of 2 block sizes, 3 starts, every combination of options | what a resumed exploration keeps and ends with |
| `blockwise_selectors` | 2 layers of 3 blocks, 3 cells that can be repaired; every landscape of 3 values over their 8 masks and those with one mask without a value; 64 calibrations of 3 conditions | gates, routers, searches, oracles, the controller and the fitted policies |
| `versioned_restart_refused`, `blockwise_guard`, `blockwise_discarded` | as `versioned_steps` with one condition, as `blockwise_selectors`, as `blockwise_killed` | disagreements between the code and a document, below |

The properties, by the question they answer:

* `manager`: the running total is the sum (`TotalIsSumOfSizes`), metadata belongs
  to its key (`BlocksBelongToTheirKey`), the oldest go first (`OldestGoFirst`), and
  the abstract store is implemented (`ImplementsBoundedStore`).
* `decisions`: an answer can be executed, is exact only when current, is bounded in
  age and drift (`AgeBounded`, `DriftBounded`), and a strategy that would refresh an
  ageing cache goes on to do so. Corrections and restarts fit the latency budget,
  whichever path leads to them, and so do the reuses that a map answers; those that a
  rule answers are not held against it (`cache/planner.py:196-227`), and the property
  leaves them out (`BudgetsRespected`). What a map answers short of a recompute is
  backed by the nearest gap that was measured in a matching context, a cell without a
  context matching any, and by all that was measured of it there
  (`MapReuseIsMeasuredSafe`); how far off the nearest gap is the code does not limit.
* `versioned_*`, `static_workload`: a block labelled exact holds exact K/V; outputs
  that no metric examines are exact; `threshold_refresh` bounds drift; counters
  count; commits are accepted; cache and manager agree; every requested version is
  recorded; exact strategies stay exact; rebuilds are explained by evictions.
* `run_directory`: "completed" is true of every table, the `.csv` is never ahead,
  progress is ahead by one at most, a resumed run loses nothing.
* `formal_matrix`: exclusive devices and a settled summary as long as no signal
  came; markers that tell the truth and success that is final, always; the script
  ends and leaves no process, always.
* `blockwise_killed`: searches are kept, are of one attempt, and are complete at
  the end.
* `blockwise_selectors`: what passes a gate improves by more than its margin and
  nothing it tried improves on that by more (`GatesAreSound`); no search beats the
  exhaustive one, a wide beam equals it, and swaps end no worse than the greedy mask
  they start from (`SearchOrder`, of which that is the part `SwapsNeverWorsen`);
  budgets are spent and not exceeded (`BudgetsKept`); the controller commits the
  best and does not roll back far (`CommitsTheBest`, `RollbackBounded`); on a
  condition of its calibration a gate or pool is no worse than the fit said
  (`NoWorseThanCalibrated`), a committed router without a guard harms nothing there,
  and a reference router harms no more than a single probe would, at 1.5 probes on
  average (`RoutersAreCautious`).

Why the bounds are enough. An eviction needs one entry more than the limit and an
order needs a third key to be wrong; three sizes give entries that fit beside
another, alone, and never. Ages reach beyond the period (3) and the age threshold
(2), and norms beyond the norm threshold (5). Three layers are one below, one at
and one above an update, and targets are taken at layer 0 as well. Five versions
pass a period, a commit, a second drift and a step that is not recorded. The static
sequence leaves, comes back to and repeats an adapter. A run directory needs two
conditions to have one missing, two tables to have them apart, and a third start to
follow an attempt that itself followed a kill; what is true of more is proved. The
matrix has queues on disjoint and on overlapping devices in each of its phases; a
second run in the last queue lets a queue stop after a success. Three cells make
masks of every size that swaps and beams can tell apart; a mask without a value may
be any one of them. Swaps are made in one round and in two, since among so few masks a
second exchange may undo what the first made worse. Of the backends of `decisions` one
reuses at a cost beyond the budget, so that a map's reuse may be refused for it.

Deadlock is not checked where the system really stops: a run of the program ends,
and `StrategyDecisions` stops at its bounds. The manager never stops, a condition
that is finished says so by a step, and both are checked for it.

**Fairness.** `VersionedRunner` assumes `WF_vars(Next)`: the loop is one thread of
one process, and a step of it ends if the backend's call does. `FormalMatrix`
assumes weak fairness of the supervisor and of each queue separately: they are
processes of their own that the machine schedules, and a command-line process ends,
well or not. Signals and reboots are not fair and are bounded. The other modules
have no liveness property: their loops are iterations over lists, and what may
interrupt them for good is allowed to.

### Disagreements

| Run | The code | The document |
|---|---|---|
| `versioned_restart_refused` | `experiments/versioned.py:108` captures hidden states for two families of strategies; planner, LRAgent and ForkKV restart too, and the run ends with an error | `docs/design.md:26` "restarts the decoder at the first invalid layer" |
| `blockwise_guard` | `experiments/block_ranker.py:1502` fits the guard of a committed router on the entropy of the repaired output; at run time it is asked about the stale output's | the guard's own `"feature": "stale_output_entropy"` and `"dev_harmful": 0` |
| `blockwise_discarded` | `experiments/blockwise.py:4216` takes a condition for explored if the frontier has it, which without the oracles it never has; the first checkpoint of a resumed exploration then replaces all files | `experiments/blockwise.py:387` "a later failure cannot discard all previously completed search" |

Each has a positive side that is checked: restarts that are served give what they
promise (`UnexaminedOutputsAreExact`), routers without the guard are cautious
(`RoutersAreCautious`), and with the oracles on no search is lost (`SearchKept`, which
is proved as well).

Read off the code while modelling, and no run of their own: `PeriodicRefresh`
compares the age with the period by remainder at recorded steps, so steps that skip
the multiples never refresh (`cache/strategies.py:141`, against
`docs/project_plan.md:468`); a committed correction restarts the norm for layers it
left alone (`versioned.py:705`); windowed strategies never commit and so never count
a refresh (`versioned.py:708`); the static runner serves a stored correction as an
exact reuse (`static_adapters.py:229`) and measures norms from the base model
(`static_adapters.py:180`); a record of a rerun that decided otherwise stays beside
the new one (`results.py:170`); the finalizer looks for a file the merge does not
write, so no failure map is built (`scripts/finalize_formal_20260712.py:35`); the
signed residual rows may repeat a selector and size; a swap row reports the most
probes of a path, not their sum; the row of the baseline router's fallback is called
stale although it recomputes in full.

## 4. Proofs

Each theorem holds for every value of the constants that the named assumptions
allow. `PROJECT.json` lists all of them with the property each proves.

**CacheManager_proofs** (any keys, sizes, limits, policy): types, order, entry limit,
`TotalIsSumOfSizes`, `BlocksBelongToTheirKey`, `OldestGoFirst`,
`ImplementsBoundedStore`. None is inductive alone. The eviction drops a prefix of
the order, so the entry limit needs the order to list each resident key once, and
"oldest goes first" needs the order to agree with the history of use. The inductive
invariant `Sound` is the conjunction of the type, the order, both limits, the total,
the metadata, and that agreement: of two keys, the one earlier in the order was used
before. Lemmas say what removing, appending and dropping a prefix do to such an
order; each action is then a composition of these. A sum over a set is given by a
fold; that adding or removing one element adds or removes one summand is shown from
the fold's equation, by taking a smallest set on which it would fail. With it a step
of the manager is a step of the store: what an eviction drops is enough for the rest
to fit, and with the last entry it dropped the rest would not.

**StrategyDecisions_proofs** (any configuration whose period and window are at least
one, as the constructors demand, and whose thresholds are numbers; any target, age,
norm, map and measurements): `DecisionExecutable`, `ExactOnlyWhenCurrent`,
`AgeBounded`, `DriftBounded`, `BudgetsRespected`, `MapReuseIsMeasuredSafe`,
`OnceRefreshedAlways`. Nothing acts on the answers in that module, so the invariant
is only that the answer belongs to the question (`Answered`). The work is in the
lemmas about `Decide`: the fallback, the map, the rules, the planner and the other
strategies in turn, each shown to give only answers that are executable and not too
exact (`Acceptable`) and, for the planner, affordable (`Affordable`). Of an answer
from a map (`AnswerFromMap`) two more things are shown: what was not the fallback
was admitted by the budget, reuses included (`MapReuseAffordable`), and the cells it
was judged by are all that count at the nearest gap (`NearestIsAllThatCounts`).
`OnceRefreshedAlways` compares two answers to one question: every rule that
recomputes is shown to fire again at any greater age and norm before a rule that
would reuse.

**VersionedRunner_proofs** (any strategies, plans of conditions, recorded versions,
layers, limits and scope): `ExactBlocksAreExact`, `UnexaminedOutputsAreExact`,
`ThresholdBoundsDrift`, `CommittedRefreshesCounted`, `PutsAccepted`,
`CacheIsInManager`. The invariant `Sound` says what those say of the last record, and
what makes the next record right: in whatever is kept the layers below the adapter
are those of version 0 (`LowerIntact`) and a block labelled exact has exact tensors
(`EntrySound`), in the strategy's cache (`CacheExact`) as in everything its manager
holds; no block is newer than the cache (`Labelled`); the cache is what the manager
holds under its version (`CacheStored`); its norm is that of the version it was built
at (`CacheTyped`) and its counter that of the refreshes (`CacheCounted`); and what
was recorded lies behind the loop (`HistorySound`). The manager's part comes from
`CacheManager_proofs` by `INSTANCE`. That a restart or a correction keeps
`EntrySound` is where "exact" could be lost: whatever a strategy answers has one of a
few shapes (`Shaped`), and in each of them a block takes the label of the tensors that
come with it or lies below what changed. The constants are
assumed to be what the code checks on the way: a version is recorded at or after the
cached one, and a target has a layer of the model or none (`models/hf.py:515` and
`:906` refuse a target that matches no parameter).

**StaticRunner_proofs** (any sequences, norms, strategies, limits and scope):
`ExactStrategiesStayExact`, `LatestIsInManager`, `RebuildsBounded`. Besides soundness
of all entries the invariant says that the latest output is stored (`LatestStored`)
and, for an entry per adapter, that the adapters seen and not resident are no more
than the evictions not yet paid for by a rebuild (`Rebuilt`).

**BlockwiseCondition_proofs** (any cells, any values that probes find, NaN included,
any options the exploration accepts, any calibration): `GatesAreSound`, `SearchOrder`,
`BudgetsKept`, `CommitsTheBest`, `RollbackBounded`, `NoWorseThanCalibrated`,
`RoutersAreCautious`.

* *Controller.* The best score is the least of what was tried, found first at the
  best count; every score before it was greater; and the repairs tried since the
  best number no more than the stagnant ones, which the patience bounds. This is
  proved of the controller alone, for any probes, and again of the controller as a
  part of a condition, where the schedule chooses what is probed.
* *Rows.* The invariant of a condition (`CondInv`) is its setting, its stage, the
  controller's invariant and, of every row, what its selector promises of its mask
  (`RowHolds`): a gated row that its gate let it through and nothing tried was better
  by the margin; a search row that its mask is measured, of the size asked for, and
  the best where the search promises that; of any row that it repairs cells it may
  and no more than its budget. A stage only adds rows, so there is one lemma per
  selector.
* *Searches.* Greedy, beam and swap are recursive functions. A recursive function is
  a choice of one that satisfies its equation, so each is first shown to exist
  (`Iterates`); what it computes after *k* rounds then follows by induction on *k*
  (`UpTo`, of a set of numbers rather than of a predicate). The order of masks is
  shown to be a strict total order on measured masks (`KeyLess`), the beam to keep
  the least of it, and a beam of *w* at least the number of cells to keep every mask
  of one cell and so to find the best of one and of two: that is what `SearchOrder`
  claims of a wide beam. Swaps only ever replace a mask by a better one of its size
  (`SwapFacts`); so that `SwapsNeverWorsen` can compare two rows of the table, the
  invariant says of a greedy row that its mask is the one of the greedy path and of
  a swap row that its score is no greater than that mask's (`FollowsGreedy`). The
  choice of a size under a price only leaves the mask without repair for one that is
  better by the margin.
* *Budgets.* What a ranked selector cuts off has the size asked for because ranks
  are distinct and fill the numbers below the size of the set (`RankSize`,
  `TopMaskSize`). The signed order repeats no cell and each of its rounds takes one
  that is left (`SignedOrderFacts`), and a price cuts it inside its length
  (`BestPrefixFacts`). The frontier combines columns whose sizes add up to no more
  than the cells asked for (`ColumnFacts`, `FrontierFacts`). That the oracle spends
  all it is given rests on its pool, which is topped up to the limit where the best
  halves of its two rankings overlap (`CandidatePoolFacts`), and on the greedy search
  over a pool taking a cell in each round while one is left (`GreedyFacts`). Sums are
  folds; that folding over a set in any order adds each member once is `SumFacts`.

* *Fits.* Two lines of argument meet. Along a run, the rows of the fitted gates and
  of the reference pool are what the ranker's policies decide from the scores at hand
  (`DecidedInv`, with one lemma per selector as for the rows above). Of a fit, whatever
  is chosen from a finite set has a key that none precedes (`BestFacts`), so a policy
  is one of those weighed; and the worst a policy reports is the least of its gains
  over the calibration, each of which is the gain of what it would have served there
  (`GateNoWorse`). The two meet because the table a fit reads of a condition holds
  what a run of that condition measures of the same masks (`MeasuredTable`), and
  because the gate compares, in the fit and in the run, the same two scores with the
  same margin; for a pool the same holds of the choice, the first of the least, over
  a pool grown greedily of candidates that every condition has measured. That
  a committed router harms nowhere rests on its fit weighing the highest quantile of
  its errors too: no prediction is off by more than the greatest error, so with it
  every repair committed to is a gain, and since no harm is the first part of the key
  the best has none either. That a reference router harms no more material conditions
  than a single probe, and probes at most three times for two conditions, rests on a
  fit that never probes twice being among those weighed.

The assumptions are what the code demands of its arguments (`blockwise.py:140-179`:
budgets, beams, rounds, prices and margins), the margins a ranker may have been
fitted with (`block_ranker.py:32-56`), that gates skip candidates of unknown
selectors and of no cells (`blockwise.py:1226-1242`), and that no ranking has the name
of an oracle or a gate (`OtherNames`), as the selectors of `blockwise.py` have not. Of
a ranker that names its calibration (`FittedAssumption`) it is assumed that it was
fitted to it, and that the calibration can be read: divergences and predictions are
numbers, selectors are those the fit knows. Its routers are assumed to have two
candidates at least, since the fit of a router with one fails
(`block_ranker.py:1873`, a hazard above that no property covers).

**RunDirectory_proofs** (any conditions, tables and starts; at least one strategy,
since with none a condition leaves no record): `CompletedMeansAll`, `CsvNeverAhead`,
`ProgressWithinOne`, `NothingLost`. The invariant has three parts besides: the memory
of a live process covers the conditions it computed (`MemoryInv`); in a pass over
the tables those before the current one are written, and the `.jsonl` before the
`.csv` (`PassInv`); what is reported was computed, and all but the last of it is in
the tables if there are checkpoints (`ReportInv`). Merging is shown to add
identities and lose none.

**BlockwiseRun_proofs** (any groups, block sizes and starts): `TypeOK`, `SearchKept`,
`OneAttemptEach`, `FinishedMeansAll`. The key is that a file is only ever replaced by
rows that cover what a restart would take for explored: rows in memory are of the
known conditions in every file that is filled (`RowsInv`), a checkpoint's files are
as in memory up to the current one (`DiskInv`), and masks and features, which are
written last, are of explored conditions only (`OneInv`), so that a half-written
condition of an earlier attempt can never become complete by a file of another.

**FormalMatrix_proofs** (any number of runs per queue, reboots and signals):
`DoneMeansAllSucceeded` and `SuccessIsFinal` from `MarkersInv` (a queue has passed
only runs that succeeded and is never busy with one that has), and, as long as no
signal came, `DevicesExclusive` and `SettledBeforeSummary` from `Phases`: a queue's
process exists only between the two commands of the script that start and await it.
Two queues whose windows overlap share no device, which is a fact about the script
(`WindowsApart`).

Only model-checked:

* `EveryStepRecorded` of the versioned runner, and that the script of the matrix
  ends: they are liveness under fairness, which is beyond the prover;
* the three disagreements above, which are counterexamples.

## 5. Not modelled

* The toy backend, tensors and metrics, statistics, reports, data generation and
  scoring: they keep no state across steps or compute numbers whose value no
  property here is about. The update-sensitivity runner (`experiments/runner.py`)
  applies one update per record and keeps nothing. The task probe only may fail,
  before a run has written anything.
* The adapter life cycle of the backend (prepare, train, snapshot, load, restore):
  straight-line code around tensors; the runners see it as a version.
* Of exploration: the features of cells, the ridge regressions and the training of
  the probe model, default budgets and latencies, the oracles that enumerate masks
  by divergence, and `dynamic_trace_full_budget`, which evaluates
  for a report the counts the controller did not try.
* Studies, sweeps and shards: which runs a shard makes is a function of its
  configuration, and each run has a directory of its own.
* The command line beyond its failure capture, and the validation of configuration
  files.
