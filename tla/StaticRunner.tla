---------------------------- MODULE StaticRunner ----------------------------
(***************************************************************************)
(* StaticAdapterExperimentRunner.run for one of the strategies it          *)
(* compares: fixed adapters are activated in a given order, and the caches *)
(* are kept per adapter. Adapter 0 is the base model. As in                *)
(* VersionedRunner, no strategy reads another's cache, so a run is the     *)
(* product of behaviours of this specification. What Backend calls a       *)
(* version is the number of an adapter here.                               *)
(***************************************************************************)
EXTENDS Backend, CacheIndex

CONSTANTS
    Plans,              \* sequences of conditions [sample, target]
    Sequences,          \* values of static_adapter_sequence
    Strategies,         \* names of strategies
    Cfg,                \* the cache section, its memory budget aside
    Scope,              \* manager_scope
    NormOf,             \* the distance of every adapter from the base model
    Latencies           \* what the backend may measure

\* A target with a layer has one of the model: an adapter that matches no
\* module is refused.
ASSUME StaticAssumption ==
    /\ Scope \in {"condition", "sample", "global_workload"}
    /\ \A s \in Sequences : s # <<>> /\ s \in Seq(DOMAIN NormOf)
    /\ \A a \in DOMAIN NormOf : a \in Nat /\ NormOf[a] \in Nat
    /\ NormOf[0] = 0
    /\ Strategies \subseteq StrategyNames
    /\ \A p \in Plans : p # <<>> /\ p \in Seq(ToSet(p))
    /\ \A p \in Plans : \A c \in ToSet(p) : c.target.layer \in Layers \cup {None}
    /\ None \notin Nat

VARIABLES
    strategy, plan, adapters,   \* what this behaviour runs
    capture,                    \* whether the backend keeps hidden states
    phase,                      \* where the loop is
    cond,                       \* index of the current condition
    pos,                        \* index of the next element of adapters
    latest,                     \* latest_cache: the adapter and its output
    mgr,                        \* the strategy's manager
    refreshes,                  \* refresh_counts
    last                        \* the last record appended

run == <<strategy, plan, adapters, capture>>

vars == <<strategy, plan, adapters, capture, phase, cond, pos, latest, mgr, refreshes, last>>

target == plan[cond].target

active == adapters[pos]

\* Mistake: the namespace does not tell the conditions of a run apart.
SharedKey(a) == [adapter |-> plan[1], version |-> a]

Key(a) == [adapter |-> plan[cond], version |-> a]

\* Entries of this runner carry no blocks.
Entry(output) == [size |-> output.size, blocks |-> {}, output |-> output]

Base == FullOutput(target, 0)

---------------------------------------------------------------------------

\* 1 whenever another adapter is cached, however far it is.
Gap == IF latest.adapter = active THEN 0 ELSE 1

Runtime(latency) ==
    [full |-> latency.full, reuse |-> latency.reuse, delta |-> latency.delta,
     partial |-> IF target.layer = None THEN None ELSE latency.partial,
     total |-> mgr.total, candidate |-> latest.output.size, context |-> 0]

Asked(latency) ==
    Decide([Cfg EXCEPT !.memory = IF MaxBytes = NoLimit THEN None ELSE MaxBytes],
           strategy, target, Gap, NormOf[active], Runtime(latency))

\* The cases in which the runner looks the active adapter up and reuses what
\* it finds, whatever the strategy answered.
Matches(d) ==
    /\ strategy \notin {"no_adaptation", "adapter_specific_cache"}
    /\ Gap = 0 /\ d.action # "full_recompute"

LooksUp(d) == strategy = "adapter_specific_cache" \/ Matches(d)

\* Mistake: the manager is not asked.
SettledByGap(d) == IF strategy = "no_adaptation" \/ Matches(d) THEN ReuseExact ELSE d

Settled(d) ==
    CASE strategy = "no_adaptation" -> ReuseExact
      [] strategy = "adapter_specific_cache" ->
            IF Key(active) \in Resident(mgr) THEN ReuseExact ELSE FullRecompute
      [] OTHER -> IF Matches(d) THEN ReuseExact ELSE d

SharesBase ==
    strategy \in {"no_adaptation", "adapter_specific_cache", "base_cache_reuse",
                  "static_base_delta", "forkkv_base_delta", "alora_prefix_reuse",
                  "stale_reuse", "frozen_reuse"}

Baseline(d) ==
    CASE LooksUp(d) /\ Key(active) \in Resident(mgr) -> Lookup(mgr, Key(active)).output
      [] Matches(d) /\ Key(active) \notin Resident(mgr) -> latest.output
      [] OTHER -> IF SharesBase THEN Base ELSE latest.output

\* A stored output becomes the latest one too, windowed outputs included.
Stores(d) ==
    /\ strategy \notin {"no_adaptation", "alora_prefix_reuse"}
    /\ d.action \in {"full_recompute", "reuse_exact", "partial_recompute",
                     "delta_correct", "reject_update"}

---------------------------------------------------------------------------

Init ==
    /\ strategy \in Strategies
    /\ plan \in Plans
    /\ adapters \in Sequences
    /\ capture \in (IF Captures(strategy) THEN {TRUE} ELSE BOOLEAN)
    /\ phase = "start"
    /\ cond = 1
    /\ pos = 1
    /\ latest = [adapter |-> 0, output |-> Base]
    /\ mgr = EmptyIndex
    /\ refreshes = 0
    /\ last = [decision |-> ReuseExact, adapter |-> 0, output |-> Base]

NewManager ==
    \/ Scope = "condition"
    \/ Scope = "sample" /\ cond > 1 /\ plan[cond].sample # plan[cond - 1].sample

\* Mistake: the base output is not stored.
StartEmpty ==
    /\ phase = "start"
    /\ phase' = "serve"
    /\ pos' = 1
    /\ mgr' = IF NewManager THEN EmptyIndex ELSE mgr
    /\ latest' = [adapter |-> 0, output |-> Base]
    /\ refreshes' = 0
    /\ UNCHANGED <<run, cond, last>>

\* Restores the base model, builds the adapters and caches the base output.
StartCondition ==
    /\ phase = "start"
    /\ phase' = "serve"
    /\ pos' = 1
    /\ mgr' = AfterPut(IF NewManager THEN EmptyIndex ELSE mgr, Key(0), Entry(Base))
    /\ latest' = [adapter |-> 0, output |-> Base]
    /\ refreshes' = 0
    /\ UNCHANGED <<run, cond, last>>

\* One element of the sequence: the adapter is activated and served.
Serve(latency) ==
    /\ phase = "serve" /\ pos <= Len(adapters)
    /\ \E d \in Asked(latency) :
        LET e == Settled(d)
            looked == IF LooksUp(d) THEN AfterGet(mgr, Key(active)) ELSE mgr
        IN  \E out \in Execute(strategy, target, active, capture, e, Baseline(d)) :
              /\ IF Stores(e)
                 THEN /\ mgr' = AfterPut(looked, Key(active), Entry(out))
                      /\ latest' = [adapter |-> active, output |-> out]
                 ELSE mgr' = looked /\ UNCHANGED latest
              /\ refreshes' = refreshes + (IF IsRefresh(e) THEN 1 ELSE 0)
              /\ last' = [decision |-> e, adapter |-> active, output |-> out]
    /\ pos' = pos + 1
    /\ UNCHANGED <<run, phase, cond>>

\* The backend refuses to restart without hidden states and the run ends.
RestartRefused(latency) ==
    /\ phase = "serve" /\ pos <= Len(adapters)
    /\ ~capture
    /\ \E d \in Asked(latency) : Settled(d).action = "partial_recompute"
    /\ phase' = "failed"
    /\ UNCHANGED <<run, cond, pos, latest, mgr, refreshes, last>>

FinishCondition ==
    /\ phase = "serve" /\ pos > Len(adapters)
    /\ IF cond = Len(plan)
       THEN phase' = "done" /\ UNCHANGED cond
       ELSE phase' = "start" /\ cond' = cond + 1
    /\ UNCHANGED <<run, pos, latest, mgr, refreshes, last>>

Next ==
    \/ StartCondition
    \/ \E latency \in Latencies : Serve(latency) \/ RestartRefused(latency)
    \/ FinishCondition

Spec == Init /\ [][Next]_vars

---------------------------------------------------------------------------

JustServed == phase = "serve" /\ pos > 1

Faithful(out, t, a) == \A l \in Layers : out.kv[l] = KVTruth(t, l, a)

\* An exact reuse serves the K/V that a full recompute under the active
\* adapter would give. (The baseline that does not adapt is meant to differ.)
ExactReuseIsExact ==
    (JustServed /\ last.decision.action = "reuse_exact" /\ strategy # "no_adaptation")
        => Faithful(last.output, target, last.adapter)

Approximates == WindowedNames \cup AdaptiveNames
                  \cup {"delta_correction", "static_base_delta", "lragent_adapter_cache",
                        "forkkv_base_delta"}

\* For a strategy that neither corrects nor restarts in a window, that holds
\* of every action that is_false_safe does not examine and of everything its
\* manager keeps, for this condition and for those before.
ExactStrategiesStayExact ==
    strategy \notin Approximates =>
        /\ ExactReuseIsExact
        /\ (JustServed /\ last.decision.action \in
                {"full_recompute", "reject_update", "partial_recompute"})
              => Faithful(last.output, target, last.adapter)
        /\ \A k \in Resident(mgr) :
              Faithful(mgr.entries[k].output, k.adapter.target, k.version)

\* The latest output is what the manager holds for its adapter: an exact
\* reuse gives the same whether the lookup hits or the runner falls back on
\* the latest output, whatever the limits evicted.
LatestIsInManager ==
    (phase = "serve" /\ ~Oversize(Entry(latest.output))) =>
        Lookup(mgr, Key(latest.adapter)) = Entry(latest.output)

\* A complete entry per adapter: each adapter of the sequence is built once,
\* and once more at most for every entry that was evicted. (Nothing is kept
\* where a single entry exceeds the byte limit.)
RebuildsBounded ==
    (strategy = "adapter_specific_cache" /\ phase = "serve" /\ ~Oversize(Entry(Base))) =>
        refreshes <= Cardinality({adapters[i] : i \in 1..(pos - 1)} \ {0}) + mgr.evictions

===========================================================================
