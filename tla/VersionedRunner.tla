-------------------------- MODULE VersionedRunner --------------------------
(***************************************************************************)
(* VersionedExperimentRunner.run for one of the strategies it compares.    *)
(* The strategies of a run share the model and the adapter's history, but  *)
(* each has a cache and a manager of its own and none reads another's, so  *)
(* a run is the product of behaviours of this specification. (One thing    *)
(* is shared: what the backend captures; see capture.)                     *)
(***************************************************************************)
EXTENDS Backend, CacheIndex

CONSTANTS
    Plans,              \* sequences of conditions [sample, target]
    Strategies,         \* names of strategies
    Cfg,                \* the cache section, its memory budget aside
    Scope,              \* manager_scope
    CachedVersion,      \* cached_version
    Steps,              \* version_steps
    NormSteps,          \* what one update may add to the norm
    Latencies           \* what the backend may measure

\* A target with a layer has one of the model: an update that touches no
\* parameter is refused.
ASSUME RunAssumption ==
    /\ Scope \in {"condition", "sample", "global_workload"}
    /\ CachedVersion \in Nat
    /\ \A s \in Steps : s \in Nat /\ s >= CachedVersion
    /\ NormSteps \subseteq Nat
    /\ Strategies \subseteq StrategyNames
    /\ \A p \in Plans : p # <<>> /\ p \in Seq(ToSet(p))
    /\ \A p \in Plans : \A c \in ToSet(p) : c.target.layer \in Layers \cup {None}
    /\ None \notin Nat
    /\ Cfg = [period |-> Cfg.period, window |-> Cfg.window, normMax |-> Cfg.normMax,
              gapMax |-> Cfg.gapMax, proxyMax |-> Cfg.proxyMax, budget |-> Cfg.budget,
              memory |-> Cfg.memory, map |-> Cfg.map]
    /\ Cfg.normMax \in Int

VARIABLES
    strategy, plan,     \* what this behaviour runs
    capture,            \* whether the backend keeps hidden states
    phase,              \* where the loop is
    cond,               \* index of the current condition
    version,            \* adapter version
    normAt,             \* accumulated norm of every version so far
    cache,              \* the _StrategyCache
    mgr,                \* its manager
    last,               \* the last record appended
    recorded,           \* history: <<condition, version>> of every record
    refreshed           \* history: refresh actions taken in this condition

run == <<strategy, plan, capture>>

vars == <<strategy, plan, capture, phase, cond, version, normAt, cache, mgr, last,
          recorded, refreshed>>

MaxVersion == Max(Steps \cup {CachedVersion})

target == plan[cond].target

\* f"sample-{sample_id}:{target_name}"
Key(v) == [adapter |-> plan[cond], version |-> v]

Norm == normAt[version]

---------------------------------------------------------------------------
(* Metadata.                                                               *)

\* Mistake: blocks are labelled with the version to come.
BlockAhead(l, v, state) ==
    [layer |-> l, adapter |-> plan[cond], version |-> v + 1, state |-> state]

Block(l, v, state) ==
    [layer |-> l, adapter |-> plan[cond], version |-> v, state |-> state]

FreshBlocks(v, state) == [l \in Layers |-> Block(l, v, state)]

Entry(output, blocks) ==
    [size |-> output.size, blocks |-> {blocks[l] : l \in Layers}, output |-> output]

---------------------------------------------------------------------------
(* What _record_step decides.                                              *)

Gap == version - cache.version

\* Mistake: only the last update counts.
NormOfLast == Norm - normAt[AtLeast(version - 1, 0)]

NormSince == AtLeast(Norm - cache.norm, 0)

Runtime(latency) ==
    [full |-> latency.full, reuse |-> latency.reuse, delta |-> latency.delta,
     partial |-> IF target.layer = None THEN None ELSE latency.partial,
     total |-> mgr.total, candidate |-> cache.output.size, context |-> 0]

Asked(latency) ==
    Decide([Cfg EXCEPT !.memory = IF MaxBytes = NoLimit THEN None ELSE MaxBytes],
           strategy, target, Gap, NormSince, Runtime(latency))

\* The oracle takes the cheapest candidate that is close enough to the full
\* recompute, which always is; a correction that fell back, or a restart the
\* backend refuses, is no candidate.
OracleCandidates ==
    {ReuseStale, FullRecompute}
      \cup {d \in {Decision("delta_correct", "valid_approx", target.layer)} : Correctable(target)}
      \cup {d \in {Decision("partial_recompute", "invalid", target.layer)} :
                target.layer # None /\ capture}

AdapterHit == strategy = "adapter_specific_cache" /\ Key(version) \in Resident(mgr)

\* The runner's own cases after the strategy has answered d.
Settled(d) ==
    CASE strategy = "no_adaptation" -> {ReuseExact}
      [] strategy = "adapter_specific_cache" ->
            {IF AdapterHit THEN ReuseExact ELSE FullRecompute}
      [] strategy = "oracle_planner" -> OracleCandidates
      [] /\ strategy \notin {"no_adaptation", "adapter_specific_cache", "oracle_planner",
                             "adaptive_no_version"}
         /\ Gap = 0 /\ d.action # "full_recompute" -> {ReuseExact}
      [] OTHER -> {d}

Baseline ==
    CASE strategy = "no_adaptation" -> cache.original
      [] AdapterHit -> Lookup(mgr, Key(version)).output
      [] OTHER -> cache.output

\* Mistake: whatever was corrected is called exact.
BlockStateTrusting(d) == IF d.action \in Reuses THEN d.state ELSE "valid_exact"

BlockState(d) ==
    IF d.action \in {"full_recompute", "reuse_exact", "partial_recompute", "reject_update"}
    THEN "valid_exact"
    ELSE d.state

\* Layers below the first recomputed or corrected one keep their metadata.
NewBlocks(d) ==
    [l \in Layers |->
        IF d.action \in {"partial_recompute", "delta_correct"} /\ d.first # None /\ l < d.first
        THEN cache.blocks[l]
        ELSE Block(l, version, BlockState(d))]

Commits(d) ==
    \/ strategy = "adapter_specific_cache"
    \/ /\ strategy \notin {"no_adaptation", "alora_prefix_reuse"} \cup WindowedNames
       /\ d.action \in {"full_recompute", "reuse_exact", "partial_recompute",
                        "delta_correct", "reject_update"}

\* Mistake: restarts at a layer are not counted.
RefreshesInFull(d) == cache.refreshes + (IF d.action = "full_recompute" THEN 1 ELSE 0)

Refreshes(d) == cache.refreshes + (IF IsRefresh(d) THEN 1 ELSE 0)

\* The manager after the step's lookup, if it makes one.
Looked ==
    IF strategy = "adapter_specific_cache" THEN AfterGet(mgr, Key(version)) ELSE mgr

---------------------------------------------------------------------------

NoOutput == [kv |-> [l \in Layers |-> 0], input |-> [l \in Layers |-> 0], size |-> 0]

NoRecord == [version |-> -1, decision |-> ReuseExact, output |-> NoOutput, refreshes |-> 0]

NoCache ==
    [output |-> NoOutput, original |-> NoOutput, version |-> 0, norm |-> 0,
     blocks |-> <<>>, refreshes |-> 0]

Init ==
    /\ strategy \in Strategies
    /\ plan \in Plans
    /\ capture \in (IF Captures(strategy) THEN {TRUE} ELSE BOOLEAN)
    /\ phase = "start"
    /\ cond = 1
    /\ version = 0
    /\ normAt = <<>>
    /\ cache = NoCache
    /\ mgr = EmptyIndex
    /\ last = NoRecord
    /\ recorded = {}
    /\ refreshed = 0

NewManager ==
    \/ Scope = "condition"
    \/ Scope = "sample" /\ cond > 1 /\ plan[cond].sample # plan[cond - 1].sample

\* restore_after_update, prepare for the target, prefill: version 0.
StartCondition ==
    /\ phase = "start"
    /\ phase' = "warming"
    /\ version' = 0
    /\ normAt' = [v \in {0} |-> 0]
    /\ mgr' = IF NewManager THEN EmptyIndex ELSE mgr
    /\ UNCHANGED <<run, cond, cache, last, recorded, refreshed>>

\* _update_one_version.
Update(d) ==
    /\ version' = version + 1
    /\ normAt' = [v \in 0..(version + 1) |-> IF v = version + 1 THEN Norm + d ELSE normAt[v]]

WarmUp(d) ==
    /\ phase = "warming" /\ version < CachedVersion
    /\ Update(d)
    /\ UNCHANGED <<run, phase, cond, cache, mgr, last, recorded, refreshed>>

\* Caches version 0 and the cached version.
Install ==
    LET exact(v) == Entry(FullOutput(target, v), FreshBlocks(v, "valid_exact"))
        base == AfterPut(mgr, Key(0), exact(0))
    IN  /\ phase = "warming" /\ version = CachedVersion
        /\ mgr' = IF version = 0 THEN base ELSE AfterPut(base, Key(version), exact(version))
        /\ cache' = [output |-> FullOutput(target, version), original |-> FullOutput(target, 0),
                     version |-> version, norm |-> Norm,
                     blocks |-> FreshBlocks(version, "valid_exact"), refreshes |-> 0]
        /\ refreshed' = 0
        /\ phase' = IF version \in Steps THEN "record" ELSE "advance"
        /\ UNCHANGED <<run, cond, version, normAt, last, recorded>>

\* What the strategy answers, the runner settles on and the backend returns.
Outcomes(latency) ==
    UNION {{[decision |-> e, output |-> out] :
                out \in Execute(strategy, target, version, capture, e, Baseline)} :
              e \in UNION {Settled(d) : d \in Asked(latency)}}

\* Mistake: the entry is stored before its blocks are labelled anew.
CommitEarly(e, out) ==
    /\ mgr' = AfterPut(Looked, Key(version), Entry(out, cache.blocks))
    /\ cache' = [cache EXCEPT !.output = out, !.version = version, !.norm = Norm,
                              !.blocks = NewBlocks(e), !.refreshes = Refreshes(e)]

Commit(e, out) ==
    LET entry == Entry(out, NewBlocks(e)) IN
    /\ ~Mismatched(Key(version), entry)
    /\ mgr' = AfterPut(Looked, Key(version), entry)
    /\ cache' = [cache EXCEPT !.output = out, !.version = version, !.norm = Norm,
                              !.blocks = NewBlocks(e), !.refreshes = Refreshes(e)]

\* _record_step, from the strategy's answer to the appended record.
RecordStep(latency) ==
    /\ phase = "record"
    /\ \E o \in Outcomes(latency) :
          /\ IF Commits(o.decision)
             THEN Commit(o.decision, o.output)
             ELSE mgr' = Looked /\ UNCHANGED cache
          /\ last' = [version |-> version, decision |-> o.decision, output |-> o.output,
                      refreshes |-> Refreshes(o.decision)]
          /\ refreshed' = refreshed + (IF IsRefresh(o.decision) THEN 1 ELSE 0)
    /\ recorded' = recorded \cup {<<cond, version>>}
    /\ phase' = "advance"
    /\ UNCHANGED <<run, cond, version, normAt>>

\* The backend refuses to restart without hidden states and the run ends.
RestartRefused(latency) ==
    /\ phase = "record"
    /\ ~capture
    /\ \E d \in Asked(latency) : \E e \in Settled(d) : e.action = "partial_recompute"
    /\ phase' = "failed"
    /\ UNCHANGED <<run, cond, version, normAt, cache, mgr, last, recorded, refreshed>>

\* Mistake: whether to record is decided before the update.
AdvanceStale(d) ==
    /\ phase = "advance" /\ version < MaxVersion
    /\ Update(d)
    /\ phase' = IF version \in Steps THEN "record" ELSE "advance"
    /\ UNCHANGED <<run, cond, cache, mgr, last, recorded, refreshed>>

\* The next version; only the requested ones are recorded.
Advance(d) ==
    /\ phase = "advance" /\ version < MaxVersion
    /\ Update(d)
    /\ phase' = IF version' \in Steps THEN "record" ELSE "advance"
    /\ UNCHANGED <<run, cond, cache, mgr, last, recorded, refreshed>>

FinishCondition ==
    /\ phase = "advance" /\ version = MaxVersion
    /\ IF cond = Len(plan)
       THEN phase' = "done" /\ UNCHANGED cond
       ELSE phase' = "start" /\ cond' = cond + 1
    /\ UNCHANGED <<run, version, normAt, cache, mgr, last, recorded, refreshed>>

Next ==
    \/ StartCondition
    \/ \E d \in NormSteps : WarmUp(d) \/ Advance(d)
    \/ Install
    \/ \E latency \in Latencies : RecordStep(latency) \/ RestartRefused(latency)
    \/ FinishCondition

Spec == Init /\ [][Next]_vars /\ WF_vars(Next)

---------------------------------------------------------------------------

JustRecorded == phase = "advance" /\ <<cond, version>> \in recorded

Installed == phase \in {"record", "advance"}

\* A K/V block labelled exact holds what a full recompute would give at the
\* version it is kept under, in the strategy's own cache and in every entry
\* of the manager, entries of earlier conditions included; through partial
\* recomputes and corrections that keep the metadata of the lower layers.
ExactBlocksAreExact ==
    /\ Installed =>
          \A l \in Layers : cache.blocks[l].state = "valid_exact" =>
              cache.output.kv[l] = KVTruth(target, l, cache.version)
    /\ \A k \in Resident(mgr) : \A b \in mgr.entries[k].blocks :
          b.state = "valid_exact" =>
              mgr.entries[k].output.kv[b.layer] = KVTruth(k.adapter.target, b.layer, k.version)

\* is_false_safe never looks at the output of a full, exact or unwindowed
\* partial step. It need not: what such a step serves has the K/V of a full
\* recompute, whatever was committed before. (The baseline that does not
\* adapt is exempt too, and meant to differ.)
UnexaminedOutputsAreExact ==
    (/\ JustRecorded
     /\ strategy # "no_adaptation"
     /\ \/ last.decision.action \in {"full_recompute", "reject_update", "reuse_exact"}
        \/ last.decision.action = "partial_recompute" /\ last.decision.last = None)
    => \A l \in Layers : last.output.kv[l] = KVTruth(target, l, version)

\* put raises ValueError, and the run ends, when a block is newer than its
\* key or another adapter's: no commit brings such a block, though partial
\* recomputes and corrections carry old blocks over.
PutsAccepted ==
    phase = "record" =>
        \A latency \in Latencies : \A o \in Outcomes(latency) :
            ~Mismatched(Key(version), Entry(o.output, NewBlocks(o.decision)))

\* The strategy's cache and its manager never part: the version the cache
\* was built at is resident, with the same tensors and metadata, whatever
\* the limits evicted.
CacheIsInManager ==
    Installed =>
        LET entry == Entry(cache.output, cache.blocks) IN
        ~Oversize(entry) => Lookup(mgr, Key(cache.version)) = entry

\* A layer served with the K/V of an older version.
StaleLayers ==
    {l \in Layers : last.output.kv[l] \notin {Approx, KVTruth(target, l, version)}}

Drift(l) == Norm - normAt[last.output.kv[l]]

\* threshold_refresh serves no layer whose weights have moved by more than
\* the threshold since its K/V were computed, however many versions passed
\* and whatever was recorded between.
ThresholdBoundsDrift ==
    (JustRecorded /\ strategy = "threshold_refresh") =>
        \A l \in StaleLayers : Drift(l) <= Cfg.normMax

\* refresh_count counts the steps of the condition that refreshed.
RefreshesCounted == JustRecorded => last.refreshes = refreshed

\* It does for every strategy whose refreshes are committed.
CommittedRefreshesCounted ==
    strategy \notin WindowedNames \cup {"alora_prefix_reuse"} => RefreshesCounted

\* A decision to restart at a layer is carried out.
RestartsAreServed == phase # "failed"

\* Every condition is recorded at every requested version, exactly those,
\* unless the backend refuses a restart.
EveryStepRecorded ==
    <>(phase = "failed" \/ (phase = "done" /\ recorded = (1..Len(plan)) \X Steps))

===========================================================================
