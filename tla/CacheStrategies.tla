-------------------------- MODULE CacheStrategies --------------------------
(***************************************************************************)
(* The strategies of cache/strategies.py: build_strategy turns a name and  *)
(* the cache section of a configuration into an object, whose decide is    *)
(* the set Decide(cfg, name, t, gap, norm, rt) here. The code calls the    *)
(* version gap "step".                                                     *)
(*                                                                         *)
(* cfg has the fields period, window, normMax, gapMax, proxyMax, budget,   *)
(* memory and map.                                                         *)
(***************************************************************************)
EXTENDS CachePlanner

FixedWindow ==
    [windowed_recompute_1 |-> 1, windowed_recompute_2 |-> 2, windowed_recompute_4 |-> 4,
     windowed_recompute_8 |-> 8, windowed_recompute_16 |-> 16, windowed_recompute_32 |-> 32]

WindowedNames == {"windowed_recompute"} \cup DOMAIN FixedWindow

AdaptiveNames ==
    {"adaptive", "adaptive_no_version", "adaptive_no_target", "adaptive_no_norm",
     "adaptive_no_delta", "adaptive_no_partial", "adaptive_no_periodic"}

BaselineNames ==
    {"full_recompute", "no_adaptation", "stale_reuse", "frozen_reuse", "periodic_refresh",
     "threshold_refresh", "layerwise_recompute", "delta_correction", "base_cache_reuse",
     "adapter_specific_cache", "static_base_delta", "alora_prefix_reuse",
     "lragent_adapter_cache", "forkkv_base_delta", "oracle_planner"}

StrategyNames == WindowedNames \cup AdaptiveNames \cup BaselineNames

IsLora(t) ==
    t.kind \in {"lora.q", "lora.k", "lora.v", "lora.o", "lora.qv", "lora.attn",
                "lora.all_late", "lora.mlp", "lora.moe_shared_expert"}

\* The defaults of PlannerPolicy.
DefaultPolicy ==
    [normMax |-> 5, gapMax |-> 8, proxyMax |-> 250, budget |-> 100, memory |-> None,
     map |-> {}, allowDelta |-> TRUE, allowPartial |-> TRUE, rejectHighRisk |-> TRUE,
     useVersion |-> TRUE, useTarget |-> TRUE, useNorm |-> TRUE, interval |-> None]

\* The defaults of PlannerRuntime.
DefaultRuntime ==
    [full |-> 1, reuse |-> None, delta |-> None, partial |-> None,
     total |-> 0, candidate |-> 0, context |-> 0]

\* An ablation switches off one thing the planner looks at or may answer.
AdaptivePolicy(cfg, name) ==
    [DefaultPolicy EXCEPT
        !.normMax = cfg.normMax, !.gapMax = cfg.gapMax, !.proxyMax = cfg.proxyMax,
        !.budget = cfg.budget, !.memory = cfg.memory, !.map = cfg.map,
        !.allowDelta = (name # "adaptive_no_delta"),
        !.allowPartial = (name # "adaptive_no_partial"),
        !.useVersion = (name # "adaptive_no_version"),
        !.useTarget = (name # "adaptive_no_target"),
        !.useNorm = (name # "adaptive_no_norm"),
        !.interval = IF name = "adaptive_no_periodic" THEN None ELSE cfg.period]

Periodic(cfg, gap) == IF gap % cfg.period = 0 THEN FullRecompute ELSE ReuseStale

Threshold(cfg, norm) == IF norm > cfg.normMax THEN FullRecompute ELSE ReuseStale

\* Mistake: restarts above the updated layer.
LayerwiseAbove(t) ==
    IF t.layer = None
    THEN FullRecompute
    ELSE Decision("partial_recompute", "invalid", t.layer + 1)

Layerwise(t) ==
    IF t.layer = None THEN FullRecompute ELSE Decision("partial_recompute", "invalid", t.layer)

Windowed(t, size) ==
    IF t.layer = None
    THEN FullRecompute
    ELSE [Decision("partial_recompute", "valid_approx", t.layer) EXCEPT !.last = t.layer + size]

BaseCacheReuse(t) ==
    IF t.kind \in QKinds \cup {"output_head"}
    THEN ReuseFrozen
    ELSE Decision("full_recompute", "invalid", t.layer)

\* Mistake: the entry of the version before is taken for the current one.
AdapterSpecificOlder(gap) == IF gap <= 1 THEN ReuseExact ELSE FullRecompute

AdapterSpecific(gap) == IF gap = 0 THEN ReuseExact ELSE FullRecompute

StaticBaseDelta(cfg, t, norm) ==
    CASE t.kind \in KVKinds -> Decision("delta_correct", "valid_approx", t.layer)
      [] t.kind \notin KVKinds /\ norm <= cfg.normMax ->
            Decision("reuse_stale", "valid_approx", t.layer)
      [] OTHER -> Decision("full_recompute", "invalid", t.layer)

AloraPrefix(t) ==
    IF IsLora(t)
    THEN Decision("alora_suffix_recompute", "valid_exact", t.layer)
    ELSE Decision("full_recompute", "invalid", t.layer)

\* LRAgent and ForkKV differ in the kinds they share, correct and restart.
Decomposed(t, gap, shared, corrected, restartable) ==
    CASE gap = 0 -> ReuseExact
      [] gap # 0 /\ t.kind \in shared -> ReuseFrozen
      [] gap # 0 /\ t.kind \in corrected -> Decision("delta_correct", "valid_approx", t.layer)
      [] OTHER -> IF restartable THEN Layerwise(t) ELSE FullRecompute

LrAgent(t, gap) ==
    Decomposed(t, gap, {"lora.q"}, {"lora.k", "lora.v", "lora.qv"}, IsLora(t))

ForkKv(t, gap) == Decomposed(t, gap, QKinds \cup {"output_head"}, KVKinds, TRUE)

\* The strategies that do not ask the planner.
FixedAnswer(cfg, name, t, gap, norm) ==
    CASE name = "full_recompute" -> FullRecompute
      [] name = "no_adaptation" -> ReuseExact
      [] name = "stale_reuse" -> ReuseStale
      [] name = "frozen_reuse" -> ReuseFrozen
      [] name = "periodic_refresh" -> Periodic(cfg, gap)
      [] name = "threshold_refresh" -> Threshold(cfg, norm)
      [] name = "layerwise_recompute" -> Layerwise(t)
      [] name = "base_cache_reuse" -> BaseCacheReuse(t)
      [] name = "adapter_specific_cache" -> AdapterSpecific(gap)
      [] name = "static_base_delta" -> StaticBaseDelta(cfg, t, norm)
      [] name = "alora_prefix_reuse" -> AloraPrefix(t)
      [] name = "lragent_adapter_cache" -> LrAgent(t, gap)
      [] name = "forkkv_base_delta" -> ForkKv(t, gap)
      [] name = "windowed_recompute" -> Windowed(t, cfg.window)
      [] name \in DOMAIN FixedWindow -> Windowed(t, FixedWindow[name])
      [] OTHER -> Decision("full_recompute", "invalid", t.layer)

Decide(cfg, name, t, gap, norm, rt) ==
    CASE name \in AdaptiveNames -> Plan(AdaptivePolicy(cfg, name), rt, t, gap, norm)
      [] name = "delta_correction" ->
            Plan([DefaultPolicy EXCEPT !.normMax = cfg.normMax], DefaultRuntime, t, gap, norm)
      [] OTHER -> {FixedAnswer(cfg, name, t, gap, norm)}

===========================================================================
