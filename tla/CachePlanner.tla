--------------------------- MODULE CachePlanner ---------------------------
(***************************************************************************)
(* CachePlanner.plan as an operator: the decisions it may take about one   *)
(* cached prefix, given what was updated, how many versions ago the cache  *)
(* was built, how far the weights have moved since, and what the backend   *)
(* costs. Where the code breaks a tie by the order of the rows of a CSV    *)
(* file or of a set, every tied answer is possible, so Plan is a set.      *)
(*                                                                         *)
(* Units: norms in hundredths, budgets in percent, risks in tenths, so the *)
(* error proxy and its threshold are in thousandths.                       *)
(***************************************************************************)
EXTENDS Integers

CONSTANT None       \* the code's None

KVKinds == {"attention.k", "attention.v", "attention.qv", "lora.k", "lora.v", "lora.qv"}

QKinds == {"attention.q", "lora.q"}

StateChangingKinds ==
    {"attention.o", "attention.attn", "mlp", "moe.router", "moe.shared_expert",
     "moe.routed_experts", "lora.o", "lora.attn", "lora.all_late", "lora.mlp",
     "lora.moe_shared_expert"}

ModuleKinds ==
    KVKinds \cup QKinds \cup StateChangingKinds \cup {"norm", "output_head", "unknown"}

Reuses == {"reuse_exact", "reuse_frozen", "reuse_stale"}

\* A decision recomputes the layers from first up to, not including, last.
Decision(action, state, first) ==
    [action |-> action, state |-> state, first |-> first, last |-> None, reject |-> FALSE]

FullRecompute == Decision("full_recompute", "invalid", None)
ReuseExact == Decision("reuse_exact", "valid_exact", None)
ReuseStale == Decision("reuse_stale", "valid_approx", None)
ReuseFrozen == Decision("reuse_frozen", "valid_frozen", None)

---------------------------------------------------------------------------
(* Costs and budgets.                                                      *)

ActionCost(action, t) ==
    CASE action \in Reuses -> 5
      [] action = "delta_correct" -> 15
      [] action = "partial_recompute" /\ t.layer # None -> 50
      [] OTHER -> 100

\* What the backend measured for an action, or None.
Measured(rt, action) ==
    CASE action \in Reuses -> rt.reuse
      [] action = "delta_correct" -> rt.delta
      [] action = "partial_recompute" -> rt.partial
      [] OTHER -> rt.full

\* In hundredths, so that an estimated fraction of a full recompute is whole.
ActionLatency(rt, action, t) ==
    IF Measured(rt, action) # None
    THEN 100 * Measured(rt, action)
    ELSE rt.full * ActionCost(action, t)

FitsLatencyBudget(p, rt, action, t) == ActionLatency(rt, action, t) <= p.budget * rt.full

MemoryPressure(p, rt) == p.memory # None /\ rt.total + rt.candidate > p.memory

\* Mistake: the norm threshold is not looked at.
SmallByAge(p, gap, norm) == gap <= p.gapMax

Small(p, gap, norm) == norm <= p.normMax /\ gap <= p.gapMax

Risk(kind) ==
    CASE kind = "output_head" -> 0
      [] kind \in QKinds -> 1
      [] kind \in {"attention.qv", "lora.qv"} -> 9
      [] kind \in KVKinds \ {"attention.qv", "lora.qv"} -> 8
      [] kind = "moe.router" -> 12
      [] kind \in StateChangingKinds \ {"moe.router"} -> 10
      [] kind = "norm" -> 15
      [] OTHER -> 20

AtLeast(x, low) == IF x < low THEN low ELSE x

ErrorProxy(kind, gap, norm) == Risk(kind) * AtLeast(gap, 1) * AtLeast(norm, 0)

\* Mistake: no layer to start from is needed.
RefreshAnywhere(p, rt, t) ==
    IF p.allowPartial /\ FitsLatencyBudget(p, rt, "partial_recompute", t)
    THEN Decision("partial_recompute", "invalid", t.layer)
    ELSE FullRecompute

Refresh(p, rt, t) ==
    IF t.layer # None /\ p.allowPartial /\ FitsLatencyBudget(p, rt, "partial_recompute", t)
    THEN Decision("partial_recompute", "invalid", t.layer)
    ELSE FullRecompute

---------------------------------------------------------------------------
(* The map of measured failures: cells [target, gap, strategy, context,    *)
(* safe]. A cell's target is a pair: a whole target or only its kind.      *)

Distance(a, b) == IF a <= b THEN b - a ELSE a - b

CellsFor(p, t) ==
    LET exact == {c \in p.map : c.target = <<t.kind, t.layer>>} IN
    IF exact # {} THEN exact ELSE {c \in p.map : c.target = <<t.kind, None>>}

\* 0 is a wildcard on either side.
MatchesRuntime(c, rt) == c.context = 0 \/ rt.context = 0 \/ c.context = rt.context

\* Mistake: what was measured at any gap is evidence at all.
AnyGap(p, t, gap, rt) ==
    LET compatible == {c \in CellsFor(p, t) : MatchesRuntime(c, rt)}
    IN  {IF compatible # {} THEN compatible ELSE CellsFor(p, t)}

\* The cell sets that nearest may return.
Nearest(p, t, gap, rt) ==
    LET cells == CellsFor(p, t)
        compatible == {c \in cells : MatchesRuntime(c, rt)}
        pool == IF compatible # {} THEN compatible ELSE cells
        closest == {c.gap : c \in {d \in pool :
                       \A e \in pool : Distance(d.gap, gap) <= Distance(e.gap, gap)}}
    IN  {{c \in pool : c.gap = g} : g \in closest}

StrategyAction(strategy, t) ==
    CASE strategy \in {"stale_reuse", "frozen_reuse", "base_cache_reuse"} -> "reuse_stale"
      [] strategy \in {"delta_correction", "static_base_delta", "forkkv_base_delta",
                       "lragent_adapter_cache"} -> "delta_correct"
      [] strategy \in {"layerwise_recompute", "adaptive", "oracle_planner"} ->
            IF t.layer # None THEN "partial_recompute" ELSE "full_recompute"
      [] strategy = "full_recompute" -> "full_recompute"
      [] OTHER -> None

ActionState(action) ==
    IF action \in {"reuse_stale", "delta_correct"} THEN "valid_approx" ELSE "invalid"

\* Strategies all of whose evidence is safe.
SafeStrategies(cells) ==
    {c.strategy : c \in {d \in cells : \A e \in cells : e.strategy = d.strategy => e.safe}}

\* Mistake: only the ablations are looked at, not the budgets.
AllowedByPolicy(p, rt, t, a) ==
    /\ a = "delta_correct" => p.allowDelta
    /\ a = "partial_recompute" => p.allowPartial

\* What policy and budgets admit.
Admitted(p, rt, t, a) ==
    /\ a = "delta_correct" => p.allowDelta /\ ~MemoryPressure(p, rt)
    /\ a = "partial_recompute" => p.allowPartial
    /\ FitsLatencyBudget(p, rt, a, t)

MapCandidates(p, rt, t, cells) ==
    {a \in {StrategyAction(s, t) : s \in SafeStrategies(cells)} \ {None} : Admitted(p, rt, t, a)}

Fastest(rt, t, actions) ==
    {a \in actions : \A b \in actions : ActionLatency(rt, a, t) <= ActionLatency(rt, b, t)}

MapDecisions(p, rt, t, cells) ==
    LET candidates == MapCandidates(p, rt, t, cells) IN
    IF candidates = {}
    THEN {Refresh(p, rt, t)}
    ELSE {Decision(a, ActionState(a),
                   IF a \in {"partial_recompute", "delta_correct"} THEN t.layer ELSE None) :
             a \in Fastest(rt, t, candidates)}

---------------------------------------------------------------------------
(* The rules, in the order in which the code tries them.                   *)

RejectOrFull(p, first) ==
    IF p.rejectHighRisk
    THEN [Decision("reject_update", "invalid", first) EXCEPT !.reject = TRUE]
    ELSE Decision("full_recompute", "invalid", first)

TargetRule(p, rt, t, gap, norm) ==
    CASE t.kind = "output_head" -> ReuseExact
      [] t.kind \in QKinds -> IF Small(p, gap, norm) THEN ReuseFrozen ELSE ReuseStale
      [] t.kind \in KVKinds ->
            IF /\ p.allowDelta
               /\ Small(p, gap, norm)
               /\ FitsLatencyBudget(p, rt, "delta_correct", t)
               /\ ~MemoryPressure(p, rt)
            THEN Decision("delta_correct", "valid_approx", t.layer)
            ELSE Refresh(p, rt, t)
      [] t.kind \in StateChangingKinds -> Refresh(p, rt, t)
      [] t.kind = "norm" -> RejectOrFull(p, t.layer)
      [] OTHER -> RejectOrFull(p, None)

GenericRule(p, rt, t, gap, norm) ==
    IF Small(p, gap, norm) THEN ReuseStale ELSE Refresh(p, rt, t)

\* Mistake: the age limit is taken as a period.
PlanEvery(p, rt, t, gap, norm) ==
    IF \/ p.interval # None /\ gap % p.interval = 0
       \/ ErrorProxy(t.kind, gap, norm) > p.proxyMax
    THEN Refresh(p, rt, t)
    ELSE IF p.useTarget
         THEN TargetRule(p, rt, t, gap, norm)
         ELSE GenericRule(p, rt, t, gap, norm)

\* What plan does when no map cell covers the target.
PlanWithoutMap(p, rt, t, gap, norm) ==
    IF \/ p.interval # None /\ gap >= p.interval
       \/ ErrorProxy(t.kind, gap, norm) > p.proxyMax
    THEN Refresh(p, rt, t)
    ELSE IF p.useTarget
         THEN TargetRule(p, rt, t, gap, norm)
         ELSE GenericRule(p, rt, t, gap, norm)

Plan(p, rt, t, versionGap, updateNorm) ==
    LET gap == IF p.useVersion THEN versionGap ELSE 1
        norm == IF p.useNorm THEN updateNorm ELSE 0
    IN  IF p.useVersion /\ versionGap = 0
        THEN {ReuseExact}
        ELSE IF CellsFor(p, t) # {}
             THEN UNION {MapDecisions(p, rt, t, cells) : cells \in Nearest(p, t, gap, rt)}
             ELSE {PlanWithoutMap(p, rt, t, gap, norm)}

===========================================================================
