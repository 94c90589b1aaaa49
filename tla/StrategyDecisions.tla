------------------------- MODULE StrategyDecisions -------------------------
(***************************************************************************)
(* What a strategy answers about one cached prefix that ages: it is asked  *)
(* at one adapter version after another and nobody acts on its answer, so  *)
(* the version gap and the accumulated norm only grow. VersionedRunner.tla *)
(* acts on the answers.                                                    *)
(***************************************************************************)
EXTENDS CacheStrategies

CONSTANTS
    Configs,        \* cache sections of configurations
    Names,          \* strategies asked
    Targets,        \* [kind, layer]
    Runtimes,       \* what the backend may have measured
    GapSteps,       \* versions between two questions
    NormSteps,      \* what one such stretch adds to the norm
    MaxGap,         \* bound on the version gap
    MaxNorm         \* bound on the norm

ASSUME StepsAssumption == GapSteps \subseteq Nat \ {0} /\ NormSteps \subseteq Nat

\* The constructors refuse a period or a window below one. The thresholds are
\* numbers.
ASSUME QuestionAssumption ==
    /\ None \notin Nat
    /\ Names \subseteq StrategyNames
    /\ \A c \in Configs : c.period \in Nat \ {0} /\ c.window \in Nat \ {0}
    /\ \A c \in Configs : {c.normMax, c.gapMax, c.proxyMax} \subseteq Int
    /\ \A t \in Targets : t.layer \in Nat \cup {None}

VARIABLES cfg, name, target, rt, gap, norm, answer

question == <<cfg, name, target, rt>>

vars == <<cfg, name, target, rt, gap, norm, answer>>

\* A partial recompute is only measured when there is a layer to start from.
RuntimeOf(r, t) == IF t.layer = None THEN [r EXCEPT !.partial = None] ELSE r

Init ==
    /\ cfg \in Configs
    /\ name \in Names
    /\ target \in Targets
    /\ rt \in {RuntimeOf(r, target) : r \in Runtimes}
    /\ gap = 0
    /\ norm = 0
    /\ answer \in Decide(cfg, name, target, 0, 0, rt)

AskAgain(g, d) ==
    /\ gap + g <= MaxGap
    /\ norm + d <= MaxNorm
    /\ gap' = gap + g
    /\ norm' = norm + d
    /\ answer' \in Decide(cfg, name, target, gap', norm', rt)
    /\ UNCHANGED question

Next == \E g \in GapSteps, d \in NormSteps : AskAgain(g, d)

Spec == Init /\ [][Next]_vars

---------------------------------------------------------------------------

Recomputing == {"partial_recompute", "full_recompute", "reject_update"}

Approximating == {"reuse_frozen", "reuse_stale", "delta_correct"}

Covered == CellsFor(AdaptivePolicy(cfg, name), target) # {}

\* Only a strategy that sees versions knows that the cache is current, and
\* then asks no map.
FromMap ==
    /\ name \in AdaptiveNames /\ Covered
    /\ gap > 0 \/ ~AdaptivePolicy(cfg, name).useVersion

\* The backends raise ValueError for a partial recompute without a first
\* layer or of no layers. No strategy, rule or map entry asks for one,
\* layer 0 and targets without a layer included.
DecisionExecutable ==
    answer.action = "partial_recompute" =>
        /\ answer.first # None
        /\ answer.last # None => answer.last > answer.first

\* "Exact" reuse of a cache is answered only for the current version, or
\* for a target whose change no cached tensor depends on, except by the
\* baseline that never adapts.
ExactOnlyWhenCurrent ==
    answer.action = "reuse_exact" =>
        gap = 0 \/ target.kind = "output_head" \/ name = "no_adaptation"

\* A cache found too old or too far off stays so: once a rule recomputes, no
\* greater age or norm makes it reuse again. The exceptions are the strategy
\* that looks at its period only, and a map, whose cells need not be
\* monotone.
OnceRefreshedAlways ==
    [][ (name # "periodic_refresh" /\ ~Covered /\ answer.action \in Recomputing) =>
            answer'.action \in Recomputing ]_vars

\* The planner's age limit: without a map entry, an adaptive strategy that
\* sees versions never approximates from a cache as old as the period.
AgeBounded ==
    (/\ name \in AdaptiveNames \ {"adaptive_no_version", "adaptive_no_periodic"}
     /\ ~Covered
     /\ answer.action \in Approximating) => gap < cfg.period

\* The norm an adaptive strategy lets a reused K/V cache drift by: without a
\* map entry a corrected cache is inside the norm threshold and inside the
\* threshold on the proxy, which weighs the norm by the age.
DriftBounded ==
    (name \in AdaptiveNames \ {"adaptive_no_norm"} /\ ~Covered
        /\ answer.action = "delta_correct") =>
            /\ norm <= cfg.normMax
            /\ 8 * norm <= cfg.proxyMax

\* The planner exceeds no budget to correct or to restart, by whichever path,
\* and corrects nothing under memory pressure, for that takes a second copy
\* of the cache. Of reuses only those that a map answers are held against
\* the latency budget: the rules answer theirs whatever they cost.
BudgetsRespected ==
    name \in AdaptiveNames =>
        LET p == AdaptivePolicy(cfg, name)
            fits == ActionLatency(rt, answer.action, target) <= p.budget * rt.full
        IN  /\ answer.action \in {"delta_correct", "partial_recompute"} => fits
            /\ FromMap /\ answer.action \in Reuses => fits
            /\ answer.action = "delta_correct" => ~MemoryPressure(p, rt)

\* When a map covers the target, an approximation was measured as near as any:
\* some strategy that stands for the answer has a cell at a gap than which no
\* other that was measured is nearer to the age, and all its cells at that gap
\* are safe. Cells of another context count only if no cell matches; one
\* without a context matches any. How far the nearest gap is off is not
\* limited.
MapReuseIsMeasuredSafe ==
    (FromMap /\ answer.action \in Approximating) =>
        LET p == AdaptivePolicy(cfg, name)
            cells == CellsFor(p, target)
            Counts(c) == MatchesRuntime(c, rt) \/ \A d \in cells : ~MatchesRuntime(d, rt)
            off(c) == Distance(c.gap, IF p.useVersion THEN gap ELSE 1)
        IN  \E c \in cells :
                /\ Counts(c) /\ StrategyAction(c.strategy, target) = answer.action
                /\ \A d \in cells : Counts(d) =>
                    /\ off(c) <= off(d)
                    /\ d.strategy = c.strategy /\ d.gap = c.gap => d.safe

===========================================================================
