--------------------------- MODULE FittedCondition ---------------------------
(***************************************************************************)
(* Conditions explored with a ranker that was fitted to the tables of      *)
(* conditions: fit_block_ranker reads what the selectors recorded, and the *)
(* gates and routers of a later run act on it. On a condition of its own   *)
(* calibration a gate must do what its fit counted.                        *)
(***************************************************************************)
EXTENDS BlockwiseCondition, RankerPolicies

CONSTANT BaselineSelectors      \* those whose scores need no pass over the stale cache

-----------------------------------------------------------------------------
\* The rows of the selectors for one condition, as the fit reads them.
MaskOf(m, k) == IF k = NoRepair THEN {} ELSE TopMask(m.sparse[k.selector], Direct, k.count)

TableOf(m, counts) ==
    LET keys == {NoRepair} \cup
                [selector : DOMAIN m.sparse, count : {AtMost(n) : n \in counts}]
    IN  [kl |-> [k \in keys |-> m.sparseKl[MaskOf(m, k)]],
         nll |-> [k \in keys |-> m.nll[1][MaskOf(m, k)]],
         doubt |-> [k \in keys |-> m.confidence[MaskOf(m, k)]]]

OrNone(policies) == IF policies = {} THEN {NoPolicy} ELSE policies

\* The repairs committed to in a run without guard, by any of the candidates.
DevRows(ms, candidates) ==
    [i \in DOMAIN ms, k \in ToSet(candidates) |->
        [selector |-> k.selector, entropy |-> ms[i].entropy[MaskOf(ms[i], k)],
         gain |-> ms[i].sparseKl[{}] - ms[i].sparseKl[MaskOf(ms[i], k)]]]

\* fit_block_ranker, for one target: ms are the conditions it reads. The
\* predictions of the routers are the fits.
FittedRankers(ms, counts, fits) ==
    LET cal == [c \in DOMAIN ms |-> TableOf(ms[c], counts)]
        Routers(pools) == UNION {ReferenceRouters(cal, p.candidates, fits) : p \in pools}
        committed ==
            UNION {CommittedRouters(cal, pool, fits) : pool \in CommittedPools(cal)}
        Guarded(p) ==
            IF p = NoPolicy THEN p
            ELSE [candidates |-> p.candidates, minimum |-> p.minimum, metrics |-> p.metrics,
                  guard |-> RuntimeGuard(DevRows(ms, p.candidates))]
    IN  [default : {0},
         recompute : {RecomputeThreshold([c \in DOMAIN ms |-> ms[c].failureRisk])},
         oneProbe : OrNone(OneProbePolicies(cal)),
         confidence : OrNone(ConfidencePolicies(cal)),
         pool : OrNone(ReferencePools(cal, DOMAIN ms[1].sparse)),
         router : OrNone(Routers(ReferencePools(cal, DOMAIN ms[1].sparse))),
         baselineRouter : OrNone(Routers(ReferencePools(cal, BaselineSelectors))),
         committed : {Guarded(p) : p \in OrNone(committed)},
         calibration : {[conditions |-> ms, counts |-> counts, fits |-> fits]}]

\* What a fit reads: divergences and predictions are numbers, and the
\* selectors those it knows.
Readable(k) ==
    /\ k.conditions \in Seq(ToSet(k.conditions)) /\ k.conditions # <<>>
    /\ k.counts \subseteq Nat \ {0}
    /\ \A m \in ToSet(k.conditions) :
        /\ DOMAIN m.sparse \subseteq ToSet(SelectorNames)
        /\ \A mask \in SUBSET Direct : m.sparseKl[mask] \in Int
        /\ Landscape(m.nll[1]) /\ Landscape(m.confidence)
    /\ \A f \in DOMAIN k.fits : \A c \in DOMAIN k.conditions :
        \A i \in 1..PoolSize \cup 1..CommittedPoolSize : k.fits[f][c][i] \in Int

\* A ranker that names a calibration was fitted to it. A router has two
\* candidates at least: its fit fails where the first has no second to lead.
ASSUME FittedAssumption ==
    \A i \in DOMAIN Conditions :
        LET fitted == {r \in {o.ranker : o \in Conditions[i].options} :
                        r # NoPolicy /\ "calibration" \in DOMAIN r}
        IN  \A k \in {r.calibration : r \in fitted} :
                /\ Readable(k)
                /\ {r \in fitted : r.calibration = k}
                        \subseteq FittedRankers(k.conditions, k.counts, k.fits)
                /\ \A r \in fitted : r.router # NoPolicy => Len(r.router.candidates) >= 2

Calibrated ==
    /\ Ranker /\ "calibration" \in DOMAIN options.ranker
    /\ measured \in ToSet(options.ranker.calibration.conditions)

-----------------------------------------------------------------------------
\* On a condition that a gate was fitted to, its row does no more harm than
\* the fit found: it takes the decisions that the fit weighed.
NoWorseThanCalibrated ==
    Calibrated =>
        LET stale == measured.sparseKl[{}]
            Harm(r) == measured.sparseKl[r.mask] - stale
            ranker == options.ranker
        IN  \A r \in rows :
                /\ r.name = "sparse_one_probe_policy" => Harm(r) <= ranker.oneProbe.worst
                /\ r.name = "sparse_one_probe_confidence_gate" =>
                        Harm(r) <= ranker.confidence.worst
                /\ r.name = "sparse_reference_pool_policy" /\ stale >= MinStaleKl
                        /\ measured.nll[1][{}] # NaN =>
                        /\ Relative(stale, -Harm(r)) >= ranker.pool.worst
                        /\ ranker.pool.harmful = 0 => Harm(r) <= 0

\* A router is fitted so that it never commits to a harm in its calibration,
\* and probes a second candidate where that harms no more often.
RoutersAreCautious ==
    Calibrated =>
        LET p == options.ranker.router
            q == options.ranker.committed
        IN  /\ q # NoPolicy => q.metrics.harmful = 0
            /\ p # NoPolicy =>
                /\ p.metrics.materialHarmful <= p.once.materialHarmful
                /\ 2 * p.probes <= 3 * Len(options.ranker.calibration.conditions)

\* A guard trusts no repair that was a harm where it was fitted: it counts
\* none of them in its bands.
GuardRejectsHarm ==
    Calibrated => \A r \in rows : r.name = "sparse_committed_router_policy" =>
        measured.sparseKl[r.mask] <= measured.sparseKl[{}]

=============================================================================
