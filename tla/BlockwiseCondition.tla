------------------------- MODULE BlockwiseCondition -------------------------
(***************************************************************************)
(* The exploration of one condition of a blockwise run: after an update,   *)
(* which cells of the old cache to repair. The condition passes through    *)
(* the selectors in a fixed order, and each adds its rows to the table:    *)
(* fixed rankings, a learned ranker and its gates and routers, the budget  *)
(* controller, searches over measured scores, and oracles.                 *)
(*                                                                         *)
(* What a probe of a mask finds is chosen at the start and found again by  *)
(* whoever probes the mask later, as the code's evaluation caches have it: *)
(* measured.nll[h][m] scores mask m by the likelihood of the first tokens  *)
(* of the reference (horizon 1) or of longer stretches of it.              *)
(***************************************************************************)
EXTENDS BlockSearch, BudgetController

CONSTANTS
    StartLayer,     \* the layer of the update
    Direct,         \* cells a delta can repair directly
    Conditions,     \* a sequence of [options, measured]: sets of configurations and
                    \* of what the probes of a condition may find
    Unit,           \* the normalised score of the stale cache
    NoPolicy,       \* in place of a policy a ranker does not have
    RouterScores    \* what a router may predict of a candidate

Eligible == {c \in Cells : LayerOf(c) >= StartLayer}

\* What probes find of the masks of the cells that can be repaired.
Landscape(score) == \A m \in SUBSET Direct : score[m] = NaN \/ score[m] \in Int

ASSUME ConditionAssumption ==
    /\ StartLayer \in 0..(Layers - 1) /\ Direct \subseteq Eligible /\ Unit = StaleScore
    /\ Layers \in Nat /\ Blocks \in Nat \ {0}

\* What the gates and routers of a ranker may try: candidates they can rank,
\* of one cell or more, for they skip the others.
Gates(ranker) ==
    {ranker.oneProbe, ranker.confidence, ranker.pool, ranker.router, ranker.baselineRouter}
        \ {NoPolicy}

Pools(ranker) == {ranker.pool, ranker.router, ranker.baselineRouter} \ {NoPolicy}

CandidatesOf(ranker) ==
    {p.candidate : p \in {ranker.oneProbe, ranker.confidence} \ {NoPolicy}} \cup
    (UNION {ToSet(p.candidates) : p \in Pools(ranker)})

\* What run_blockwise_exploration demands of its arguments, and the margins a
\* ranker is fitted with.
ASSUME OptionsAssumption ==
    \A i \in DOMAIN Conditions : \A o \in Conditions[i].options :
        /\ o.counts # {} /\ o.counts \subseteq 1..Cardinality(Eligible)
        /\ o.policy \in Policies
        /\ o.beams \subseteq Nat \ {0} /\ o.rounds \in Nat
        /\ o.prices \subseteq Nat /\ o.margins \subseteq Nat
        /\ o.oracleCells \in Nat \ {0} /\ o.oracleLimit \in Nat \ {0}
        /\ o.ranker # NoPolicy =>
            /\ o.ranker.default \in Nat
            /\ \A p \in Gates(o.ranker) : p.margin \in Nat
            /\ \A p \in Pools(o.ranker) : p.candidates \in Seq(ToSet(p.candidates))
            /\ \A c \in CandidatesOf(o.ranker) : c.count \in Nat \ {0}

\* A probe finds numbers or nothing; rankings and corrections are numbers,
\* and so are the divergences that the oracles compare. No ranking is named
\* as the oracle or a gate is.
OtherNames == {"greedy_oracle", "sparse_one_probe_policy", "sparse_one_probe_confidence_gate",
               "sparse_reference_pool_policy"}

ASSUME MeasuredAssumption ==
    \A i \in DOMAIN Conditions : \A m \in Conditions[i].measured :
        /\ m.nll # <<>> /\ m.nll \in Seq(ToSet(m.nll)) /\ DOMAIN m.anchor = DOMAIN m.nll
        /\ \A h \in DOMAIN m.nll : Landscape(m.nll[h]) /\ Landscape(m.anchor[h])
        /\ Landscape(m.confidence) /\ (m.baseline = NaN \/ m.baseline \in Int)
        /\ \A s \in DOMAIN m.sparse : \A c \in Direct : m.sparse[s][c] \in Int
        /\ \A s \in DOMAIN m.surgery : \A c \in Eligible : m.surgery[s][c] \in Int
        /\ OtherNames \cap (DOMAIN m.sparse \cup DOMAIN m.surgery) = {}
        /\ m.signed \subseteq Direct
        /\ \A c \in Direct : {m.vector[c], m.risk[c], m.learned[c]} \subseteq Int
        /\ \A o \in Conditions[i].options :
            /\ o.surgery => /\ {"kv_drift", "attention"} \subseteq DOMAIN m.surgery
                            /\ \A mask \in SUBSET Eligible : m.kl[mask] \in Int
            /\ o.horizons \subseteq DOMAIN m.nll
            /\ o.ranker # NoPolicy =>
                \A c \in CandidatesOf(o.ranker) : c.selector \in DOMAIN m.sparse

VARIABLES
    options,        \* the configuration
    measured,       \* what probes find
    stage,          \* the selector whose turn it is
    rows            \* the rows of the table so far

vars == <<options, measured, stage, rows, controllerVars>>

Stages == <<"stale", "recompute", "surgery", "selectors", "signed", "ranker", "one_probe",
            "confidence", "pool", "committed", "router", "dynamic", "structured", "oracles",
            "end">>

Ranker == options.ranker # NoPolicy

\* With the policies only, nothing but routers and controller runs.
Exploring == ~options.policyOnly

\* A stage adds its rows, if the options ask for it, and the next follows.
\* Without cells to repair directly all from selectors to structured is left out.
Stage(s, wanted, new) ==
    LET at == CHOOSE i \in DOMAIN Stages : Stages[i] = s
    IN  /\ stage = s
        /\ rows' = IF wanted THEN rows \cup new ELSE rows
        /\ stage' = IF s = "surgery" /\ (~measured.deltas \/ Direct = {}) THEN "oracles"
                    ELSE Stages[at + 1]
        /\ UNCHANGED <<options, measured>>

\* _record: budget is the number of cells asked for, output the evaluation
\* whose metrics the row reports. A gate compares the score of a mask with
\* against, and has tried the masks tried.
Row(name, budget, mask, output) ==
    [name |-> name, budget |-> budget, mask |-> mask, output |-> output, by |-> 0,
     width |-> 1, price |-> 0, margin |-> 0, probes |-> 0, gate |-> "none",
     against |-> NaN, tried |-> {}]

\* A gated row reports the stale cache, or another fallback, if the gate fails.
GatedRow(name, mask, fallback, by, margin, against, tried) ==
    [Row(name, Cardinality(mask), mask, IF mask = {} THEN fallback ELSE "sparse") EXCEPT
        !.by = by, !.margin = margin, !.against = against, !.tried = tried,
        !.probes = Cardinality(tried), !.gate = IF mask = {} THEN "failed" ELSE "passed"]

AtMost(count) == IF count < Cardinality(Direct) THEN count ELSE Cardinality(Direct)

Confidence == -1

\* What a probe of a mask finds, by the measure a row names: confidence is
\* the probability of the likeliest token, negated.
ScoreBy(by) == IF by = Confidence THEN measured.confidence ELSE measured.nll[by]

-----------------------------------------------------------------------------
Stale == Stage("stale", TRUE, {Row("stale", 0, {}, "stale")}) /\ UNCHANGED controllerVars

\* route_zero_probe_recompute: by the risk of the stale logits alone.
Recompute ==
    LET trigger == measured.failureRisk # NaN /\ measured.failureRisk >= options.ranker.recompute
    IN  /\ Stage("recompute", Ranker /\ options.variant = "recompute",
            {Row("zero_probe_recompute_router", IF trigger THEN Cardinality(Eligible) ELSE 0, {},
                 IF trigger THEN "full" ELSE "stale")})
        /\ UNCHANGED controllerVars

Surgery ==
    /\ Stage("surgery", options.surgery,
        {Row(s, n, TopMask(measured.surgery[s], Eligible, n), "splice") :
            s \in DOMAIN measured.surgery, n \in options.counts})
    /\ UNCHANGED controllerVars

Selectors ==
    /\ Stage("selectors", Exploring,
        {Row(s, n, TopMask(measured.sparse[s], Direct, AtMost(n)), "sparse") :
            s \in DOMAIN measured.sparse, n \in options.counts})
    /\ UNCHANGED controllerVars

\* The signed residual order, cut at the budgets and where a price per cell
\* (in 1/1000 of the energy) no longer pays.
Prices == {0, 10, 25, 50, 100}

SignedRows ==
    LET order == SignedOrder(measured.vector, measured.signed)
        gains == SignedGains(measured.vector, order)
        energy == Energy(measured.vector, measured.signed)
        RowOf(name, n, price) ==
            [Row(name, n, FirstOf(order, n), IF n = 0 THEN "stale" ELSE "sparse")
                EXCEPT !.price = price]
        Fitting(n) == IF n < Len(order) THEN n ELSE Len(order)
    IN  {RowOf("sparse_signed_residual_greedy", Fitting(n), 0) : n \in options.counts} \cup
        {RowOf("sparse_signed_residual_auto", BestPrefix(gains, energy, p), p) : p \in Prices}

Signed == Stage("signed", Exploring, SignedRows) /\ UNCHANGED controllerVars

\* The learned order at the budgets, and at the size learned with it.
RankerRows ==
    LET RowOf(name, n) ==
            Row(name, n, TopMask(measured.learned, Direct, n), IF n = 0 THEN "stale" ELSE "sparse")
    IN  {RowOf("sparse_learned_ranker", AtMost(n)) : n \in options.counts} \cup
        {RowOf("sparse_learned_default_budget", AtMost(options.ranker.default))}

LearnedRanker == Stage("ranker", Ranker /\ Exploring, RankerRows) /\ UNCHANGED controllerVars

-----------------------------------------------------------------------------
(* Gates and routers. A candidate is a fixed ranking cut at a size. *)

CandidateMask(c) == TopMask(measured.sparse[c.selector], Direct, AtMost(c.count))

\* Mistake: a score that is no number passes the gate.
GateIgnoringNaN(score, mask, margin) ==
    IF score[{}] # NaN /\ score[mask] # NaN /\ score[mask] >= score[{}] - margin THEN {} ELSE mask

\* One probe: the candidate, if it improves on the stale cache by more than
\* the margin.
GateMask(score, mask, margin) ==
    IF score[{}] # NaN /\ Less(score[mask], score[{}] - margin) THEN mask ELSE {}

OneProbeRow(name, p, by) ==
    LET tried == CandidateMask(p.candidate)
    IN  GatedRow(name, GateMask(ScoreBy(by), tried, p.margin), "stale", by, p.margin,
                 ScoreBy(by)[{}], {tried})

OneProbe ==
    LET p == options.ranker.oneProbe
    IN  /\ Stage("one_probe", Ranker /\ Exploring /\ p # NoPolicy,
                 {OneProbeRow("sparse_one_probe_policy", p, 1)})
        /\ UNCHANGED controllerVars

ConfidenceGate ==
    LET p == options.ranker.confidence
    IN  /\ Stage("confidence", Ranker /\ Exploring /\ p # NoPolicy,
                 {OneProbeRow("sparse_one_probe_confidence_gate", p, Confidence)})
        /\ UNCHANGED controllerVars

\* The candidates in turn: one that beats the one selected so far by more
\* than the margin takes its place. The first must beat against, the score
\* of doing nothing.
PoolMask(score, masks, against, margin) ==
    LET select[i \in 0..Len(masks)] ==
            IF i = 0 THEN [mask |-> {}, score |-> against]
            ELSE LET was == select[i - 1]
                 IN  IF was.score # NaN /\ Less(score[masks[i]], was.score - margin)
                     THEN [mask |-> masks[i], score |-> score[masks[i]]] ELSE was
    IN  select[Len(masks)].mask

Pool ==
    LET p == options.ranker.pool
        masks == [i \in DOMAIN p.candidates |-> CandidateMask(p.candidates[i])]
        mask == PoolMask(measured.nll[1], masks, measured.nll[1][{}], p.margin)
    IN  /\ Stage("pool", Ranker /\ Exploring /\ p # NoPolicy,
            {GatedRow("sparse_reference_pool_policy", mask, "stale", 1, p.margin,
                      measured.nll[1][{}], ToSet(masks))})
        /\ UNCHANGED controllerVars

\* route_committed_candidate: the candidate whose predicted gain less its
\* error is greatest, if that exceeds the minimum and the entropy of the
\* stale output is where the guard trusts the candidate. It is not probed.
CommittedCandidate(p, bound) ==
    LET first == CHOOSE i \in DOMAIN bound : \A j \in DOMAIN bound :
                    bound[i] > bound[j] \/ (bound[i] = bound[j] /\ i <= j)
        trusted == p.guard # NoPolicy => \E rule \in p.guard :
                    /\ rule.selector = p.candidates[first].selector
                    /\ measured.entropy[{}] \in rule.low..rule.high
    IN  IF bound[first] > p.minimum /\ trusted THEN {p.candidates[first]} ELSE {}

Committed ==
    LET p == options.ranker.committed
        wanted == Ranker /\ options.variant = "committed" /\ p # NoPolicy
    IN  /\ \E bound \in IF wanted THEN [DOMAIN p.candidates -> RouterScores] ELSE {<<>>} :
            Stage("committed", wanted,
                LET mask == UNION {CandidateMask(c) : c \in CommittedCandidate(p, bound)}
                IN  {Row("sparse_committed_router_policy", Cardinality(mask), mask,
                         IF mask = {} THEN "stale" ELSE "sparse")})
        /\ UNCHANGED controllerVars

\* route_reference_candidate: the likeliest candidate is probed, and the
\* next when the two are close. The baseline variant compares with the old
\* cache under the old parameters, and otherwise recomputes everything.
Router ==
    LET baseline == options.variant = "baseline_reference"
        p == IF baseline THEN options.ranker.baselineRouter ELSE options.ranker.router
        wanted == Ranker /\ options.variant # "committed" /\ p # NoPolicy
        against == IF baseline THEN measured.baseline ELSE measured.nll[1][{}]
        close == IF baseline THEN 0 ELSE p.close
        RowFor(score, i, j) ==
            LET order == IF score[i] - score[j] < close THEN <<i, j>> ELSE <<i>>
                masks == [k \in DOMAIN order |-> CandidateMask(p.candidates[order[k]])]
                mask == PoolMask(measured.nll[1], masks, against, p.margin)
            IN  GatedRow("sparse_reference_router_policy", mask,
                         IF baseline THEN "full" ELSE "stale", 1, p.margin, against, ToSet(masks))
    IN  /\ \/ Stage("router", FALSE, {}) /\ ~wanted
           \/ /\ wanted
              /\ \E score \in [DOMAIN p.candidates -> RouterScores] :
                    \E i, j \in DOMAIN p.candidates :
                        /\ i # j /\ \A k \in DOMAIN score : score[i] >= score[k]
                        /\ \A k \in DOMAIN score \ {i} : score[j] >= score[k]
                        /\ Stage("router", TRUE, {RowFor(score, i, j)})
        /\ UNCHANGED controllerVars

-----------------------------------------------------------------------------
(* The budget controller, on the cells ranked by risk. *)

RiskiestMask(count) == TopMask(measured.risk, Direct, count)

\* The stale score a candidate is compared with: prompts anchored at the
\* repaired cells are scored on the stale cache again.
StaleProbe(h, mask) ==
    IF options.source = "prompt_anchor" THEN measured.anchor[h][mask] ELSE measured.nll[h][{}]

\* consensus_probe_score: the worst over the horizons, each relative to its
\* stale score. Unit is a multiple of every scale, so nothing is rounded.
Consensus(mask) ==
    LET Relative(h) ==
            LET stale == StaleProbe(h, mask)
                size == IF stale < 0 THEN -stale ELSE stale
                scale == IF size > 1 THEN size ELSE 1
            IN  Unit + ((measured.nll[h][mask] - stale) * Unit) \div scale
    IN  IF \/ options.horizons = {}
           \/ \E h \in options.horizons : measured.nll[h][mask] = NaN \/ StaleProbe(h, mask) = NaN
        THEN NaN
        ELSE Max({Relative(h) : h \in options.horizons})

TryMore ==
    /\ stage = "dynamic" /\ ~options.supervised
    /\ Probe(Consensus(RiskiestMask(Len(points) + 1)))
    /\ UNCHANGED <<options, measured, stage, rows>>

DynamicRow(count, observed) ==
    [Row("sparse_dynamic_controller", count, RiskiestMask(count),
         IF count = 0 THEN "stale" ELSE "sparse") EXCEPT !.probes = observed]

Controlled ==
    /\ ~options.supervised /\ stop # "running"
    /\ Stage("dynamic", TRUE, {DynamicRow(Selected, Len(points))})
    /\ UNCHANGED controllerVars

\* With a model of the probes: the counts of its schedule are all tried, and
\* of those it thinks probable enough the largest or the likeliest is taken.
Supervised ==
    /\ options.supervised
    /\ LET counts == IF options.prefixOnly THEN {1, 2, cap} \cap 1..cap ELSE 1..cap
       IN  \E accepted \in SUBSET counts, likeliest \in counts \cup {0} :
            /\ likeliest \in accepted \/ (accepted = {} /\ likeliest = 0)
            /\ Stage("dynamic", TRUE,
                {DynamicRow(IF options.largest THEN Max(accepted \cup {0}) ELSE likeliest,
                            Cardinality(counts))})
    /\ UNCHANGED controllerVars

-----------------------------------------------------------------------------
(* Searches over the measured scores, and the oracles. *)

SearchCounts == {AtMost(n) : n \in options.counts}

\* Every mask of each size is measured, when the cells are few.
ExhaustiveRowsOf(by, n) ==
    {[Row("exhaustive", n, m, "sparse") EXCEPT
        !.by = by, !.probes = Cardinality({s \in SUBSET Direct : Cardinality(s) = n})] :
        m \in Exhaustive(ScoreBy(by), Direct, n)}

ExhaustiveRows ==
    UNION {ExhaustiveRowsOf(by, n) :
        by \in DOMAIN measured.nll \cup {Confidence}, n \in SearchCounts}

\* The paths of one measure: greedy, a beam of each width, greedy with swaps.
Paths(by) ==
    LET score == ScoreBy(by)
        total == Cardinality(Direct)
        greedy == GreedyPath(score, Direct, Max(SearchCounts))
    IN  {[name |-> "greedy", width |-> 1, points |-> Points(greedy, total)]} \cup
        IF by = Confidence THEN {} ELSE
            {[name |-> "beam", width |-> w,
              points |-> BeamPath(score, Direct, Max(SearchCounts), w)] : w \in options.beams} \cup
            {[name |-> "swap", width |-> 1, points |-> SwapPath(score, Direct, greedy, r)] :
                r \in {options.rounds} \ {0}}

PathRows(by) ==
    UNION {{[Row(path.name, n, path.points[n].mask, "sparse") EXCEPT
                !.by = by, !.width = path.width, !.probes = path.points[n].probes] :
                n \in SearchCounts \cap DOMAIN path.points} : path \in Paths(by)}

\* Each path with a price per cell and a margin over the stale cache.
JointRow(by, path, price, margin) ==
    LET mask == JointMask(ScoreBy(by), path.points, price, margin)
    IN  [GatedRow(path.name, mask, "stale", by, margin, ScoreBy(by)[{}], {}) EXCEPT
            !.width = path.width, !.price = price, !.probes = MostProbes(path.points)]

JointRows(by) ==
    {JointRow(by, path, price, margin) :
        path \in Paths(by), price \in options.prices, margin \in options.margins}

SearchRows ==
    (IF Cardinality(Direct) <= options.exhaustiveCells THEN ExhaustiveRows ELSE {}) \cup
    (UNION {PathRows(by) : by \in DOMAIN measured.nll \cup {Confidence}}) \cup
    (UNION {JointRows(by) : by \in DOMAIN measured.nll})

\* Every cell a delta can repair, and then the searches.
Structured ==
    /\ Stage("structured", Exploring,
        {Row("sparse_all_direct", Cardinality(Direct), Direct, "sparse")} \cup
        (IF options.structured THEN SearchRows ELSE {}))
    /\ UNCHANGED controllerVars

\* No more cells than asked for, than there are and than the oracle may take.
OracleLimit ==
    Min({Max(options.counts), options.oracleCells, Cardinality(Eligible)})

OracleRows ==
    LET limit == OracleLimit
        pool == CandidatePool(measured.surgery["kv_drift"], measured.surgery["attention"],
                    Eligible, IF limit > options.oracleLimit THEN limit ELSE options.oracleLimit)
        path == GreedyPath(measured.kl, pool, limit)
        Mask(n) == IF n = 0 THEN {} ELSE path[n]
    IN  {Row("greedy_oracle", n, Mask(Min({n, limit, Len(path)})), "splice") :
            n \in options.counts}

FrontierRows ==
    LET profiles == {Profile(measured.kl, b, StartLayer) : b \in 0..(Blocks - 1)}
    IN  {Row("marginal_frontier", n, FrontierMask(profiles, StartLayer, n), "splice") :
            n \in options.counts}

Oracles ==
    /\ Stage("oracles", options.surgery,
        OracleRows \cup FrontierRows \cup
        {Row("eligible_full", Cardinality(Eligible), Eligible, "splice")})
    /\ UNCHANGED controllerVars

-----------------------------------------------------------------------------
Init ==
    /\ \E i \in DOMAIN Conditions :
            options \in Conditions[i].options /\ measured \in Conditions[i].measured
    /\ stage = "stale" /\ rows = {}
    /\ IsStart(ControllerStart(options.policy, Cardinality(Direct)))

Finished == stage = "end" /\ UNCHANGED vars

Next ==
    \/ Stale \/ Recompute \/ Surgery \/ Selectors \/ Signed \/ LearnedRanker
    \/ OneProbe \/ ConfidenceGate \/ Pool \/ Committed \/ Router
    \/ TryMore \/ Controlled \/ Supervised \/ Structured \/ Oracles \/ Finished

Spec == Init /\ [][Next]_vars

-----------------------------------------------------------------------------
\* A repair a gate lets through improves on doing nothing by more than the
\* margin, though it may have been weighed against other candidates or sizes
\* in between; and the masks a gate tried are none of them better than its
\* choice by more than the margin.
GatesAreSound ==
    \A r \in rows : r.gate # "none" =>
        LET score == ScoreBy(r.by)
            chosen == IF r.mask = {} THEN r.against ELSE score[r.mask]
        IN  /\ r.mask # {} => r.against # NaN /\ Less(chosen, r.against - r.margin)
            /\ chosen # NaN => \A m \in r.tried : ~Less(score[m], chosen - r.margin)

\* No search finds a mask better than the exhaustive search of its size, and a
\* beam no path can fall out of finds one as good of one and of two cells.
NoneBeatsExhaustive ==
    \A r, s \in rows :
        LET score == ScoreBy(r.by)
            same == r.by = s.by /\ r.budget = s.budget /\ s.gate = "none" /\ r.by # 0
            measurable == \A m \in SUBSET Direct : score[m] # NaN
        IN  same /\ r.name = "exhaustive" /\ s.name \in {"greedy", "beam", "swap"} =>
                /\ ~Less(score[s.mask], score[r.mask])
                /\ s.name = "beam" /\ measurable
                   /\ s.width >= Cardinality({m \in SUBSET Direct : Cardinality(m) = 1})
                   /\ r.budget <= 2 => score[s.mask] = score[r.mask]

\* Swaps start from the masks of the greedy search. Whatever they exchange, in
\* however many rounds and with masks that have no value among them, they end
\* with a mask of the same size that scores no worse.
SwapsNeverWorsen ==
    \A r, s \in rows :
        LET score == ScoreBy(r.by)
            same == r.by = s.by /\ r.budget = s.budget /\ r.by # 0
        IN  same /\ r.gate = "none" /\ s.gate = "none" /\ r.name = "greedy" /\ s.name = "swap" =>
                /\ Cardinality(s.mask) = Cardinality(r.mask)
                /\ score[s.mask] # NaN /\ ~Less(score[r.mask], score[s.mask])

\* The searches are ordered: none is better than the exhaustive one, which a
\* wide beam equals, and swaps never make a greedy mask worse.
SearchOrder == NoneBeatsExhaustive /\ SwapsNeverWorsen

\* A selector spends no more cells than it is given, on cells it may repair;
\* the oracle spends all of them, for its pool of candidates never runs out.
BudgetsKept ==
    \A r \in rows :
        /\ r.mask \subseteq (IF r.output = "splice" THEN Eligible ELSE Direct)
        /\ Cardinality(r.mask) <= r.budget
        /\ r.name = "greedy_oracle" =>
            Cardinality(r.mask) = (IF r.budget < OracleLimit THEN r.budget ELSE OracleLimit)

=============================================================================
