--------------------------- MODULE RankerPolicies ---------------------------
(***************************************************************************)
(* What a ranker learns from the tables of earlier conditions: which       *)
(* candidate a gate probes and the margin it asks for, the pools that the  *)
(* routers choose from, when a router probes twice or commits to a repair  *)
(* without a probe, and where its guard trusts it.                         *)
(*                                                                         *)
(* A calibration cal has, for each condition c, what the rows of its table *)
(* report of each candidate: cal[c].kl[k], cal[c].nll[k] and cal[c].doubt[k]*)
(* (the probability of the likeliest token, negated). The comparisons of   *)
(* the code with 1e-15 are comparisons of integers here. Where the code    *)
(* breaks a tie by latency, each of the policies is a possible one.        *)
(***************************************************************************)
EXTENDS ProbeScores, FiniteSets, FiniteSetsExt, Sequences, SequencesExt

CONSTANTS
    Share,              \* what relative gains are measured in
    MinStaleKl,         \* a stale cache this far off is material
    ProbeMargins,       \* ONE_PROBE_MARGINS, CONFIDENCE_PROBE_MARGINS
    PoolSize,           \* of a reference pool
    CommittedPoolSize,  \* of a committed pool
    Quantiles,          \* of the prediction error, in 1/1000
    MinimumGains,       \* that a committed repair may have to promise
    SelectorNames,      \* the selectors, in the order of their names
    MaxEntropy          \* no entropy is above it

ASSUME PolicyAssumption ==
    /\ Quantiles \subseteq 0..1000 /\ 1000 \in Quantiles
    /\ MinimumGains \subseteq Nat /\ 0 \in MinimumGains
    /\ Share \in Nat \ {0} /\ MinStaleKl \in Nat
    /\ PoolSize \in Nat \ {0} /\ CommittedPoolSize \in Nat \ {0}
    /\ SelectorNames \in Seq(ToSet(SelectorNames))

NoRepair == [selector |-> "stale", count |-> 0]

NameRank(k) == CHOOSE i \in DOMAIN SelectorNames : SelectorNames[i] = k.selector

Candidates(cal) == (UNION {DOMAIN cal[c].kl : c \in DOMAIN cal}) \ {NoRepair}

\* Keys are compared part by part; the best have the greatest.
Precedes(a, b) == \E i \in DOMAIN a : a[i] > b[i] /\ \A j \in 1..(i - 1) : a[j] = b[j]

Best(choices, key) ==
    LET keyed == {<<x, key[x]>> : x \in choices}
    IN  {x[1] : x \in {a \in keyed : \A b \in keyed : ~Precedes(b[2], a[2])}}

Positive(f) == Cardinality({c \in DOMAIN f : f[c] > 0})
Negative(f) == Cardinality({c \in DOMAIN f : f[c] < 0})

Relative(stale, gain) == (gain * Share) \div (IF stale > 1 THEN stale ELSE 1)

\* quantile(method="higher"): so many 1/1000 of the values lie below it or at it.
Higher(f, quantile) ==
    LET below == (quantile * (Cardinality(DOMAIN f) - 1) + 999) \div 1000
    IN  CHOOSE v \in {f[c] : c \in DOMAIN f} :
            /\ Cardinality({c \in DOMAIN f : f[c] < v}) <= below
            /\ Cardinality({c \in DOMAIN f : f[c] <= v}) > below

-----------------------------------------------------------------------------
(* Gates that probe one candidate. *)

Gains(cal, choice) == [c \in DOMAIN cal |-> cal[c].kl[NoRepair] - cal[c].kl[choice[c]]]

\* Mistake: a candidate as good as the margin passes.
PassesAtMargin(score, stale, margin) == stale - score >= margin

Passes(score, stale, margin) == stale - score > margin

\* A candidate counts only if every condition measured it.
Probed(cal, score) ==
    {k \in Candidates(cal) : \A c \in DOMAIN cal :
        /\ {k, NoRepair} \subseteq DOMAIN score[c]
        /\ score[c][k] # NaN /\ score[c][NoRepair] # NaN}

\* What a gate of this candidate and margin would have done to the calibration.
GatedChoice(cal, score, k, margin) ==
    [c \in DOMAIN cal |-> IF Passes(score[c][k], score[c][NoRepair], margin) THEN k ELSE NoRepair]

GateFit(cal, score, k, margin) ==
    LET gain == Gains(cal, GatedChoice(cal, score, k, margin))
    IN  [candidate |-> k, margin |-> margin, harmful |-> Negative(gain),
         worst |-> -Min({gain[c] : c \in DOMAIN cal}), gain |-> Total(gain),
         relative |-> Total([c \in DOMAIN cal |-> Relative(cal[c].kl[NoRepair], gain[c])])]

\* No harm comes first, then the gain, then a wide margin and few cells.
GateKey(p) == <<-p.harmful, -p.worst, p.gain, p.relative, p.margin, -p.candidate.count>>

GatePolicies(cal, score) ==
    LET policies == {GateFit(cal, score, k, m) : k \in Probed(cal, score), m \in ProbeMargins}
    IN  Best(policies, [p \in policies |-> GateKey(p)])

OneProbePolicies(cal) == GatePolicies(cal, [c \in DOMAIN cal |-> cal[c].nll])
ConfidencePolicies(cal) == GatePolicies(cal, [c \in DOMAIN cal |-> cal[c].doubt])

-----------------------------------------------------------------------------
(* Pools of candidates. *)

\* What is left of a pool probed in order: the likeliest, the first of equals.
PoolChoice(nll, pool) ==
    LET choice[i \in 0..Len(pool)] ==
            IF i = 0 THEN NoRepair
            ELSE LET was == choice[i - 1]
                 IN  IF Less(nll[pool[i]], nll[was]) THEN pool[i] ELSE was
    IN  choice[Len(pool)]

\* One candidate after the other, the best to add to those before it, even if
\* it makes the pool worse.
GrownPool(available, size, key) ==
    LET ranked == [p \in Seq(available) |-> key[p] \o <<-Last(p).count, NameRank(Last(p))>>]
        pool[i \in 0..Min({size, Cardinality(available)})] ==
            IF i = 0 THEN <<>>
            ELSE LET was == pool[i - 1]
                 IN  CHOOSE p \in Best({Append(was, k) : k \in available \ ToSet(was)}, ranked) :
                        TRUE
    IN  pool[Min({size, Cardinality(available)})]

\* The candidates that every condition has measured.
Available(score) ==
    {k \in (UNION {DOMAIN score[c] : c \in DOMAIN score}) \ {NoRepair} :
        \A c \in DOMAIN score : k \in DOMAIN score[c] /\ score[c][k] # NaN}

\* The conditions whose stale cache is measured and materially off.
Material(cal) ==
    {c \in DOMAIN cal :
        /\ cal[c].kl[NoRepair] # NaN /\ cal[c].nll[NoRepair] # NaN
        /\ cal[c].kl[NoRepair] >= MinStaleKl}

ReferencePools(cal, selectors) ==
    LET material == [c \in Material(cal) |-> cal[c]]
        available == {k \in Available([c \in Material(cal) |-> cal[c].nll]) :
                        k.selector \in selectors}
        Fitted(pool) ==
            LET gain == Gains(material, [c \in Material(cal) |-> PoolChoice(cal[c].nll, pool)])
            IN  [candidates |-> pool, margin |-> 0, harmful |-> Negative(gain),
                 gain |-> Total(gain), beneficial |-> Positive(gain),
                 worst |-> Min({Relative(cal[c].kl[NoRepair], gain[c]) : c \in DOMAIN gain})]
        key == [pool \in Seq(available) |->
            LET p == Fitted(pool) IN <<-p.harmful, p.gain, p.worst, p.beneficial>>]
    IN  IF available = {} THEN {} ELSE {Fitted(GrownPool(available, PoolSize, key))}

\* The committed pool covers what the best of its candidates would repair.
CommittedPools(cal) ==
    LET finite == {c \in DOMAIN cal : cal[c].kl[NoRepair] # NaN /\ \E k \in DOMAIN cal[c].kl :
                                        k # NoRepair /\ cal[c].kl[k] # NaN}
        available == Available([c \in finite |-> cal[c].kl])
        key == [pool \in Seq(available) |->
            LET gain == [c \in finite |->
                    cal[c].kl[NoRepair] - Min({cal[c].kl[k] : k \in ToSet(pool) \cup {NoRepair}})]
            IN  <<Total(gain), Positive(gain)>>]
    IN  IF available = {} THEN {} ELSE {GrownPool(available, CommittedPoolSize, key)}

-----------------------------------------------------------------------------
(* Routers. A fit predicts what each candidate gains on each condition; a   *)
(* prediction is made by a fit that has not seen the condition, and may be *)
(* anything. fits is a sequence of fits, predictions[c][i] that of          *)
(* candidate i.                                                            *)

\* The first of the best predictions.
Likeliest(scores) ==
    CHOOSE i \in DOMAIN scores : \A j \in DOMAIN scores :
        scores[i] > scores[j] \/ (scores[i] = scores[j] /\ i <= j)

Runner(scores) == Likeliest([j \in DOMAIN scores \ {Likeliest(scores)} |-> scores[j]])

\* What two choices of a router are compared by.
RouterMetrics(cal, gain) ==
    LET material == [c \in {c \in DOMAIN gain : cal[c].kl[NoRepair] >= MinStaleKl} |-> gain[c]]
    IN  [materialHarmful |-> Negative(material), materialGain |-> Total(material),
         harmful |-> Negative(gain), gain |-> Total(gain)]

\* The gain of probing, on each condition, the candidates listed for it.
ProbedGain(cal, candidates, tried) ==
    Gains(cal, [c \in DOMAIN cal |->
        PoolChoice(cal[c].nll, [i \in DOMAIN tried[c] |-> candidates[tried[c][i]]])])

Lead(scores) == scores[Likeliest(scores)] - scores[Runner(scores)]

\* The second candidate is probed when the first does not lead by close.
RouterTries(predictions, close) ==
    [c \in DOMAIN predictions |->
        IF Lead(predictions[c]) < close
        THEN <<Likeliest(predictions[c]), Runner(predictions[c])>>
        ELSE <<Likeliest(predictions[c])>>]

\* _choose_reference_router_second_probe_margin: of the leads that occur (a
\* quantile cuts between two) the safest that probes 1.5 times on average.
SecondProbes(cal, candidates, predictions) ==
    LET leads == {Lead(predictions[c]) : c \in DOMAIN predictions}
        Fitted(close) ==
            LET tried == RouterTries(predictions, close)
                probes == Total([c \in DOMAIN tried |-> Len(tried[c])])
            IN  [close |-> close, probes |-> probes,
                 metrics |-> RouterMetrics(cal, ProbedGain(cal, candidates, tried))]
        affordable == {f \in {Fitted(close) : close \in {0} \cup {lead + 1 : lead \in leads}} :
                        2 * f.probes <= 3 * Cardinality(DOMAIN cal)}
    IN  Best(affordable, [f \in affordable |->
            <<-f.metrics.materialHarmful, f.metrics.materialGain, -f.probes,
              -f.metrics.harmful, f.metrics.gain, -f.close>>])

\* The conditions whose table has what a router is fitted to.
Complete(score, candidates) ==
    {c \in DOMAIN score : \A k \in ToSet(candidates) \cup {NoRepair} :
        k \in DOMAIN score[c] /\ score[c][k] # NaN}

ReferenceRouters(table, candidates, fits) ==
    LET complete == Complete([c \in DOMAIN table |-> table[c].nll], candidates)
        cal == [c \in complete |-> table[c]]
        predictions == [f \in DOMAIN fits |->
            [c \in complete |-> [i \in DOMAIN candidates |-> fits[f][c][i]]]]
        once == [f \in DOMAIN fits |-> RouterMetrics(cal, ProbedGain(cal, candidates,
                        [c \in complete |-> <<Likeliest(predictions[f][c])>>]))]
        key == [f \in DOMAIN fits |->
            <<-once[f].materialHarmful, once[f].materialGain, -once[f].harmful,
              once[f].gain, -f>>]
    IN  IF Cardinality(complete) < 2 THEN {}
        ELSE UNION {{[candidates |-> candidates, margin |-> 0, close |-> s.close,
                      probes |-> s.probes, metrics |-> s.metrics, once |-> once[f]] :
                        s \in SecondProbes(cal, candidates, predictions[f])} :
                    f \in Best(DOMAIN fits, key)}

-----------------------------------------------------------------------------
(* The committed router repairs without a probe when the gain it predicts, *)
(* less the error of its predictions, exceeds a minimum.                   *)

PredictionError(cal, candidates, predictions, quantile) ==
    [i \in DOMAIN candidates |->
        Higher([c \in DOMAIN cal |->
            predictions[c][i] - (cal[c].kl[NoRepair] - cal[c].kl[candidates[i]])], quantile)]

CommittedTo(candidates, scores, error, minimum) ==
    LET bound == [i \in DOMAIN candidates |-> scores[i] - error[i]]
    IN  IF bound[Likeliest(bound)] > minimum THEN candidates[Likeliest(bound)] ELSE NoRepair

CommittedFit(cal, candidates, fits, f, quantile, minimum) ==
    LET error == PredictionError(cal, candidates, fits[f], quantile)
        choice == [c \in DOMAIN cal |-> CommittedTo(candidates, fits[f][c], error, minimum)]
    IN  [fit |-> f, quantile |-> quantile, minimum |-> minimum, error |-> error,
         candidates |-> candidates, metrics |-> RouterMetrics(cal, Gains(cal, choice)),
         accepted |-> Cardinality({c \in DOMAIN cal : choice[c] # NoRepair})]

\* Mistake: the gain first.
CommittedKeyByGain(p) ==
    <<p.metrics.materialGain, p.metrics.gain, -p.metrics.materialHarmful, -p.metrics.harmful,
      p.accepted, -p.quantile, -p.minimum, -p.fit>>

\* No harm first, then the gain, then a low quantile.
CommittedKey(p) ==
    <<-p.metrics.materialHarmful, -p.metrics.harmful, p.metrics.materialGain, p.metrics.gain,
      p.accepted, -p.quantile, -p.minimum, -p.fit>>

CommittedRouters(table, candidates, fits) ==
    LET complete == Complete([c \in DOMAIN table |-> table[c].kl], candidates)
        cal == [c \in complete |-> table[c]]
        policies == {CommittedFit(cal, candidates, fits, f, q, m) :
                        f \in DOMAIN fits, q \in Quantiles, m \in MinimumGains}
    IN  IF Cardinality(complete) < 2 THEN {}
        ELSE Best(policies, [p \in policies |-> CommittedKey(p)])

\* _committed_runtime_guards: dev lists the repairs the router committed to
\* on other conditions. For a selector, the band of entropies without a harm
\* that gained most, widened half way to the nearest harm on each side.
TrustedBand(dev, selector) ==
    LET own == {i \in DOMAIN dev : dev[i].selector = selector}
        entropies == {dev[i].entropy : i \in own}
        harms == {dev[i].entropy : i \in {i \in own : dev[i].gain < 0}}
        Within(b) == [i \in {i \in own : dev[i].entropy \in b[1]..b[2]} |-> dev[i].gain]
        bands == {b \in entropies \X entropies :
                    b[1] <= b[2] /\ Negative(Within(b)) = 0 /\ Positive(Within(b)) > 0}
        key == [b \in bands |->
            <<Total(Within(b)), Positive(Within(b)), Cardinality(DOMAIN Within(b)),
              b[1] - b[2], -b[1], -b[2]>>]
        Below(b) == {e \in harms : e < b[1]}
        Above(b) == {e \in harms : e > b[2]}
    IN  {[selector |-> selector,
          low |-> IF Below(b) = {} THEN 0 ELSE (Max(Below(b)) + b[1]) \div 2,
          high |-> IF Above(b) = {} THEN MaxEntropy ELSE (b[2] + Min(Above(b))) \div 2] :
            b \in Best(bands, key)}

RuntimeGuard(dev) == UNION {TrustedBand(dev, s) : s \in {dev[i].selector : i \in DOMAIN dev}}

\* _zero_probe_recompute_policies: the risk seven conditions of eight are below.
RecomputeThreshold(risk) == Higher(risk, 875)

=============================================================================
