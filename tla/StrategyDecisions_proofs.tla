----------------------- MODULE StrategyDecisions_proofs -----------------------
(***************************************************************************)
(* What every strategy answers, proved for every configuration, target,    *)
(* age, norm, backend and map. A state of StrategyDecisions is a question  *)
(* with one of its answers (Answered), so a property of the states is a    *)
(* lemma about Decide.                                                     *)
(***************************************************************************)
EXTENDS StrategyDecisions, TLAPS

Executable(d) ==
    d.action = "partial_recompute" =>
        /\ d.first # None
        /\ d.last # None => d.last > d.first

\* A fallback restarts only where there is a layer to restart from.
LEMMA RefreshExecutable ==
    ASSUME NEW p, NEW r, NEW t
    PROVE  Executable(Refresh(p, r, t)) /\ Refresh(p, r, t).action \in
                {"partial_recompute", "full_recompute"}
BY DEF Refresh, Executable, Decision, FullRecompute

\* A map's strategies stand for approximations, full recomputes and, where
\* there is a layer, restarts; never for an exact reuse.
LEMMA MapDecisionFacts ==
    ASSUME NEW p, NEW r, NEW t, NEW cells, NEW d \in MapDecisions(p, r, t, cells)
    PROVE  /\ Executable(d)
           /\ d.action # "reuse_exact"
<1>1. CASE MapCandidates(p, r, t, cells) = {}
  <2>1. d = Refresh(p, r, t)
    BY <1>1 DEF MapDecisions
  <2>2. QED
    BY <2>1, RefreshExecutable
<1>2. CASE MapCandidates(p, r, t, cells) # {}
  <2>1. PICK a \in MapCandidates(p, r, t, cells) :
          d = Decision(a, ActionState(a),
                       IF a \in {"partial_recompute", "delta_correct"} THEN t.layer ELSE None)
    BY <1>2, Zenon DEF MapDecisions, Fastest
  <2>2. a # None /\ \E s : a = StrategyAction(s, t)
    BY DEF MapCandidates
  <2>3. /\ a \in {"reuse_stale", "delta_correct", "partial_recompute", "full_recompute"}
        /\ a = "partial_recompute" => t.layer # None
    BY <2>2 DEF StrategyAction
  <2>4. QED
    BY <2>1, <2>3 DEF Decision, Executable
<1>3. QED
  BY <1>1, <1>2

\* The rules, without a map.
LEMMA RuleFacts ==
    ASSUME NEW p, NEW r, NEW t, NEW age, NEW drift
    PROVE  LET d == PlanWithoutMap(p, r, t, age, drift) IN
           /\ Executable(d)
           /\ d.action = "reuse_exact" => t.kind = "output_head"
<1> DEFINE d == PlanWithoutMap(p, r, t, age, drift)
<1>1. CASE d = Refresh(p, r, t)
  BY <1>1, RefreshExecutable
<1>2. CASE d = TargetRule(p, r, t, age, drift)
  BY <1>2, RefreshExecutable
     DEF TargetRule, RejectOrFull, Decision, Executable, ReuseExact, ReuseFrozen, ReuseStale
<1>3. CASE d = GenericRule(p, r, t, age, drift)
  BY <1>3, RefreshExecutable DEF GenericRule, Decision, Executable, ReuseStale
<1>4. QED
  BY <1>1, <1>2, <1>3, Zenon DEF PlanWithoutMap

\* The planner, with or without a map.
LEMMA PlanFacts ==
    ASSUME NEW p, NEW r, NEW t, NEW age, NEW drift, NEW d \in Plan(p, r, t, age, drift)
    PROVE  /\ Executable(d)
           /\ d.action = "reuse_exact" =>
                 (p.useVersion /\ age = 0) \/ t.kind = "output_head"
<1>1. CASE p.useVersion /\ age = 0
  BY <1>1 DEF Plan, ReuseExact, Decision, Executable
<1>2. CASE ~(p.useVersion /\ age = 0)
  <2> DEFINE g == IF p.useVersion THEN age ELSE 1
             n == IF p.useNorm THEN drift ELSE 0
  <2>1. CASE CellsFor(p, t) # {}
    <3>1. PICK cells \in Nearest(p, t, g, r) : d \in MapDecisions(p, r, t, cells)
      BY <1>2, <2>1 DEF Plan
    <3>2. QED
      BY <3>1, MapDecisionFacts
  <2>2. CASE CellsFor(p, t) = {}
    <3>1. d = PlanWithoutMap(p, r, t, g, n)
      BY <1>2, <2>2 DEF Plan
    <3>2. QED
      BY <3>1, RuleFacts
  <2>3. QED
    BY <2>1, <2>2
<1>3. QED
  BY <1>1, <1>2

---------------------------------------------------------------------------

\* An answer is executable, and exact only for the current version, for a
\* target on which no cached tensor depends, or from the fixed baseline.
Acceptable(d, n, t, age) ==
    /\ Executable(d)
    /\ d.action = "reuse_exact" =>
          age = 0 \/ t.kind = "output_head" \/ n = "no_adaptation"

\* A window is one layer at least.
LEMMA WindowedAcceptable ==
    ASSUME NEW n, NEW t, t.layer \in Nat \cup {None}, NEW age, NEW size \in Nat \ {0}
    PROVE  Acceptable(Windowed(t, size), n, t, age)
BY QuestionAssumption DEF Windowed, Decision, FullRecompute, Acceptable, Executable

\* LRAgent and ForkKV reuse exactly at the current version only.
LEMMA DecomposedAcceptable ==
    ASSUME NEW n, NEW t, NEW age, NEW shared, NEW corrected, NEW restartable
    PROVE  Acceptable(Decomposed(t, age, shared, corrected, restartable), n, t, age)
BY DEF Decomposed, Layerwise, Decision, ReuseExact, ReuseFrozen, FullRecompute, Acceptable,
       Executable

\* So do the strategies without a planner, each by its own rule.
LEMMA FixedAnswerAcceptable ==
    ASSUME NEW c \in Configs, NEW n \in StrategyNames, NEW t \in Targets, NEW age, NEW drift
    PROVE  Acceptable(FixedAnswer(c, n, t, age, drift), n, t, age)
<1> DEFINE d == FixedAnswer(c, n, t, age, drift)
<1>1. CASE n \in WindowedNames
  <2>1. PICK size \in Nat \ {0} : d = Windowed(t, size)
    <3>1. CASE n = "windowed_recompute"
      BY <3>1, QuestionAssumption DEF FixedAnswer, FixedWindow
    <3>2. CASE n \in DOMAIN FixedWindow
      <4>1. FixedWindow[n] \in Nat \ {0}
        BY <3>2 DEF FixedWindow
      <4>2. d = Windowed(t, FixedWindow[n])
        BY <3>2 DEF FixedAnswer, FixedWindow
      <4>3. QED
        BY <4>1, <4>2
    <3>3. QED
      BY <1>1, <3>1, <3>2 DEF WindowedNames
  <2>2. QED
    BY <2>1, QuestionAssumption, WindowedAcceptable
<1>2. CASE n = "lragent_adapter_cache"
  <2>1. d = LrAgent(t, age)
    BY <1>2 DEF FixedAnswer, FixedWindow
  <2>2. QED
    BY <2>1, DecomposedAcceptable DEF LrAgent
<1>3. CASE n = "forkkv_base_delta"
  <2>1. d = ForkKv(t, age)
    BY <1>3 DEF FixedAnswer, FixedWindow
  <2>2. QED
    BY <2>1 DEF ForkKv, Decomposed, Layerwise, Decision, ReuseExact, ReuseFrozen,
             FullRecompute, Acceptable, Executable
<1>4. CASE n \notin WindowedNames \cup {"lragent_adapter_cache", "forkkv_base_delta"}
  BY <1>4 DEF FixedAnswer, WindowedNames, Periodic, Threshold,
              Layerwise, BaseCacheReuse, AdapterSpecific, StaticBaseDelta, AloraPrefix,
              FullRecompute, ReuseExact, ReuseStale, ReuseFrozen, Decision, Acceptable,
              Executable
<1>5. QED
  BY <1>1, <1>2, <1>3, <1>4

\* Every strategy's answers are acceptable.
LEMMA DecideAcceptable ==
    ASSUME NEW c \in Configs, NEW n \in StrategyNames, NEW t \in Targets, NEW age, NEW drift,
           NEW r, NEW d \in Decide(c, n, t, age, drift, r)
    PROVE  Acceptable(d, n, t, age)
<1>1. \/ \E p : d \in Plan(p, r, t, age, drift)
      \/ \E p : d \in Plan(p, DefaultRuntime, t, age, drift)
      \/ d = FixedAnswer(c, n, t, age, drift)
  BY Zenon DEF Decide
<1>2. QED
  BY <1>1, PlanFacts, FixedAnswerAcceptable DEF Acceptable

---------------------------------------------------------------------------

\* The answer is one that the strategy gives to the question.
Answered ==
    /\ cfg \in Configs /\ name \in Names /\ target \in Targets
    /\ gap \in Nat /\ norm \in Nat
    /\ answer \in Decide(cfg, name, target, gap, norm, rt)

\* Every state of the model is a question with an answer to it.
THEOREM AnsweredAlways == Spec => []Answered
<1>1. Init => Answered
  BY DEF Init, Answered
<1>2. Answered /\ [Next]_vars => Answered'
  <2> SUFFICES ASSUME Answered, [Next]_vars PROVE Answered'
    OBVIOUS
  <2>1. ASSUME NEW g \in GapSteps, NEW d \in NormSteps, AskAgain(g, d) PROVE Answered'
    BY <2>1, StepsAssumption DEF AskAgain, Answered, question
  <2>2. CASE UNCHANGED vars
    BY <2>2 DEF vars, question, Answered
  <2>3. QED
    BY <2>1, <2>2 DEF Next
<1>3. QED
  BY <1>1, <1>2, PTL DEF Spec

\* In particular the answer of a state is acceptable.
LEMMA AnswersAcceptable == Answered => Acceptable(answer, name, target, gap)
BY DecideAcceptable, QuestionAssumption DEF Answered

\* No strategy asks a backend for a partial recompute that it refuses.
THEOREM DecisionsExecutable == Spec => []DecisionExecutable
<1>1. Answered => DecisionExecutable
  BY AnswersAcceptable DEF Acceptable, Executable, DecisionExecutable
<1>2. QED
  BY <1>1, AnsweredAlways, PTL

\* No strategy calls the reuse of an outdated cache exact, but the fixed
\* baseline and where no cached tensor changed.
THEOREM ExactReuseIsCurrent == Spec => []ExactOnlyWhenCurrent
<1>1. Answered => ExactOnlyWhenCurrent
  BY AnswersAcceptable DEF Acceptable, ExactOnlyWhenCurrent
<1>2. QED
  BY <1>1, AnsweredAlways, PTL

---------------------------------------------------------------------------

\* What a rule answers about a cache older than the current version: nothing
\* that approximates from the period on.
LEMMA RulesRespectAge ==
    ASSUME NEW p, NEW r, NEW t, NEW g, NEW n, p.interval # None, g >= p.interval
    PROVE  PlanWithoutMap(p, r, t, g, n).action \notin Approximating
BY RefreshExecutable DEF PlanWithoutMap, Approximating

\* Adaptive strategies obey the age limit wherever no map answers.
THEOREM AgeIsBounded == Spec => []AgeBounded
<1>1. Answered => AgeBounded
  <2> SUFFICES ASSUME Answered, ~Covered, answer.action \in Approximating,
                      name \in AdaptiveNames \ {"adaptive_no_version", "adaptive_no_periodic"},
                      ~(gap < cfg.period)
               PROVE  FALSE
    BY DEF AgeBounded
  <2> DEFINE p == AdaptivePolicy(cfg, name)
             n == IF p.useNorm THEN norm ELSE 0
  <2>1. p.useVersion = TRUE /\ p.interval = cfg.period /\ cfg.period \in Nat \ {0}
    BY QuestionAssumption DEF AdaptivePolicy, DefaultPolicy, Answered
  <2>2. gap \in Nat /\ gap >= cfg.period /\ gap # 0 /\ p.interval # None
    BY <2>1, QuestionAssumption DEF Answered
  <2>3. answer \in Plan(p, rt, target, gap, norm)
    BY DEF Answered, Decide, AdaptiveNames
  <2>4. answer = PlanWithoutMap(p, rt, target, gap, n)
    BY <2>1, <2>2, <2>3 DEF Plan, Covered
  <2>5. QED
    BY <2>1, <2>2, <2>4, RulesRespectAge
<1>2. QED
  BY <1>1, AnsweredAlways, PTL

---------------------------------------------------------------------------

\* What an answer may cost.
Affordable(p, r, t, d) ==
    d.action \in {"delta_correct", "partial_recompute"} =>
        /\ FitsLatencyBudget(p, r, d.action, t)
        /\ d.action = "delta_correct" => ~MemoryPressure(p, r)

\* A fallback over the latency budget recomputes in full.
LEMMA RefreshAffordable ==
    ASSUME NEW p, NEW r, NEW t
    PROVE  Affordable(p, r, t, Refresh(p, r, t))
BY DEF Refresh, Decision, FullRecompute, Affordable

\* A map's answers are admitted by the budgets, or are the fallback.
LEMMA MapAffordable ==
    ASSUME NEW p, NEW r, NEW t, NEW cells, NEW d \in MapDecisions(p, r, t, cells)
    PROVE  Affordable(p, r, t, d)
<1>1. CASE MapCandidates(p, r, t, cells) = {}
  BY <1>1, RefreshAffordable DEF MapDecisions
<1>2. CASE MapCandidates(p, r, t, cells) # {}
  <2>1. PICK a \in MapCandidates(p, r, t, cells) :
          d = Decision(a, ActionState(a),
                       IF a \in {"partial_recompute", "delta_correct"} THEN t.layer ELSE None)
    BY <1>2, Zenon DEF MapDecisions, Fastest
  <2>2. Admitted(p, r, t, a)
    BY DEF MapCandidates
  <2>3. QED
    BY <2>1, <2>2 DEF Decision, Admitted, Affordable
<1>3. QED
  BY <1>1, <1>2

\* What a map answers instead of the fallback was admitted, a reuse too.
LEMMA MapReuseAffordable ==
    ASSUME NEW p, NEW r, NEW t, NEW cells, NEW d \in MapDecisions(p, r, t, cells),
           d.action \in Reuses
    PROVE  FitsLatencyBudget(p, r, d.action, t)
<1>1. MapCandidates(p, r, t, cells) # {}
  BY RefreshExecutable DEF MapDecisions, Reuses
<1>2. PICK a \in MapCandidates(p, r, t, cells) :
        d = Decision(a, ActionState(a),
                     IF a \in {"partial_recompute", "delta_correct"} THEN t.layer ELSE None)
  BY <1>1, Zenon DEF MapDecisions, Fastest
<1>3. Admitted(p, r, t, a)
  BY DEF MapCandidates
<1>4. d.action = a
  BY <1>2 DEF Decision
<1>5. QED
  BY <1>3, <1>4 DEF Admitted

\* The rules look at the budgets before they correct.
LEMMA RulesAffordable ==
    ASSUME NEW p, NEW r, NEW t, NEW g, NEW n
    PROVE  Affordable(p, r, t, PlanWithoutMap(p, r, t, g, n))
<1> DEFINE d == PlanWithoutMap(p, r, t, g, n)
<1>1. CASE d = Refresh(p, r, t)
  BY <1>1, RefreshAffordable
<1>2. CASE d = TargetRule(p, r, t, g, n)
  BY <1>2, RefreshAffordable
     DEF TargetRule, RejectOrFull, Decision, Affordable, ReuseExact, ReuseFrozen, ReuseStale
<1>3. CASE d = GenericRule(p, r, t, g, n)
  BY <1>3, RefreshAffordable DEF GenericRule, Decision, Affordable, ReuseStale
<1>4. QED
  BY <1>1, <1>2, <1>3, Zenon DEF PlanWithoutMap

\* The planner, with or without a map, stays inside its budgets.
LEMMA PlanAffordable ==
    ASSUME NEW p, NEW r, NEW t, NEW g, NEW n, NEW d \in Plan(p, r, t, g, n)
    PROVE  Affordable(p, r, t, d)
<1>1. \/ d = ReuseExact
      \/ \E cells : d \in MapDecisions(p, r, t, cells)
      \/ \E h, m : d = PlanWithoutMap(p, r, t, h, m)
  BY DEF Plan
<1>2. QED
  BY <1>1, MapAffordable, RulesAffordable DEF ReuseExact, Decision, Affordable

\* What a map that is asked answers, from the cells it holds for nearest.
LEMMA AnswerFromMap ==
    ASSUME Answered, FromMap
    PROVE  LET p == AdaptivePolicy(cfg, name)
           IN  \E cells \in Nearest(p, target, IF p.useVersion THEN gap ELSE 1, rt) :
                    answer \in MapDecisions(p, rt, target, cells)
<1> DEFINE p == AdaptivePolicy(cfg, name)
<1>1. answer \in Plan(p, rt, target, gap, norm)
  BY DEF Answered, Decide, AdaptiveNames, FromMap
<1>2. CellsFor(p, target) # {} /\ ~(p.useVersion /\ gap = 0)
  BY DEF FromMap, Covered, Answered
<1> HIDE DEF p
<1>3. QED
  BY <1>1, <1>2 DEF Plan, p

\* Whatever a backend measured and whatever a map says, the planner exceeds no
\* budget to correct or to restart, nor to reuse what a map calls safe.
THEOREM BudgetsAreRespected == Spec => []BudgetsRespected
<1>1. Answered => BudgetsRespected
  <2> SUFFICES ASSUME Answered, name \in AdaptiveNames PROVE BudgetsRespected
    BY DEF BudgetsRespected
  <2>1. answer \in Plan(AdaptivePolicy(cfg, name), rt, target, gap, norm)
    BY DEF Answered, Decide, AdaptiveNames
  <2>2. Affordable(AdaptivePolicy(cfg, name), rt, target, answer)
    BY <2>1, PlanAffordable
  <2>3. ASSUME FromMap, answer.action \in Reuses
        PROVE  FitsLatencyBudget(AdaptivePolicy(cfg, name), rt, answer.action, target)
    BY <2>3, AnswerFromMap, MapReuseAffordable
  <2>4. QED
    BY <2>2, <2>3 DEF Affordable, BudgetsRespected, FitsLatencyBudget
<1>2. QED
  BY <1>1, AnsweredAlways, PTL

---------------------------------------------------------------------------

\* How far the weights may have moved when a cache is corrected without a map.
LEMMA CorrectionsAreSmall ==
    ASSUME NEW p, NEW r, NEW t, NEW g \in Nat, NEW n \in Nat, p.proxyMax \in Int,
           PlanWithoutMap(p, r, t, g, n).action = "delta_correct"
    PROVE  n <= p.normMax /\ 8 * n <= p.proxyMax
<1>1. ~(ErrorProxy(t.kind, g, n) > p.proxyMax) /\ t.kind \in KVKinds /\ Small(p, g, n)
  BY RefreshExecutable
     DEF PlanWithoutMap, TargetRule, GenericRule, RejectOrFull, Decision, ReuseExact,
         ReuseFrozen, ReuseStale
<1>2. Risk(t.kind) \in {8, 9}
  <2>1. t.kind # "output_head" /\ t.kind \notin QKinds
    BY <1>1 DEF KVKinds, QKinds
  <2>2. CASE t.kind \in {"attention.qv", "lora.qv"}
    BY <2>1, <2>2 DEF Risk, KVKinds, StateChangingKinds
  <2>3. CASE t.kind \in KVKinds \ {"attention.qv", "lora.qv"}
    BY <2>1, <2>3 DEF Risk, KVKinds, StateChangingKinds
  <2>4. QED
    BY <1>1, <2>2, <2>3
<1>3. ErrorProxy(t.kind, g, n) >= 8 * n
  <2> DEFINE a == AtLeast(g, 1)
  <2>1. a \in Nat /\ a >= 1 /\ AtLeast(n, 0) = n
    BY DEF AtLeast
  <2> HIDE DEF a
  <2>2. a * n >= n
    BY <2>1, Z3
  <2>3. a * n \in Nat
    BY <2>1
  <2>4. 8 * a * n = 8 * (a * n) /\ 9 * a * n = 9 * (a * n)
    BY <2>1, Z3
  <2>5. CASE Risk(t.kind) = 8
    <3>1. ErrorProxy(t.kind, g, n) = 8 * (a * n)
      BY <2>1, <2>4, <2>5 DEF ErrorProxy, a
    <3>2. QED
      BY <2>2, <2>3, <3>1
  <2>6. CASE Risk(t.kind) = 9
    <3>1. ErrorProxy(t.kind, g, n) = 9 * (a * n)
      BY <2>1, <2>4, <2>6 DEF ErrorProxy, a
    <3>2. QED
      BY <2>2, <2>3, <3>1
  <2>7. QED
    BY <1>2, <2>5, <2>6
<1>4. ErrorProxy(t.kind, g, n) \in Int
  BY <1>2 DEF ErrorProxy, AtLeast
<1>5. QED
  BY <1>1, <1>3, <1>4 DEF Small

\* Without a map, no adaptive strategy that sees the norm corrects a cache
\* that drifted beyond its thresholds.
THEOREM DriftIsBounded == Spec => []DriftBounded
<1>1. Answered => DriftBounded
  <2> SUFFICES ASSUME Answered, ~Covered, answer.action = "delta_correct",
                      name \in AdaptiveNames \ {"adaptive_no_norm"}
               PROVE  norm <= cfg.normMax /\ 8 * norm <= cfg.proxyMax
    BY DEF DriftBounded
  <2> DEFINE p == AdaptivePolicy(cfg, name)
             g == IF p.useVersion THEN gap ELSE 1
  <2>1. p.useNorm /\ p.normMax = cfg.normMax /\ p.proxyMax = cfg.proxyMax
    <3>1. name # "adaptive_no_norm"
      BY Zenon
    <3>2. p.useNorm = (name # "adaptive_no_norm")
      BY Zenon DEF AdaptivePolicy, DefaultPolicy
    <3>3. p.normMax = cfg.normMax /\ p.proxyMax = cfg.proxyMax
      BY DEF AdaptivePolicy, DefaultPolicy
    <3>4. QED
      BY <3>1, <3>2, <3>3
  <2>2. answer \in Plan(p, rt, target, gap, norm)
    BY DEF Answered, Decide, AdaptiveNames
  <2>3. answer = PlanWithoutMap(p, rt, target, g, norm)
    BY <2>1, <2>2 DEF Plan, Covered, ReuseExact, Decision
  <2>4. g \in Nat /\ norm \in Nat /\ p.proxyMax \in Int
    BY <2>1, QuestionAssumption DEF Answered
  <2>5. QED
    BY <2>1, <2>3, <2>4, CorrectionsAreSmall
<1>2. QED
  BY <1>1, AnsweredAlways, PTL

---------------------------------------------------------------------------

\* The cells for a target that count: those that match the context, if any do.
Counts(p, t, r, c) ==
    MatchesRuntime(c, r) \/ \A d \in CellsFor(p, t) : ~MatchesRuntime(d, r)

\* The evidence that a map looks up counts, none that counts is nearer, and it
\* is all that counts at its gap.
LEMMA NearestIsAllThatCounts ==
    ASSUME NEW p, NEW t, NEW g, NEW r, NEW cells \in Nearest(p, t, g, r), NEW c \in cells
    PROVE  /\ c \in CellsFor(p, t) /\ Counts(p, t, r, c)
           /\ \A d \in CellsFor(p, t) : Counts(p, t, r, d) =>
                /\ Distance(c.gap, g) <= Distance(d.gap, g)
                /\ d.gap = c.gap => d \in cells
<1> DEFINE compatible == {e \in CellsFor(p, t) : MatchesRuntime(e, r)}
           pool == IF compatible # {} THEN compatible ELSE CellsFor(p, t)
           Closest(d) == \A e \in pool : Distance(d.gap, g) <= Distance(e.gap, g)
<1>1. pool = {e \in CellsFor(p, t) : Counts(p, t, r, e)}
  BY DEF Counts
<1>2. PICK f \in pool : Closest(f) /\ cells = {e \in pool : e.gap = f.gap}
  BY DEF Nearest
<1> HIDE DEF pool
<1>3. c \in pool /\ c.gap = f.gap
  BY <1>2
<1>4. QED
  BY <1>1, <1>2, <1>3

\* An approximation that a map answers stands for a strategy whose evidence,
\* all of it, is safe.
LEMMA MapReuseHasEvidence ==
    ASSUME NEW p, NEW r, NEW t, NEW cells, NEW d \in MapDecisions(p, r, t, cells),
           d.action \in Approximating
    PROVE  \E c \in cells : /\ StrategyAction(c.strategy, t) = d.action
                            /\ \A e \in cells : e.strategy = c.strategy => e.safe
<1>1. MapCandidates(p, r, t, cells) # {}
  BY RefreshExecutable DEF MapDecisions, Approximating
<1>2. PICK a \in MapCandidates(p, r, t, cells) :
        d = Decision(a, ActionState(a),
                     IF a \in {"partial_recompute", "delta_correct"} THEN t.layer ELSE None)
  BY <1>1, Zenon DEF MapDecisions, Fastest
<1>3. PICK s \in SafeStrategies(cells) : a = StrategyAction(s, t)
  BY DEF MapCandidates
<1>4. d.action = a
  BY <1>2 DEF Decision
<1>5. QED
  BY <1>3, <1>4 DEF SafeStrategies

\* An approximation that a map answers was measured at the nearest gap at
\* which anything was that counts, and was safe there every time.
THEOREM MapReuseIsSafe == Spec => []MapReuseIsMeasuredSafe
<1>1. Answered => MapReuseIsMeasuredSafe
  <2> SUFFICES ASSUME Answered, FromMap, answer.action \in Approximating
               PROVE  MapReuseIsMeasuredSafe
    BY DEF MapReuseIsMeasuredSafe
  <2> DEFINE p == AdaptivePolicy(cfg, name)
             g == IF p.useVersion THEN gap ELSE 1
  <2>1. PICK cells \in Nearest(p, target, g, rt) : answer \in MapDecisions(p, rt, target, cells)
    BY AnswerFromMap
  <2>2. PICK c \in cells : /\ StrategyAction(c.strategy, target) = answer.action
                           /\ \A e \in cells : e.strategy = c.strategy => e.safe
    BY <2>1, MapReuseHasEvidence
  <2>3. /\ c \in CellsFor(p, target) /\ Counts(p, target, rt, c)
        /\ \A d \in CellsFor(p, target) : Counts(p, target, rt, d) =>
                /\ Distance(c.gap, g) <= Distance(d.gap, g)
                /\ d.gap = c.gap => d \in cells
    BY <2>1, NearestIsAllThatCounts
  <2>4. \A d \in CellsFor(p, target) : Counts(p, target, rt, d) =>
                /\ Distance(c.gap, g) <= Distance(d.gap, g)
                /\ d.strategy = c.strategy /\ d.gap = c.gap => d.safe
    BY <2>2, <2>3
  <2> HIDE DEF p, g
  <2>5. QED
    BY <2>2, <2>3, <2>4 DEF MapReuseIsMeasuredSafe, Counts, p, g
<1>2. QED
  BY <1>1, AnsweredAlways, PTL

---------------------------------------------------------------------------

\* The risk of a kind is a number, so the error proxy grows with age and norm.
LEMMA ProxyGrows ==
    ASSUME NEW kind, NEW g \in Nat, NEW n \in Nat, NEW h \in Nat, NEW m \in Nat, g <= h, n <= m
    PROVE  /\ ErrorProxy(kind, g, n) \in Int
           /\ ErrorProxy(kind, h, m) \in Int
           /\ ErrorProxy(kind, g, n) <= ErrorProxy(kind, h, m)
<1> DEFINE k == Risk(kind)
           a == AtLeast(g, 1)
           b == AtLeast(h, 1)
<1>1. k \in Nat
  BY DEF Risk, KVKinds, QKinds, StateChangingKinds
<1>2. a \in Nat /\ b \in Nat /\ a <= b /\ AtLeast(n, 0) = n /\ AtLeast(m, 0) = m
  BY DEF AtLeast
<1>3. ErrorProxy(kind, g, n) = k * a * n /\ ErrorProxy(kind, h, m) = k * b * m
  BY <1>2 DEF ErrorProxy
<1> HIDE DEF k, a, b
<1>4. k * a \in Nat /\ k * b \in Nat /\ k * a <= k * b
  <2>1. \E x \in Nat : b = a + x
    BY <1>2
  <2>2. PICK x \in Nat : b = a + x
    BY <2>1
  <2>3. k * b = k * a + k * x
    BY <1>1, <1>2, <2>2, Z3
  <2>4. k * x \in Nat /\ k * a \in Nat
    BY <1>1, <1>2, Z3
  <2>5. QED
    BY <2>3, <2>4
<1>5. \A c, d \in Nat : c <= d => c * n \in Nat /\ d * m \in Nat /\ c * n <= d * m
  <2> SUFFICES ASSUME NEW c \in Nat, NEW d \in Nat, c <= d
               PROVE  c * n \in Nat /\ d * m \in Nat /\ c * n <= d * m
    OBVIOUS
  <2>1. PICK x \in Nat, y \in Nat : d = c + x /\ m = n + y
    <3>1. d - c \in Nat /\ d = c + (d - c) /\ m - n \in Nat /\ m = n + (m - n)
      OBVIOUS
    <3>2. QED
      BY <3>1
  <2>2. d * m = c * n + c * y + x * n + x * y
    BY <2>1, Z3
  <2>3. c * n \in Nat /\ c * y \in Nat /\ x * n \in Nat /\ x * y \in Nat
    BY Z3
  <2>4. QED
    BY <2>2, <2>3
<1>6. QED
  BY <1>3, <1>4, <1>5

\* What a rule answers when it does not approximate: it goes on to do so for
\* any greater age and norm.
LEMMA RulesGoOn ==
    ASSUME NEW p, NEW r, NEW t, NEW g \in Nat, NEW n \in Nat, NEW h \in Nat, NEW m \in Nat,
           g <= h, n <= m, {p.normMax, p.gapMax, p.proxyMax} \subseteq Int,
           p.interval \in Nat \cup {None},
           PlanWithoutMap(p, r, t, g, n).action \in Recomputing
    PROVE  PlanWithoutMap(p, r, t, h, m).action \in Recomputing
<1>1. Small(p, h, m) => Small(p, g, n)
  BY DEF Small
<1>2. ErrorProxy(t.kind, g, n) > p.proxyMax => ErrorProxy(t.kind, h, m) > p.proxyMax
  BY ProxyGrows
<1>3. p.interval # None /\ g >= p.interval => h >= p.interval
  OBVIOUS
<1>4. Refresh(p, r, t).action \in Recomputing
  BY RefreshExecutable DEF Recomputing
<1>5. TargetRule(p, r, t, g, n).action \in Recomputing
         => TargetRule(p, r, t, h, m).action \in Recomputing
  BY <1>1, <1>4 DEF TargetRule, RejectOrFull, Decision, Recomputing, ReuseExact, ReuseFrozen,
                    ReuseStale
<1>6. GenericRule(p, r, t, g, n).action \in Recomputing
         => GenericRule(p, r, t, h, m).action \in Recomputing
  BY <1>1, <1>4 DEF GenericRule, Decision, Recomputing, ReuseStale
<1>7. QED
  BY <1>2, <1>3, <1>4, <1>5, <1>6, Zenon DEF PlanWithoutMap

\* So does the planner, with a policy whose thresholds are numbers and no map
\* cell for the target.
LEMMA PlanGoesOn ==
    ASSUME NEW p, NEW r, NEW t, NEW g \in Nat, NEW n \in Nat, NEW h \in Nat, NEW m \in Nat,
           g < h, n <= m, {p.normMax, p.gapMax, p.proxyMax} \subseteq Int,
           p.interval \in Nat \cup {None}, CellsFor(p, t) = {},
           NEW d \in Plan(p, r, t, g, n), d.action \in Recomputing,
           NEW e \in Plan(p, r, t, h, m)
    PROVE  e.action \in Recomputing
<1> DEFINE age(x) == IF p.useVersion THEN x ELSE 1
           drift(x) == IF p.useNorm THEN x ELSE 0
<1>1. d = PlanWithoutMap(p, r, t, age(g), drift(n))
  BY DEF Plan, ReuseExact, Decision, Recomputing
<1>2. e = PlanWithoutMap(p, r, t, age(h), drift(m))
  <2>1. h # 0
    OBVIOUS
  <2>2. QED
    BY <2>1 DEF Plan
<1>3. /\ age(g) \in Nat /\ age(h) \in Nat /\ age(g) <= age(h)
      /\ drift(n) \in Nat /\ drift(m) \in Nat /\ drift(n) <= drift(m)
  OBVIOUS
<1> HIDE DEF age, drift
<1>4. QED
  BY <1>1, <1>2, <1>3, RulesGoOn

\* And every strategy without a planner, but for the periodic one.
LEMMA FixedAnswersGoOn ==
    ASSUME NEW c \in Configs, NEW nm, nm # "periodic_refresh", NEW t,
           NEW g \in Nat, NEW n \in Nat, NEW h \in Nat, NEW m \in Nat, g < h, n <= m,
           FixedAnswer(c, nm, t, g, n).action \in Recomputing
    PROVE  FixedAnswer(c, nm, t, h, m).action \in Recomputing
<1>1. c.normMax \in Int /\ h # 0
  BY QuestionAssumption
<1>2. CASE nm \in {"threshold_refresh", "static_base_delta", "adapter_specific_cache"}
  <2>1. CASE nm = "threshold_refresh"
    BY <1>1, <2>1 DEF FixedAnswer, FixedWindow, Threshold, FullRecompute, ReuseStale, Decision,
                      Recomputing
  <2>2. CASE nm = "static_base_delta"
    BY <1>1, <2>2 DEF FixedAnswer, FixedWindow, StaticBaseDelta, Decision, Recomputing
  <2>3. CASE nm = "adapter_specific_cache"
    BY <1>1, <2>3 DEF FixedAnswer, FixedWindow, AdapterSpecific, FullRecompute, ReuseExact,
                      Decision, Recomputing
  <2>4. QED
    BY <1>2, <2>1, <2>2, <2>3
<1>3. CASE nm \in {"lragent_adapter_cache", "forkkv_base_delta"}
  <2>1. \A shared, corrected, restartable :
           Decomposed(t, g, shared, corrected, restartable).action \in Recomputing
             => Decomposed(t, h, shared, corrected, restartable).action \in Recomputing
    BY <1>1 DEF Decomposed, ReuseExact, ReuseFrozen, Decision, Recomputing
  <2>2. CASE nm = "lragent_adapter_cache"
    BY <2>1, <2>2 DEF FixedAnswer, FixedWindow, LrAgent
  <2>3. CASE nm = "forkkv_base_delta"
    BY <2>1, <2>3 DEF FixedAnswer, FixedWindow, ForkKv
  <2>4. QED
    BY <1>3, <2>2, <2>3
<1>4. CASE nm \notin {"threshold_refresh", "static_base_delta", "adapter_specific_cache",
                      "lragent_adapter_cache", "forkkv_base_delta"}
  <2>1. FixedAnswer(c, nm, t, h, m) = FixedAnswer(c, nm, t, g, n)
    BY <1>4 DEF FixedAnswer
  <2>2. QED
    BY <2>1
<1>5. QED
  BY <1>2, <1>3, <1>4

\* A strategy that recomputes an ageing cache goes on to recompute it.
THEOREM RefreshingIsForGood == Spec => OnceRefreshedAlways
<1> DEFINE GoesOn == (name # "periodic_refresh" /\ ~Covered /\ answer.action \in Recomputing) =>
                        answer'.action \in Recomputing
<1>1. Answered /\ Answered' /\ [Next]_vars => [GoesOn]_vars
  <2> SUFFICES ASSUME Answered, NEW g \in GapSteps, NEW d \in NormSteps, AskAgain(g, d),
                      name # "periodic_refresh", ~Covered, answer.action \in Recomputing
               PROVE  answer'.action \in Recomputing
    BY DEF Next
  <2>1. /\ gap \in Nat /\ norm \in Nat /\ gap' \in Nat /\ norm' \in Nat
        /\ gap < gap' /\ norm <= norm'
    BY StepsAssumption DEF AskAgain, Answered
  <2>2. /\ cfg \in Configs
        /\ answer \in Decide(cfg, name, target, gap, norm, rt)
        /\ answer' \in Decide(cfg, name, target, gap', norm', rt)
    BY DEF AskAgain, Answered
  <2>3. CASE name \in AdaptiveNames
    <3> DEFINE p == AdaptivePolicy(cfg, name)
    <3>1. /\ {p.normMax, p.gapMax, p.proxyMax} \subseteq Int
          /\ p.interval \in Nat \cup {None}
      BY <2>2, QuestionAssumption DEF AdaptivePolicy, DefaultPolicy
    <3>2. CellsFor(p, target) = {}
      BY DEF Covered
    <3>3. answer \in Plan(p, rt, target, gap, norm) /\ answer' \in Plan(p, rt, target, gap', norm')
      BY <2>2, <2>3, Zenon DEF Decide, AdaptiveNames
    <3> HIDE DEF p
    <3>4. QED
      BY <2>1, <3>1, <3>2, <3>3, PlanGoesOn
  <2>4. CASE name = "delta_correction"
    <3> DEFINE p == [DefaultPolicy EXCEPT !.normMax = cfg.normMax]
    <3>1. /\ {p.normMax, p.gapMax, p.proxyMax} \subseteq Int
          /\ p.interval \in Nat \cup {None}
      BY <2>2, QuestionAssumption DEF DefaultPolicy
    <3>2. CellsFor(p, target) = {}
      BY DEF CellsFor, DefaultPolicy
    <3>3. /\ answer \in Plan(p, DefaultRuntime, target, gap, norm)
          /\ answer' \in Plan(p, DefaultRuntime, target, gap', norm')
      BY <2>2, <2>4 DEF Decide, AdaptiveNames
    <3> HIDE DEF p
    <3>4. QED
      BY <2>1, <3>1, <3>2, <3>3, PlanGoesOn
  <2>5. CASE name \notin AdaptiveNames \cup {"delta_correction"}
    <3>1. /\ answer = FixedAnswer(cfg, name, target, gap, norm)
          /\ answer' = FixedAnswer(cfg, name, target, gap', norm')
      BY <2>2, <2>5 DEF Decide
    <3>2. QED
      BY <2>1, <2>2, <3>1, FixedAnswersGoOn
  <2>6. QED
    BY <2>3, <2>4, <2>5
<1>2. QED
  BY <1>1, AnsweredAlways, PTL DEF Spec, OnceRefreshedAlways
===========================================================================
