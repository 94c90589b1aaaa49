------------------------ MODULE MCBlockwiseCondition ------------------------
(***************************************************************************)
(* Two layers of three token blocks; the three cells of the updated layer  *)
(* can be repaired directly. Every likelihood landscape over their masks   *)
(* of three values, and those with one mask that has no value, meets the   *)
(* searches, the gates and the controller; the divergences of spliced      *)
(* caches, additive but for one pair of cells, meet the oracles.           *)
(***************************************************************************)
EXTENDS FittedCondition

MCDirect == {0, 1, 2}
MCMasks == SUBSET MCDirect
MCScores == -60..60
MCRouterScores == {0, 1, 3}

MCPolicies ==
    {[cells |-> 0, target |-> 8, accept |-> 2, floor |-> 0, patience |-> 1],
     [cells |-> 3, target |-> 8, accept |-> 2, floor |-> 0, patience |-> 1],
     [cells |-> 5, target |-> 12, accept |-> 0, floor |-> 3, patience |-> 2]}

Candidate(s, n) == [selector |-> s, count |-> n]

MCRanker ==
    [default |-> 0, recompute |-> 1,
     oneProbe |-> [candidate |-> Candidate("bound", 1), margin |-> 1],
     confidence |-> [candidate |-> Candidate("norm", 2), margin |-> 0],
     pool |-> [candidates |-> <<Candidate("bound", 1), Candidate("norm", 2), Candidate("bound", 2)>>,
               margin |-> 1],
     router |-> [candidates |-> <<Candidate("bound", 1), Candidate("norm", 2)>>, margin |-> 0,
                 close |-> 2],
     baselineRouter |-> [candidates |-> <<Candidate("norm", 1), Candidate("bound", 3)>>,
                         margin |-> 1],
     committed |-> [candidates |-> <<Candidate("bound", 2), Candidate("norm", 1)>>, minimum |-> 0,
                    guard |-> {[selector |-> "bound", low |-> 0, high |-> 1],
                               [selector |-> "norm", low |-> 2, high |-> 3]}]]

MCOptions ==
    [surgery |-> FALSE, structured |-> FALSE, policyOnly |-> FALSE, variant |-> "reference",
     counts |-> {1, 2, 6}, beams |-> {1, 3}, rounds |-> 2, prices |-> {0, 1}, margins |-> {0, 1},
     oracleLimit |-> 2, oracleCells |-> 5, exhaustiveCells |-> 3, ranker |-> NoPolicy,
     source |-> "answer", horizons |-> {1}, supervised |-> FALSE, prefixOnly |-> FALSE,
     largest |-> FALSE, policy |-> CHOOSE p \in MCPolicies : p.cells = 0]

\* Likelihoods: leaving the cache alone scores 4.
Landscapes == {f \in [MCMasks -> {2, 4, 5}] : f[{}] = 4}

Holed == {f \in [MCMasks -> {2, 4, NaN}] :
            f[{}] # 2 /\ Cardinality({m \in MCMasks : f[m] = NaN}) = 1}

Flat == {[m \in MCMasks |-> 4]}

Longer == [m \in MCMasks |-> (IF 0 \in m THEN 2 ELSE 3) + (IF {1, 2} \subseteq m THEN 2 ELSE 0)]

Anchored == [m \in MCMasks |-> IF 2 \in m THEN 3 ELSE 4]

Confident == [m \in MCMasks |-> IF 1 \in m THEN -3 ELSE -2 - Cardinality(m)]

Divergences ==
    {[m \in SUBSET Cells |->
        20 - FoldSet(LAMBDA c, sum : sum + gain[c], 0, m) + (IF {0, 1} \subseteq m THEN 2 ELSE 0)] :
            gain \in [Cells -> {-1, 1}]}

ByPosition(cells) == [c \in cells |-> c]
Striped(cells) == [c \in cells |-> c % 2]

Measured(nlls, kls, vectors, numbers, risks, deltas) ==
    [nll : nlls \X {Longer}, anchor : {<<Anchored, Longer>>}, confidence : {Confident},
     baseline : {5}, entropy : {[m \in MCMasks |-> n] : n \in numbers}, failureRisk : risks, deltas : deltas,
     kl : kls, vector : vectors, signed : {MCDirect}, risk : {[c \in MCDirect |-> (c * 2) % 3]},
     learned : {ByPosition(MCDirect)},
     sparse : {[bound |-> Striped(MCDirect), norm |-> ByPosition(MCDirect)]},
     surgery : {[kv_drift |-> Striped(Cells), attention |-> Striped(Cells)]}]

Vector == [c \in MCDirect |-> c - 1]

\* Conditions that rankers are fitted to. Of the masks of the candidates,
\* those in low score better than the stale cache, those in holes not at all,
\* and those in harm diverge more.
MCCandidateMasks == <<{1}, {0, 1}, {2}, {1, 2}>>

SubsetNumber(n) == {MCCandidateMasks[b + 1] : b \in {b \in 0..3 : (n \div 2^b) % 2 = 1}}

Learned(stale, low, harm, holes, still) ==
    [nll |-> <<[m \in MCMasks |-> IF m \in holes THEN NaN ELSE IF m = {} THEN 4
                                  ELSE IF m \in low THEN 4 - Cardinality(m) ELSE 5], Longer>>,
     anchor |-> <<Anchored, Longer>>,
     confidence |-> [m \in MCMasks |-> IF m = {} THEN -3 ELSE IF m \in harm THEN -2 ELSE -4],
     baseline |-> 4, failureRisk |-> stale, deltas |-> TRUE, kl |-> <<>>, vector |-> Vector,
     entropy |-> [m \in MCMasks |-> IF m = {} THEN still ELSE IF m \in harm THEN 8 ELSE 4],
     sparseKl |-> [m \in MCMasks |-> IF m = {} THEN stale ELSE IF m \in harm THEN stale + 1
                                     ELSE stale - Cardinality(m)],
     signed |-> MCDirect, risk |-> [c \in MCDirect |-> c], learned |-> ByPosition(MCDirect),
     sparse |-> [bound |-> Striped(MCDirect), norm |-> ByPosition(MCDirect)],
     surgery |-> [kv_drift |-> Striped(Cells), attention |-> Striped(Cells)]]

MCCalibration(low, harm, holes) ==
    <<Learned(4, low, harm, {}, 0), Learned(3, {{1}, {2}}, {{1}}, holes, 4),
      Learned(2, {{1, 2}, {0, 1}}, {{1, 2}}, {}, 8)>>

MCSelectorNames == <<"bound", "norm">>

MCFits == <<<<<<3, 1>>, <<1, 3>>, <<2, 2>>>>, <<<<2, 2>>, <<2, 2>>, <<2, 2>>>>>>

FittedTo(ms) ==
    [options |->
        {[MCOptions EXCEPT !.ranker = r, !.variant = v, !.counts = {1, 2}] :
            r \in FittedRankers(ms, {1, 2}, MCFits), v \in {"reference", "committed"}},
     measured |-> ToSet(ms)]

MCFittedConditions ==
    [n \in 1..64 |-> FittedTo(MCCalibration(
        SubsetNumber(n % 16), SubsetNumber(5 * (n \div 16)),
        IF n % 4 = 0 THEN {{0, 1}} ELSE {}))]

MCConditions == MCFittedConditions \o <<
    \* The searches on every landscape, with one round of swaps or two.
    [options |-> {[MCOptions EXCEPT !.structured = TRUE, !.rounds = r] : r \in {1, 2}},
     measured |-> Measured(Landscapes \cup Holed, {<<>>}, {Vector}, {0}, {0}, {TRUE})],
    \* The controller, with probes of one, two or no horizons.
    [options |->
        {[MCOptions EXCEPT !.policyOnly = TRUE, !.policy = p, !.horizons = h, !.source = s] :
            p \in MCPolicies,
            <<h, s>> \in {<<{1}, "answer">>, <<{1, 2}, "prompt_anchor">>, <<{}, "prompt_suffix">>}},
     measured |-> Measured(Landscapes \cup Holed, {<<>>}, {Vector}, {0}, {0}, {TRUE})],
    \* The gates and the routers.
    [options |->
        {[MCOptions EXCEPT !.ranker = MCRanker, !.variant = v] :
            v \in {"reference", "baseline_reference", "committed"}},
     measured |-> Measured(Holed, {<<>>}, {Vector}, {0, 2}, {0}, {TRUE})],
    [options |-> {[MCOptions EXCEPT !.ranker = MCRanker, !.variant = "recompute"]},
     measured |-> Measured(Flat, {<<>>}, {Vector}, {0}, {0, 1, NaN}, {TRUE})],
    \* The oracles, with and without cells that can be repaired directly.
    [options |-> {[MCOptions EXCEPT !.surgery = TRUE, !.counts = {1, 2, 4, 6}]},
     measured |-> Measured(Flat, Divergences, {Vector}, {0}, {0}, BOOLEAN)],
    \* Corrections that cancel, and the supervised controller.
    [options |->
        {[MCOptions EXCEPT !.supervised = TRUE, !.prefixOnly = o, !.largest = ~o,
                           !.policy = CHOOSE p \in MCPolicies : p.cells = 5] : o \in BOOLEAN},
     measured |-> Measured(Flat, {<<>>}, [MCDirect -> -2..2], {0}, {0}, {TRUE})] >>

=============================================================================
