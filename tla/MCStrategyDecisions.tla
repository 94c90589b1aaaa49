------------------------ MODULE MCStrategyDecisions ------------------------
(***************************************************************************)
(* Strategies asked about targets of every risk class, with and without a  *)
(* layer (layer 0 included), under generous and tight budgets, and maps    *)
(* whose cells disagree between gaps, contexts and strategies.             *)
(***************************************************************************)
EXTENDS StrategyDecisions

T(kind, layer) == [kind |-> kind, layer |-> layer]

MCTargets ==
    {T("lora.k", 0), T("attention.qv", None), T("lora.q", 1), T("lora.mlp", 1),
     T("moe.router", None), T("norm", 1), T("output_head", None), T("unknown", None)}

Runtime(reuse, delta, partial, total) ==
    [full |-> 10, reuse |-> reuse, delta |-> delta, partial |-> partial,
     total |-> total, candidate |-> 2, context |-> 1]

MCRuntimes == {Runtime(1, 2, 5, 2), Runtime(1, 8, 9, 8), Runtime(8, 9, 9, 2)}

Config(proxyMax, budget, memory, map) ==
    [period |-> 3, window |-> 2, normMax |-> 5, gapMax |-> 2, proxyMax |-> proxyMax,
     budget |-> budget, memory |-> memory, map |-> map]

RuleConfigs == {Config(250, 100, None, {}), Config(60, 70, 8, {})}

Cell(kind, layer, g, strategy, context, safe) ==
    [target |-> <<kind, layer>>, gap |-> g, strategy |-> strategy,
     context |-> context, safe |-> safe]

MapA ==
    {Cell("lora.k", 0, 1, "delta_correction", 1, TRUE),
     Cell("lora.k", 0, 1, "stale_reuse", 0, TRUE),
     Cell("lora.k", 0, 1, "stale_reuse", 1, FALSE),
     Cell("lora.k", 0, 3, "layerwise_recompute", 1, TRUE),
     Cell("lora.k", 0, 3, "delta_correction", 2, TRUE),
     Cell("lora.mlp", None, 2, "stale_reuse", 2, TRUE),
     Cell("lora.mlp", None, 2, "adaptive", 2, TRUE)}

MapB ==
    {Cell("lora.k", 0, 2, "stale_reuse", 0, FALSE),
     Cell("lora.k", 0, 2, "full_recompute", 0, TRUE),
     Cell("lora.k", 0, 4, "stale_reuse", 1, TRUE),
     Cell("lora.q", None, 1, "frozen_reuse", 0, TRUE),
     Cell("lora.q", None, 1, "windowed_recompute_2", 0, TRUE)}

MapConfigs ==
    {Config(250, b, m, map) : b \in {70, 100}, m \in {None, 8}, map \in {MapA, MapB}}

MCConfigs == RuleConfigs \cup MapConfigs

===========================================================================
