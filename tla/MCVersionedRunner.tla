------------------------- MODULE MCVersionedRunner -------------------------
(***************************************************************************)
(* VersionedRunner on three layers: conditions of two samples and targets  *)
(* of each kind that the strategies and the tensors tell apart.            *)
(***************************************************************************)
EXTENDS VersionedRunner

On(sample, kind, layer) == [sample |-> sample, target |-> [kind |-> kind, layer |-> layer]]

MCPlans ==
    {<<On(1, "lora.k", 1)>>, <<On(1, "lora.k", None)>>, <<On(1, "lora.mlp", 1)>>,
     <<On(1, "lora.q", 0)>>, <<On(1, "norm", 0)>>, <<On(1, "output_head", None)>>}

\* Two targets of one sample, then another sample.
SharedPlans ==
    {<<On(1, "lora.qv", 1), On(1, "lora.mlp", 0), On(2, "lora.qv", 1)>>}

RestartPlans == {<<On(1, "lora.mlp", 2)>>}

MCCfg ==
    [period |-> 3, window |-> 1, normMax |-> 5, gapMax |-> 8, proxyMax |-> 250,
     budget |-> 100, memory |-> None, map |-> {}]

MCLatencies == {[full |-> 10, reuse |-> 1, delta |-> 2, partial |-> 5]}

SharedStrategies ==
    {"adapter_specific_cache", "adaptive", "forkkv_base_delta", "oracle_planner",
     "windowed_recompute"}

===========================================================================
