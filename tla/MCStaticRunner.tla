--------------------------- MODULE MCStaticRunner ---------------------------
(***************************************************************************)
(* StaticRunner on two layers and three adapters, the second of which is   *)
(* further from the base model than the threshold.                         *)
(***************************************************************************)
EXTENDS StaticRunner

On(sample, kind, layer) == [sample |-> sample, target |-> [kind |-> kind, layer |-> layer]]

\* Two targets of one sample, then another sample.
MCPlans ==
    {<<On(1, "lora.qv", 1), On(1, "lora.mlp", 0), On(2, "lora.qv", 1)>>,
     <<On(1, "lora.q", 0), On(1, "output_head", None), On(2, "norm", 0)>>}

\* Comes back to adapters it left, and repeats one.
MCSequences == {<<0, 1, 2, 0, 2, 2, 1>>}

MCNorms == [a \in 0..2 |-> <<0, 3, 9>>[a + 1]]

MCCfg ==
    [period |-> 3, window |-> 1, normMax |-> 5, gapMax |-> 8, proxyMax |-> 250,
     budget |-> 100, memory |-> None, map |-> {}]

MCLatencies == {[full |-> 10, reuse |-> 1, delta |-> 2, partial |-> 5]}

===========================================================================
