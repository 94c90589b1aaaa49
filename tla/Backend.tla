------------------------------ MODULE Backend ------------------------------
(***************************************************************************)
(* What the Hugging Face backend computes, as far as the runners can tell. *)
(*                                                                         *)
(* An output is described by the version under which each layer's K/V (kv) *)
(* and the hidden state entering it (input) are those of a full recompute. *)
(* An update of layer l leaves the layers below it alone, so their tensors *)
(* stay those of version 0; Approx is no version's. A target without a     *)
(* layer updates every layer.                                              *)
(***************************************************************************)
EXTENDS CacheStrategies, FiniteSetsExt

CONSTANTS
    NumLayers,
    FullSize,           \* bytes of a whole output
    ComponentSize       \* bytes LRAgent or ForkKV attribute to a correction

ASSUME BackendAssumption == NumLayers \in Nat \ {0} /\ FullSize \in Nat /\ ComponentSize \in Nat

Layers == 0..(NumLayers - 1)

Approx == -1

FirstLayer(t) == IF t.layer = None THEN 0 ELSE t.layer

\* These change what leaves a layer, not the keys and values it computes.
DownstreamKinds ==
    QKinds \cup (StateChangingKinds \ {"attention.attn", "lora.attn", "lora.all_late"})

\* The version whose tensors a full recompute at version v has at layer l.
InputTruth(t, l, v) == IF t.kind # "output_head" /\ l > FirstLayer(t) THEN v ELSE 0

KVTruth(t, l, v) ==
    IF l = FirstLayer(t) /\ t.kind \notin DownstreamKinds \cup {"output_head"}
    THEN v
    ELSE InputTruth(t, l, v)

FullOutput(t, v) ==
    [kv |-> [l \in Layers |-> KVTruth(t, l, v)],
     input |-> [l \in Layers |-> InputTruth(t, l, v)],
     size |-> FullSize]

Reused(base) == [base EXCEPT !.size = FullSize]

\* Restarts the decoder at the cached input of layer first, under version v.
Restarted(t, v, d, base) ==
    LET end == IF d.last = None THEN NumLayers ELSE Min({NumLayers, d.last})
        sound == base.input[d.first] = InputTruth(t, d.first, v)
    IN  [kv |-> [l \in Layers |->
                    IF l < d.first \/ l >= end THEN base.kv[l]
                    ELSE IF sound THEN KVTruth(t, l, v) ELSE Approx],
         input |-> [l \in Layers |->
                    IF l <= d.first \/ l > end THEN base.input[l]
                    ELSE IF sound THEN InputTruth(t, l, v) ELSE Approx],
         size |-> FullSize]

\* Only adapters on a K or V projection can be corrected.
Correctable(t) == t.kind \in {"lora.k", "lora.v", "lora.qv", "lora.attn", "lora.all_late"}

\* Adds the change of the low-rank product at the layers that carry the
\* adapter, computed from their old inputs; everything else stays.
Corrected(strategy, t, base) ==
    [kv |-> [l \in Layers |-> IF t.layer \in {None, l} THEN Approx ELSE base.kv[l]],
     input |-> base.input,
     size |-> IF strategy \in {"lragent_adapter_cache", "forkkv_base_delta"}
              THEN ComponentSize ELSE FullSize]

\* The base model's prefix with a suffix under the active adapter.
Suffixed(base) == [Reused(base) EXCEPT !.kv = [l \in Layers |-> Approx]]

\* The outputs that a decision may give when the model is at version v. A
\* correction that finds nothing to correct falls back to the old cache, and
\* a restart without hidden states (capture) is refused.
Execute(strategy, t, v, capture, d, base) ==
    CASE d.action \in {"full_recompute", "reject_update"} -> {FullOutput(t, v)}
      [] d.action \in Reuses -> {Reused(base)}
      [] d.action = "delta_correct" ->
            {Reused(base)} \cup (IF Correctable(t) THEN {Corrected(strategy, t, base)} ELSE {})
      [] d.action = "partial_recompute" -> IF capture THEN {Restarted(t, v, d, base)} ELSE {}
      [] d.action = "alora_suffix_recompute" -> {Suffixed(base)}

\* The strategies whose presence in a configuration makes a runner ask for
\* hidden states. Other strategies of the run, and metrics, may ask too.
Captures(name) == name = "layerwise_recompute" \/ name \in DOMAIN FixedWindow

IsRefresh(d) ==
    d.action \in {"full_recompute", "partial_recompute", "reject_update",
                  "alora_suffix_recompute"}

===========================================================================
