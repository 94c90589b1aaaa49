----------------------- MODULE VersionedRunner_proofs -----------------------
(***************************************************************************)
(* Proofs about VersionedRunner, for any model, plans, histories of        *)
(* updates, strategies, thresholds and limits of the manager.              *)
(*                                                                         *)
(* The argument: below the updated layer nothing ever changes, so what a   *)
(* strategy keeps is right there at any version (LowerIntact) and a        *)
(* restart at the layer finds the input it needs. What is kept is exact    *)
(* where it is labelled so (EntrySound), and was computed at the version   *)
(* it is kept under; the manager holds under that version the very entry   *)
(* the strategy works on (CacheStored), because a put leaves what it put   *)
(* and changes nothing else but by evicting (PutFacts, from the proofs     *)
(* about the manager). Whatever the strategy answers has one of a few      *)
(* shapes (Shaped), and each shape keeps this.                             *)
(***************************************************************************)
EXTENDS VersionedRunner, TLAPS

\* The conditions of the plans, and what a manager of this runner holds.
Conditions == UNION {ToSet(p) : p \in Plans}

Keys == [adapter : Conditions, version : Nat]

BlockRecords ==
    [layer : Layers, adapter : Conditions, version : Nat, state : {"valid_exact", "valid_approx"}]

Tensors == [kv : [Layers -> Int], input : [Layers -> Int], size : Nat]

StoredEntries == [size : Nat, blocks : SUBSET BlockRecords, output : Tensors]

---------------------------------------------------------------------------
(* The manager.                                                            *)

\* CacheManager's lemmas, on the indexes that this runner builds.
I == INSTANCE CacheManager_proofs WITH
    Keys <- Keys, Adapters <- Conditions, Versions <- Nat, Sizes <- Nat,
    BlockSets <- SUBSET BlockRecords, Outputs <- Tensors, MaxEvictions <- 0,
    Missing <- CHOOSE x : x \notin StoredEntries, reply <- last, older <- recorded

\* The entries that CacheManager would keep are those of this runner.
LEMMA SameEntries == I!Entries = StoredEntries
BY DEF I!Entries, StoredEntries

\* What those lemmas assume.
LEMMA ManagerAssumptions ==
    /\ /\ MaxEntries \in (Nat \ {0}) \cup {NoLimit}
       /\ MaxBytes \in (Nat \ {0}) \cup {NoLimit}
       /\ NoLimit \notin Nat
       /\ Policy \in {"lru", "fifo"}
    /\ /\ Nat \subseteq Nat
       /\ Keys \subseteq [adapter : Conditions, version : Nat]
       /\ Nat \subseteq Nat
       /\ 0 \in Nat
       /\ \A s \in SUBSET BlockRecords : \A b \in s : b.adapter \in Conditions /\ b.version \in Nat
    /\ (CHOOSE x : x \notin StoredEntries) \notin I!Entries
<1>1. \E x : x \notin StoredEntries
  BY NoSetContainsEverything
<1>2. (CHOOSE x : x \notin StoredEntries) \notin StoredEntries
  BY <1>1, Zenon
<1>3. QED
  BY <1>2, SameEntries, LimitsAssumption DEF Keys, BlockRecords

\* The instance's operators are this runner's.
LEMMA SameRemove == \A m, k : I!AfterRemove(m, k) = AfterRemove(m, k)
BY DEF I!AfterRemove, AfterRemove, I!Resident, Resident, I!Restrict, Restrict,
       I!RemoveFirst, RemoveFirst, I!RemoveAt, RemoveAt, I!SelectInSeq, SelectInSeq, I!Min, Min

\* The operators on indexes are the same in both.
LEMMA SameGet == \A m, k : I!AfterGet(m, k) = AfterGet(m, k)
BY DEF I!AfterGet, AfterGet, I!Resident, Resident,
       I!RemoveFirst, RemoveFirst, I!RemoveAt, RemoveAt, I!SelectInSeq, SelectInSeq, I!Min, Min

LEMMA SameInserted == \A m, k, e : I!Inserted(m, k, e) = Inserted(m, k, e)
BY SameRemove, ZenonT(60) DEF I!Inserted, Inserted

LEMMA SameDrop == \A m, d : I!DropOldest(m, d) = DropOldest(m, d)
BY DEF I!DropOldest, DropOldest, I!Freed, Freed, I!Restrict, Restrict, I!ToSet, ToSet,
       I!MapThenSumSet, MapThenSumSet, I!MapThenFoldSet, MapThenFoldSet

LEMMA SameVictims == \A m : I!VictimCount(m) = VictimCount(m)
BY DEF I!VictimCount, VictimCount, I!OverCapacity, OverCapacity, I!Freed, Freed,
       I!MapThenSumSet, MapThenSumSet, I!MapThenFoldSet, MapThenFoldSet, I!Min, Min

LEMMA SamePut == \A m, k, e : I!AfterPut(m, k, e) = AfterPut(m, k, e)
BY SameRemove, SameInserted, SameDrop, SameVictims
   DEF I!AfterPut, AfterPut, I!EvictToCapacity, EvictToCapacity, I!Oversize, Oversize

\* A put keeps the index in order, leaves what it put where the size
\* permits, and loses nothing else but by counted evictions.
LEMMA PutFacts ==
    ASSUME NEW m, I!IndexOK(m), NEW k \in Keys, NEW e \in StoredEntries, ~Mismatched(k, e)
    PROVE  /\ I!IndexOK(AfterPut(m, k, e))
           /\ I!OldOrNew(m, k, e, AfterPut(m, k, e))
           /\ ~Oversize(e) => I!Holds(AfterPut(m, k, e), k, e)
<1> DEFINE q == I!AfterPut(m, k, e)
<1>1. /\ q = AfterPut(m, k, e)
      /\ I!Oversize(e) = Oversize(e)
  BY SamePut DEF I!Oversize, Oversize
<1>2. e \in I!Entries /\ ~I!Mismatched(k, e)
  BY SameEntries DEF I!Mismatched, Mismatched
<1>3. /\ I!IndexOK(q)
      /\ I!OldOrNew(m, k, e, q)
      /\ ~I!Oversize(e) => I!Holds(q, k, e)
  BY <1>2, ManagerAssumptions, I!PutKeeps, Zenon
<1>4. QED
  BY <1>1, <1>3, Zenon

\* A lookup changes the order and the counts only.
LEMMA GetFacts ==
    ASSUME NEW m, I!IndexOK(m), NEW k \in Keys
    PROVE  I!IndexOK(AfterGet(m, k)) /\ AfterGet(m, k).entries = m.entries
<1>1. I!IndexOK(AfterGet(m, k))
  BY ManagerAssumptions, SameGet, I!GetSound, Zenon
<1>2. AfterGet(m, k).entries = m.entries
  BY DEF AfterGet, I!IndexOK
<1>3. QED
  BY <1>1, <1>2

\* A new manager is in order and holds nothing.
LEMMA EmptyFacts == I!IndexOK(EmptyIndex) /\ Resident(EmptyIndex) = {}
BY DEF I!IndexOK, EmptyIndex, Resident, I!Resident, I!Entries

---------------------------------------------------------------------------
(* The strategies' answers.                                                *)

\* What an answer to the question about a target looks like.
Shaped(d, n, t, gap) ==
    /\ d.action \in Reuses \cup {"delta_correct", "partial_recompute", "full_recompute",
                                 "reject_update", "alora_suffix_recompute"}
    /\ d.action = "partial_recompute" =>
          /\ d.first = t.layer /\ t.layer # None
          /\ n \notin WindowedNames => d.last = None
    /\ d.action = "delta_correct" => d.first = t.layer /\ d.state = "valid_approx"
    /\ d.action = "alora_suffix_recompute" => n = "alora_prefix_reuse"
    /\ d.action = "reuse_exact" =>
          gap = 0 \/ t.kind = "output_head" \/ n = "no_adaptation"

\* A fallback restarts only where there is a layer to restart from.
LEMMA RefreshShaped ==
    ASSUME NEW p, NEW r, NEW t, NEW n, NEW gap
    PROVE  Shaped(Refresh(p, r, t), n, t, gap)
BY DEF Refresh, Shaped, Decision, FullRecompute, Reuses

\* A map's strategies stand for approximations, full recomputes and restarts.
LEMMA MapShaped ==
    ASSUME NEW p, NEW r, NEW t, NEW n, NEW gap, NEW cells, NEW d \in MapDecisions(p, r, t, cells)
    PROVE  Shaped(d, n, t, gap)
<1>1. CASE MapCandidates(p, r, t, cells) = {}
  <2>1. d = Refresh(p, r, t)
    BY <1>1 DEF MapDecisions
  <2>2. QED
    BY <2>1, RefreshShaped
<1>2. CASE MapCandidates(p, r, t, cells) # {}
  <2>1. PICK a \in MapCandidates(p, r, t, cells) :
          d = Decision(a, ActionState(a),
                       IF a \in {"partial_recompute", "delta_correct"} THEN t.layer ELSE None)
    BY <1>2, Zenon DEF MapDecisions, Fastest
  <2>2. a # None /\ \E s : a = StrategyAction(s, t)
    BY DEF MapCandidates
  <2>3. /\ a \in {"reuse_stale", "delta_correct", "partial_recompute", "full_recompute"}
        /\ a = "partial_recompute" => t.layer # None
    BY <2>2 DEF StrategyAction
  <2>4. QED
    BY <2>1, <2>3 DEF Decision, Shaped, ActionState, Reuses
<1>3. QED
  BY <1>1, <1>2

\* The planner's rules.
LEMMA RulesShaped ==
    ASSUME NEW p, NEW r, NEW t, NEW n, NEW gap, NEW age, NEW drift
    PROVE  Shaped(PlanWithoutMap(p, r, t, age, drift), n, t, gap)
<1> DEFINE d == PlanWithoutMap(p, r, t, age, drift)
<1>1. CASE d = Refresh(p, r, t)
  BY <1>1, RefreshShaped
<1>2. CASE d = TargetRule(p, r, t, age, drift)
  <2>1. \/ d = ReuseExact /\ t.kind = "output_head"
        \/ d \in {ReuseFrozen, ReuseStale}
        \/ d = Decision("delta_correct", "valid_approx", t.layer)
        \/ d = Refresh(p, r, t)
        \/ \E f : d = RejectOrFull(p, f)
    BY <1>2, Zenon DEF TargetRule
  <2>2. \A f : Shaped(RejectOrFull(p, f), n, t, gap)
    BY DEF RejectOrFull, Decision, Shaped, Reuses
  <2>3. Shaped(Decision("delta_correct", "valid_approx", t.layer), n, t, gap)
    BY DEF Decision, Shaped, Reuses
  <2>4. Shaped(ReuseFrozen, n, t, gap) /\ Shaped(ReuseStale, n, t, gap)
    BY DEF ReuseFrozen, ReuseStale, Decision, Shaped, Reuses
  <2>5. t.kind = "output_head" => Shaped(ReuseExact, n, t, gap)
    BY DEF ReuseExact, Decision, Shaped, Reuses
  <2>6. QED
    BY <2>1, <2>2, <2>3, <2>4, <2>5, RefreshShaped
<1>3. CASE d = GenericRule(p, r, t, age, drift)
  BY <1>3, RefreshShaped DEF GenericRule, Decision, Shaped, ReuseStale, Reuses
<1>4. QED
  BY <1>1, <1>2, <1>3, Zenon DEF PlanWithoutMap

\* The planner.
LEMMA PlanShaped ==
    ASSUME NEW p, NEW r, NEW t, NEW n, NEW gap, NEW drift, NEW d \in Plan(p, r, t, gap, drift)
    PROVE  Shaped(d, n, t, gap)
<1>1. CASE p.useVersion /\ gap = 0
  BY <1>1 DEF Plan, ReuseExact, Decision, Shaped, Reuses
<1>2. CASE ~(p.useVersion /\ gap = 0)
  <2> DEFINE g == IF p.useVersion THEN gap ELSE 1
             m == IF p.useNorm THEN drift ELSE 0
  <2>1. CASE CellsFor(p, t) # {}
    <3>1. PICK cells \in Nearest(p, t, g, r) : d \in MapDecisions(p, r, t, cells)
      BY <1>2, <2>1 DEF Plan
    <3>2. QED
      BY <3>1, MapShaped
  <2>2. CASE CellsFor(p, t) = {}
    <3>1. d = PlanWithoutMap(p, r, t, g, m)
      BY <1>2, <2>2 DEF Plan
    <3>2. QED
      BY <3>1, RulesShaped
  <2>3. QED
    BY <2>1, <2>2
<1>3. QED
  BY <1>1, <1>2

\* The fixed strategies.
LEMMA FixedShaped ==
    ASSUME NEW c, NEW n \in StrategyNames, NEW t, NEW gap, NEW drift
    PROVE  Shaped(FixedAnswer(c, n, t, gap, drift), n, t, gap)
<1> DEFINE d == FixedAnswer(c, n, t, gap, drift)
<1>1. CASE n \in WindowedNames
  <2>1. PICK size : d = Windowed(t, size)
    <3>1. CASE n = "windowed_recompute"
      BY <3>1 DEF FixedAnswer, FixedWindow
    <3>2. CASE n \in DOMAIN FixedWindow
      BY <3>2 DEF FixedAnswer, FixedWindow
    <3>3. QED
      BY <1>1, <3>1, <3>2 DEF WindowedNames
  <2>2. QED
    BY <1>1, <2>1 DEF Windowed, Decision, FullRecompute, Shaped, Reuses
<1>2. CASE n \in {"lragent_adapter_cache", "forkkv_base_delta"}
  <2>1. PICK shared, corrected, restartable :
          d = Decomposed(t, gap, shared, corrected, restartable)
    BY <1>2 DEF FixedAnswer, FixedWindow, LrAgent, ForkKv
  <2>2. QED
    BY <2>1 DEF Decomposed, Layerwise, Decision, ReuseExact, ReuseFrozen, FullRecompute,
                Shaped, Reuses
<1>3. CASE n \notin WindowedNames \cup {"lragent_adapter_cache", "forkkv_base_delta"}
  BY <1>3 DEF FixedAnswer, WindowedNames, Periodic, Threshold, Layerwise, BaseCacheReuse,
              AdapterSpecific, StaticBaseDelta, AloraPrefix, FullRecompute, ReuseExact,
              ReuseStale, ReuseFrozen, Decision, Shaped, Reuses
<1>4. QED
  BY <1>1, <1>2, <1>3

\* Whatever the strategy.
LEMMA DecideShaped ==
    ASSUME NEW c, NEW n \in StrategyNames, NEW t, NEW gap, NEW drift, NEW r,
           NEW d \in Decide(c, n, t, gap, drift, r)
    PROVE  /\ Shaped(d, n, t, gap)
           /\ n = "threshold_refresh" =>
                 d = FullRecompute \/ (d = ReuseStale /\ ~(drift > c.normMax))
<1>1. \/ \E p : d \in Plan(p, r, t, gap, drift)
      \/ \E p : d \in Plan(p, DefaultRuntime, t, gap, drift)
      \/ d = FixedAnswer(c, n, t, gap, drift)
  BY Zenon DEF Decide
<1>2. n = "threshold_refresh" => d = Threshold(c, drift)
  BY DEF Decide, FixedAnswer, FixedWindow, AdaptiveNames
<1>3. QED
  BY <1>1, <1>2, PlanShaped, FixedShaped DEF Threshold

---------------------------------------------------------------------------
(* The backend.                                                            *)

\* An update leaves the K/V of the layers below the target's, and the inputs
\* up to it, as the base model has them; an output head leaves everything.
LowerIntact(out, t) ==
    \A l \in Layers :
       /\ l < FirstLayer(t) \/ t.kind = "output_head" => out.kv[l] = 0
       /\ l <= FirstLayer(t) \/ t.kind = "output_head" => out.input[l] = 0

\* The K/V that a full recompute at version v has.
Faithful(out, t, v) == \A l \in Layers : out.kv[l] = KVTruth(t, l, v)

\* What a full recompute gives are values, layer by layer.
LEMMA TruthFacts ==
    ASSUME NEW t, t.layer \in Layers \cup {None}, NEW v \in Nat, NEW l \in Layers
    PROVE  /\ FirstLayer(t) \in Layers
           /\ KVTruth(t, l, v) \in {0, v} /\ InputTruth(t, l, v) \in {0, v}
           /\ l < FirstLayer(t) \/ t.kind = "output_head" => KVTruth(t, l, v) = 0
           /\ l <= FirstLayer(t) \/ t.kind = "output_head" => InputTruth(t, l, v) = 0
           /\ \A w \in Nat : \/ KVTruth(t, l, v) = KVTruth(t, l, w)
                             \/ KVTruth(t, l, v) = v /\ KVTruth(t, l, w) = w
<1>1. FirstLayer(t) \in Layers
  BY BackendAssumption DEF FirstLayer, Layers
<1>2. l \in Int /\ FirstLayer(t) \in Int
  BY <1>1 DEF Layers
<1>3. QED
  BY <1>1, <1>2 DEF KVTruth, InputTruth

\* A full recompute is exact.
LEMMA FullFacts ==
    ASSUME NEW t, t.layer \in Layers \cup {None}, NEW v \in Nat
    PROVE  /\ FullOutput(t, v) \in Tensors
           /\ LowerIntact(FullOutput(t, v), t)
           /\ Faithful(FullOutput(t, v), t, v)
BY TruthFacts, BackendAssumption DEF FullOutput, Tensors, LowerIntact, Faithful

\* A reuse keeps the values and the inputs.
LEMMA ReusedFacts ==
    ASSUME NEW base \in Tensors
    PROVE  /\ Reused(base) \in Tensors
           /\ Reused(base).kv = base.kv /\ Reused(base).input = base.input
BY BackendAssumption DEF Reused, Tensors

\* A restart at the updated layer finds the input of the current version.
LEMMA RestartedFacts ==
    ASSUME NEW t, t.layer \in Layers, t.layer # None, NEW v \in Nat, NEW d, d.first = t.layer,
           d.last = None, NEW base \in Tensors, LowerIntact(base, t)
    PROVE  LET out == Restarted(t, v, d, base) IN
           out \in Tensors /\ LowerIntact(out, t) /\ Faithful(out, t, v)
<1> DEFINE f == FirstLayer(t)
           out == Restarted(t, v, d, base)
<1>1. f = t.layer /\ d.first = f /\ f \in Layers
  BY DEF FirstLayer
<1>2. base.input[f] = InputTruth(t, f, v)
  BY <1>1, TruthFacts DEF LowerIntact, Layers
<1>3. out = [kv |-> [l \in Layers |->
                        IF l < f \/ l >= NumLayers THEN base.kv[l] ELSE KVTruth(t, l, v)],
             input |-> [l \in Layers |->
                        IF l <= f \/ l > NumLayers THEN base.input[l] ELSE InputTruth(t, l, v)],
             size |-> FullSize]
  BY <1>1, <1>2 DEF Restarted
<1> HIDE DEF f, out
<1>4. \A l \in Layers : /\ l \in Int /\ f \in Int /\ l < NumLayers /\ NumLayers \in Int
                        /\ base.kv[l] \in Int /\ base.input[l] \in Int
  BY <1>1, BackendAssumption DEF Layers, Tensors
<1>5. \A l \in Layers : /\ KVTruth(t, l, v) \in Int /\ InputTruth(t, l, v) \in Int
                        /\ l < f \/ t.kind = "output_head" => KVTruth(t, l, v) = 0
                        /\ t.kind = "output_head" => InputTruth(t, l, v) = 0
  BY TruthFacts DEF f
<1>6. out \in Tensors
  BY <1>3, <1>4, <1>5, BackendAssumption DEF Tensors
<1>7. Faithful(out, t, v)
  <2> SUFFICES ASSUME NEW l \in Layers PROVE out.kv[l] = KVTruth(t, l, v)
    BY DEF Faithful
  <2>1. l < f => base.kv[l] = KVTruth(t, l, v)
    BY <1>5 DEF LowerIntact, f
  <2>2. QED
    BY <1>3, <1>4, <2>1
<1>8. LowerIntact(out, t)
  BY <1>3, <1>4, <1>5, <1>7 DEF LowerIntact, Faithful, f
<1>9. QED
  BY <1>6, <1>7, <1>8 DEF out

\* A correction changes the updated layers only.
LEMMA CorrectedFacts ==
    ASSUME NEW n, NEW t, t.layer \in Layers \cup {None}, Correctable(t),
           NEW base \in Tensors, LowerIntact(base, t)
    PROVE  Corrected(n, t, base) \in Tensors /\ LowerIntact(Corrected(n, t, base), t)
<1> DEFINE out == Corrected(n, t, base)
<1>1. out \in Tensors
  BY BackendAssumption DEF Corrected, Tensors, Approx
<1>2. t.kind # "output_head"
  BY DEF Correctable
<1>3. \A l \in Layers : l < FirstLayer(t) => t.layer \notin {None, l}
  BY DEF FirstLayer, Layers
<1>4. QED
  BY <1>1, <1>2, <1>3 DEF LowerIntact, Corrected

\* What carrying out a decision gives, if the cache may keep it.
LEMMA ExecuteFacts ==
    ASSUME NEW n, NEW t, t.layer \in Layers \cup {None}, NEW v \in Nat, NEW kept,
           NEW m, NEW gap, NEW d, Shaped(d, m, t, gap), NEW base \in Tensors,
           LowerIntact(base, t), NEW out \in Execute(n, t, v, kept, d, base),
           d.action # "alora_suffix_recompute", d.action = "partial_recompute" => d.last = None
    PROVE  /\ out \in Tensors
           /\ LowerIntact(out, t)
           /\ d.action \in {"full_recompute", "reject_update", "partial_recompute"} =>
                 Faithful(out, t, v)
           /\ d.action \in Reuses => out.kv = base.kv
<1>1. CASE d.action \in {"full_recompute", "reject_update"}
  <2>1. out = FullOutput(t, v) /\ d.action \notin Reuses
    BY <1>1 DEF Execute, Reuses
  <2>2. QED
    BY <2>1, FullFacts
<1>2. CASE d.action \in Reuses
  <2>1. out = Reused(base)
        /\ d.action \notin {"full_recompute", "reject_update", "partial_recompute"}
    BY <1>2 DEF Execute, Reuses
  <2>2. QED
    BY <2>1, ReusedFacts DEF LowerIntact
<1>3. CASE d.action = "delta_correct"
  <2>1. out = Reused(base) \/ (Correctable(t) /\ out = Corrected(n, t, base))
    BY <1>3 DEF Execute, Reuses
  <2>2. d.action \notin Reuses \cup {"full_recompute", "reject_update", "partial_recompute"}
    BY <1>3 DEF Reuses
  <2>3. CASE out = Reused(base)
    BY <2>2, <2>3, ReusedFacts DEF LowerIntact
  <2>4. CASE Correctable(t) /\ out = Corrected(n, t, base)
    BY <2>2, <2>4, CorrectedFacts
  <2>5. QED
    BY <2>1, <2>3, <2>4
<1>4. CASE d.action = "partial_recompute"
  <2>1. out = Restarted(t, v, d, base) /\ d.action \notin Reuses
    BY <1>4 DEF Execute, Reuses
  <2>2. t.layer \in Layers /\ t.layer # None /\ d.first = t.layer
    BY <1>4 DEF Shaped
  <2>3. QED
    BY <1>4, <2>1, <2>2, RestartedFacts
<1>5. QED
  BY <1>1, <1>2, <1>3, <1>4 DEF Shaped

---------------------------------------------------------------------------
(* The inductive invariant.                                                *)

BlocksFaithful(e, k) ==
    \A b \in e.blocks :
       b.state = "valid_exact" =>
           e.output.kv[b.layer] = KVTruth(k.adapter.target, b.layer, k.version)

\* What a manager of strategy s holds under a key.
EntrySound(s, k, e) ==
    /\ LowerIntact(e.output, k.adapter.target)
    /\ BlocksFaithful(e, k)
    /\ s = "adapter_specific_cache" => Faithful(e.output, k.adapter.target, k.version)

EntriesSound(s, m) == \A k \in Resident(m) : EntrySound(s, k, m.entries[k])

Typed ==
    /\ strategy \in Strategies
    /\ plan \in Plans
    /\ cond \in 1..Len(plan)
    /\ version \in Nat
    /\ phase \in {"start", "warming", "record", "advance", "failed", "done"}
    /\ phase \in {"warming", "record", "advance"} => normAt \in [0..version -> Int]
    /\ refreshed \in Nat

\* The strategy's cache while a condition runs.
Labelled ==
    /\ cache.blocks \in [Layers -> BlockRecords]
    /\ \A l \in Layers : /\ cache.blocks[l].layer = l
                         /\ cache.blocks[l].adapter = plan[cond]
                         /\ cache.blocks[l].version <= cache.version

CacheTyped ==
    /\ cache = [output |-> cache.output, original |-> cache.original, version |-> cache.version,
                norm |-> cache.norm, blocks |-> cache.blocks, refreshes |-> cache.refreshes]
    /\ cache.output \in Tensors
    /\ cache.version \in 0..version
    /\ cache.norm = normAt[cache.version]
    /\ cache.refreshes \in Nat

CacheExact ==
    /\ EntrySound(strategy, Key(cache.version), Entry(cache.output, cache.blocks))
    /\ phase = "record" /\ cache.version = version => Faithful(cache.output, target, version)
    /\ strategy = "threshold_refresh" => Faithful(cache.output, target, cache.version)

CacheStored ==
    ~Oversize(Entry(cache.output, cache.blocks)) =>
        I!Holds(mgr, Key(cache.version), Entry(cache.output, cache.blocks))

CacheCounted ==
    strategy \notin WindowedNames \cup {"alora_prefix_reuse"} => cache.refreshes = refreshed

CacheSound == CacheTyped /\ Labelled /\ CacheExact /\ CacheStored /\ CacheCounted

\* What was recorded comes before where the run is.
HistorySound ==
    \A r \in recorded :
       /\ r[1] \in Nat /\ r[2] \in Nat
       /\ r[1] <= cond
       /\ phase \in {"start", "warming"} => r[1] < cond
       /\ phase = "record" => r[1] < cond \/ (r[1] = cond /\ r[2] < version)
       /\ phase = "advance" => r[1] < cond \/ (r[1] = cond /\ r[2] <= version)

Served ==
    /\ UnexaminedOutputsAreExact
    /\ ThresholdBoundsDrift
    /\ CommittedRefreshesCounted

Sound ==
    /\ Typed
    /\ I!IndexOK(mgr)
    /\ EntriesSound(strategy, mgr)
    /\ Installed => CacheSound
    /\ HistorySound
    /\ Served

---------------------------------------------------------------------------

\* The current condition and what it is about are of the model.
LEMMA CurrentFacts ==
    ASSUME Typed
    PROVE  /\ strategy \in StrategyNames
           /\ plan[cond] \in Conditions
           /\ target.layer \in Layers \cup {None}
           /\ \A v \in Nat : Key(v) \in Keys /\ Key(v).adapter = plan[cond] /\ Key(v).version = v
<1>1. plan \in Plans /\ plan \in Seq(ToSet(plan)) /\ cond \in 1..Len(plan)
  BY RunAssumption DEF Typed
<1> HIDE DEF Typed
<1>2. plan[cond] \in ToSet(plan)
  BY <1>1
<1>3. plan[cond] \in Conditions
  BY <1>1, <1>2 DEF Conditions
<1>4. target.layer \in Layers \cup {None}
  BY <1>1, <1>2, RunAssumption DEF target
<1>5. QED
  BY <1>3, <1>4, RunAssumption DEF Typed, Keys, Key

\* A put of a sound entry keeps a sound manager sound.
LEMMA PutKeepsEntries ==
    ASSUME NEW s, NEW m, I!IndexOK(m), EntriesSound(s, m), NEW k \in Keys,
           NEW e \in StoredEntries, ~Mismatched(k, e), EntrySound(s, k, e)
    PROVE  I!IndexOK(AfterPut(m, k, e)) /\ EntriesSound(s, AfterPut(m, k, e))
<1>1. I!IndexOK(AfterPut(m, k, e)) /\ I!OldOrNew(m, k, e, AfterPut(m, k, e))
  BY PutFacts
<1>2. QED
  BY <1>1 DEF EntriesSound, I!OldOrNew, I!Resident, Resident

\* The entry that a full recompute at version v fills.
Exact(v) == Entry(FullOutput(target, v), FreshBlocks(v, "valid_exact"))

\* A full recompute fills a sound entry.
LEMMA ExactFacts ==
    ASSUME Typed, NEW v \in Nat
    PROVE  /\ FreshBlocks(v, "valid_exact") \in [Layers -> BlockRecords]
           /\ Exact(v) \in StoredEntries
           /\ ~Mismatched(Key(v), Exact(v))
           /\ EntrySound(strategy, Key(v), Exact(v))
<1>1. /\ plan[cond] \in Conditions /\ target.layer \in Layers \cup {None}
      /\ Key(v).adapter = plan[cond] /\ Key(v).version = v
  BY CurrentFacts
<1>2. /\ FullOutput(target, v) \in Tensors /\ LowerIntact(FullOutput(target, v), target)
      /\ Faithful(FullOutput(target, v), target, v)
  BY <1>1, FullFacts
<1>3. FreshBlocks(v, "valid_exact") =
        [l \in Layers |-> [layer |-> l, adapter |-> plan[cond], version |-> v,
                           state |-> "valid_exact"]]
  BY DEF FreshBlocks, Block
<1>4. /\ Exact(v).output = FullOutput(target, v) /\ Exact(v).size = FullOutput(target, v).size
      /\ Exact(v).blocks = {FreshBlocks(v, "valid_exact")[l] : l \in Layers}
      /\ Exact(v) = [size |-> Exact(v).size, blocks |-> Exact(v).blocks,
                     output |-> Exact(v).output]
  BY DEF Exact, Entry
<1>5. FreshBlocks(v, "valid_exact") \in [Layers -> BlockRecords]
  BY <1>1, <1>3 DEF BlockRecords
<1>6. Exact(v) \in StoredEntries
  BY <1>2, <1>4, <1>5 DEF StoredEntries, Tensors
<1>7. ~Mismatched(Key(v), Exact(v))
  BY <1>1, <1>3, <1>4 DEF Mismatched
<1>8. plan[cond].target = target
  BY DEF target
<1>9. EntrySound(strategy, Key(v), Exact(v))
  BY <1>1, <1>2, <1>3, <1>4, <1>8 DEF EntrySound, BlocksFaithful, Faithful
<1>10. QED
  BY <1>5, <1>6, <1>7, <1>9

\* The invariant holds initially, and every action keeps it.
LEMMA InitSound == Init => Sound
<1> SUFFICES ASSUME Init PROVE Sound
  OBVIOUS
<1>1. plan # <<>> /\ plan \in Seq(ToSet(plan))
  BY RunAssumption DEF Init
<1>2. Len(plan) \in Nat /\ Len(plan) # 0
  BY <1>1
<1>3. Typed
  BY <1>2 DEF Init, Typed
<1>4. I!IndexOK(mgr) /\ EntriesSound(strategy, mgr)
  BY EmptyFacts DEF Init, EntriesSound
<1>5. QED
  BY <1>3, <1>4
     DEF Init, Sound, Installed, HistorySound, Served, UnexaminedOutputsAreExact,
         ThresholdBoundsDrift, CommittedRefreshesCounted, RefreshesCounted, JustRecorded

---------------------------------------------------------------------------

\* Where no record was just appended, nothing is claimed of the last one.
LEMMA NothingServed == ~JustRecorded' => Served'
BY DEF Served, UnexaminedOutputsAreExact, ThresholdBoundsDrift, CommittedRefreshesCounted,
       RefreshesCounted

LEMMA StartSound == Sound /\ StartCondition => Sound'
<1> SUFFICES ASSUME Sound, StartCondition PROVE Sound'
  OBVIOUS
<1>1. Typed'
  BY DEF StartCondition, Sound, Typed, run
<1>2. I!IndexOK(mgr)' /\ EntriesSound(strategy, mgr)'
  <2>1. strategy' = strategy
    BY DEF StartCondition, run
  <2>2. CASE mgr' = EmptyIndex
    BY <2>2, EmptyFacts DEF EntriesSound
  <2>3. CASE mgr' = mgr
    BY <2>1, <2>3 DEF Sound, EntriesSound
  <2>4. QED
    BY <2>2, <2>3 DEF StartCondition
<1>3. HistorySound'
  BY DEF StartCondition, Sound, HistorySound
<1>4. ~Installed' /\ ~JustRecorded'
  BY DEF StartCondition, Installed, JustRecorded
<1>5. QED
  BY <1>1, <1>2, <1>3, <1>4, NothingServed DEF Sound

\* An update adds a norm and leaves those of the earlier versions.
LEMMA UpdateFacts ==
    ASSUME NEW d \in NormSteps, Update(d), version \in Nat, normAt \in [0..version -> Int]
    PROVE  /\ version' \in Nat /\ version' = version + 1
           /\ normAt' \in [0..version' -> Int]
           /\ \A v \in 0..version : normAt'[v] = normAt[v]
<1>1. d \in Int
  BY RunAssumption
<1>2. version' = version + 1 /\ normAt[version] \in Int
  BY DEF Update
<1>3. normAt' = [v \in 0..version' |-> IF v = version' THEN Norm + d ELSE normAt[v]]
  BY <1>2 DEF Update
<1>4. \A v \in 0..version' : v # version' => v \in 0..version
  BY <1>2
<1>5. \A v \in 0..version : v \in 0..version' /\ v # version'
  BY <1>2
<1>6. QED
  BY <1>1, <1>2, <1>3, <1>4, <1>5 DEF Norm

LEMMA WarmUpSound == \A d \in NormSteps : Sound /\ WarmUp(d) => Sound'
<1> SUFFICES ASSUME NEW d \in NormSteps, Sound, WarmUp(d) PROVE Sound'
  OBVIOUS
<1>1. Typed'
  BY UpdateFacts DEF WarmUp, Sound, Typed, run
<1>2. I!IndexOK(mgr)' /\ EntriesSound(strategy, mgr)'
  BY DEF WarmUp, Sound, run
<1>3. HistorySound'
  BY DEF WarmUp, Sound, HistorySound
<1>4. ~Installed' /\ ~JustRecorded'
  BY DEF WarmUp, Installed, JustRecorded
<1>5. QED
  BY <1>1, <1>2, <1>3, <1>4, NothingServed DEF Sound

LEMMA FinishSound == Sound /\ FinishCondition => Sound'
<1> SUFFICES ASSUME Sound, FinishCondition PROVE Sound'
  OBVIOUS
<1>1. Typed'
  <2>1. Len(plan) \in Nat
    BY RunAssumption DEF Sound, Typed
  <2>2. QED
    BY <2>1 DEF FinishCondition, Sound, Typed, run
<1>2. I!IndexOK(mgr)' /\ EntriesSound(strategy, mgr)'
  BY DEF FinishCondition, Sound, run
<1>3. HistorySound'
  BY <1>1 DEF FinishCondition, Sound, HistorySound, Typed
<1>4. ~Installed' /\ ~JustRecorded'
  BY DEF FinishCondition, Installed, JustRecorded
<1>5. QED
  BY <1>1, <1>2, <1>3, <1>4, NothingServed DEF Sound

LEMMA AdvanceSound == \A d \in NormSteps : Sound /\ Advance(d) => Sound'
<1> SUFFICES ASSUME NEW d \in NormSteps, Sound, Advance(d) PROVE Sound'
  OBVIOUS
<1>0. /\ phase = "advance" /\ Update(d) /\ version \in Nat /\ normAt \in [0..version -> Int]
      /\ phase' \in {"record", "advance"}
      /\ UNCHANGED <<strategy, plan, capture, cond, cache, mgr, last, recorded, refreshed>>
  BY DEF Advance, Sound, Typed, run
<1>1. /\ version' \in Nat /\ version' = version + 1
      /\ normAt' \in [0..version' -> Int]
      /\ \A v \in 0..version : normAt'[v] = normAt[v]
  BY <1>0, UpdateFacts
<1>2. Typed'
  BY <1>0, <1>1 DEF Sound, Typed
<1>3. I!IndexOK(mgr)' /\ EntriesSound(strategy, mgr)'
  BY <1>0 DEF Sound
<1>4. HistorySound'
  BY <1>0, <1>1 DEF Sound, HistorySound
<1>5. CacheSound'
  <2>1. CacheSound
    BY <1>0 DEF Sound, Installed
  <2>2. CacheTyped'
    BY <1>0, <1>1, <2>1 DEF CacheSound, CacheTyped
  <2>3. cache.version # version' /\ cache' = cache
    BY <1>0, <1>1, <2>1 DEF CacheSound, CacheTyped
  <2>4. Labelled'
    BY <1>0, <2>1 DEF CacheSound, Labelled
  <2>5. CacheExact'
    BY <1>0, <2>1, <2>3 DEF CacheSound, CacheExact, Key, Entry, target
  <2>6. CacheStored' /\ CacheCounted'
    BY <1>0, <2>1 DEF CacheSound, CacheStored, CacheCounted, Key, Entry
  <2>7. QED
    BY <2>2, <2>4, <2>5, <2>6 DEF CacheSound
<1>6. ~JustRecorded'
  <2>1. cond \in Int
    BY DEF Sound, Typed
  <2>2. QED
    BY <1>0, <1>1, <2>1 DEF Sound, HistorySound, JustRecorded
<1>7. QED
  BY <1>2, <1>3, <1>4, <1>5, <1>6, NothingServed DEF Sound

LEMMA InstallSound == Sound /\ Install => Sound'
<1> SUFFICES ASSUME Sound, Install PROVE Sound'
  OBVIOUS
<1> DEFINE base == AfterPut(mgr, Key(0), Exact(0))
<1>1. /\ phase = "warming" /\ version = CachedVersion /\ version \in Nat
      /\ mgr' = (IF version = 0 THEN base ELSE AfterPut(base, Key(version), Exact(version)))
      /\ cache' = [output |-> FullOutput(target, version), original |-> FullOutput(target, 0),
                   version |-> version, norm |-> Norm,
                   blocks |-> FreshBlocks(version, "valid_exact"), refreshes |-> 0]
      /\ refreshed' = 0
      /\ phase' \in {"record", "advance"}
      /\ UNCHANGED <<strategy, plan, capture, cond, version, normAt, last, recorded>>
  BY RunAssumption DEF Install, Exact, run, Sound, Typed
<1>2. Typed /\ I!IndexOK(mgr) /\ EntriesSound(strategy, mgr)
  BY DEF Sound
<1>3. /\ Key(0) \in Keys /\ Key(version) \in Keys
      /\ Key(version).adapter = plan[cond] /\ Key(version).version = version
      /\ target.layer \in Layers \cup {None}
  BY <1>1, <1>2, CurrentFacts
<1>4. ASSUME NEW v \in {0, version}
      PROVE  /\ FreshBlocks(v, "valid_exact") \in [Layers -> BlockRecords]
             /\ Exact(v) \in StoredEntries
             /\ ~Mismatched(Key(v), Exact(v))
             /\ EntrySound(strategy, Key(v), Exact(v))
  BY <1>1, <1>2, ExactFacts
<1>5. I!IndexOK(base) /\ EntriesSound(strategy, base)
  BY <1>2, <1>3, <1>4, PutKeepsEntries
<1>6. ~Oversize(Exact(0)) => I!Holds(base, Key(0), Exact(0))
  BY <1>2, <1>3, <1>4, PutFacts
<1> HIDE DEF base
<1>7. /\ I!IndexOK(mgr') /\ EntriesSound(strategy, mgr')
      /\ ~Oversize(Exact(version)) => I!Holds(mgr', Key(version), Exact(version))
  <2>1. CASE version = 0
    BY <1>1, <1>5, <1>6, <2>1
  <2>2. CASE version # 0
    <3>1. mgr' = AfterPut(base, Key(version), Exact(version))
      BY <1>1, <2>2
    <3>2. QED
      BY <1>3, <1>4, <1>5, <3>1, PutKeepsEntries, PutFacts
  <2>3. QED
    BY <2>1, <2>2
<1>8. Typed'
  BY <1>1, <1>2 DEF Typed
<1>9. HistorySound'
  BY <1>1 DEF Sound, HistorySound
<1>10. ~JustRecorded'
  BY <1>1, <1>2 DEF Sound, HistorySound, JustRecorded, Typed
<1>11. CacheSound'
  <2>1. /\ cache'.output = FullOutput(target, version) /\ cache'.version = version
        /\ cache'.norm = Norm /\ cache'.blocks = FreshBlocks(version, "valid_exact")
        /\ cache'.refreshes = 0
        /\ cache' = [output |-> cache'.output, original |-> cache'.original,
                     version |-> cache'.version, norm |-> cache'.norm,
                     blocks |-> cache'.blocks, refreshes |-> cache'.refreshes]
    BY <1>1
  <2>2. FullOutput(target, version) \in Tensors /\ Faithful(FullOutput(target, version), target, version)
    BY <1>1, <1>3, FullFacts
  <2>3. /\ target' = target /\ Key(version)' = Key(version)
        /\ Key(cache.version)' = Key(version)
        /\ Entry(cache.output, cache.blocks)' = Exact(version)
    BY <1>1, <2>1 DEF target, Key, Exact, Entry
  <2>4. CacheTyped'
    BY <1>1, <2>1, <2>2 DEF CacheTyped, Norm
  <2>5. Labelled'
    <3>1. FreshBlocks(version, "valid_exact") =
             [l \in Layers |-> [layer |-> l, adapter |-> plan[cond], version |-> version,
                                state |-> "valid_exact"]]
      BY DEF FreshBlocks, Block
    <3>2. QED
      BY <1>1, <1>4, <2>1, <3>1 DEF Labelled
  <2>6. CacheExact'
    BY <1>1, <1>4, <2>1, <2>2, <2>3 DEF CacheExact
  <2>7. CacheStored'
    BY <1>7, <2>3 DEF CacheStored
  <2>8. CacheCounted'
    BY <1>1, <2>1 DEF CacheCounted
  <2>9. QED
    BY <2>4, <2>5, <2>6, <2>7, <2>8 DEF CacheSound
<1>12. QED
  BY <1>1, <1>7, <1>8, <1>9, <1>10, <1>11, NothingServed DEF Sound

---------------------------------------------------------------------------
(* A recorded step.                                                        *)

\* What the runner settles on.
Settles(e) ==
    /\ Shaped(e, strategy, target, 0)
    /\ e.action = "reuse_exact" =>
          Gap = 0 \/ AdapterHit \/ target.kind = "output_head" \/ strategy = "no_adaptation"
    /\ strategy = "no_adaptation" => e = ReuseExact
    /\ strategy = "adapter_specific_cache" => e \in {ReuseExact, FullRecompute}
    /\ strategy = "threshold_refresh" =>
          e \in {ReuseExact, FullRecompute} \/ (e = ReuseStale /\ NormSince <= Cfg.normMax)

\* What the runner makes of the strategy's answer.
LEMMA SettledFacts ==
    ASSUME Typed, NEW latency, NEW d \in Asked(latency), NEW e \in Settled(d), NormSince \in Int
    PROVE  Settles(e)
<1> DEFINE c == [Cfg EXCEPT !.memory = IF MaxBytes = NoLimit THEN None ELSE MaxBytes]
<1>1. /\ Shaped(d, strategy, target, Gap)
      /\ strategy = "threshold_refresh" =>
            d = FullRecompute \/ (d = ReuseStale /\ ~(NormSince > c.normMax))
  <2>1. d \in Decide(c, strategy, target, Gap, NormSince, Runtime(latency))
    BY DEF Asked
  <2>2. strategy \in StrategyNames
    BY CurrentFacts
  <2> HIDE DEF c
  <2>3. QED
    BY <2>1, <2>2, DecideShaped
<1>2. c.normMax = Cfg.normMax /\ Cfg.normMax \in Int
  <2>1. Cfg = [period |-> Cfg.period, window |-> Cfg.window, normMax |-> Cfg.normMax,
               gapMax |-> Cfg.gapMax, proxyMax |-> Cfg.proxyMax, budget |-> Cfg.budget,
               memory |-> Cfg.memory, map |-> Cfg.map]
    BY RunAssumption
  <2>2. QED
    BY <2>1, RunAssumption
<1> HIDE DEF c
<1>3. \A g : Shaped(ReuseExact, strategy, target, 0) /\ Shaped(FullRecompute, strategy, target, 0)
  BY DEF ReuseExact, FullRecompute, Decision, Shaped, Reuses
<1>4. Shaped(d, strategy, target, 0)
  BY <1>1 DEF Shaped
<1>5. CASE strategy = "no_adaptation"
  BY <1>3, <1>5 DEF Settled, Settles
<1>6. CASE strategy = "adapter_specific_cache"
  <2>1. (e = ReuseExact /\ AdapterHit) \/ e = FullRecompute
    BY <1>6 DEF Settled
  <2>2. FullRecompute.action # "reuse_exact"
    BY DEF FullRecompute, Decision
  <2>3. QED
    BY <1>3, <1>6, <2>1, <2>2 DEF Settles
<1>7. CASE strategy = "oracle_planner"
  <2>1. e \in OracleCandidates
    BY <1>7 DEF Settled
  <2>2. /\ Shaped(e, strategy, target, 0)
        /\ e.action # "reuse_exact"
    BY <2>1 DEF OracleCandidates, Shaped, Decision, ReuseStale, FullRecompute, Reuses
  <2>3. QED
    BY <1>7, <2>2 DEF Settles
<1>8. CASE strategy \notin {"no_adaptation", "adapter_specific_cache", "oracle_planner"}
  <2>1. e = d \/ (e = ReuseExact /\ Gap = 0)
    BY <1>8 DEF Settled
  <2>2. CASE e = d
    BY <1>1, <1>2, <1>4, <1>8, <2>2 DEF Settles, Shaped
  <2>3. CASE e = ReuseExact /\ Gap = 0
    BY <1>3, <1>8, <2>3 DEF Settles
  <2>4. QED
    BY <2>1, <2>2, <2>3
<1>9. QED
  BY <1>5, <1>6, <1>7, <1>8

\* The runner is about to record.
Recording == Sound /\ phase = "record"

\* What a recorded step may count on.
LEMMA RecordingFacts ==
    ASSUME Recording
    PROVE  /\ CacheSound /\ Typed
           /\ target.layer \in Layers \cup {None}
           /\ version \in Nat /\ cache.version \in 0..version /\ Gap \in Nat
           /\ normAt \in [0..version -> Int] /\ Norm \in Int
           /\ cache.norm = normAt[cache.version] /\ cache.norm \in Int
           /\ NormSince \in Int /\ Norm - cache.norm <= NormSince
           /\ LowerIntact(cache.output, target) /\ cache.output \in Tensors
           /\ Key(version) \in Keys /\ Key(version).adapter = plan[cond]
           /\ Key(version).version = version
<1>1. CacheSound /\ Typed /\ Key(cache.version).adapter.target = target
  <2>1. Typed /\ CacheSound
    BY DEF Recording, Sound, Installed
  <2>2. QED
    BY <2>1 DEF Key, target
<1>2. /\ target.layer \in Layers \cup {None}
      /\ version \in Nat /\ Key(version) \in Keys /\ Key(version).adapter = plan[cond]
      /\ Key(version).version = version
  BY <1>1, CurrentFacts DEF Typed
<1>3. /\ cache.version \in 0..version /\ Gap \in Nat /\ cache.output \in Tensors
      /\ cache.norm = normAt[cache.version]
  BY <1>1, <1>2 DEF CacheSound, CacheTyped, Gap
<1>4. normAt \in [0..version -> Int] /\ Norm \in Int /\ cache.norm \in Int
  BY <1>1, <1>2, <1>3 DEF Typed, Recording, Norm
<1>5. NormSince \in Int /\ Norm - cache.norm <= NormSince
  BY <1>4 DEF NormSince, AtLeast
<1>6. LowerIntact(cache.output, target)
  BY <1>1 DEF CacheSound, CacheExact, EntrySound, Entry
<1>7. QED
  BY <1>1, <1>2, <1>3, <1>4, <1>5, <1>6

\* What a step starts from.
LEMMA BaselineFacts ==
    ASSUME Recording, strategy # "no_adaptation"
    PROVE  /\ Baseline \in Tensors
           /\ LowerIntact(Baseline, target)
           /\ AdapterHit => Faithful(Baseline, target, version)
           /\ ~AdapterHit => Baseline = cache.output
<1>1. CASE AdapterHit
  <2>1. Baseline = mgr.entries[Key(version)].output /\ Key(version) \in Resident(mgr)
        /\ strategy = "adapter_specific_cache"
    BY <1>1 DEF Baseline, Lookup, AdapterHit
  <2>2. mgr.entries[Key(version)] \in StoredEntries
    BY <2>1, SameEntries DEF Recording, Sound, I!IndexOK, I!Resident, Resident
  <2>3. EntrySound(strategy, Key(version), mgr.entries[Key(version)])
    BY <2>1 DEF Recording, Sound, EntriesSound
  <2>4. Key(version).adapter.target = target /\ Key(version).version = version
    BY RecordingFacts DEF target
  <2>5. QED
    BY <1>1, <2>1, <2>2, <2>3, <2>4 DEF StoredEntries, EntrySound
<1>2. CASE ~AdapterHit
  <2>1. Baseline = cache.output
    BY <1>2 DEF Baseline
  <2>2. QED
    BY <1>2, <2>1, RecordingFacts
<1>3. QED
  BY <1>1, <1>2

\* What a step may commit, or serve unexamined.
LEMMA OutcomeFacts ==
    ASSUME Recording, strategy # "no_adaptation", NEW latency, NEW o \in Outcomes(latency),
           o.decision.action # "alora_suffix_recompute",
           o.decision.action = "partial_recompute" => o.decision.last = None
    PROVE  /\ o.output \in Tensors
           /\ LowerIntact(o.output, target)
           /\ o.decision.action \in {"full_recompute", "reject_update", "reuse_exact",
                                     "partial_recompute"} =>
                 Faithful(o.output, target, version)
           /\ o.decision.action \in Reuses => o.output.kv = Baseline.kv
<1> DEFINE e == o.decision
<1>1. /\ \E d \in Asked(latency) : e \in Settled(d)
      /\ o.output \in Execute(strategy, target, version, capture, e, Baseline)
  BY DEF Outcomes
<1>2. Settles(e)
  BY <1>1, RecordingFacts, SettledFacts
<1> HIDE DEF e
<1> SUFFICES ASSUME e.action # "alora_suffix_recompute",
                    e.action = "partial_recompute" => e.last = None
             PROVE  /\ o.output \in Tensors
                    /\ LowerIntact(o.output, target)
                    /\ e.action \in {"full_recompute", "reject_update", "reuse_exact",
                                     "partial_recompute"} =>
                           Faithful(o.output, target, version)
                    /\ e.action \in Reuses => o.output.kv = Baseline.kv
  BY DEF e
<1>3. /\ Baseline \in Tensors /\ LowerIntact(Baseline, target)
      /\ AdapterHit => Faithful(Baseline, target, version)
      /\ ~AdapterHit => Baseline = cache.output
  BY BaselineFacts
<1>4. /\ target.layer \in Layers \cup {None} /\ version \in Nat /\ Gap \in Nat
      /\ cache.version \in Nat /\ CacheSound
  BY RecordingFacts
<1>5. Shaped(e, strategy, target, 0)
  BY <1>2 DEF Settles
<1>6. /\ o.output \in Tensors
      /\ LowerIntact(o.output, target)
      /\ e.action \in {"full_recompute", "reject_update", "partial_recompute"} =>
            Faithful(o.output, target, version)
      /\ e.action \in Reuses => o.output.kv = Baseline.kv
  BY <1>1, <1>3, <1>4, <1>5, ExecuteFacts
<1>7. CASE e.action = "reuse_exact"
  <2>1. o.output.kv = Baseline.kv
    BY <1>6, <1>7 DEF Reuses
  <2>2. CASE AdapterHit
    BY <1>3, <1>6, <2>1, <2>2 DEF Faithful
  <2>3. CASE ~AdapterHit /\ Gap = 0
    <3>1. Faithful(cache.output, target, version)
      BY <1>4, <2>3 DEF Recording, CacheSound, CacheExact, Gap
    <3>2. QED
      BY <1>3, <1>6, <2>1, <2>3, <3>1 DEF Faithful
  <2>4. CASE target.kind = "output_head"
    BY <1>4, <1>6, <2>4, TruthFacts DEF LowerIntact, Faithful
  <2>5. QED
    BY <1>2, <1>7, <2>2, <2>3, <2>4 DEF Settles
<1>8. QED
  BY <1>6, <1>7

\* Every block of a step is the current condition's and no newer than the
\* version.
LEMMA NewBlocksFacts ==
    ASSUME Recording, NEW e
    PROVE  /\ NewBlocks(e) = [l \in Layers |-> NewBlocks(e)[l]]
           /\ \A l \in Layers :
                 /\ NewBlocks(e)[l].layer = l
                 /\ NewBlocks(e)[l].adapter = plan[cond]
                 /\ NewBlocks(e)[l].version <= version
                 /\ BlockState(e) \in {"valid_exact", "valid_approx"} =>
                       NewBlocks(e)[l] \in BlockRecords
           /\ \A out : ~Mismatched(Key(version), Entry(out, NewBlocks(e)))
<1>1. /\ Labelled /\ version \in Nat /\ cache.version \in 0..version
      /\ plan[cond] \in Conditions /\ Key(version).adapter = plan[cond]
      /\ Key(version).version = version
  BY RecordingFacts, CurrentFacts DEF CacheSound
<1>2. ASSUME NEW l \in Layers
      PROVE  /\ NewBlocks(e)[l].layer = l
             /\ NewBlocks(e)[l].adapter = plan[cond]
             /\ NewBlocks(e)[l].version <= version
             /\ BlockState(e) \in {"valid_exact", "valid_approx"} =>
                   NewBlocks(e)[l] \in BlockRecords
  <2>1. NewBlocks(e)[l] \in {cache.blocks[l], Block(l, version, BlockState(e))}
    BY DEF NewBlocks
  <2>2. CASE NewBlocks(e)[l] = cache.blocks[l]
    <3>1. /\ cache.blocks[l].layer = l /\ cache.blocks[l].adapter = plan[cond]
          /\ cache.blocks[l].version <= cache.version /\ cache.blocks[l] \in BlockRecords
          /\ cache.blocks[l].version \in Nat
      BY <1>1 DEF Labelled, BlockRecords
    <3>2. cache.blocks[l].version <= version
      BY <1>1, <3>1
    <3>3. QED
      BY <2>2, <3>1, <3>2
  <2>3. CASE NewBlocks(e)[l] = Block(l, version, BlockState(e))
    BY <1>1, <2>3 DEF Block, BlockRecords
  <2>4. QED
    BY <2>1, <2>2, <2>3
<1>3. NewBlocks(e) = [l \in Layers |-> NewBlocks(e)[l]]
  BY DEF NewBlocks
<1>4. ASSUME NEW out PROVE ~Mismatched(Key(version), Entry(out, NewBlocks(e)))
  <2> SUFFICES ASSUME NEW l \in Layers
               PROVE  ~(\/ NewBlocks(e)[l].version > Key(version).version
                        \/ NewBlocks(e)[l].adapter # Key(version).adapter)
    BY DEF Mismatched, Entry
  <2>1. NewBlocks(e)[l].version \in Int
    <3>1. NewBlocks(e)[l] \in {cache.blocks[l], Block(l, version, BlockState(e))}
      BY DEF NewBlocks
    <3>2. cache.blocks[l].version \in Int /\ Block(l, version, BlockState(e)).version \in Int
      BY <1>1 DEF Labelled, BlockRecords, Block
    <3>3. QED
      BY <3>1, <3>2
  <2>2. QED
    BY <1>1, <1>2, <2>1
<1>5. QED
  BY <1>2, <1>3, <1>4

\* What a committing strategy stores is sound.
LEMMA CommittedFacts ==
    ASSUME Recording, NEW latency, NEW o \in Outcomes(latency), Commits(o.decision)
    PROVE  /\ NewBlocks(o.decision) \in [Layers -> BlockRecords]
           /\ o.output \in Tensors
           /\ Entry(o.output, NewBlocks(o.decision)) \in StoredEntries
           /\ EntrySound(strategy, Key(version), Entry(o.output, NewBlocks(o.decision)))
           /\ strategy = "threshold_refresh" => Faithful(o.output, target, version)
<1> DEFINE e == o.decision
           blocks == NewBlocks(e)
<1>1. PICK d \in Asked(latency) : e \in Settled(d)
  BY DEF Outcomes
<1>2. Settles(e)
  BY <1>1, RecordingFacts, SettledFacts
<1>3. /\ strategy # "no_adaptation"
      /\ e.action \in {"full_recompute", "reuse_exact", "partial_recompute", "delta_correct",
                       "reject_update"}
      /\ e.action = "partial_recompute" => e.last = None
      /\ strategy \in {"adapter_specific_cache", "threshold_refresh"} =>
            e.action \in {"full_recompute", "reuse_exact"}
  <2>1. CASE strategy = "adapter_specific_cache"
    BY <1>2, <2>1 DEF Settles, FullRecompute, ReuseExact, Decision
  <2>2. CASE strategy # "adapter_specific_cache"
    <3>1. /\ strategy \notin {"no_adaptation", "alora_prefix_reuse"} \cup WindowedNames
          /\ e.action \in {"full_recompute", "reuse_exact", "partial_recompute",
                           "delta_correct", "reject_update"}
      BY <2>2 DEF Commits
    <3>2. strategy = "threshold_refresh" => e.action \in {"full_recompute", "reuse_exact"}
      BY <1>2, <3>1 DEF Settles, FullRecompute, ReuseExact, ReuseStale, Decision
    <3>3. QED
      BY <1>2, <2>2, <3>1, <3>2 DEF Settles, Shaped
  <2>3. QED
    BY <2>1, <2>2
<1>4. BlockState(e) \in {"valid_exact", "valid_approx"}
      /\ (e.action = "delta_correct" => BlockState(e) = "valid_approx" /\ e.first = target.layer)
      /\ (e.action = "partial_recompute" => e.first = target.layer)
  BY <1>2, <1>3 DEF BlockState, Settles, Shaped
<1>5. /\ o.output \in Tensors
      /\ LowerIntact(o.output, target)
      /\ e.action # "delta_correct" => Faithful(o.output, target, version)
  BY <1>3, OutcomeFacts
<1>6. /\ target.layer \in Layers \cup {None} /\ version \in Nat
      /\ Key(version).adapter.target = target /\ Key(version).version = version
  BY RecordingFacts DEF target
<1>7. blocks \in [Layers -> BlockRecords]
      /\ \A l \in Layers : blocks[l].layer = l
  BY <1>4, NewBlocksFacts
<1>8. ASSUME NEW l \in Layers, blocks[l].state = "valid_exact"
      PROVE  o.output.kv[l] = KVTruth(target, l, version)
  <2>1. CASE e.action # "delta_correct"
    BY <1>5, <2>1 DEF Faithful
  <2>2. CASE e.action = "delta_correct"
    <3>1. target.layer # None /\ l < target.layer
      BY <1>4, <1>8, <2>2 DEF NewBlocks, Block
    <3>2. l < FirstLayer(target)
      BY <3>1 DEF FirstLayer
    <3>3. QED
      BY <1>5, <1>6, <3>2, TruthFacts DEF LowerIntact
  <2>3. QED
    BY <2>1, <2>2
<1> HIDE DEF e, blocks
<1>9. Entry(o.output, blocks) = [size |-> o.output.size, blocks |-> {blocks[l] : l \in Layers},
                                 output |-> o.output]
  BY DEF Entry
<1>10. Entry(o.output, blocks) \in StoredEntries
  BY <1>5, <1>7, <1>9 DEF StoredEntries, Tensors
<1>11. EntrySound(strategy, Key(version), Entry(o.output, blocks))
  <2>1. BlocksFaithful(Entry(o.output, blocks), Key(version))
    BY <1>6, <1>7, <1>8, <1>9 DEF BlocksFaithful
  <2>2. strategy = "adapter_specific_cache" => Faithful(o.output, target, version)
    BY <1>3, <1>5
  <2>3. QED
    BY <1>5, <1>6, <1>9, <2>1, <2>2 DEF EntrySound
<1>12. strategy = "threshold_refresh" => Faithful(o.output, target, version)
  BY <1>3, <1>5
<1>13. QED
  BY <1>5, <1>7, <1>10, <1>11, <1>12 DEF e, blocks

\* Whatever strategy's refresh is not committed is exempt from counting.
LEMMA UncommittedFacts ==
    ASSUME Recording, NEW latency, NEW o \in Outcomes(latency), ~Commits(o.decision),
           strategy \notin WindowedNames \cup {"alora_prefix_reuse"}
    PROVE  ~IsRefresh(o.decision)
<1> DEFINE e == o.decision
<1>1. \E d \in Asked(latency) : e \in Settled(d)
  BY DEF Outcomes
<1>2. Settles(e)
  BY <1>1, RecordingFacts, SettledFacts
<1> HIDE DEF e
<1>3. CASE strategy = "no_adaptation"
  BY <1>2, <1>3 DEF Settles, ReuseExact, Decision, IsRefresh, e
<1>4. CASE strategy # "no_adaptation"
  <2>1. e.action \notin {"full_recompute", "reuse_exact", "partial_recompute",
                         "delta_correct", "reject_update", "alora_suffix_recompute"}
    BY <1>2, <1>4 DEF Settles, Shaped, Commits, e
  <2>2. QED
    BY <2>1 DEF IsRefresh, e
<1>5. QED
  BY <1>3, <1>4

\* One recorded step: what is kept is exact, and its version is told right.
LEMMA RecordSound == \A latency \in Latencies : Sound /\ RecordStep(latency) => Sound'
<1> SUFFICES ASSUME NEW latency \in Latencies, Sound, RecordStep(latency) PROVE Sound'
  OBVIOUS
<1>1. PICK o \in Outcomes(latency) :
        /\ IF Commits(o.decision)
           THEN Commit(o.decision, o.output)
           ELSE mgr' = Looked /\ UNCHANGED cache
        /\ last' = [version |-> version, decision |-> o.decision, output |-> o.output,
                    refreshes |-> Refreshes(o.decision)]
        /\ refreshed' = refreshed + (IF IsRefresh(o.decision) THEN 1 ELSE 0)
  BY DEF RecordStep
<1> DEFINE e == o.decision
           entry == Entry(o.output, NewBlocks(e))
<1>2. /\ recorded' = recorded \cup {<<cond, version>>}
      /\ phase = "record" /\ phase' = "advance"
      /\ UNCHANGED <<strategy, plan, capture, cond, version, normAt>>
      /\ target' = target /\ \A v : Key(v)' = Key(v)
  BY DEF RecordStep, run, target, Key
<1>3. Recording /\ Sound
  BY <1>2 DEF Recording
<1>4. /\ CacheSound /\ Typed /\ version \in Nat /\ cond \in Nat
      /\ target.layer \in Layers \cup {None}
      /\ Key(version) \in Keys /\ Key(version).adapter = plan[cond]
      /\ Key(version).version = version
  BY <1>3, RecordingFacts DEF Typed
<1>5. Settles(e)
  <2>1. \E d \in Asked(latency) : e \in Settled(d)
    BY DEF Outcomes
  <2>2. QED
    BY <2>1, <1>3, RecordingFacts, SettledFacts
<1>6. Typed'
  BY <1>1, <1>2, <1>4 DEF Typed
<1>7. HistorySound'
  BY <1>2, <1>3, <1>4 DEF Sound, HistorySound
<1>8. /\ I!IndexOK(Looked) /\ EntriesSound(strategy, Looked)
      /\ strategy # "adapter_specific_cache" => Looked = mgr
  <2>1. I!IndexOK(mgr) /\ EntriesSound(strategy, mgr)
    BY <1>3 DEF Sound
  <2>2. I!IndexOK(AfterGet(mgr, Key(version))) /\ AfterGet(mgr, Key(version)).entries = mgr.entries
    BY <1>4, <2>1, GetFacts
  <2>3. QED
    BY <2>1, <2>2 DEF Looked, EntriesSound, Resident
<1>9. I!IndexOK(mgr') /\ EntriesSound(strategy, mgr') /\ CacheSound'
  <2>1. CASE Commits(e)
    <3>1. /\ NewBlocks(e) \in [Layers -> BlockRecords] /\ o.output \in Tensors
          /\ entry \in StoredEntries
          /\ EntrySound(strategy, Key(version), entry)
          /\ strategy = "threshold_refresh" => Faithful(o.output, target, version)
      BY <1>3, <2>1, CommittedFacts
    <3>2. ~Mismatched(Key(version), entry) /\ \A l \in Layers :
             NewBlocks(e)[l].layer = l /\ NewBlocks(e)[l].adapter = plan[cond]
             /\ NewBlocks(e)[l].version <= version
      BY <1>3, NewBlocksFacts
    <3>3. /\ mgr' = AfterPut(Looked, Key(version), entry)
          /\ cache' = [cache EXCEPT !.output = o.output, !.version = version, !.norm = Norm,
                                    !.blocks = NewBlocks(e), !.refreshes = Refreshes(e)]
      BY <1>1, <2>1 DEF Commit
    <3> HIDE DEF e, entry
    <3>4. I!IndexOK(mgr') /\ EntriesSound(strategy, mgr')
      BY <1>4, <1>8, <3>1, <3>2, <3>3, PutKeepsEntries
    <3>5. ~Oversize(entry) => I!Holds(mgr', Key(version), entry)
      BY <1>4, <1>8, <3>1, <3>2, <3>3, PutFacts
    <3>6. /\ cache'.output = o.output /\ cache'.version = version /\ cache'.norm = Norm
          /\ cache'.blocks = NewBlocks(e) /\ cache'.refreshes = Refreshes(e)
          /\ cache' = [output |-> cache'.output, original |-> cache'.original,
                       version |-> cache'.version, norm |-> cache'.norm,
                       blocks |-> cache'.blocks, refreshes |-> cache'.refreshes]
      <4>1. cache = [output |-> cache.output, original |-> cache.original,
                     version |-> cache.version, norm |-> cache.norm,
                     blocks |-> cache.blocks, refreshes |-> cache.refreshes]
        BY <1>4 DEF CacheSound, CacheTyped
      <4>2. QED
        BY <3>3, <4>1
    <3>7. Key(cache.version)' = Key(version) /\ Entry(cache.output, cache.blocks)' = entry
      BY <1>2, <3>6 DEF Key, Entry, entry
    <3>8. cache.refreshes \in Nat /\ Refreshes(e) \in Nat
      BY <1>4 DEF CacheSound, CacheTyped, Refreshes
    <3>9. CacheTyped'
      BY <1>2, <1>4, <3>1, <3>6, <3>8 DEF CacheTyped, Norm
    <3>10. Labelled'
      BY <1>2, <3>1, <3>2, <3>6 DEF Labelled
    <3>11. CacheExact'
      BY <1>2, <3>1, <3>6, <3>7 DEF CacheExact
    <3>12. CacheStored'
      BY <3>5, <3>7 DEF CacheStored
    <3>13. CacheCounted'
      BY <1>1, <1>2, <1>4, <3>6 DEF CacheSound, CacheCounted, Refreshes, e
    <3>14. QED
      BY <3>4, <3>9, <3>10, <3>11, <3>12, <3>13 DEF CacheSound
  <2>2. CASE ~Commits(e)
    <3>1. mgr' = Looked /\ cache' = cache /\ strategy # "adapter_specific_cache"
      BY <1>1, <2>2 DEF Commits
    <3>2. mgr' = mgr
      BY <1>8, <3>1
    <3>3. CacheTyped' /\ Labelled' /\ CacheStored'
      BY <1>2, <1>4, <3>1, <3>2
         DEF CacheSound, CacheTyped, Labelled, CacheStored, Key, Entry
    <3>4. CacheExact'
      BY <1>2, <1>4, <3>1 DEF CacheSound, CacheExact, Key, Entry
    <3>5. CacheCounted'
      <4> SUFFICES ASSUME strategy \notin WindowedNames \cup {"alora_prefix_reuse"}
                   PROVE  cache.refreshes = refreshed'
        BY <1>2, <3>1 DEF CacheCounted
      <4>1. ~IsRefresh(e)
        BY <1>3, <2>2, UncommittedFacts
      <4>2. QED
        BY <1>1, <1>4, <4>1 DEF CacheSound, CacheCounted, Typed
    <3>6. QED
      BY <1>8, <3>1, <3>3, <3>4, <3>5 DEF CacheSound
  <2>3. QED
    BY <2>1, <2>2
<1>10. last'.version = version /\ last'.decision = e /\ last'.output = o.output
       /\ last'.refreshes = Refreshes(e)
  BY <1>1
<1> HIDE DEF e
<1>11. UnexaminedOutputsAreExact'
  <2> SUFFICES ASSUME strategy # "no_adaptation",
                      \/ e.action \in {"full_recompute", "reject_update", "reuse_exact"}
                      \/ e.action = "partial_recompute" /\ e.last = None
               PROVE  \A l \in Layers : o.output.kv[l] = KVTruth(target, l, version)
    BY <1>2, <1>10 DEF UnexaminedOutputsAreExact
  <2>1. Faithful(o.output, target, version)
    BY <1>3, OutcomeFacts DEF e
  <2>2. QED
    BY <2>1 DEF Faithful
<1>12. ThresholdBoundsDrift'
  <2> SUFFICES ASSUME strategy = "threshold_refresh", NEW l \in Layers,
                      o.output.kv[l] # KVTruth(target, l, version)
               PROVE  Norm - normAt[o.output.kv[l]] <= Cfg.normMax
    <3>1. Norm' = Norm
      BY <1>2 DEF Norm
    <3>2. QED
      BY <1>2, <1>10, <3>1 DEF ThresholdBoundsDrift, StaleLayers, Drift
  <2>1. CASE e \in {ReuseExact, FullRecompute}
    <3>1. e.action \in {"full_recompute", "reuse_exact"}
      BY <2>1 DEF ReuseExact, FullRecompute, Decision
    <3>2. Faithful(o.output, target, version)
      BY <1>3, <3>1, OutcomeFacts DEF e
    <3>3. QED
      BY <3>2 DEF Faithful
  <2>2. CASE e = ReuseStale /\ NormSince <= Cfg.normMax
    <3>1. e.action = "reuse_stale"
      BY <2>2 DEF ReuseStale, Decision
    <3>2. o.output.kv = Baseline.kv /\ Baseline = cache.output
      BY <1>3, <3>1, OutcomeFacts, BaselineFacts DEF e, Reuses, AdapterHit
    <3>3. o.output.kv[l] = KVTruth(target, l, cache.version)
      BY <1>4, <3>2 DEF CacheSound, CacheExact, Faithful
    <3>4. cache.version \in Nat
      BY <1>3, RecordingFacts
    <3>5. o.output.kv[l] = cache.version
      BY <1>4, <3>3, <3>4, TruthFacts
    <3>6. QED
      BY <1>3, <2>2, <3>5, RecordingFacts, RunAssumption
  <2>3. QED
    BY <1>5, <2>1, <2>2 DEF Settles
<1>13. CommittedRefreshesCounted'
  BY <1>1, <1>2, <1>4, <1>10
     DEF CommittedRefreshesCounted, RefreshesCounted, CacheSound, CacheCounted, Refreshes, e
<1>14. QED
  BY <1>2, <1>6, <1>7, <1>9, <1>11, <1>12, <1>13 DEF Sound, Served

LEMMA RefusedSound == \A latency \in Latencies : Sound /\ RestartRefused(latency) => Sound'
<1> SUFFICES ASSUME NEW latency \in Latencies, Sound, RestartRefused(latency) PROVE Sound'
  OBVIOUS
<1>1. Typed'
  BY DEF RestartRefused, Sound, Typed, run
<1>2. I!IndexOK(mgr)' /\ EntriesSound(strategy, mgr)'
  BY DEF RestartRefused, Sound, run
<1>3. HistorySound'
  BY DEF RestartRefused, Sound, HistorySound
<1>4. ~Installed' /\ ~JustRecorded'
  BY DEF RestartRefused, Installed, JustRecorded
<1>5. QED
  BY <1>1, <1>2, <1>3, <1>4, NothingServed DEF Sound

\* Every step keeps the invariant.
LEMMA NextSound == Sound /\ [Next]_vars => Sound'
<1> SUFFICES ASSUME Sound, [Next]_vars PROVE Sound'
  OBVIOUS
<1>1. CASE UNCHANGED vars
  <2>1. UNCHANGED <<strategy, plan, capture, phase, cond, version, normAt, cache, mgr, last,
                    recorded, refreshed>>
    BY <1>1 DEF vars, run
  <2>2. Typed' /\ HistorySound' /\ I!IndexOK(mgr)' /\ EntriesSound(strategy, mgr)'
    BY <2>1 DEF Sound, Typed, HistorySound
  <2>3. (Installed => CacheSound)'
    BY <2>1 DEF Sound, Installed, CacheSound, CacheTyped, Labelled, CacheExact, CacheStored,
                CacheCounted, Key, Entry, target
  <2>4. Served'
    BY <2>1 DEF Sound, Served, UnexaminedOutputsAreExact, ThresholdBoundsDrift,
                CommittedRefreshesCounted, RefreshesCounted, JustRecorded, StaleLayers, Drift,
                Norm, target
  <2>5. QED
    BY <2>2, <2>3, <2>4 DEF Sound
<1>2. QED
  BY <1>1, StartSound, WarmUpSound, AdvanceSound, InstallSound, RecordSound, RefusedSound,
     FinishSound DEF Next

---------------------------------------------------------------------------

\* The inductive invariant holds in every state of every behaviour.
THEOREM SoundAlways == Spec => []Sound
BY InitSound, NextSound, PTL DEF Spec

\* What the strategy's cache or its manager calls exact is what a full
\* recompute gives, for any plan, history of updates, strategy, backend and
\* limits of the manager (ExactBlocksAreExact).
THEOREM ExactAlways == Spec => []ExactBlocksAreExact
<1>1. Sound => ExactBlocksAreExact
  <2> SUFFICES ASSUME Sound PROVE ExactBlocksAreExact
    OBVIOUS
  <2>1. ASSUME Installed, NEW l \in Layers, cache.blocks[l].state = "valid_exact"
        PROVE  cache.output.kv[l] = KVTruth(target, l, cache.version)
    <3>1. CacheSound
      BY <2>1 DEF Sound
    <3>2. Key(cache.version).adapter.target = target /\ Key(cache.version).version = cache.version
      BY DEF Key, target
    <3>3. QED
      BY <2>1, <3>1, <3>2 DEF CacheSound, Labelled, CacheExact, EntrySound, BlocksFaithful, Entry
  <2>2. QED
    BY <2>1 DEF Sound, ExactBlocksAreExact, EntriesSound, EntrySound, BlocksFaithful
<1>2. QED
  BY <1>1, SoundAlways, PTL

\* The outputs that the metrics never examine need no examination
\* (UnexaminedOutputsAreExact).
THEOREM UnexaminedAreExact == Spec => []UnexaminedOutputsAreExact
<1>1. Sound => UnexaminedOutputsAreExact
  BY DEF Sound, Served
<1>2. QED
  BY <1>1, SoundAlways, PTL

\* threshold_refresh keeps its promise (ThresholdBoundsDrift).
THEOREM DriftBelowThreshold == Spec => []ThresholdBoundsDrift
<1>1. Sound => ThresholdBoundsDrift
  BY DEF Sound, Served
<1>2. QED
  BY <1>1, SoundAlways, PTL

\* Committed refreshes are counted, each once (CommittedRefreshesCounted).
THEOREM RefreshesAreCounted == Spec => []CommittedRefreshesCounted
<1>1. Sound => CommittedRefreshesCounted
  BY DEF Sound, Served
<1>2. QED
  BY <1>1, SoundAlways, PTL

\* No commit is refused by the manager (PutsAccepted).
THEOREM PutsNeverRefused == Spec => []PutsAccepted
<1>1. Sound => PutsAccepted
  BY NewBlocksFacts DEF PutsAccepted, Recording
<1>2. QED
  BY <1>1, SoundAlways, PTL

\* The cache and the manager never part (CacheIsInManager).
THEOREM CacheStaysInManager == Spec => []CacheIsInManager
<1>1. Sound => CacheIsInManager
  BY DEF Sound, CacheIsInManager, CacheSound, CacheStored, I!Holds, Lookup, I!Resident, Resident
<1>2. QED
  BY <1>1, SoundAlways, PTL

=============================================================================
