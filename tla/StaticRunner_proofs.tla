------------------------ MODULE StaticRunner_proofs ------------------------
(***************************************************************************)
(* Proofs about StaticRunner, for any model, plans, sequences and norms of *)
(* adapters, strategies and limits of the managers.                        *)
(*                                                                         *)
(* The argument is that of VersionedRunner_proofs, with adapters for       *)
(* versions: a strategy that neither corrects nor restarts in a window     *)
(* stores outputs that are exact for the adapter they are stored under     *)
(* (EntrySound), and what it stored last is in its manager                 *)
(* (LatestStored). That an adapter is seldom built again is counted: what  *)
(* is built and no longer there was evicted (Rebuilt).                     *)
(***************************************************************************)
EXTENDS StaticRunner, TLAPS, FiniteSetTheorems

\* The conditions of the plans, and what a manager of this runner holds.
Conditions == UNION {ToSet(p) : p \in Plans}

Keys == [adapter : Conditions, version : Nat]

Tensors == [kv : [Layers -> Int], input : [Layers -> Int], size : Nat]

StoredEntries == [size : Nat, blocks : {{}}, output : Tensors]

---------------------------------------------------------------------------
(* The manager.                                                            *)

\* CacheManager's lemmas, on the indexes that this runner builds.
I == INSTANCE CacheManager_proofs WITH
    Keys <- Keys, Adapters <- Conditions, Versions <- Nat, Sizes <- Nat,
    BlockSets <- {{}}, Outputs <- Tensors, MaxEvictions <- 0,
    Missing <- CHOOSE x : x \notin StoredEntries, reply <- last, older <- adapters

\* The entries that CacheManager would keep are those of this runner.
LEMMA SameEntries == I!Entries = StoredEntries
BY DEF I!Entries, StoredEntries

\* What those lemmas assume.
LEMMA ManagerAssumptions ==
    /\ /\ MaxEntries \in (Nat \ {0}) \cup {NoLimit}
       /\ MaxBytes \in (Nat \ {0}) \cup {NoLimit}
       /\ NoLimit \notin Nat
       /\ Policy \in {"lru", "fifo"}
    /\ /\ Nat \subseteq Nat
       /\ Keys \subseteq [adapter : Conditions, version : Nat]
       /\ Nat \subseteq Nat
       /\ 0 \in Nat
       /\ \A s \in {{}} : \A b \in s : b.adapter \in Conditions /\ b.version \in Nat
    /\ (CHOOSE x : x \notin StoredEntries) \notin I!Entries
<1>1. \E x : x \notin StoredEntries
  BY NoSetContainsEverything
<1>2. (CHOOSE x : x \notin StoredEntries) \notin StoredEntries
  BY <1>1, Zenon
<1>3. QED
  BY <1>2, SameEntries, LimitsAssumption DEF Keys

\* The instance's operators are this runner's.
LEMMA SameRemove == \A m, k : I!AfterRemove(m, k) = AfterRemove(m, k)
BY DEF I!AfterRemove, AfterRemove, I!Resident, Resident, I!Restrict, Restrict,
       I!RemoveFirst, RemoveFirst, I!RemoveAt, RemoveAt, I!SelectInSeq, SelectInSeq, I!Min, Min

\* The operators on indexes are the same in both.
LEMMA SameGet == \A m, k : I!AfterGet(m, k) = AfterGet(m, k)
BY DEF I!AfterGet, AfterGet, I!Resident, Resident,
       I!RemoveFirst, RemoveFirst, I!RemoveAt, RemoveAt, I!SelectInSeq, SelectInSeq, I!Min, Min

LEMMA SameInserted == \A m, k, e : I!Inserted(m, k, e) = Inserted(m, k, e)
BY SameRemove, ZenonT(60) DEF I!Inserted, Inserted

LEMMA SameDrop == \A m, d : I!DropOldest(m, d) = DropOldest(m, d)
BY DEF I!DropOldest, DropOldest, I!Freed, Freed, I!Restrict, Restrict, I!ToSet, ToSet,
       I!MapThenSumSet, MapThenSumSet, I!MapThenFoldSet, MapThenFoldSet

LEMMA SameVictims == \A m : I!VictimCount(m) = VictimCount(m)
BY DEF I!VictimCount, VictimCount, I!OverCapacity, OverCapacity, I!Freed, Freed,
       I!MapThenSumSet, MapThenSumSet, I!MapThenFoldSet, MapThenFoldSet, I!Min, Min

LEMMA SamePut == \A m, k, e : I!AfterPut(m, k, e) = AfterPut(m, k, e)
BY SameRemove, SameInserted, SameDrop, SameVictims
   DEF I!AfterPut, AfterPut, I!EvictToCapacity, EvictToCapacity, I!Oversize, Oversize

\* The entry of an output is one the manager takes.
LEMMA EntryFacts ==
    ASSUME NEW out \in Tensors, NEW k
    PROVE  Entry(out) \in StoredEntries /\ ~Mismatched(k, Entry(out)) /\ Entry(out).output = out
BY DEF Entry, StoredEntries, Tensors, Mismatched

\* What was in m and is not in r.
Lost(m, r) == Cardinality(Resident(m) \ Resident(r))

\* A put keeps the index in order, leaves what it put where the size
\* permits, and loses nothing else but by counted evictions.
LEMMA PutFacts ==
    ASSUME NEW m, I!IndexOK(m), NEW k \in Keys, NEW out \in Tensors
    PROVE  /\ I!IndexOK(AfterPut(m, k, Entry(out)))
           /\ I!OldOrNew(m, k, Entry(out), AfterPut(m, k, Entry(out)))
           /\ ~Oversize(Entry(out)) =>
                 /\ I!Holds(AfterPut(m, k, Entry(out)), k, Entry(out))
                 /\ AfterPut(m, k, Entry(out)).evictions =
                        m.evictions + Lost(m, AfterPut(m, k, Entry(out)))
<1> DEFINE e == Entry(out)
           q == I!AfterPut(m, k, e)
<1>1. /\ q = AfterPut(m, k, e)
      /\ I!Oversize(e) = Oversize(e)
  BY SamePut DEF I!Oversize, Oversize
<1>2. e \in I!Entries /\ ~I!Mismatched(k, e)
  BY EntryFacts, SameEntries DEF I!Mismatched, Mismatched
<1>3. \A S : I!Cardinality(S) = Cardinality(S)
  BY DEF I!Cardinality, Cardinality
<1> HIDE DEF e
<1>4. /\ I!IndexOK(q)
      /\ I!OldOrNew(m, k, e, q)
      /\ ~I!Oversize(e) =>
            /\ I!Holds(q, k, e)
            /\ q.evictions = m.evictions + I!Cardinality(I!Resident(m) \ I!Resident(q))
  BY <1>2, ManagerAssumptions, I!PutKeeps, Zenon
<1>5. I!Resident(m) = Resident(m) /\ I!Resident(q) = Resident(q)
  BY DEF I!Resident, Resident
<1> HIDE DEF q
<1>6. QED
  BY <1>1, <1>3, <1>4, <1>5 DEF e, Lost

\* A lookup changes the order and the counts only.
LEMMA GetFacts ==
    ASSUME NEW m, I!IndexOK(m), NEW k \in Keys
    PROVE  /\ I!IndexOK(AfterGet(m, k)) /\ AfterGet(m, k).entries = m.entries
           /\ AfterGet(m, k).evictions = m.evictions
<1>1. I!IndexOK(AfterGet(m, k))
  BY ManagerAssumptions, SameGet, I!GetSound, Zenon
<1>2. AfterGet(m, k).entries = m.entries /\ AfterGet(m, k).evictions = m.evictions
  BY DEF AfterGet, I!IndexOK
<1>3. QED
  BY <1>1, <1>2

\* A new manager is in order and holds nothing.
LEMMA EmptyFacts ==
    I!IndexOK(EmptyIndex) /\ Resident(EmptyIndex) = {} /\ EmptyIndex.evictions = 0
BY DEF I!IndexOK, EmptyIndex, Resident, I!Resident, I!Entries

---------------------------------------------------------------------------
(* The strategies' answers.                                                *)

\* The answers of the strategies that neither correct nor restart in a window.
Shaped(d, n, t, gap) ==
    /\ d.action \in Reuses \cup {"partial_recompute", "full_recompute", "reject_update",
                                 "alora_suffix_recompute"}
    /\ d.action = "partial_recompute" => d.first = t.layer /\ t.layer # None /\ d.last = None
    /\ d.action = "alora_suffix_recompute" => n = "alora_prefix_reuse"
    /\ d.action = "reuse_exact" => gap = 0 \/ n = "no_adaptation"

\* Every strategy answers with one of the shapes.
LEMMA DecideShaped ==
    ASSUME NEW c, NEW n \in StrategyNames \ Approximates, NEW t, NEW gap, NEW drift, NEW r,
           NEW d \in Decide(c, n, t, gap, drift, r)
    PROVE  Shaped(d, n, t, gap)
<1>1. d = FixedAnswer(c, n, t, gap, drift)
  BY DEF Decide, Approximates
<1>2. n \notin WindowedNames \cup {"lragent_adapter_cache", "forkkv_base_delta",
                                   "static_base_delta"}
  BY DEF Approximates
<1>3. QED
  BY <1>1, <1>2
     DEF FixedAnswer, WindowedNames, Periodic, Threshold, Layerwise, BaseCacheReuse,
         AdapterSpecific, AloraPrefix, FullRecompute, ReuseExact, ReuseStale, ReuseFrozen,
         Decision, Shaped, Reuses

---------------------------------------------------------------------------
(* The backend.                                                            *)

\* An update leaves the K/V of the layers below the target's, and the inputs
\* up to it, as the base model has them; an output head leaves everything.
LowerIntact(out, t) ==
    \A l \in Layers :
       /\ l < FirstLayer(t) \/ t.kind = "output_head" => out.kv[l] = 0
       /\ l <= FirstLayer(t) \/ t.kind = "output_head" => out.input[l] = 0

\* What a full recompute gives are values, layer by layer.
LEMMA TruthFacts ==
    ASSUME NEW t, t.layer \in Layers \cup {None}, NEW v \in Nat, NEW l \in Layers
    PROVE  /\ FirstLayer(t) \in Layers
           /\ KVTruth(t, l, v) \in {0, v} /\ InputTruth(t, l, v) \in {0, v}
           /\ l < FirstLayer(t) \/ t.kind = "output_head" => KVTruth(t, l, v) = 0
           /\ l <= FirstLayer(t) \/ t.kind = "output_head" => InputTruth(t, l, v) = 0
           /\ \A w \in Nat : \/ KVTruth(t, l, v) = KVTruth(t, l, w)
                             \/ KVTruth(t, l, v) = v /\ KVTruth(t, l, w) = w
<1>1. FirstLayer(t) \in Layers
  BY BackendAssumption DEF FirstLayer, Layers
<1>2. l \in Int /\ FirstLayer(t) \in Int
  BY <1>1 DEF Layers
<1>3. QED
  BY <1>1, <1>2 DEF KVTruth, InputTruth

\* A full recompute is exact.
LEMMA FullFacts ==
    ASSUME NEW t, t.layer \in Layers \cup {None}, NEW v \in Nat
    PROVE  /\ FullOutput(t, v) \in Tensors
           /\ LowerIntact(FullOutput(t, v), t)
           /\ Faithful(FullOutput(t, v), t, v)
BY TruthFacts, BackendAssumption DEF FullOutput, Tensors, LowerIntact, Faithful

\* A reuse keeps the values and the inputs.
LEMMA ReusedFacts ==
    ASSUME NEW base \in Tensors
    PROVE  /\ Reused(base) \in Tensors
           /\ Reused(base).kv = base.kv /\ Reused(base).input = base.input
BY BackendAssumption DEF Reused, Tensors

\* A restart at the updated layer finds the input of the current version.
LEMMA RestartedFacts ==
    ASSUME NEW t, t.layer \in Layers, t.layer # None, NEW v \in Nat, NEW d, d.first = t.layer,
           d.last = None, NEW base \in Tensors, LowerIntact(base, t)
    PROVE  LET out == Restarted(t, v, d, base) IN
           out \in Tensors /\ LowerIntact(out, t) /\ Faithful(out, t, v)
<1> DEFINE f == FirstLayer(t)
           out == Restarted(t, v, d, base)
<1>1. f = t.layer /\ d.first = f /\ f \in Layers
  BY DEF FirstLayer
<1>2. base.input[f] = InputTruth(t, f, v)
  BY <1>1, TruthFacts DEF LowerIntact, Layers
<1>3. out = [kv |-> [l \in Layers |->
                        IF l < f \/ l >= NumLayers THEN base.kv[l] ELSE KVTruth(t, l, v)],
             input |-> [l \in Layers |->
                        IF l <= f \/ l > NumLayers THEN base.input[l] ELSE InputTruth(t, l, v)],
             size |-> FullSize]
  BY <1>1, <1>2 DEF Restarted
<1> HIDE DEF f, out
<1>4. \A l \in Layers : /\ l \in Int /\ f \in Int /\ l < NumLayers /\ NumLayers \in Int
                        /\ base.kv[l] \in Int /\ base.input[l] \in Int
  BY <1>1, BackendAssumption DEF Layers, Tensors
<1>5. \A l \in Layers : /\ KVTruth(t, l, v) \in Int /\ InputTruth(t, l, v) \in Int
                        /\ l < f \/ t.kind = "output_head" => KVTruth(t, l, v) = 0
                        /\ t.kind = "output_head" => InputTruth(t, l, v) = 0
  BY TruthFacts DEF f
<1>6. out \in Tensors
  BY <1>3, <1>4, <1>5, BackendAssumption DEF Tensors
<1>7. Faithful(out, t, v)
  <2> SUFFICES ASSUME NEW l \in Layers PROVE out.kv[l] = KVTruth(t, l, v)
    BY DEF Faithful
  <2>1. l < f => base.kv[l] = KVTruth(t, l, v)
    BY <1>5 DEF LowerIntact, f
  <2>2. QED
    BY <1>3, <1>4, <2>1
<1>8. LowerIntact(out, t)
  BY <1>3, <1>4, <1>5, <1>7 DEF LowerIntact, Faithful, f
<1>9. QED
  BY <1>6, <1>7, <1>8 DEF out

\* What the manager may be given is made of tensors.
LEMMA ExecuteTyped ==
    ASSUME NEW n, NEW t, t.layer \in Layers \cup {None}, NEW a \in Nat, NEW kept, NEW d,
           NEW base \in Tensors, NEW out \in Execute(n, t, a, kept, d, base),
           d.action \in Reuses \cup {"full_recompute", "reject_update", "delta_correct",
                                     "partial_recompute"}
    PROVE  out \in Tensors
<1>1. CASE d.action \in {"full_recompute", "reject_update"}
  BY <1>1, FullFacts DEF Execute, Reuses
<1>2. CASE d.action \in Reuses
  BY <1>2, ReusedFacts DEF Execute, Reuses
<1>3. CASE d.action = "delta_correct"
  <2>1. out = Reused(base) \/ out = Corrected(n, t, base)
    BY <1>3 DEF Execute, Reuses
  <2>2. Corrected(n, t, base) \in Tensors
    BY BackendAssumption DEF Corrected, Tensors, Approx
  <2>3. QED
    BY <2>1, <2>2, ReusedFacts
<1>4. CASE d.action = "partial_recompute"
  <2>1. out = Restarted(t, a, d, base)
    BY <1>4 DEF Execute, Reuses
  <2>2. \A l \in Layers : KVTruth(t, l, a) \in Int /\ InputTruth(t, l, a) \in Int
    BY TruthFacts
  <2>3. QED
    BY <2>1, <2>2, BackendAssumption DEF Restarted, Tensors, Approx
<1>5. QED
  BY <1>1, <1>2, <1>3, <1>4

\* A recompute, full or from the updated layer, is exact; a reuse gives what
\* it is given.
LEMMA ExecuteFacts ==
    ASSUME NEW n, NEW t, t.layer \in Layers \cup {None}, NEW a \in Nat, NEW kept,
           NEW m, NEW gap, NEW d, Shaped(d, m, t, gap), NEW base \in Tensors,
           LowerIntact(base, t), NEW out \in Execute(n, t, a, kept, d, base)
    PROVE  /\ d.action \in {"full_recompute", "reject_update", "partial_recompute"} =>
                 Faithful(out, t, a) /\ LowerIntact(out, t)
           /\ d.action \in Reuses => out.kv = base.kv /\ out.input = base.input
<1>1. CASE d.action \in {"full_recompute", "reject_update"}
  <2>1. out = FullOutput(t, a) /\ d.action \notin Reuses
    BY <1>1 DEF Execute, Reuses
  <2>2. QED
    BY <2>1, FullFacts
<1>2. CASE d.action \in Reuses
  <2>1. out = Reused(base)
        /\ d.action \notin {"full_recompute", "reject_update", "partial_recompute"}
    BY <1>2 DEF Execute, Reuses
  <2>2. QED
    BY <2>1, ReusedFacts
<1>3. CASE d.action = "partial_recompute"
  <2>1. out = Restarted(t, a, d, base) /\ d.action \notin Reuses
    BY <1>3 DEF Execute, Reuses
  <2>2. t.layer \in Layers /\ t.layer # None /\ d.first = t.layer /\ d.last = None
    BY <1>3 DEF Shaped
  <2>3. QED
    BY <2>1, <2>2, RestartedFacts
<1>4. QED
  BY <1>1, <1>2, <1>3 DEF Reuses

---------------------------------------------------------------------------
(* The inductive invariant.                                                *)

Typed ==
    /\ strategy \in Strategies
    /\ plan \in Plans
    /\ adapters \in Sequences
    /\ cond \in 1..Len(plan)
    /\ phase \in {"start", "serve", "failed", "done"}
    /\ pos \in 1..(Len(adapters) + 1)
    /\ latest \in [adapter : Nat, output : Tensors]
    /\ refreshes \in Nat

\* What a strategy keeps about an adapter, unless it approximates.
OutputSound(s, out, t, a) ==
    s \notin Approximates => Faithful(out, t, a) /\ LowerIntact(out, t)

EntriesSound(s, m) ==
    \A k \in Resident(m) : OutputSound(s, m.entries[k].output, k.adapter.target, k.version)

LatestStored ==
    ~Oversize(Entry(latest.output)) =>
        I!Holds(mgr, Key(latest.adapter), Entry(latest.output))

\* The adapters that were served in this condition.
Built(c) == {adapters[i] : i \in 1..(c - 1)} \cup {0}

\* Those whose entry is gone again.
Absent(c, m) == {a \in Built(c) : Key(a) \notin Resident(m)}

\* Every refresh built an adapter's first entry or replaced one that was lost.
Rebuilt(c, m, n) ==
    n + Cardinality(Absent(c, m)) <= Cardinality(Built(c) \ {0}) + m.evictions

Serving ==
    /\ OutputSound(strategy, latest.output, target, latest.adapter)
    /\ LatestStored
    /\ strategy = "adapter_specific_cache" /\ ~Oversize(Entry(Base)) =>
          Rebuilt(pos, mgr, refreshes)

\* What ExactStrategiesStayExact says of the last record.
LastExact ==
    (strategy \notin Approximates /\ JustServed) =>
        /\ (last.decision.action = "reuse_exact" /\ strategy # "no_adaptation") =>
              Faithful(last.output, target, last.adapter)
        /\ last.decision.action \in {"full_recompute", "reject_update", "partial_recompute"} =>
              Faithful(last.output, target, last.adapter)

Sound ==
    /\ Typed
    /\ I!IndexOK(mgr)
    /\ EntriesSound(strategy, mgr)
    /\ phase = "serve" => Serving
    /\ LastExact

---------------------------------------------------------------------------

\* The current condition and what it is about are of the model.
LEMMA CurrentFacts ==
    ASSUME Typed
    PROVE  /\ strategy \in StrategyNames
           /\ plan[cond] \in Conditions
           /\ target.layer \in Layers \cup {None}
           /\ \A a \in Nat : Key(a) \in Keys /\ Key(a).adapter = plan[cond] /\ Key(a).version = a
           /\ Len(adapters) \in Nat
           /\ \A i \in 1..Len(adapters) : adapters[i] \in Nat
<1>1. plan \in Plans /\ plan \in Seq(ToSet(plan)) /\ cond \in 1..Len(plan)
  BY StaticAssumption DEF Typed
<1>2. plan[cond] \in ToSet(plan)
  BY <1>1
<1>3. plan[cond] \in Conditions
  BY <1>1, <1>2 DEF Conditions
<1>4. target.layer \in Layers \cup {None}
  BY <1>1, <1>2, StaticAssumption DEF target
<1>5. adapters \in Seq(DOMAIN NormOf) /\ DOMAIN NormOf \subseteq Nat
  BY StaticAssumption DEF Typed
<1>6. Len(adapters) \in Nat /\ \A i \in 1..Len(adapters) : adapters[i] \in Nat
  <2> HIDE DEF Typed
  <2>1. QED
    BY <1>5
<1>7. QED
  BY <1>3, <1>4, <1>6, StaticAssumption DEF Typed, Keys, Key

\* A put of a sound output keeps a sound manager sound.
LEMMA PutKeepsEntries ==
    ASSUME NEW s, NEW m, I!IndexOK(m), EntriesSound(s, m), NEW k \in Keys,
           NEW out \in Tensors, OutputSound(s, out, k.adapter.target, k.version)
    PROVE  I!IndexOK(AfterPut(m, k, Entry(out))) /\ EntriesSound(s, AfterPut(m, k, Entry(out)))
<1>1. /\ I!IndexOK(AfterPut(m, k, Entry(out)))
      /\ I!OldOrNew(m, k, Entry(out), AfterPut(m, k, Entry(out)))
  BY PutFacts
<1>2. Entry(out).output = out
  BY EntryFacts
<1>3. QED
  BY <1>1, <1>2 DEF EntriesSound, I!OldOrNew, I!Resident, Resident

\* The invariant holds initially, and every action keeps it.
LEMMA InitSound == Init => Sound
<1> SUFFICES ASSUME Init PROVE Sound
  OBVIOUS
<1>1. /\ plan # <<>> /\ plan \in Seq(ToSet(plan)) /\ plan \in Plans
      /\ adapters \in Seq(DOMAIN NormOf) /\ cond = 1
  BY StaticAssumption DEF Init
<1>2. Len(plan) \in Nat /\ Len(plan) # 0 /\ Len(adapters) \in Nat
  BY <1>1
<1>3. target.layer \in Layers \cup {None}
  <2>1. plan[1] \in ToSet(plan)
    BY <1>1, <1>2
  <2>2. QED
    BY <1>1, <2>1, StaticAssumption DEF target
<1>4. Typed
  BY <1>2, <1>3, FullFacts DEF Init, Typed, Base
<1>5. I!IndexOK(mgr) /\ EntriesSound(strategy, mgr)
  BY EmptyFacts DEF Init, EntriesSound
<1>6. QED
  BY <1>4, <1>5 DEF Init, Sound, LastExact, JustServed

\* Only the base model is built when a condition starts.
LEMMA BuiltAtStart ==
    ASSUME NEW m, Key(0) \in Resident(m), m.evictions \in Nat
    PROVE  Rebuilt(1, m, 0)
<1>1. Built(1) = {0} /\ Absent(1, m) = {}
  BY DEF Built, Absent
<1>2. Cardinality({}) = 0 /\ Built(1) \ {0} = {}
  BY <1>1, FS_EmptySet
<1>3. QED
  BY <1>1, <1>2 DEF Rebuilt

LEMMA StartSound == Sound /\ StartCondition => Sound'
<1> SUFFICES ASSUME Sound, StartCondition PROVE Sound'
  OBVIOUS
<1> DEFINE m == IF NewManager THEN EmptyIndex ELSE mgr
<1>1. /\ Typed /\ phase' = "serve" /\ pos' = 1 /\ refreshes' = 0
      /\ mgr' = AfterPut(m, Key(0), Entry(Base))
      /\ latest' = [adapter |-> 0, output |-> Base]
      /\ UNCHANGED <<strategy, plan, adapters, cond, last>>
      /\ target' = target /\ Base' = Base
      /\ \A a : Key(a)' = Key(a)
  BY DEF Sound, StartCondition, run, target, Base, Key
<1>2. /\ target.layer \in Layers \cup {None} /\ Len(adapters) \in Nat
      /\ Key(0) \in Keys /\ Key(0).adapter.target = target /\ Key(0).version = 0
  BY <1>1, CurrentFacts DEF target
<1>3. Base \in Tensors /\ OutputSound(strategy, Base, target, 0)
  BY <1>2, FullFacts DEF Base, OutputSound
<1>4. I!IndexOK(m) /\ EntriesSound(strategy, m)
  BY EmptyFacts DEF Sound, EntriesSound
<1> HIDE DEF m
<1>5. I!IndexOK(mgr') /\ EntriesSound(strategy, mgr')
  BY <1>1, <1>2, <1>3, <1>4, PutKeepsEntries
<1>6. ~Oversize(Entry(Base)) => I!Holds(mgr', Key(0), Entry(Base))
  BY <1>1, <1>2, <1>3, <1>4, PutFacts
<1>7. Typed'
  BY <1>1, <1>2, <1>3 DEF Typed
<1>8. Serving'
  <2>1. latest'.adapter = 0 /\ latest'.output = Base
    BY <1>1
  <2>2. OutputSound(strategy, latest.output, target, latest.adapter)'
    BY <1>1, <1>3, <2>1
  <2>3. LatestStored'
    BY <1>1, <1>6, <2>1 DEF LatestStored, Entry, Key
  <2>4. (strategy = "adapter_specific_cache" /\ ~Oversize(Entry(Base)) =>
            Rebuilt(pos, mgr, refreshes))'
    <3> SUFFICES ASSUME ~Oversize(Entry(Base)) PROVE Rebuilt(1, mgr, 0)'
      BY <1>1 DEF Entry, Rebuilt, Absent, Built, Key
    <3>1. Key(0) \in Resident(mgr') /\ mgr'.evictions \in Nat
      BY <1>5, <1>6 DEF I!Holds, I!Resident, Resident, I!IndexOK
    <3>2. Rebuilt(1, mgr', 0)
      BY <3>1, BuiltAtStart
    <3>3. QED
      BY <1>1, <3>2 DEF Rebuilt, Absent, Built, Key
  <2>5. QED
    BY <2>2, <2>3, <2>4 DEF Serving
<1>9. LastExact'
  BY <1>1 DEF LastExact, JustServed
<1>10. QED
  BY <1>1, <1>5, <1>7, <1>8, <1>9 DEF Sound

LEMMA FinishSound == Sound /\ FinishCondition => Sound'
<1> SUFFICES ASSUME Sound, FinishCondition PROVE Sound'
  OBVIOUS
<1>1. Typed'
  <2>1. Len(plan) \in Nat
    BY StaticAssumption DEF Sound, Typed
  <2>2. QED
    BY <2>1 DEF FinishCondition, Sound, Typed, run
<1>2. I!IndexOK(mgr)' /\ EntriesSound(strategy, mgr)'
  BY DEF FinishCondition, Sound, run
<1>3. phase' # "serve" /\ LastExact'
  BY DEF FinishCondition, LastExact, JustServed
<1>4. QED
  BY <1>1, <1>2, <1>3 DEF Sound

LEMMA RefusedSound == \A latency \in Latencies : Sound /\ RestartRefused(latency) => Sound'
<1> SUFFICES ASSUME NEW latency \in Latencies, Sound, RestartRefused(latency) PROVE Sound'
  OBVIOUS
<1>1. Typed'
  BY DEF RestartRefused, Sound, Typed, run
<1>2. I!IndexOK(mgr)' /\ EntriesSound(strategy, mgr)'
  BY DEF RestartRefused, Sound, run
<1>3. phase' # "serve" /\ LastExact'
  BY DEF RestartRefused, LastExact, JustServed
<1>4. QED
  BY <1>1, <1>2, <1>3 DEF Sound

---------------------------------------------------------------------------
(* Counting.                                                               *)

\* The adapters of a prefix are finitely many.
LEMMA BuiltFinite ==
    ASSUME NEW c \in Nat
    PROVE  IsFiniteSet(Built(c)) /\ Cardinality(Built(c)) \in Nat
<1> DEFINE T == {adapters[i] : i \in 1..(c - 1)}
           f == [i \in 1..(c - 1) |-> adapters[i]]
<1>1. f \in Surjection(1..(c - 1), T)
  BY DEF Surjection
<1>2. IsFiniteSet(1..(c - 1))
  BY FS_Interval
<1> HIDE DEF f
<1>3. IsFiniteSet(T)
  BY <1>1, <1>2, FS_Surjection
<1>4. Built(c) = T \cup {0}
  BY DEF Built
<1> HIDE DEF T
<1>5. IsFiniteSet(Built(c))
  BY <1>3, <1>4, FS_AddElement
<1>6. QED
  BY <1>5, FS_CardinalityType

\* Every entry that a put loses was evicted, so at most as many adapters
\* become absent as entries were.
LEMMA AbsentFacts ==
    ASSUME NEW c \in Nat, NEW m, NEW r, NEW a, Built(c + 1) = Built(c) \cup {a},
           Key(a) \in Resident(r), IsFiniteSet(Resident(m) \ Resident(r))
    PROVE  /\ Lost(m, r) \in Nat
           /\ Cardinality(Absent(c, m)) \in Nat /\ Cardinality(Absent(c + 1, r)) \in Nat
           /\ Cardinality(Absent(c + 1, r)) <= Cardinality(Absent(c, m)) + Lost(m, r)
           /\ a \in Absent(c, m) =>
                 Cardinality(Absent(c + 1, r)) <= Cardinality(Absent(c, m)) - 1 + Lost(m, r)
<1> DEFINE lost == Resident(m) \ Resident(r)
           X == {b \in Built(c) : Key(b) \in lost}
           f == [b \in X |-> Key(b)]
           old == Absent(c, m)
           new == Absent(c + 1, r)
<1>1. IsFiniteSet(Built(c)) /\ IsFiniteSet(Built(c + 1))
  BY BuiltFinite
<1>2. X \in SUBSET Built(c) /\ old \in SUBSET Built(c) /\ new \in SUBSET Built(c + 1)
  BY DEF Absent
<1>3. new \in SUBSET ((old \ {a}) \cup X)
  BY DEF Absent
<1>4. f \in Injection(X, lost)
  BY DEF Injection, IsInjective, Key
<1>5. Lost(m, r) = Cardinality(lost) /\ IsFiniteSet(lost)
  BY DEF Lost
<1> HIDE DEF f, lost, X, old, new
<1>6. IsFiniteSet(X) /\ Cardinality(X) <= Cardinality(lost)
  BY <1>4, <1>5, FS_Injection
<1>7. IsFiniteSet(old) /\ IsFiniteSet(new)
  BY <1>1, <1>2, FS_Subset
<1>8. IsFiniteSet(old \ {a})
      /\ Cardinality(old \ {a}) = (IF a \in old THEN Cardinality(old) - 1 ELSE Cardinality(old))
  BY <1>7, FS_RemoveElement
<1>9. IsFiniteSet((old \ {a}) \cup X) /\ IsFiniteSet((old \ {a}) \cap X)
      /\ Cardinality((old \ {a}) \cup X) =
            Cardinality(old \ {a}) + Cardinality(X) - Cardinality((old \ {a}) \cap X)
  <2>1. (old \ {a}) \cap X \in SUBSET X
    OBVIOUS
  <2>2. QED
    BY <1>6, <1>8, <2>1, FS_Union, FS_Subset
<1>10. Cardinality(new) <= Cardinality((old \ {a}) \cup X)
  BY <1>3, <1>9, FS_Subset
<1>11. /\ Cardinality(new) \in Nat /\ Cardinality(old) \in Nat /\ Cardinality(lost) \in Nat
       /\ Cardinality(X) \in Nat /\ Cardinality(old \ {a}) \in Nat
       /\ Cardinality((old \ {a}) \cap X) \in Nat /\ Cardinality((old \ {a}) \cup X) \in Nat
  BY <1>5, <1>6, <1>7, <1>8, <1>9, FS_CardinalityType
<1>12. /\ Cardinality(new) <= Cardinality(old) + Cardinality(lost)
       /\ a \in old => Cardinality(new) <= Cardinality(old) - 1 + Cardinality(lost)
  BY <1>6, <1>8, <1>9, <1>10, <1>11
<1>13. QED
  BY <1>5, <1>11, <1>12 DEF old, new

\* Serving an adapter from its entry, or building it, keeps the account.
LEMMA RebuiltKept ==
    ASSUME NEW c \in Nat \ {0}, NEW m, NEW r, NEW n \in Nat, Rebuilt(c, m, n),
           Key(adapters[c]) \in Resident(r), IsFiniteSet(Resident(m) \ Resident(r)),
           m.evictions \in Nat, r.evictions = m.evictions + Lost(m, r)
    PROVE  /\ Rebuilt(c + 1, r, n)
           /\ Key(adapters[c]) \notin Resident(m) => Rebuilt(c + 1, r, n + 1)
<1> DEFINE a == adapters[c]
           had == Built(c) \ {0}
           has == Built(c + 1) \ {0}
<1>1. Built(c + 1) = Built(c) \cup {a}
  <2>1. 1..((c + 1) - 1) = 1..(c - 1) \cup {c}
    OBVIOUS
  <2>2. QED
    BY <2>1 DEF Built
<1>2. /\ Lost(m, r) \in Nat
      /\ Cardinality(Absent(c, m)) \in Nat /\ Cardinality(Absent(c + 1, r)) \in Nat
      /\ Cardinality(Absent(c + 1, r)) <= Cardinality(Absent(c, m)) + Lost(m, r)
      /\ a \in Absent(c, m) =>
            Cardinality(Absent(c + 1, r)) <= Cardinality(Absent(c, m)) - 1 + Lost(m, r)
  BY <1>1, AbsentFacts
<1>3. IsFiniteSet(Built(c))
  BY BuiltFinite
<1>4. /\ IsFiniteSet(had) /\ Cardinality(had) \in Nat
  <2>1. had \in SUBSET Built(c)
    OBVIOUS
  <2> HIDE DEF had
  <2>2. QED
    BY <1>3, <2>1, FS_Subset, FS_CardinalityType
<1>5. /\ has = IF a = 0 THEN had ELSE had \cup {a}
      /\ a \notin Built(c) => a \notin had /\ a # 0
  BY <1>1 DEF Built
<1>6. Cardinality(had \cup {a}) = IF a \in had THEN Cardinality(had) ELSE Cardinality(had) + 1
  BY <1>4, FS_AddElement
<1>7. a \in Built(c) /\ Key(a) \notin Resident(m) => a \in Absent(c, m)
  BY DEF Absent
<1>8. n + Cardinality(Absent(c, m)) <= Cardinality(had) + m.evictions
  BY DEF Rebuilt
<1> HIDE DEF had, has
<1>9. /\ Cardinality(has) \in Nat /\ Cardinality(has) >= Cardinality(had)
      /\ a \notin Built(c) => Cardinality(has) = Cardinality(had) + 1
  BY <1>4, <1>5, <1>6
<1>10. n + Cardinality(Absent(c + 1, r)) <= Cardinality(has) + r.evictions
  BY <1>2, <1>4, <1>8, <1>9
<1>11. ASSUME Key(a) \notin Resident(m)
       PROVE  n + 1 + Cardinality(Absent(c + 1, r)) <= Cardinality(has) + r.evictions
  BY <1>2, <1>4, <1>7, <1>8, <1>9, <1>11
<1>12. QED
  BY <1>10, <1>11 DEF Rebuilt, has, a

---------------------------------------------------------------------------
(* Serving an adapter.                                                     *)

\* The runner is about to serve the active adapter.
Ready == Sound /\ phase = "serve" /\ pos <= Len(adapters)

\* What a step may count on.
LEMMA ReadyFacts ==
    ASSUME Ready
    PROVE  /\ Typed /\ Serving /\ strategy \in StrategyNames
           /\ target.layer \in Layers \cup {None}
           /\ pos \in Nat \ {0} /\ active \in Nat
           /\ Key(active) \in Keys /\ Key(active).adapter = plan[cond]
           /\ Key(active).adapter.target = target /\ Key(active).version = active
           /\ latest.output \in Tensors /\ latest.adapter \in Nat
           /\ Base \in Tensors /\ LowerIntact(Base, target)
<1>1. Typed /\ Serving
  BY DEF Ready, Sound
<1>2. /\ strategy \in StrategyNames /\ target.layer \in Layers \cup {None}
      /\ Len(adapters) \in Nat
      /\ \A i \in 1..Len(adapters) : adapters[i] \in Nat
      /\ \A a \in Nat : Key(a) \in Keys /\ Key(a).adapter = plan[cond] /\ Key(a).version = a
  BY <1>1, CurrentFacts
<1>3. pos \in Nat \ {0} /\ pos \in 1..Len(adapters)
  BY <1>1, <1>2 DEF Typed, Ready
<1>4. active \in Nat
  BY <1>2, <1>3 DEF active
<1>5. latest.output \in Tensors /\ latest.adapter \in Nat
  BY <1>1 DEF Typed
<1>6. Base \in Tensors /\ LowerIntact(Base, target)
  BY <1>2, FullFacts DEF Base
<1>7. Key(active) \in Keys /\ Key(active).adapter = plan[cond] /\ Key(active).version = active
      /\ Key(active).adapter.target = target
  BY <1>2, <1>4 DEF target
<1>8. QED
  BY <1>1, <1>2, <1>3, <1>4, <1>5, <1>6, <1>7

\* What a step starts from; what it looks up is exact for the active adapter.
LEMMA BaselineFacts ==
    ASSUME Ready, NEW d
    PROVE  /\ Baseline(d) \in Tensors
           /\ strategy \notin Approximates => LowerIntact(Baseline(d), target)
           /\ (/\ strategy \notin Approximates
               /\ Matches(d) \/ (LooksUp(d) /\ Key(active) \in Resident(mgr))) =>
                 Faithful(Baseline(d), target, active)
<1>1. CASE LooksUp(d) /\ Key(active) \in Resident(mgr)
  <2>1. Baseline(d) = mgr.entries[Key(active)].output
    BY <1>1, Zenon DEF Baseline, Lookup
  <2>2. mgr.entries[Key(active)] \in StoredEntries
    BY <1>1, SameEntries DEF Ready, Sound, I!IndexOK, I!Resident, Resident
  <2>3. OutputSound(strategy, mgr.entries[Key(active)].output, target, active)
    BY <1>1, ReadyFacts DEF Ready, Sound, EntriesSound
  <2>4. QED
    BY <2>1, <2>2, <2>3 DEF StoredEntries, OutputSound
<1>2. CASE Key(active) \notin Resident(mgr) /\ Matches(d)
  <2>1. Baseline(d) = latest.output /\ latest.adapter = active
    BY <1>2 DEF Baseline, Matches, Gap
  <2>2. OutputSound(strategy, latest.output, target, latest.adapter)
    BY ReadyFacts DEF Serving
  <2>3. QED
    BY <2>1, <2>2, ReadyFacts DEF OutputSound
<1>3. CASE ~(LooksUp(d) /\ Key(active) \in Resident(mgr)) /\ ~Matches(d)
  <2>1. Baseline(d) \in {Base, latest.output}
    BY <1>3 DEF Baseline
  <2>2. OutputSound(strategy, latest.output, target, latest.adapter)
    BY ReadyFacts DEF Serving
  <2>3. QED
    BY <1>3, <2>1, <2>2, ReadyFacts DEF OutputSound
<1>4. QED
  BY <1>1, <1>2, <1>3 DEF LooksUp

\* What the runner settles on, for a strategy that does not approximate.
LEMMA SettledFacts ==
    ASSUME Ready, NEW latency, NEW d \in Asked(latency)
    PROVE  /\ strategy \notin Approximates =>
                 /\ Shaped(Settled(d), strategy, target, 0)
                 /\ (Settled(d).action = "reuse_exact" /\ strategy # "no_adaptation") =>
                       Matches(d) \/ (LooksUp(d) /\ Key(active) \in Resident(mgr))
           /\ strategy = "no_adaptation" => Settled(d) = ReuseExact
           /\ strategy = "adapter_specific_cache" =>
                 Settled(d) = IF Key(active) \in Resident(mgr) THEN ReuseExact
                              ELSE FullRecompute
<1> DEFINE c == [Cfg EXCEPT !.memory = IF MaxBytes = NoLimit THEN None ELSE MaxBytes]
<1>1. ASSUME strategy \notin Approximates PROVE Shaped(d, strategy, target, Gap)
  <2>1. d \in Decide(c, strategy, target, Gap, NormOf[active], Runtime(latency))
    BY DEF Asked
  <2>2. strategy \in StrategyNames \ Approximates
    BY <1>1, ReadyFacts
  <2> HIDE DEF c
  <2>3. QED
    BY <2>1, <2>2, DecideShaped
<1>2. Shaped(ReuseExact, strategy, target, 0) /\ Shaped(FullRecompute, strategy, target, 0)
  BY DEF ReuseExact, FullRecompute, Decision, Shaped, Reuses
<1>3. CASE strategy = "no_adaptation"
  BY <1>2, <1>3 DEF Settled
<1>4. CASE strategy = "adapter_specific_cache"
  <2>1. Settled(d) = IF Key(active) \in Resident(mgr) THEN ReuseExact ELSE FullRecompute
    BY <1>4 DEF Settled
  <2>2. FullRecompute.action # "reuse_exact" /\ LooksUp(d)
    BY <1>4 DEF FullRecompute, Decision, LooksUp
  <2>3. QED
    BY <1>2, <1>4, <2>1, <2>2
<1>5. CASE strategy \notin {"no_adaptation", "adapter_specific_cache"}
  <2>1. Settled(d) = IF Matches(d) THEN ReuseExact ELSE d
    BY <1>5 DEF Settled
  <2>2. CASE Matches(d)
    BY <1>2, <1>5, <2>1, <2>2
  <2>3. CASE ~Matches(d)
    <3>1. Gap # 0 \/ d.action = "full_recompute"
      BY <1>5, <2>3 DEF Matches
    <3>2. QED
      BY <1>1, <1>5, <2>1, <2>3, <3>1 DEF Shaped
  <2>4. QED
    BY <2>2, <2>3
<1>6. QED
  BY <1>3, <1>4, <1>5

\* What a step gives: exact where the strategy calls it so.
LEMMA OutcomeFacts ==
    ASSUME Ready, NEW latency, NEW d \in Asked(latency),
           NEW out \in Execute(strategy, target, active, capture, Settled(d), Baseline(d))
    PROVE  /\ Stores(Settled(d)) => out \in Tensors
           /\ (/\ strategy \notin Approximates \cup {"no_adaptation"}
               /\ Settled(d).action \in {"full_recompute", "reject_update", "reuse_exact",
                                         "partial_recompute"}) =>
                 OutputSound(strategy, out, target, active)
           /\ Stores(Settled(d)) => OutputSound(strategy, out, target, active)
<1> DEFINE e == Settled(d)
           base == Baseline(d)
<1>1. /\ base \in Tensors
      /\ strategy \notin Approximates => LowerIntact(base, target)
      /\ (/\ strategy \notin Approximates
          /\ Matches(d) \/ (LooksUp(d) /\ Key(active) \in Resident(mgr))) =>
            Faithful(base, target, active)
  BY BaselineFacts
<1>2. /\ strategy \notin Approximates =>
            /\ Shaped(e, strategy, target, 0)
            /\ (e.action = "reuse_exact" /\ strategy # "no_adaptation") =>
                  Matches(d) \/ (LooksUp(d) /\ Key(active) \in Resident(mgr))
  BY SettledFacts
<1>3. target.layer \in Layers \cup {None} /\ active \in Nat
  BY ReadyFacts
<1> HIDE DEF e, base
<1>4. Stores(e) => out \in Tensors
  BY <1>1, <1>3, ExecuteTyped DEF Stores, Reuses, e, base
<1>5. ASSUME strategy \notin Approximates \cup {"no_adaptation"},
             e.action \in {"full_recompute", "reject_update", "reuse_exact",
                           "partial_recompute"}
      PROVE  Faithful(out, target, active) /\ LowerIntact(out, target)
  <2>1. /\ e.action \in {"full_recompute", "reject_update", "partial_recompute"} =>
              Faithful(out, target, active) /\ LowerIntact(out, target)
        /\ e.action \in Reuses => out.kv = base.kv /\ out.input = base.input
    <3>1. Shaped(e, strategy, target, 0) /\ LowerIntact(base, target)
          /\ out \in Execute(strategy, target, active, capture, e, base)
      BY <1>1, <1>2, <1>5 DEF e, base
    <3>2. QED
      BY <1>1, <1>3, <3>1, ExecuteFacts
  <2>2. CASE e.action # "reuse_exact"
    BY <1>5, <2>1, <2>2
  <2>3. CASE e.action = "reuse_exact"
    <3>1. Faithful(base, target, active) /\ LowerIntact(base, target)
      BY <1>1, <1>2, <1>5, <2>3
    <3>2. out.kv = base.kv /\ out.input = base.input
      BY <2>1, <2>3 DEF Reuses
    <3>3. QED
      BY <3>1, <3>2 DEF Faithful, LowerIntact
  <2>4. QED
    BY <2>2, <2>3
<1>6. Stores(e) => OutputSound(strategy, out, target, active)
  <2> SUFFICES ASSUME Stores(e), strategy \notin Approximates
               PROVE  Faithful(out, target, active) /\ LowerIntact(out, target)
    BY DEF OutputSound
  <2>1. strategy # "no_adaptation" /\ e.action # "delta_correct"
    BY <1>2 DEF Stores, Shaped, Reuses
  <2>2. QED
    BY <1>5, <2>1 DEF Stores
<1>7. QED
  BY <1>4, <1>5, <1>6 DEF e, OutputSound

\* One element of the sequence: what is stored is exact, and is the latest.
LEMMA ServeSound == \A latency \in Latencies : Sound /\ Serve(latency) => Sound'
<1> SUFFICES ASSUME NEW latency \in Latencies, Sound, Serve(latency) PROVE Sound'
  OBVIOUS
<1>1. PICK d \in Asked(latency) :
        \E out \in Execute(strategy, target, active, capture, Settled(d), Baseline(d)) :
           /\ IF Stores(Settled(d))
              THEN /\ mgr' = AfterPut(IF LooksUp(d) THEN AfterGet(mgr, Key(active)) ELSE mgr,
                                      Key(active), Entry(out))
                   /\ latest' = [adapter |-> active, output |-> out]
              ELSE /\ mgr' = IF LooksUp(d) THEN AfterGet(mgr, Key(active)) ELSE mgr
                   /\ UNCHANGED latest
           /\ refreshes' = refreshes + (IF IsRefresh(Settled(d)) THEN 1 ELSE 0)
           /\ last' = [decision |-> Settled(d), adapter |-> active, output |-> out]
  BY DEF Serve
<1> DEFINE e == Settled(d)
           looked == IF LooksUp(d) THEN AfterGet(mgr, Key(active)) ELSE mgr
<1>2. PICK out \in Execute(strategy, target, active, capture, e, Baseline(d)) :
        /\ IF Stores(e)
           THEN /\ mgr' = AfterPut(looked, Key(active), Entry(out))
                /\ latest' = [adapter |-> active, output |-> out]
           ELSE mgr' = looked /\ UNCHANGED latest
        /\ refreshes' = refreshes + (IF IsRefresh(e) THEN 1 ELSE 0)
        /\ last' = [decision |-> e, adapter |-> active, output |-> out]
  BY <1>1
<1>3. /\ Ready /\ Sound
      /\ pos' = pos + 1 /\ phase' = "serve"
      /\ UNCHANGED <<strategy, plan, adapters, cond>>
      /\ target' = target /\ Base' = Base /\ \A a : Key(a)' = Key(a)
  BY DEF Ready, Serve, run, target, Base, Key
<1>4. /\ Typed /\ Serving /\ target.layer \in Layers \cup {None}
      /\ pos \in Nat \ {0} /\ active \in Nat /\ Key(active) \in Keys
      /\ Key(active).adapter.target = target /\ Key(active).version = active
  BY <1>3, ReadyFacts
<1>5. /\ Stores(e) => out \in Tensors /\ OutputSound(strategy, out, target, active)
      /\ (/\ strategy \notin Approximates \cup {"no_adaptation"}
          /\ e.action \in {"full_recompute", "reject_update", "reuse_exact",
                           "partial_recompute"}) =>
            OutputSound(strategy, out, target, active)
  BY <1>3, OutcomeFacts
<1>6. /\ strategy = "no_adaptation" => e = ReuseExact
      /\ strategy = "adapter_specific_cache" =>
            e = IF Key(active) \in Resident(mgr) THEN ReuseExact ELSE FullRecompute
  BY <1>3, SettledFacts
<1>7. /\ I!IndexOK(looked) /\ looked.entries = mgr.entries
      /\ looked.evictions = mgr.evictions
      /\ EntriesSound(strategy, looked) /\ Resident(looked) = Resident(mgr)
  <2>1. I!IndexOK(mgr) /\ EntriesSound(strategy, mgr)
    BY <1>3 DEF Sound
  <2>2. /\ I!IndexOK(AfterGet(mgr, Key(active)))
        /\ AfterGet(mgr, Key(active)).entries = mgr.entries
        /\ AfterGet(mgr, Key(active)).evictions = mgr.evictions
    BY <1>4, <2>1, GetFacts
  <2>3. QED
    BY <2>1, <2>2 DEF EntriesSound, Resident
<1>8. Typed'
  <2>1. pos \in 1..Len(adapters) /\ Len(adapters) \in Nat
    BY <1>3, <1>4, CurrentFacts DEF Ready
  <2>2. latest' \in [adapter : Nat, output : Tensors]
    BY <1>2, <1>4, <1>5 DEF Typed
  <2>3. refreshes' \in Nat
    BY <1>2, <1>4 DEF Typed
  <2>4. QED
    BY <1>3, <1>4, <2>1, <2>2, <2>3 DEF Typed
<1> HIDE DEF e, looked
<1>9. /\ I!IndexOK(mgr') /\ EntriesSound(strategy, mgr')
      /\ OutputSound(strategy, latest'.output, target, latest'.adapter)
      /\ ~Oversize(Entry(latest'.output)) =>
            I!Holds(mgr', Key(latest'.adapter), Entry(latest'.output))
  <2>1. CASE Stores(e)
    <3>1. /\ mgr' = AfterPut(looked, Key(active), Entry(out))
          /\ latest'.adapter = active /\ latest'.output = out
      BY <1>2, <2>1
    <3>2. I!IndexOK(mgr') /\ EntriesSound(strategy, mgr')
      BY <1>4, <1>5, <1>7, <2>1, <3>1, PutKeepsEntries
    <3>3. ~Oversize(Entry(out)) => I!Holds(mgr', Key(active), Entry(out))
      BY <1>4, <1>5, <1>7, <2>1, <3>1, PutFacts
    <3>4. QED
      BY <1>5, <2>1, <3>1, <3>2, <3>3
  <2>2. CASE ~Stores(e)
    <3>1. mgr' = looked /\ latest' = latest
      BY <1>2, <2>2
    <3>2. I!Holds(mgr, Key(latest.adapter), Entry(latest.output)) =>
          I!Holds(looked, Key(latest.adapter), Entry(latest.output))
      BY <1>7 DEF I!Holds, I!Resident
    <3>3. QED
      BY <1>4, <1>7, <3>1, <3>2 DEF Serving, LatestStored
  <2>3. QED
    BY <2>1, <2>2
<1>10. ASSUME strategy = "adapter_specific_cache", ~Oversize(Entry(Base))
       PROVE  Rebuilt(pos + 1, mgr', refreshes')
  <2>1. Stores(e) /\ e.action \in {"reuse_exact", "full_recompute"}
    BY <1>6, <1>10 DEF Stores, ReuseExact, FullRecompute, Decision
  <2>2. out.size = FullSize /\ Base.size = FullSize
    <3>1. Baseline(d) \in Tensors
      BY <1>3, BaselineFacts
    <3>2. out = FullOutput(target, active) \/ out = Reused(Baseline(d))
      BY <1>3, <2>1 DEF Execute, Reuses
    <3>3. Reused(Baseline(d)).size = FullSize
      BY <3>1 DEF Reused, Tensors
    <3>4. QED
      BY <3>2, <3>3 DEF FullOutput, Base
  <2>3. ~Oversize(Entry(out))
    BY <1>10, <2>2 DEF Oversize, Entry
  <2>4. mgr' = AfterPut(looked, Key(active), Entry(out))
    BY <1>2, <2>1
  <2>5. /\ I!Holds(mgr', Key(active), Entry(out))
        /\ mgr'.evictions = mgr.evictions + Lost(mgr, mgr')
    BY <1>4, <1>5, <1>7, <2>1, <2>3, <2>4, PutFacts DEF Lost
  <2>6. IsFiniteSet(Resident(mgr) \ Resident(mgr')) /\ mgr.evictions \in Nat
    <3>1. I!IndexOK(mgr)
      BY <1>3 DEF Sound
    <3>2. I!IsFiniteSet(I!Resident(mgr))
      BY <3>1, ManagerAssumptions, I!IndexFinite, Zenon
    <3>3. IsFiniteSet(Resident(mgr))
      BY <3>2 DEF I!IsFiniteSet, IsFiniteSet, I!Resident, Resident
    <3>4. QED
      BY <3>1, <3>3, FS_Difference DEF I!IndexOK
  <2>7. Rebuilt(pos, mgr, refreshes) /\ refreshes \in Nat
    BY <1>4, <1>10 DEF Serving, Typed
  <2>8. Key(adapters[pos]) \in Resident(mgr')
    BY <2>5 DEF I!Holds, I!Resident, Resident, active
  <2>9. /\ Rebuilt(pos + 1, mgr', refreshes)
        /\ Key(adapters[pos]) \notin Resident(mgr) => Rebuilt(pos + 1, mgr', refreshes + 1)
    BY <1>4, <2>5, <2>6, <2>7, <2>8, RebuiltKept
  <2>10. CASE Key(active) \in Resident(mgr)
    <3>1. ~IsRefresh(e)
      BY <1>6, <1>10, <2>10 DEF IsRefresh, ReuseExact, Decision
    <3>2. refreshes' = refreshes
      BY <1>2, <2>7, <3>1
    <3>3. QED
      BY <2>9, <3>2
  <2>11. CASE Key(active) \notin Resident(mgr)
    <3>1. IsRefresh(e)
      BY <1>6, <1>10, <2>11 DEF IsRefresh, FullRecompute, Decision
    <3>2. refreshes' = refreshes + 1
      BY <1>2, <3>1
    <3>3. QED
      BY <2>9, <2>11, <3>2 DEF active
  <2>12. QED
    BY <2>10, <2>11
<1>11. Serving'
  <2>1. LatestStored'
    BY <1>3, <1>9 DEF LatestStored, Entry, Key
  <2>2. (strategy = "adapter_specific_cache" /\ ~Oversize(Entry(Base)) =>
            Rebuilt(pos, mgr, refreshes))'
    BY <1>3, <1>10 DEF Rebuilt, Built, Absent, Key, Entry
  <2>3. QED
    BY <1>3, <1>9, <2>1, <2>2 DEF Serving
<1>12. LastExact'
  <2>1. last'.decision = e /\ last'.adapter = active /\ last'.output = out
    BY <1>2
  <2>2. e.action \in {"full_recompute", "reject_update", "partial_recompute"} =>
           strategy # "no_adaptation"
    BY <1>6 DEF ReuseExact, Decision
  <2>3. QED
    BY <1>3, <1>5, <2>1, <2>2 DEF LastExact, OutputSound
<1>13. QED
  BY <1>3, <1>8, <1>9, <1>11, <1>12 DEF Sound

\* Every step keeps the invariant.
LEMMA NextSound == Sound /\ [Next]_vars => Sound'
<1> SUFFICES ASSUME Sound, [Next]_vars PROVE Sound'
  OBVIOUS
<1>1. CASE UNCHANGED vars
  <2>1. UNCHANGED <<strategy, plan, adapters, capture, phase, cond, pos, latest, mgr, refreshes,
                    last>>
    BY <1>1 DEF vars, run
  <2>2. Typed' /\ I!IndexOK(mgr)' /\ EntriesSound(strategy, mgr)'
    BY <2>1 DEF Sound, Typed
  <2>3. (phase = "serve" => Serving)'
    BY <2>1 DEF Sound, Serving, LatestStored, Rebuilt, Built, Absent, Key, Entry, Base, target
  <2>4. LastExact'
    BY <2>1 DEF Sound, LastExact, JustServed, target
  <2>5. QED
    BY <2>2, <2>3, <2>4 DEF Sound
<1>2. QED
  BY <1>1, StartSound, ServeSound, RefusedSound, FinishSound DEF Next

---------------------------------------------------------------------------

\* The inductive invariant holds in every state of every behaviour.
THEOREM SoundAlways == Spec => []Sound
BY InitSound, NextSound, PTL DEF Spec

\* What a strategy that does not approximate serves as exact, and everything
\* it keeps, is what a full recompute gives (ExactStrategiesStayExact).
THEOREM ExactStrategies == Spec => []ExactStrategiesStayExact
<1>1. Sound => ExactStrategiesStayExact
  BY DEF Sound, LastExact, EntriesSound, OutputSound, ExactStrategiesStayExact,
         ExactReuseIsExact
<1>2. QED
  BY <1>1, SoundAlways, PTL

\* The latest output never parts from the manager (LatestIsInManager).
THEOREM LatestStaysInManager == Spec => []LatestIsInManager
<1>1. Sound => LatestIsInManager
  BY DEF Sound, Serving, LatestStored, LatestIsInManager, I!Holds, Lookup, I!Resident, Resident
<1>2. QED
  BY <1>1, SoundAlways, PTL

\* Adapters are rebuilt for evicted entries only (RebuildsBounded).
THEOREM RebuildsAreBounded == Spec => []RebuildsBounded
<1>1. Sound => RebuildsBounded
  <2> SUFFICES ASSUME Sound, strategy = "adapter_specific_cache", phase = "serve",
                      ~Oversize(Entry(Base))
               PROVE  refreshes <= Cardinality({adapters[i] : i \in 1..(pos - 1)} \ {0})
                                     + mgr.evictions
    BY DEF RebuildsBounded
  <2>1. Rebuilt(pos, mgr, refreshes) /\ refreshes \in Nat /\ mgr.evictions \in Nat
    BY DEF Sound, Serving, Typed, I!IndexOK
  <2>2. pos \in Nat
    <3>1. Typed /\ Len(adapters) \in Nat
      BY CurrentFacts DEF Sound
    <3>2. QED
      BY <3>1 DEF Typed
  <2>3. {adapters[i] : i \in 1..(pos - 1)} \ {0} = Built(pos) \ {0}
    BY DEF Built
  <2>4. IsFiniteSet(Built(pos))
    BY <2>2, BuiltFinite
  <2>5. Cardinality(Absent(pos, mgr)) \in Nat /\ Cardinality(Built(pos) \ {0}) \in Nat
    <3>1. Absent(pos, mgr) \in SUBSET Built(pos) /\ Built(pos) \ {0} \in SUBSET Built(pos)
      BY DEF Absent
    <3>2. IsFiniteSet(Absent(pos, mgr)) /\ IsFiniteSet(Built(pos) \ {0})
      BY <2>4, <3>1, FS_Subset
    <3>3. QED
      BY <3>2, FS_CardinalityType
  <2>6. refreshes + Cardinality(Absent(pos, mgr))
          <= Cardinality(Built(pos) \ {0}) + mgr.evictions
    BY <2>1 DEF Rebuilt
  <2>7. refreshes <= Cardinality(Built(pos) \ {0}) + mgr.evictions
    BY <2>1, <2>5, <2>6
  <2>8. QED
    BY <2>3, <2>7
<1>2. QED
  BY <1>1, SoundAlways, PTL

=============================================================================
