---------------------------- MODULE CacheIndex ----------------------------
(***************************************************************************)
(* The value of one VersionedCacheManager and what its methods compute.    *)
(* Both runners keep several managers with the same limits, so a manager   *)
(* is a record here and its methods are operators on it; CacheManager.tla  *)
(* turns them into a state machine.                                        *)
(*                                                                         *)
(*   order      the keys of the OrderedDict, oldest first                  *)
(*   entries    the entry under each key (its size is _entry_bytes[key])   *)
(*   total      _total_cache_bytes, kept incrementally as in the code      *)
(*   evictions  _eviction_count                                            *)
(***************************************************************************)
EXTENDS Integers, Sequences, FiniteSetsExt, SequencesExt

CONSTANTS
    MaxEntries,     \* max_cache_entries, or NoLimit
    MaxBytes,       \* max_cache_bytes, or NoLimit
    Policy,         \* eviction_policy
    NoLimit,        \* the configuration's None
    Missing         \* the None a lookup answers

\* The constructor refuses a limit that is not positive.
ASSUME LimitsAssumption ==
    /\ MaxEntries \in (Nat \ {0}) \cup {NoLimit}
    /\ MaxBytes \in (Nat \ {0}) \cup {NoLimit}
    /\ NoLimit \notin Nat
    /\ Policy \in {"lru", "fifo"}

EmptyIndex ==
    [order |-> <<>>, entries |-> [k \in {} |-> Missing], total |-> 0, evictions |-> 0]

Resident(m) == DOMAIN m.entries

Lookup(m, k) == IF k \in Resident(m) THEN m.entries[k] ELSE Missing

\* Mistake: a lookup does not count as a use.
AfterGetUnused(m, k) == m

AfterGet(m, k) ==
    IF k \in Resident(m) /\ Policy = "lru"
    THEN [m EXCEPT !.order = Append(RemoveFirst(@, k), k)]
    ELSE m

AfterRemove(m, k) ==
    IF k \in Resident(m)
    THEN [m EXCEPT !.order = RemoveFirst(@, k),
                   !.entries = Restrict(@, DOMAIN @ \ {k}),
                   !.total = @ - m.entries[k].size]
    ELSE m

\* Mistake: versions are not checked.
MismatchedAdapter(k, e) == \E b \in e.blocks : b.adapter # k.adapter

\* The metadata checks at the top of put, which raise ValueError.
Mismatched(k, e) ==
    \E b \in e.blocks : b.version > k.version \/ b.adapter # k.adapter

Oversize(e) == MaxBytes # NoLimit /\ e.size > MaxBytes

OverCapacity(count, bytes) ==
    \/ MaxEntries # NoLimit /\ count > MaxEntries
    \/ MaxBytes # NoLimit /\ bytes > MaxBytes

\* Mistake: an old entry is overwritten where it is and never given back.
InsertedInPlace(m, k, e) ==
    [m EXCEPT !.order = IF k \in Resident(m) THEN @ ELSE Append(@, k),
              !.entries = [x \in DOMAIN @ \cup {k} |-> IF x = k THEN e ELSE @[x]],
              !.total = @ + e.size]

\* A key that is put again moves to the end: the old entry is popped first.
Inserted(m, k, e) ==
    LET base == AfterRemove(m, k) IN
    [base EXCEPT !.order = Append(@, k),
                 !.entries = [x \in DOMAIN @ \cup {k} |-> IF x = k THEN e ELSE @[x]],
                 !.total = @ + e.size]

\* Bytes given back by evicting the d oldest entries.
Freed(m, d) == MapThenSumSet(LAMBDA k : m.entries[k].size, {m.order[i] : i \in 1..d})

DropOldest(m, d) ==
    LET kept == SubSeq(m.order, d + 1, Len(m.order)) IN
    [order |-> kept,
     entries |-> Restrict(m.entries, ToSet(kept)),
     total |-> m.total - Freed(m, d),
     evictions |-> m.evictions + d]

\* The loop of _evict_to_capacity. The protected key has just been appended,
\* so it is the last of the order: the loop drops the fewest oldest entries
\* after which nothing is over capacity, and stops when only it is left.
VictimCount(m) ==
    LET n == Len(m.order) IN
    Min({d \in 0..(n - 1) : ~OverCapacity(n - d, m.total - Freed(m, d))} \cup {n - 1})

EvictToCapacity(m) == DropOldest(m, VictimCount(m))

\* Mistake: an entry that does not fit leaves the older one in place.
AfterPutKept(m, k, e) ==
    IF Oversize(e) THEN m ELSE EvictToCapacity(Inserted(m, k, e))

AfterPut(m, k, e) ==
    IF Oversize(e) THEN AfterRemove(m, k) ELSE EvictToCapacity(Inserted(m, k, e))

\* What put returns.
PutStored(m, k, e) == ~Oversize(e) /\ k \in Resident(AfterPut(m, k, e))

===========================================================================
