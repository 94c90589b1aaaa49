--------------------------- MODULE CacheManager ---------------------------
(***************************************************************************)
(* One VersionedCacheManager as a state machine: any caller may get, put   *)
(* or remove under any adapter and version. The manager is not shared      *)
(* between threads, so an action is a whole method call.                   *)
(***************************************************************************)
EXTENDS CacheIndex

CONSTANTS
    Adapters,
    Versions,
    Keys,           \* the (adapter_id, adapter_version) pairs in use
    Sizes,          \* sizes an entry may have, in the units of MaxBytes
    BlockSets,      \* sets of records with an adapter and a version an entry may carry
    Outputs,        \* payloads, told apart only by identity
    MaxEvictions    \* bound on the eviction counter

ASSUME DomainAssumption ==
    /\ Versions \subseteq Nat
    /\ Keys \subseteq [adapter : Adapters, version : Versions]
    /\ Sizes \subseteq Nat
    /\ MaxEvictions \in Nat
    /\ \A s \in BlockSets : \A b \in s : b.adapter \in Adapters /\ b.version \in Versions

Entries == [size : Sizes, blocks : BlockSets, output : Outputs]

ASSUME MissingAssumption == Missing \notin Entries

VARIABLES
    mgr,        \* the manager
    reply,      \* the key of the last call and what it answered
    older       \* history: <<a, b>> when a was last used before b was

vars == <<mgr, reply, older>>

Plain(k, what) == [key |-> k, kind |-> what, entry |-> Missing]
Hit(k, e) == [key |-> k, kind |-> "hit", entry |-> e]

\* k becomes the most recently used key; what counts as use is the policy's.
Used(k) == {p \in older : p[1] # k} \cup {<<a, k>> : a \in Keys \ {k}}

Init ==
    /\ mgr = EmptyIndex
    /\ reply = Plain(Missing, "none")
    /\ older = {}

Get(k) ==
    /\ mgr' = AfterGet(mgr, k)
    /\ reply' = IF k \in Resident(mgr) THEN Hit(k, Lookup(mgr, k)) ELSE Plain(k, "miss")
    /\ older' = IF Policy = "lru" /\ k \in Resident(mgr) THEN Used(k) ELSE older

Put(k, e) ==
    /\ ~Mismatched(k, e)
    /\ AfterPut(mgr, k, e).evictions <= MaxEvictions
    /\ mgr' = AfterPut(mgr, k, e)
    /\ reply' = Plain(k, IF PutStored(mgr, k, e) THEN "stored" ELSE "not stored")
    /\ older' = IF Oversize(e) THEN older ELSE Used(k)

PutMismatched(k, e) ==
    /\ Mismatched(k, e)
    /\ reply' = Plain(k, "ValueError")
    /\ UNCHANGED <<mgr, older>>

RemoveKey(k) ==
    /\ mgr' = AfterRemove(mgr, k)
    /\ reply' = Plain(k, IF k \in Resident(mgr) THEN "removed" ELSE "absent")
    /\ UNCHANGED older

Next ==
    \E k \in Keys :
       \/ Get(k)
       \/ RemoveKey(k)
       \/ \E e \in Entries : Put(k, e) \/ PutMismatched(k, e)

Spec == Init /\ [][Next]_vars

---------------------------------------------------------------------------

\* Types of the manager's fields and of the answers; what the byte total is,
\* TotalIsSumOfSizes says.
TypeOK ==
    /\ mgr = [order |-> mgr.order, entries |-> mgr.entries, total |-> mgr.total,
              evictions |-> mgr.evictions]
    /\ mgr.order \in Seq(Keys)
    /\ Resident(mgr) \subseteq Keys
    /\ mgr.entries \in [Resident(mgr) -> Entries]
    /\ mgr.evictions \in Nat
    /\ reply \in [key : Keys \cup {Missing},
                  kind : {"none", "hit", "miss", "stored", "not stored", "ValueError",
                          "removed", "absent"},
                  entry : Entries \cup {Missing}]
    /\ older \in SUBSET (Keys \X Keys)

\* The order lists every key that has an entry, once, and no other: the loop
\* that evicts pops both dictionaries by the same key and never misses one.
OrderMatchesEntries ==
    /\ ToSet(mgr.order) = Resident(mgr)
    /\ \A i, j \in DOMAIN mgr.order : mgr.order[i] = mgr.order[j] => i = j

\* The running byte total, adjusted by every put, overwrite, eviction and
\* remove, is the sum of the sizes of what is held.
TotalIsSumOfSizes ==
    mgr.total = MapThenSumSet(LAMBDA k : mgr.entries[k].size, Resident(mgr))

\* The index never holds more entries than it may.
EntriesWithinLimit ==
    MaxEntries # NoLimit => Cardinality(Resident(mgr)) <= MaxEntries

\* No block held under a key belongs to another adapter or to a version newer
\* than the key, so a reader of an old version never sees newer blocks.
BlocksBelongToTheirKey ==
    \A k \in Resident(mgr) : \A b \in mgr.entries[k].blocks :
        b.adapter = k.adapter /\ b.version <= k.version

\* A call that evicts gives up the least recently used (or, under fifo, the
\* least recently stored) entries: every victim is older than every survivor.
OldestGoFirst ==
    [][ mgr'.evictions > mgr.evictions =>
          \A v \in Resident(mgr) \ Resident(mgr'), s \in Resident(mgr') :
             <<v, s>> \in older' ]_vars

\* The manager implements the bounded store that the runners rely on.
Store == INSTANCE BoundedStore WITH
    store <- mgr.entries, evicted <- mgr.evictions

ImplementsBoundedStore == Store!Spec

===========================================================================
