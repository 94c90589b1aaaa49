--------------------------- MODULE BoundedStore ---------------------------
(***************************************************************************)
(* What the runners rely on a cache manager for, with no word about the    *)
(* order in which entries age: a lookup answers the last entry stored      *)
(* under exactly that adapter and version or nothing; a stored entry is    *)
(* there when put returns; entries disappear without being asked for only  *)
(* to make room, no more of them than needed, and each is counted.         *)
(***************************************************************************)
EXTENDS Integers, FiniteSetsExt, Functions

CONSTANTS Keys, Entries, MaxEntries, MaxBytes, NoLimit, Missing, MaxEvictions

VARIABLES store, evicted, reply
vars == <<store, evicted, reply>>

Bytes(s) == MapThenSumSet(LAMBDA k : s[k].size, DOMAIN s)

Fits(s) ==
    /\ MaxEntries = NoLimit \/ Cardinality(DOMAIN s) <= MaxEntries
    /\ MaxBytes = NoLimit \/ Bytes(s) <= MaxBytes

With(s, k, e) == [x \in DOMAIN s \cup {k} |-> IF x = k THEN e ELSE s[x]]

Without(s, k) == Restrict(s, DOMAIN s \ {k})

Refused(k, e) == \E b \in e.blocks : b.version > k.version \/ b.adapter # k.adapter

Plain(k, what) == [key |-> k, kind |-> what, entry |-> Missing]
Hit(k, e) == [key |-> k, kind |-> "hit", entry |-> e]

Init ==
    /\ store = [k \in {} |-> Missing]
    /\ evicted = 0
    /\ reply = Plain(Missing, "none")

Get(k) ==
    /\ reply' = IF k \in DOMAIN store THEN Hit(k, store[k]) ELSE Plain(k, "miss")
    /\ UNCHANGED <<store, evicted>>

\* Room is made by giving up a set of other entries, none of which could
\* have been the last to go if the rest was already enough: with one of them
\* back the store would not fit.
Put(k, e) ==
    /\ ~Refused(k, e)
    /\ MaxBytes = NoLimit \/ e.size <= MaxBytes
    /\ LET full == With(store, k, e) IN
       \E given \in SUBSET (DOMAIN full \ {k}) :
          LET kept == Restrict(full, DOMAIN full \ given) IN
          /\ Fits(kept)
          /\ given # {} =>
                \E last \in given : ~Fits(Restrict(full, DOMAIN kept \cup {last}))
          /\ store' = kept
          /\ evicted' = evicted + Cardinality(given)
    /\ evicted' <= MaxEvictions
    /\ reply' = Plain(k, "stored")

\* An entry that can never fit is not stored, and what was under its key is
\* given up, since it would no longer be the last entry put there.
PutTooLarge(k, e) ==
    /\ ~Refused(k, e)
    /\ MaxBytes # NoLimit /\ e.size > MaxBytes
    /\ store' = Without(store, k)
    /\ reply' = Plain(k, "not stored")
    /\ UNCHANGED evicted

PutRefused(k, e) ==
    /\ Refused(k, e)
    /\ reply' = Plain(k, "ValueError")
    /\ UNCHANGED <<store, evicted>>

RemoveKey(k) ==
    /\ store' = Without(store, k)
    /\ reply' = Plain(k, IF k \in DOMAIN store THEN "removed" ELSE "absent")
    /\ UNCHANGED evicted

Next ==
    \E k \in Keys :
       \/ Get(k)
       \/ RemoveKey(k)
       \/ \E e \in Entries : Put(k, e) \/ PutTooLarge(k, e) \/ PutRefused(k, e)

Spec == Init /\ [][Next]_vars

===========================================================================
