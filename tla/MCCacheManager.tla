-------------------------- MODULE MCCacheManager --------------------------
(***************************************************************************)
(* CacheManager on three keys of two adapters, with entries of one or two  *)
(* units, one that can never fit, and blocks of every kind put checks.     *)
(***************************************************************************)
EXTENDS CacheManager

CONSTANTS a1, a2

Key(a, v) == [adapter |-> a, version |-> v]

MCKeys == {Key(a1, 0), Key(a1, 1), Key(a2, 1)}

MCBlockSets == {{}, {Key(a1, 0), Key(a1, 1)}, {Key(a2, 1)}}

===========================================================================
