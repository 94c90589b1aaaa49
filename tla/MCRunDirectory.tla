-------------------------- MODULE MCRunDirectory --------------------------
(***************************************************************************)
(* Two conditions, two tables, a strategy that always decides alike and    *)
(* one that does not.                                                      *)
(***************************************************************************)
EXTENDS RunDirectory

MCTables == <<"records", "propagation">>

MCStrategies == {"full_recompute", "adaptive"}

MCDecides ==
    [s \in MCStrategies |->
        IF s = "adaptive" THEN {"reuse_stale", "partial_recompute"} ELSE {"full_recompute"}]

===========================================================================
