-------------------------- MODULE MCFormalMatrix --------------------------
(***************************************************************************)
(* A matrix in which one queue has two runs and some have none, as those   *)
(* of the core matrix that belong to the extended one.                     *)
(***************************************************************************)
EXTENDS FormalMatrix

MCRuns ==
    [q \in Queues |->
        CASE q = "thirtysix" -> 2
          [] q \in {"fourteen4567", "longall", "sevenlong4567", "arch13"} -> 0
          [] OTHER -> 1]

MCCalibration == {<<"seven13", 1>>, <<"small0", 1>>}

===========================================================================
