-------------------------- MODULE BudgetController --------------------------
(***************************************************************************)
(* How many cells of a cache to repair. The cells are ranked by risk, and  *)
(* the controller tries their first, first two, ... cells, looks at the    *)
(* score a probe gives each of these repairs (lower is better, StaleScore  *)
(* is what leaving the cache alone scores), and stops when the score is    *)
(* good enough, when it stagnates, or at a cap the estimated risk sets.    *)
(* The best repair it saw is committed if it is enough better than none.   *)
(*                                                                         *)
(* A score may be no number at all (NaN). Reductions are in the units of   *)
(* the scores: the code divides both sides by the stale score.             *)
(***************************************************************************)
EXTENDS ProbeScores, Sequences

CONSTANTS
    Scores,             \* what a probe may find
    StaleScore,
    Policies            \* [cells, target, accept, floor, patience]

ASSUME ScoresAssumption ==
    /\ Scores \subseteq Int /\ StaleScore \in Int /\ NaN \notin Int

ASSUME PoliciesAssumption ==
    Policies \subseteq
        [cells : Nat, target : Nat, accept : Nat, floor : Nat, patience : Nat \ {0}]

VARIABLES
    policy,             \* with the parameters of the risk: cells and target
    cap,                \* the most cells it may try
    points,             \* the score of each repair tried, in order
    best,               \* the number of cells of the best repair, 0 for none
    bestScore,
    stagnant,           \* repairs tried in a row that did not gain enough
    stop                \* "running", or why it stopped

controllerVars == <<policy, cap, points, best, bestScore, stagnant, stop>>

StopReasons ==
    {"continuous_zero_budget", "quality_target_met", "marginal_plateau", "budget_cap_reached"}

\* dynamic_budget_parameters: no more cells than there are.
BudgetCap(p, available) == IF p.cells < available THEN p.cells ELSE available

\* What the controller is when it is called.
ControllerStart(p, available) ==
    [policy |-> p, cap |-> BudgetCap(p, available), points |-> <<>>, best |-> 0,
     bestScore |-> StaleScore, stagnant |-> 0,
     stop |-> IF BudgetCap(p, available) = 0 THEN "continuous_zero_budget" ELSE "running"]

IsStart(s) ==
    /\ policy = s.policy /\ cap = s.cap /\ points = s.points /\ best = s.best
    /\ bestScore = s.bestScore /\ stagnant = s.stagnant /\ stop = s.stop

Improves(score) == score # NaN /\ score < bestScore

\* Mistake: a probe that failed does not count as a step without gain.
StagnatesOnNumbers(score) ==
    score # NaN /\ (IF Improves(score) THEN bestScore - score ELSE 0) <= policy.floor

Stagnates(score) ==
    score = NaN \/ (IF Improves(score) THEN bestScore - score ELSE 0) <= policy.floor

\* The repair of the first Len(points) + 1 cells is tried and scores score.
Probe(score) ==
    /\ stop = "running"
    /\ points' = Append(points, score)
    /\ best' = IF Improves(score) THEN Len(points) + 1 ELSE best
    /\ bestScore' = IF Improves(score) THEN score ELSE bestScore
    /\ stagnant' = IF Stagnates(score) THEN stagnant + 1 ELSE 0
    /\ stop' =
        IF StaleScore - bestScore' >= policy.target THEN "quality_target_met"
        ELSE IF stagnant' >= policy.patience THEN "marginal_plateau"
        ELSE IF Len(points) + 1 = cap THEN "budget_cap_reached"
        ELSE "running"
    /\ UNCHANGED <<policy, cap>>

\* Mistake: the last repair tried is committed.
SelectedLast == IF StaleScore - bestScore < policy.accept THEN 0 ELSE Len(points)

\* The number of cells it commits, once it has stopped.
Selected == IF StaleScore - bestScore < policy.accept THEN 0 ELSE best

ControllerInit == \E p \in Policies, available \in Nat : IsStart(ControllerStart(p, available))

ControllerNext == \E score \in Scores \cup {NaN} : Probe(score)

ControllerSpec == ControllerInit /\ [][ControllerNext]_controllerVars

-----------------------------------------------------------------------------
Acceptable(score) ==
    score # NaN /\ score < StaleScore /\ StaleScore - score >= policy.accept

\* What is committed is the best of everything that was tried, the smallest
\* of the best, and acceptable; nothing is committed only when nothing that
\* was tried is acceptable.
CommitsTheBest ==
    stop # "running" =>
        /\ Selected \in 0..Len(points)
        /\ Selected = 0 => \A i \in DOMAIN points : ~Acceptable(points[i])
        /\ Selected > 0 =>
            /\ Acceptable(points[Selected])
            /\ \A i \in DOMAIN points : points[i] # NaN =>
                /\ points[Selected] <= points[i]
                /\ i < Selected => points[Selected] < points[i]

\* The repairs tried beyond the one committed are no more than the patience:
\* a long run of probes never ends in a rollback to its beginning.
RollbackBounded ==
    stop # "running" /\ Selected > 0 => Len(points) - Selected <= policy.patience

=============================================================================
