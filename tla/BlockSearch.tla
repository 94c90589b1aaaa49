----------------------------- MODULE BlockSearch -----------------------------
(***************************************************************************)
(* How sets of cache cells are chosen: rankings, the greedy, beam and swap *)
(* searches over measured scores, the exhaustive search, the choice of a   *)
(* size under a price per cell, and the frontier of the token blocks.      *)
(*                                                                         *)
(* A cell is its number in row-major order: Blocks token blocks to each    *)
(* layer. A mask is a set of cells; a score is a function on masks, lower  *)
(* is better, whose values are integers or NaN. The tolerance 1e-15 of the *)
(* code's comparisons is equality here.                                    *)
(***************************************************************************)
EXTENDS ProbeScores, Sequences, FiniteSets, FiniteSetsExt, SequencesExt

CONSTANTS Layers, Blocks

Cells == 0..(Layers * Blocks - 1)
LayerOf(c) == c \div Blocks
BlockOf(c) == c % Blocks

\* The order of masks by their bytes.
KeyLess(a, b) == a # b /\ Min((a \ b) \cup (b \ a)) \in b

\* _top_mask: the cells of the highest value, the first of equals.
TopMask(value, allowed, count) ==
    {c \in allowed :
        Cardinality({d \in allowed :
            value[d] > value[c] \/ (value[d] = value[c] /\ d < c)}) < count}

FirstOf(order, count) == ToSet(SubSeq(order, 1, IF count < Len(order) THEN count ELSE Len(order)))

-----------------------------------------------------------------------------
(* Searches that grow a mask one cell at a time. *)

\* The cell that scores least when added, the first of equals.
BestCell(score, mask, choices) ==
    CHOOSE c \in choices : \A d \in choices :
        Less(score[mask \cup {c}], score[mask \cup {d}]) \/
        (score[mask \cup {c}] = score[mask \cup {d}] /\ c <= d)

\* The masks of one cell, two cells, ... of pool, until nothing measurable
\* can be added. It takes the best cell even when the mask gets worse.
GreedyPath(score, pool, limit) ==
    LET path[k \in 0..limit] ==
            IF k = 0 THEN <<>>
            ELSE LET mask == IF k = 1 THEN {} ELSE Last(path[k - 1])
                     choices == {c \in pool \ mask : score[mask \cup {c}] # NaN}
                 IN  IF Len(path[k - 1]) < k - 1 \/ choices = {} THEN path[k - 1]
                     ELSE Append(path[k - 1], mask \cup {BestCell(score, mask, choices)})
    IN  path[limit]

\* A point of a search: a mask and the probes spent to reach it. Each step
\* of the greedy search tries the cells that are left.
GreedyProbes(total, count) == count * total - (count * (count - 1)) \div 2

Points(path, total) ==
    [k \in DOMAIN path |-> [mask |-> path[k], probes |-> GreedyProbes(total, k)]]

\* Mistake: the masks are ordered by their keys alone.
FirstMask(score, masks) == CHOOSE m \in masks : \A n \in masks : n = m \/ KeyLess(m, n)

\* The best of a set of measured masks, the lowest key of equals.
BestMask(score, masks) ==
    CHOOSE m \in masks : \A n \in masks :
        n = m \/ Less(score[m], score[n]) \/ (score[m] = score[n] /\ KeyLess(m, n))

BestMasks(score, masks, width) ==
    {m \in masks :
        Cardinality({n \in masks :
            Less(score[n], score[m]) \/ (score[n] = score[m] /\ KeyLess(n, m))}) < width}

\* _beam_sparse_objective_masks: the width best masks of each size. A mask
\* met again counts as a new probe only when it has no score.
BeamPath(score, pool, limit, width) ==
    LET Grown(beam) == {p \cup {c} : p \in beam, c \in pool}
        Expanded(beam, k) == {m \in Grown(beam) : Cardinality(m) = k /\ score[m] # NaN}
        Failed(beam, k) ==
            {x \in beam \X pool : x[2] \notin x[1] /\ score[x[1] \cup {x[2]}] = NaN}
        step[k \in 0..limit] ==
            IF k = 0 THEN [beam |-> {{}}, probes |-> 0, points |-> <<>>]
            ELSE LET was == step[k - 1]
                     new == Expanded(was.beam, k)
                     probes == was.probes + Cardinality(new) + Cardinality(Failed(was.beam, k))
                 IN  IF Len(was.points) < k - 1 \/ new = {} THEN was
                     ELSE [beam |-> BestMasks(score, new, width), probes |-> probes,
                           points |-> Append(was.points,
                               [mask |-> BestMask(score, new), probes |-> probes])]
    IN  step[limit].points

\* _swap_refine_sparse_objective_masks: from each mask of the greedy path the
\* best exchange of a cell, as long as one is better, for so many rounds.
Exchanges(mask, pool) == {(mask \ {out}) \cup {in} : out \in mask, in \in pool \ mask}

\* Mistake: like the greedy search, it takes the best even if that is worse.
MeasuredExchanges(score, mask, pool) == {m \in Exchanges(mask, pool) : score[m] # NaN}

BetterExchanges(score, mask, pool) ==
    {m \in Exchanges(mask, pool) : Less(score[m], score[mask])}

SwapPoint(score, pool, mask, rounds, probes) ==
    LET cost == Cardinality(mask) * Cardinality(pool \ mask)
        round[r \in 0..rounds] ==
            IF r = 0 THEN [mask |-> mask, probes |-> probes, open |-> TRUE]
            ELSE LET was == round[r - 1]
                     better == BetterExchanges(score, was.mask, pool)
                 IN  IF ~was.open THEN was
                     ELSE IF better = {}
                          THEN [was EXCEPT !.probes = @ + cost, !.open = FALSE]
                          ELSE [mask |-> BestMask(score, better), probes |-> was.probes + cost,
                                open |-> TRUE]
    IN  [mask |-> round[rounds].mask, probes |-> round[rounds].probes]

SwapPath(score, pool, greedy, rounds) ==
    [k \in DOMAIN greedy |->
        SwapPoint(score, pool, greedy[k], rounds, GreedyProbes(Cardinality(pool), k))]

\* The best measured mask of so many cells; of equals the first that
\* combinations() lists, the one with the highest key.
Exhaustive(score, pool, count) ==
    LET masks == {m \in SUBSET pool : Cardinality(m) = count /\ score[m] # NaN}
    IN  {m \in masks : \A n \in masks :
            n = m \/ Less(score[m], score[n]) \/ (score[m] = score[n] /\ KeyLess(n, m))}

-----------------------------------------------------------------------------
(* The size of a repair, when each cell has a price. *)

\* _joint_sparse_search_point: the cheapest point, if it is cheaper than the
\* stale score less the margin; the smaller of equals. No mask otherwise.
JointMask(score, points, price, margin) ==
    LET Cost(k) == score[points[k].mask] + price * k
        good == {k \in DOMAIN points :
                    score[{}] # NaN /\ Less(Cost(k), score[{}] - margin)}
        best == CHOOSE k \in good : \A j \in good :
                    Less(Cost(k), Cost(j)) \/ (Cost(k) = Cost(j) /\ k <= j)
    IN  IF good = {} THEN {} ELSE points[best].mask

MostProbes(points) == Max({0} \cup {points[k].probes : k \in DOMAIN points})

-----------------------------------------------------------------------------
(* Oracles over the measured divergence of spliced caches. *)

\* Mistake: the halves are not topped up when they overlap.
CandidatePoolOfHalves(kv, attention, allowed, limit) ==
    LET most == IF limit < Cardinality(allowed) THEN limit ELSE Cardinality(allowed)
        each == IF most \div 2 > 1 THEN most \div 2 ELSE 1
    IN  TopMask(kv, allowed, each) \cup TopMask(attention, allowed, each)

\* _candidate_pool: the union of the best half by each of two rankings,
\* topped up by the sum of both when the halves overlap.
CandidatePool(kv, attention, allowed, limit) ==
    LET most == IF limit < Cardinality(allowed) THEN limit ELSE Cardinality(allowed)
        each == IF most \div 2 > 1 THEN most \div 2 ELSE 1
        union == TopMask(kv, allowed, each) \cup TopMask(attention, allowed, each)
    IN  IF Cardinality(union) < most
        THEN union \cup TopMask([c \in allowed |-> kv[c] + attention[c]], allowed, most)
        ELSE union

\* _column_frontier_profiles: how deep below the updated layer each token
\* block is best recomputed, and what that gains.
Column(block, start, depth) == {c \in Cells : BlockOf(c) = block /\ LayerOf(c) \in start..(start + depth - 1)}

Profile(kl, block, start) ==
    LET depths == 0..(Layers - start)
        best == CHOOSE d \in depths : \A e \in depths :
                    Less(kl[Column(block, start, d)], kl[Column(block, start, e)]) \/
                    (kl[Column(block, start, d)] = kl[Column(block, start, e)] /\ d <= e)
    IN  [block |-> block, depth |-> best, gain |-> kl[{}] - kl[Column(block, start, best)]]

\* Gain per cell, then gain, then the first block.
Ahead(p, q) ==
    LET rate(x, y) == x.gain * (IF y.depth = 0 THEN 1 ELSE y.depth)
    IN  \/ rate(p, q) > rate(q, p)
        \/ rate(p, q) = rate(q, p) /\ p.gain > q.gain
        \/ rate(p, q) = rate(q, p) /\ p.gain = q.gain /\ p.block < q.block

\* _assemble_frontier_mask: in that order, each column that still fits.
FrontierMask(profiles, start, budget) ==
    LET Fits(p, mask) == p.depth > 0 /\ p.depth <= budget - Cardinality(mask) /\ p.gain > 0
        step[k \in 0..Cardinality(profiles)] ==
            IF k = 0 THEN [left |-> profiles, mask |-> {}]
            ELSE LET was == step[k - 1]
                     p == CHOOSE p \in was.left : \A q \in was.left : q = p \/ Ahead(p, q)
                 IN  [left |-> was.left \ {p},
                      mask |-> IF Fits(p, was.mask)
                               THEN was.mask \cup Column(p.block, start, p.depth) ELSE was.mask]
    IN  step[Cardinality(profiles)].mask

-----------------------------------------------------------------------------
(* Signed corrections: each cell adds its vector (here of one dimension) to  *)
(* the residual of its layer; removing it changes the energy of the layer.   *)

Residual(vector, left, layer) == Total([c \in {c \in left : LayerOf(c) = layer} |-> vector[c]])

Energy(vector, left) ==
    Total([l \in 0..(Layers - 1) |->
            Residual(vector, left, l) * Residual(vector, left, l)])

Marginal(vector, left, c) ==
    2 * Residual(vector, left, LayerOf(c)) * vector[c] - vector[c] * vector[c]

\* _signed_residual_greedy_order: by what each cell takes off the energy of
\* what is left.
SignedOrder(vector, available) ==
    LET order[k \in 0..Cardinality(available)] ==
            IF k = 0 THEN <<>>
            ELSE LET left == available \ ToSet(order[k - 1])
                 IN  Append(order[k - 1],
                        CHOOSE c \in left : \A d \in left :
                            \/ Marginal(vector, left, c) > Marginal(vector, left, d)
                            \/ Marginal(vector, left, c) = Marginal(vector, left, d) /\ c <= d)
    IN  order[Cardinality(available)]

\* The marginals along the order.
SignedGains(vector, order) ==
    [k \in DOMAIN order |->
        Marginal(vector, ToSet(order) \ FirstOf(order, k - 1), order[k])]

\* _signed_residual_best_prefix, energies in 1/1000: the prefix that leaves
\* the least energy plus a price per cell, the shortest of equals.
BestPrefix(gains, energy, price) ==
    LET left(k) == Max({0, energy - Total([i \in 1..k |-> gains[i]])})
        objective(k) == 1000 * left(k) + price * energy * k
    IN  CHOOSE k \in 0..Len(gains) : \A j \in 0..Len(gains) :
            objective(k) < objective(j) \/ (objective(k) = objective(j) /\ k <= j)

=============================================================================
