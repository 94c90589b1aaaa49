----------------------------- MODULE ProbeScores -----------------------------
(***************************************************************************)
(* What a probe of a repair finds: an integer, lower is better, or NaN, a  *)
(* value that is not finite. No comparison with NaN holds.                 *)
(***************************************************************************)
EXTENDS Integers, FiniteSetsExt

CONSTANT NaN        \* a score that is not finite

Less(a, b) == a # NaN /\ b # NaN /\ a < b

\* Of numbers, gains among them.
Total(f) == FoldSet(LAMBDA x, sum : sum + f[x], 0, DOMAIN f)

=============================================================================
