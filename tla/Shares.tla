------------------------------- MODULE Shares -------------------------------
(* Sums, as the number of shares that a function from anything to whole     *)
(* quantities counts.                                                       *)
EXTENDS Integers, FiniteSets

\* The shares that f counts, one by one, and how many they are.
SharesIn(f) == UNION {{i} \X (1..f[i]) : i \in DOMAIN f}
Total(f) == Cardinality(SharesIn(f))
=============================================================================
