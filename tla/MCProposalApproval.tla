------------------------ MODULE MCProposalApproval ------------------------
(* Two scans and an operator over two proposals for one symbol.            *)
EXTENDS ProposalApproval, TLC

CONSTANTS p1, p2, s1, s2, x

MCSymbolOf == (p1 :> x) @@ (p2 :> x)

\* The proposals are interchangeable, and so are the scans.
Symmetric == Permutations({p1, p2}) \cup Permutations({s1, s2})
=============================================================================
