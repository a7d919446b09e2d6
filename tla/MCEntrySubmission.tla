------------------------- MODULE MCEntrySubmission -------------------------
(* Small instances of EntrySubmission for TLC.                              *)
EXTENDS EntrySubmission, TLC

\* Proposals are interchangeable, and so are senders.
Symmetric == Permutations(Proposals) \cup Permutations(Senders)
=============================================================================
