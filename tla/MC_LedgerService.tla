-------------------------- MODULE MC_LedgerService --------------------------
(* Two launches and one reusable slide ref over small amounts.             *)
EXTENDS LedgerService, TLC

CONSTANTS run1, run2, slide1

MCRefs == {run1, run2, slide1}
MCRunRefs == {run1, run2}
MCDirectRefs == {slide1}
MCEstimates == {1, 3}
MCCredits == {2, 4}

Symm == Permutations(MCRunRefs)

=============================================================================
