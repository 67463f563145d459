------------------------- MODULE MC_GenerationBilling -------------------------
(* Two launches of one lesson at two prices.                               *)
EXTENDS GenerationBilling, TLC

CONSTANTS l1, l2

MCLaunches == {l1, l2}
BothKinds == {"video", "vision"}
VideoOnly == {"video"}
VisionOnly == {"vision"}
TwoPrices == {2, 3}
OnePrice == {3}

Symm == Permutations(MCLaunches)

=============================================================================
