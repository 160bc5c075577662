------------------------- MODULE MCIntegrationOutbox -------------------------
(* Instances of IntegrationOutbox for TLC.                                 *)
EXTENDS IntegrationOutbox, TLC

SymmetrySets == Permutations(Keys) \union Permutations(Workers) \union Permutations(Callers)
=============================================================================
