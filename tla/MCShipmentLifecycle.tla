------------------------- MODULE MCShipmentLifecycle -------------------------
(* Instances of ShipmentLifecycle for TLC.                                 *)
EXTENDS ShipmentLifecycle, TLC

AllOps == Operations
SymmetrySets == Permutations(Requests) \union Permutations(Shipments)

MatchingOps == {"assign", "accept", "reject", "cancel"}
RaceOps == Operations \ {"reject", "reweigh", "wallet", "PARTIAL_REFUND", "SPLIT"}
WalletOps == {"assign", "accept", "cancel", "wallet"}
OutboxOps == Operations \ {"reject", "reweigh", "wallet"}
=============================================================================
