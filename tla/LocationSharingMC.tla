------------------------- MODULE LocationSharingMC -------------------------
(* LocationSharing for TLC: devices and accounts are interchangeable. *)
EXTENDS LocationSharing, TLC

Symmetry == Permutations(Clients) \cup Permutations(Uids)
=============================================================================
