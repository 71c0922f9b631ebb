--------------------------- MODULE AuthSessionMC ---------------------------
(* AuthSession on small instances.  The requests of one kind are             *)
(* interchangeable, and so are the accounts.                                 *)
EXTENDS AuthSession, TLC

Symmetry == Permutations(SignIns) \cup Permutations(SignUps)
                \cup Permutations(Uids) \cup Permutations(Refreshes)
=============================================================================
