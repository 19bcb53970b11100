-------------------------- MODULE MCAccessPolicy ---------------------------
(***************************************************************************)
(* Small instances of AccessPolicy for TLC.                                *)
(***************************************************************************)
EXTENDS AccessPolicy, TLC

Symmetric == Permutations(Users) \cup Permutations(Roles) \cup Permutations(Documents)
                 \cup Permutations(Versions) \cup Permutations(Sessions) \cup Permutations(Jobs)
============================================================================
