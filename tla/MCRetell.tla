------------------------------ MODULE MCRetell ------------------------------
(* Instances of Retell for TLC.                                             *)
EXTENDS Retell, TLC

\* Uploads of contents that exist, and every deletion.
ValidOperation == {u \in Upload : u.known} \cup Delete \cup DeleteAccount

\* Uploads alone, of contents that exist.
ValidUpload == {u \in Upload : u.known}

AnyOperation == Upload \cup Delete \cup DeleteAccount

Symmetry == Permutations(Call) \cup Permutations(Attempt) \cup Permutations(Recording)
=============================================================================
