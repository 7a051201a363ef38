------------------------ MODULE MCAppleCredentials ------------------------
(* Instances of AppleCredentials for TLC.                                   *)
EXTENDS AppleCredentials, TLC

Symmetry == Permutations(Subject) \cup Permutations(Replica)
                \cup Permutations(Token \ Sealed)
=============================================================================
