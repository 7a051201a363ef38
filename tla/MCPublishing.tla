---------------------------- MODULE MCPublishing ----------------------------
(* Instances of Publishing for TLC.                                         *)
EXTENDS Publishing, TLC

AnyDocument == [key : Key, item : Item, sha : Digest, bytes : Digest]

\* The CMS sends the bytes it declares.
IntactDocument == {d \in AnyDocument : d.sha = d.bytes}

Symmetry == Permutations(Request) \cup Permutations(Key) \cup Permutations(Item)
                \cup Permutations(AdminOp)
=============================================================================
