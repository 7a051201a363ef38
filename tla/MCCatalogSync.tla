--------------------------- MODULE MCCatalogSync ---------------------------
(* Instances of CatalogSync for TLC.                                        *)
EXTENDS CatalogSync, TLC

\* The CMS sends the bytes it declares.
IntactDocument ==
    {d \in [key : Key, item : Item, sha : Digest, bytes : Digest] : d.sha = d.bytes}

Symmetry == Permutations(Request) \cup Permutations(Key) \cup Permutations(Item)
                \cup Permutations(AdminOp)
=============================================================================
