---------------------------- MODULE MCIngestion ----------------------------
(* Instances of Ingestion for TLC.                                          *)
EXTENDS Ingestion

\* The latest sitemap and the full one name the same articles.
OverlappingSitemaps == [d \in Discovery |-> Item]
=============================================================================
