--------------------------- MODULE MCNoobsDisplay ---------------------------
(* A screen of two rows and three columns, and places next to it.           *)
EXTENDS NoobsDisplay

=============================================================================
