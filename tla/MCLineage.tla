------------------------------- MODULE MCLineage -------------------------------
(***************************************************************************)
(* A small instance of MemoryStore for the refinement of Lineage.          *)
(***************************************************************************)
EXTENDS LineageRefinement, MCMemoryStore

================================================================================
