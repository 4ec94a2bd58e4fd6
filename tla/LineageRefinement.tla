-------------------------- MODULE LineageRefinement --------------------------
(***************************************************************************)
(* MemoryStore implements Lineage: what GetLineage returns is the history. *)
(***************************************************************************)
EXTENDS MemoryStoreProperties

Abstract ==
  INSTANCE Lineage WITH
    history <- [root \in MemoryIDs |-> GetLineage(db, root)],
    current <- db.latest,
    forgotten <- {id \in Stored(db) : db.memories[id].isForgotten}

\* Whatever the operations, batches and crashes, GetLineage returns a sequence
\* that grows only at its end, by one version a commit; the latest bucket names
\* that version until it is forgotten, and a Revive adds after the last version
\* (GetLineage, which sorts by the version numbers the writers count).
ImplementsLineage == Abstract!LineageSpec

==============================================================================
