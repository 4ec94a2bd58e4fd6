------------------------------- MODULE Lineage -------------------------------
(***************************************************************************)
(* What the store promises about lineages, without buckets, relations,     *)
(* policies or transactions: a lineage is a sequence of versions that only *)
(* grows at its end, and each version may once be forgotten.  Its last     *)
(* version is the current one until it is forgotten; a version added after *)
(* that makes the lineage active again.                                    *)
(*                                                                         *)
(* A commit may change several lineages, as a batch does, but each in one  *)
(* way only: nobody who has not seen a version can name it.                *)
(***************************************************************************)
EXTENDS Sequences, Naturals

CONSTANTS
  MemoryIDs,  \* names of memories; a lineage has the name of its first one
  Nil         \* no memory

VARIABLES
  history,   \* for each root the versions of its lineage, oldest first
  current,   \* for each root the live version, Nil when there is none
  forgotten  \* the forgotten memories

lineageVars == <<history, current, forgotten>>

VersionsIn(root) == {history[root][n] : n \in DOMAIN history[root]}

Known == UNION {VersionsIn(root) : root \in MemoryIDs}

LineageInit ==
  /\ history = [root \in MemoryIDs |-> <<>>]
  /\ current = [root \in MemoryIDs |-> Nil]
  /\ forgotten = {}

Same(root) ==
  /\ history'[root] = history[root]
  /\ current'[root] = current[root]
  /\ VersionsIn(root) \cap forgotten' = VersionsIn(root) \cap forgotten

\* A new version, written by Remember or Revive, is the current one.
Grows(root) ==
  \E id \in MemoryIDs \ Known :
    /\ history[root] = <<>> => id = root
    /\ history'[root] = Append(history[root], id)
    /\ current'[root] = id
    /\ VersionsIn(root) \cap forgotten' = VersionsIn(root) \cap forgotten

\* Forgetting versions leaves the current one, unless it is one of them.
Loses(root) ==
  /\ history'[root] = history[root]
  /\ VersionsIn(root) \cap forgotten \subseteq forgotten'
  /\ current'[root] = IF current[root] \in forgotten' THEN Nil
                      ELSE current[root]

LineageNext ==
  /\ \A root \in MemoryIDs : Same(root) \/ Grows(root) \/ Loses(root)
  /\ forgotten' \subseteq Known

LineageSpec == LineageInit /\ [][LineageNext]_lineageVars

==============================================================================
