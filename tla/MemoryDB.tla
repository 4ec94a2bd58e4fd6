------------------------------- MODULE MemoryDB -------------------------------
(***************************************************************************)
(* The content of the bbolt file and what each write operation of          *)
(* internal/store/bolt does to it inside its transaction.                  *)
(*                                                                         *)
(* A database is a record with one field per bucket.  Every operation is   *)
(* an operator from a database to a database, with its early returns in a  *)
(* predicate of its own, so that the same operator serves a transaction    *)
(* that commits at once and an item of a batch.  A bucket that may lack a  *)
(* key is a function to Nil there.  Contents, names, times, trust and      *)
(* confidence of a memory are left out; an embedding vector is the model   *)
(* that made it.                                                           *)
(*                                                                         *)
(* A definition named X_y is X as a bug would have it.  No specification   *)
(* uses one: it takes the place of X to show which property notices.       *)
(***************************************************************************)
EXTENDS SpacePolicy, Sequences, FiniteSets

CONSTANTS
  MemoryIDs,  \* the random keys of memories, as numbers in bucket key order
  Spaces,     \* space ids
  Models,     \* embedding models (model id and dimension)
  Policies,   \* write policies a space may be given
  Actors,     \* the callers: records with an id and a kind
  Nil         \* what bbolt's Get returns for a missing key

ASSUME IDsAssumption ==
  /\ MemoryIDs \subseteq Nat
  /\ IsFiniteSet(MemoryIDs)

-------------------------------------------------------------------------------
(* The buckets. *)

RelationTypes == {"updates", "extends", "derives"}

Memory ==
  [spaceID: Spaces, kind: Kinds, version: Nat,
   isLatest: BOOLEAN, isForgotten: BOOLEAN, hasOrphanedSources: BOOLEAN,
   parentID: MemoryIDs \cup {Nil}, rootID: MemoryIDs \cup {Nil},
   sourceIDs: SUBSET MemoryIDs, embedding: Models \cup {Nil}]

SpaceConfig ==
  [model: Models, migrating: BOOLEAN, target: Models \cup {Nil},
   writePolicy:
     Policies \cup {NormalizeSpaceWritePolicy(policy) : policy \in Policies}]

\* Nil is told apart from everything a bucket holds.
ASSUME NilAssumption ==
  /\ Nil \notin MemoryIDs
  /\ Nil \notin Memory
  /\ Nil \notin SpaceConfig
  /\ Nil \notin Kinds

\* The limits of a policy are ints.
ASSUME PoliciesAssumption ==
  \A policy \in Policies :
    {policy.maxStaticMemories, policy.maxEpisodicMemories} \subseteq Int

Operations ==
  {"remember", "forget", "revive", "migration_start", "migration_complete"}

\* The audit log is a set: entries differ by the memories they name.  The two
\* migration entries carry the target model, and repeat when a migration does.
AuditEntry ==
  [operation: Operations, spaceID: Spaces, memoryIDs: Seq(MemoryIDs),
   reason: Models \cup {Nil}]

DB ==
  [memories: [MemoryIDs -> Memory \cup {Nil}],
   latest: [MemoryIDs -> MemoryIDs \cup {Nil}],
   spaces: SUBSET (Spaces \X MemoryIDs),
   spaceStats: [Spaces -> [Kinds -> Int]],
   relations: SUBSET (MemoryIDs \X RelationTypes \X MemoryIDs),
   relationRefs: SUBSET (MemoryIDs \X RelationTypes \X MemoryIDs),
   embeddings: [MemoryIDs -> Models \cup {Nil}],
   spacesConfig: [Spaces -> SpaceConfig \cup {Nil}],
   auditLog: SUBSET AuditEntry,
   forgetLog: SUBSET MemoryIDs]

EmptyDB ==
  [memories |-> [id \in MemoryIDs |-> Nil],
   latest |-> [id \in MemoryIDs |-> Nil],
   spaces |-> {},
   spaceStats |-> [s \in Spaces |-> [k \in Kinds |-> 0]],
   relations |-> {}, relationRefs |-> {},
   embeddings |-> [id \in MemoryIDs |-> Nil],
   spacesConfig |-> [s \in Spaces |-> Nil],
   auditLog |-> {}, forgetLog |-> {}]

-------------------------------------------------------------------------------
(* Reading a database. *)

Stored(db) == {id \in MemoryIDs : db.memories[id] # Nil}

RootOf(db, id) ==
  IF db.memories[id].rootID = Nil THEN id ELSE db.memories[id].rootID

\* A memory that may be the target of a relation: in the space, and live.
LiveIn(db, space) ==
  {id \in Stored(db) : /\ db.memories[id].spaceID = space
                       /\ ~db.memories[id].isForgotten
                       /\ db.memories[id].isLatest}

SpaceWritable_ignoresMigration(db, space) == db.spacesConfig[space] # Nil

SpaceWritable(db, space) ==
  /\ db.spacesConfig[space] # Nil
  /\ ~db.spacesConfig[space].migrating

StaticLayer == {"static", "derived"}
EpisodicLayer == {"episodic"}

\* The size of a layer once a memory of newKind replaced one of replacedKind;
\* replacedKind is Nil when nothing is replaced.
NextCount(counts, layer, newKind, replacedKind) ==
  (IF layer = StaticLayer THEN counts["static"] + counts["derived"]
                          ELSE counts["episodic"])
  + (IF newKind \in layer THEN 1 ELSE 0)
  - (IF replacedKind \in layer THEN 1 ELSE 0)

WouldExceed_newLineagesOnly(policy, counts, newKind, replacedKind) ==
  /\ replacedKind = Nil
  /\ \/ NextCount(counts, StaticLayer, newKind, replacedKind)
          > policy.maxStaticMemories
     \/ NextCount(counts, EpisodicLayer, newKind, replacedKind)
          > policy.maxEpisodicMemories

WouldExceedCorpusLimit(policy, counts, newKind, replacedKind) ==
  /\ replacedKind # newKind
  /\ \/ NextCount(counts, StaticLayer, newKind, replacedKind)
          > policy.maxStaticMemories
     \/ NextCount(counts, EpisodicLayer, newKind, replacedKind)
          > policy.maxEpisodicMemories

-------------------------------------------------------------------------------
(* Remember. *)

\* A derived memory rests on at least two live memories of its space.
ValidDerivedInput(db, input) ==
  input.kind = "derived" =>
    /\ input.actor.kind \in {"human", "agent"}
    /\ Cardinality(input.sourceIDs) >= 2
    /\ input.sourceIDs \subseteq LiveIn(db, input.spaceID)
    /\ \A src \in input.sourceIDs :
         db.memories[src].kind \in {"episodic", "static"}


ValidExtends(db, input) == input.extends \subseteq LiveIn(db, input.spaceID)

ValidPromotion(policy, actor, fromKind, toKind) ==
  fromKind # toKind => /\ fromKind = "episodic" /\ toKind = "static"
                       /\ CanPromote(policy, actor)

ValidUpdateTarget(db, input, policy) ==
  LET target == db.memories[input.updates]
  IN  /\ target # Nil
      /\ target.spaceID = input.spaceID
      /\ ValidPromotion(policy, input.actor, target.kind, input.kind)
      /\ input.ifLatestID # Nil =>
           db.latest[RootOf(db, input.updates)] = input.ifLatestID
      /\ ~target.isForgotten
      /\ target.isLatest

\* The checks of rememberPreparedInTx, up to its first write.
RememberAllowed(db, input) ==
  /\ SpaceWritable(db, input.spaceID)
  /\ LET policy == db.spacesConfig[input.spaceID].writePolicy
         counts == db.spaceStats[input.spaceID]
     IN  /\ CanWriteKind(policy, input.actor, input.kind)
         /\ input.updates # Nil => ValidUpdateTarget(db, input, policy)
         /\ ~WouldExceedCorpusLimit(policy, counts, input.kind,
               IF input.updates = Nil THEN Nil
               ELSE db.memories[input.updates].kind)
  /\ ValidDerivedInput(db, input)
  /\ ValidExtends(db, input)

\* For a derived memory the derives edges are its sources; for another kind
\* they are what the caller sent, unchecked.
DerivesOf(input) ==
  IF input.kind = "derived" THEN input.sourceIDs ELSE input.derives

RelationsOf(input, id) ==
  ({id} \X {"updates"} \X ({input.updates} \ {Nil}))
    \cup ({id} \X {"extends"} \X input.extends)
    \cup ({id} \X {"derives"} \X DerivesOf(input))

\* The reverse index holds each edge under the memory it points to.
RefsOf(edges) == {<<e[3], e[2], e[1]>> : e \in edges}

NewMemory(input, version, parent, root, embedding) ==
  [spaceID |-> input.spaceID, kind |-> input.kind, version |-> version,
   isLatest |-> TRUE, isForgotten |-> FALSE, hasOrphanedSources |-> FALSE,
   parentID |-> parent, rootID |-> root,
   sourceIDs |-> input.sourceIDs, embedding |-> embedding]

Audited(operation, space, ids) ==
  [operation |-> operation, spaceID |-> space, memoryIDs |-> ids,
   reason |-> Nil]

\* A memory with no update target starts a lineage.
RememberRoot(db, input, id, embedding) ==
  [db EXCEPT
     !.memories[id] = NewMemory(input, 1, Nil, Nil, embedding),
     !.embeddings[id] = embedding,
     !.latest[id] = id,
     !.spaces = @ \cup {<<input.spaceID, id>>},
     !.spaceStats[input.spaceID][input.kind] = @ + 1,
     !.relations = @ \cup RelationsOf(input, id),
     !.relationRefs = @ \cup RefsOf(RelationsOf(input, id)),
     !.auditLog = @ \cup {Audited("remember", input.spaceID, <<id>>)}]

MoveCount_keepsKind(counts, fromKind, toKind) == counts

MoveCount(counts, fromKind, toKind) ==
  IF fromKind = toKind THEN counts
  ELSE [counts EXCEPT ![fromKind] = @ - 1, ![toKind] = @ + 1]

\* An update supersedes the live version it names.
RememberUpdate(db, input, id, embedding) ==
  LET target  == input.updates
      old     == db.memories[target]
      root    == RootOf(db, target)
  IN  [db EXCEPT
         !.memories = [@ EXCEPT
            ![target].isLatest = FALSE,
            ![id] = NewMemory(input, old.version + 1, target, root, embedding)],
         !.embeddings[id] = embedding,
         !.latest[root] = id,
         !.spaces = (@ \ {<<input.spaceID, target>>})
                       \cup {<<input.spaceID, id>>},
         !.spaceStats[input.spaceID] = MoveCount(@, old.kind, input.kind),
         !.relations = @ \cup RelationsOf(input, id),
         !.relationRefs = @ \cup RefsOf(RelationsOf(input, id)),
         !.auditLog = @ \cup
            {Audited("remember", input.spaceID, <<target, id>>)}]

RememberPreparedInTx(db, input, id, embedding) ==
  IF input.updates = Nil THEN RememberRoot(db, input, id, embedding)
                         ELSE RememberUpdate(db, input, id, embedding)

-------------------------------------------------------------------------------
(* Forget. *)

\* The memory need not be live: any version of a lineage can be forgotten.
ForgetAllowed(db, id) ==
  /\ id \in Stored(db)
  /\ SpaceWritable(db, db.memories[id].spaceID)

OrphanedBy_liveSourceOnly(db, id) ==
  {d \in MemoryIDs :
     /\ db.memories[id].isLatest
     /\ <<id, "derives", d>> \in db.relationRefs
     /\ d \in LiveIn(db, db.memories[id].spaceID)
     /\ db.memories[d].kind = "derived"
     /\ id \in db.memories[d].sourceIDs}

\* The live derived memories that lose the source id, found through the
\* reverse index.
OrphanedBy(db, id) ==
  {d \in MemoryIDs :
     /\ <<id, "derives", d>> \in db.relationRefs
     /\ d \in LiveIn(db, db.memories[id].spaceID)
     /\ db.memories[d].kind = "derived"
     /\ id \in db.memories[d].sourceIDs}

MarkForgotten_keepsLatest(db, id) ==
  [db.memories EXCEPT ![id] = [@ EXCEPT !.isForgotten = TRUE]]

MarkForgotten(db, id) ==
  [db.memories EXCEPT ![id] = [@ EXCEPT !.isForgotten = TRUE,
                                        !.isLatest = FALSE]]

MarkOrphaned(db, memories, id) ==
  [m \in MemoryIDs |->
     IF m \in OrphanedBy(db, id)
     THEN [memories[m] EXCEPT !.hasOrphanedSources = TRUE]
     ELSE memories[m]]

\* What is written about the memory itself, live or not.
ForgetVersion(db, id) ==
  [db EXCEPT
     !.memories = MarkOrphaned(db, MarkForgotten(db, id), id),
     !.auditLog = @ \cup {Audited("forget", db.memories[id].spaceID, <<id>>)},
     !.forgetLog = @ \cup {id}]

DeactivateLineage_keepsHead(db, mem, id, root) ==
  [db EXCEPT
     !.spaces = @ \ {<<mem.spaceID, id>>},
     !.spaceStats[mem.spaceID][mem.kind] = @ - 1]

\* What is written besides when it was the live version of its lineage.
DeactivateLineage(db, mem, id, root) ==
  [db EXCEPT
     !.latest[root] = Nil,
     !.spaces = @ \ {<<mem.spaceID, id>>},
     !.spaceStats[mem.spaceID][mem.kind] = @ - 1]

ForgetInTx_silentInHistory(db, id) ==
  LET mem == db.memories[id]
  IN  IF mem.isForgotten THEN db
      ELSE IF ~mem.isLatest
      THEN [db EXCEPT !.memories = MarkOrphaned(db, MarkForgotten(db, id), id)]
      ELSE DeactivateLineage(ForgetVersion(db, id), mem, id, RootOf(db, id))

ForgetInTx_activeLineageOnly(db, id) ==
  LET mem == db.memories[id]
  IN  IF mem.isForgotten \/ db.latest[RootOf(db, id)] = Nil THEN db
      ELSE IF ~mem.isLatest THEN ForgetVersion(db, id)
      ELSE DeactivateLineage(ForgetVersion(db, id), mem, id, RootOf(db, id))

\* Forgetting a forgotten memory changes nothing and reports no error.
ForgetInTx(db, id) ==
  LET mem == db.memories[id]
  IN  IF mem.isForgotten THEN db
      ELSE IF ~mem.isLatest THEN ForgetVersion(db, id)
      ELSE DeactivateLineage(ForgetVersion(db, id), mem, id, RootOf(db, id))

-------------------------------------------------------------------------------
(* Revive. *)

\* The checks before the scan for a predecessor.  The id given need not be a
\* root: nothing before the scan looks at its rootID.
ReviveAllowed(db, root, actor, kind) ==
  /\ db.latest[root] = Nil
  /\ root \in Stored(db)
  /\ kind # "derived"
  /\ kind = db.memories[root].kind
  /\ SpaceWritable(db, db.memories[root].spaceID)
  /\ CanWriteKind(db.spacesConfig[db.memories[root].spaceID].writePolicy,
                  actor, kind)

\* The versions of the lineage the scan stops at.
ForgottenVersions(db, root) ==
  {id \in Stored(db) : /\ RootOf(db, id) = root
                       /\ db.memories[id].isForgotten
                       /\ ~db.memories[id].isLatest}

Successors(db, id) == {c \in Stored(db) : db.memories[c].parentID = id}

RevivedMemory(db, root, pred, kind) ==
  [spaceID |-> db.memories[root].spaceID, kind |-> kind,
   version |-> db.memories[pred].version + 1,
   isLatest |-> TRUE, isForgotten |-> FALSE, hasOrphanedSources |-> FALSE,
   parentID |-> pred, rootID |-> root, sourceIDs |-> {}, embedding |-> Nil]

ReviveLineage_clearsForgotten(db, root, pred, kind, id) ==
  LET space == db.memories[root].spaceID
  IN  [db EXCEPT
         !.memories = [@ EXCEPT ![id] = RevivedMemory(db, root, pred, kind),
                                ![pred].isForgotten = FALSE],
         !.latest[root] = id,
         !.spaces = @ \cup {<<space, id>>},
         !.spaceStats[space][kind] = @ + 1,
         !.auditLog = @ \cup {Audited("revive", space, <<pred, id>>)}]

\* No corpus limit is checked, no vector and no relation is written.
ReviveLineage(db, root, pred, kind, id) ==
  LET space == db.memories[root].spaceID
  IN  [db EXCEPT
         !.memories[id] = RevivedMemory(db, root, pred, kind),
         !.latest[root] = id,
         !.spaces = @ \cup {<<space, id>>},
         !.spaceStats[space][kind] = @ + 1,
         !.auditLog = @ \cup {Audited("revive", space, <<pred, id>>)}]

-------------------------------------------------------------------------------
(* Spaces and embedding migrations. *)

\* The first EnsureSpace of a space writes its configuration; a later one only
\* reads it.
EnsureSpaceInTx(db, space, model, policy) ==
  IF db.spacesConfig[space] # Nil THEN db
  ELSE [db EXCEPT
          !.spacesConfig[space] =
             [model |-> model, migrating |-> FALSE, target |-> Nil,
              writePolicy |-> NormalizeSpaceWritePolicy(policy)],
          !.spaceStats[space] = [k \in Kinds |-> 0]]

\* The whole record is replaced by the one the caller hands in.
UpdateSpaceConfigInTx(db, space, next) ==
  [db EXCEPT !.spacesConfig[space] = next]

\* The record apply-config hands in is the one it has read, with the policy of
\* its file; the file lock keeps others out between the two.
ApplyConfigInTx(db, space, policy) ==
  UpdateSpaceConfigInTx(db, space,
    [db.spacesConfig[space] EXCEPT !.writePolicy = policy])

MigrationAudited(operation, space, model) ==
  [operation |-> operation, spaceID |-> space, memoryIDs |-> <<>>,
   reason |-> model]

BeginMigrationAllowed(db, space, model) ==
  /\ db.spacesConfig[space] # Nil
  /\ db.spacesConfig[space].migrating =>
       db.spacesConfig[space].target = model

BeginMigrationInTx_switchesModel(db, space, model) ==
  [db EXCEPT !.spacesConfig[space] = [@ EXCEPT !.migrating = TRUE,
                                               !.model = model,
                                               !.target = model]]

BeginMigrationInTx(db, space, model) ==
  IF \/ db.spacesConfig[space].migrating
     \/ db.spacesConfig[space].model = model
  THEN db
  ELSE [db EXCEPT
          !.spacesConfig[space] = [@ EXCEPT !.migrating = TRUE,
                                            !.target = model],
          !.auditLog = @ \cup
             {MigrationAudited("migration_start", space, model)}]

Embedded(db, space) ==
  {id \in Stored(db) : db.memories[id].spaceID = space}

MigrateInTx_memoriesOnly(db, space, model) ==
  [db EXCEPT
     !.memories = [id \in MemoryIDs |->
        IF id \in Embedded(db, space)
        THEN [db.memories[id] EXCEPT !.embedding = model]
        ELSE db.memories[id]],
     !.spacesConfig[space] = [@ EXCEPT !.model = model, !.migrating = FALSE,
                                       !.target = Nil],
     !.auditLog = @ \cup
        {MigrationAudited("migration_complete", space, model)}]

\* Every version of the space is embedded again, live or not, and the space is
\* unlocked, in one transaction.
MigrateInTx(db, space, model) ==
  [db EXCEPT
     !.memories = [id \in MemoryIDs |->
        IF id \in Embedded(db, space)
        THEN [db.memories[id] EXCEPT !.embedding = model]
        ELSE db.memories[id]],
     !.embeddings = [id \in MemoryIDs |->
        IF id \in Embedded(db, space) THEN model ELSE db.embeddings[id]],
     !.spacesConfig[space] = [@ EXCEPT !.model = model, !.migrating = FALSE,
                                       !.target = Nil],
     !.auditLog = @ \cup
        {MigrationAudited("migration_complete", space, model)}]

-------------------------------------------------------------------------------
(* GetLineage: the versions of a lineage in version order. *)

Versions(db, root) == {id \in Stored(db) : RootOf(db, id) = root}

GetLineage(db, root) ==
  [n \in 1 .. Cardinality(Versions(db, root)) |->
     CHOOSE id \in Versions(db, root) :
       Cardinality({v \in Versions(db, root) :
          db.memories[v].version <= db.memories[id].version}) = n]

(* GetRelated: the memories that at most depth relations of a kind lead to. *)

LoadRelatedIDs_outgoing(db, id, kind) ==
  {e[3] : e \in {e \in db.relations : e[1] = id /\ e[2] = kind}}

\* Relations are walked in both directions.
LoadRelatedIDs(db, id, kind) ==
  {e[3] : e \in {e \in db.relations \cup db.relationRefs :
                   e[1] = id /\ e[2] = kind}}

GetRelated(db, id, kind, depth) ==
  LET seen[level \in 0 .. depth] ==
        IF level = 0 THEN {id}
        ELSE LET before == seen[level - 1]
             IN  before \cup UNION {LoadRelatedIDs(db, from, kind) : from \in before}
  IN  seen[depth] \ {id}

===============================================================================
