--------------------------- MODULE MemoryStoreProofs ---------------------------
(***************************************************************************)
(* For every set of memories, spaces, models, policies and actors and for  *)
(* every bound: the store keeps its type, each lineage has at most one     *)
(* live version, which the latest bucket names, history is never rewritten *)
(* and the scan of a Revive meets the end of a lineage that comes before   *)
(* its other versions.                                                     *)
(***************************************************************************)
EXTENDS MemoryStoreProperties, WellFoundedInduction, TLAPS

-------------------------------------------------------------------------------
(* The inductive invariant. *)

\* A lineage is entered by its root: no rootID leads to another one.
RootsAreRoots(d) ==
  \A id \in Stored(d) :
    /\ RootOf(d, id) \in Stored(d)
    /\ d.memories[RootOf(d, id)].rootID = Nil

\* A version is live when the latest bucket names it under its root.
LiveMeansLatest(d) ==
  \A id \in Stored(d) : d.memories[id].isLatest <=> d.latest[RootOf(d, id)] = id

\* What the latest bucket names is a version of the lineage.
LatestInLineage(d) ==
  \A root \in MemoryIDs :
    d.latest[root] # Nil =>
      /\ d.latest[root] \in Stored(d)
      /\ RootOf(d, d.latest[root]) = root

HeadsAgree(d) ==
  /\ RootsAreRoots(d)
  /\ LiveMeansLatest(d)
  /\ LatestInLineage(d)

\* A Revive in its scan still has what its checks read: a root that is stored,
\* names no live version, is of the kind asked for and not derived, and whose
\* space can be written.
ReviveChecked ==
  Running("revive") =>
    /\ tx.rootID \in Stored(db)
    /\ db.latest[tx.rootID] = Nil
    /\ tx.kind = db.memories[tx.rootID].kind
    /\ tx.kind # "derived"
    /\ SpaceWritable(db, db.memories[tx.rootID].spaceID)

\* The copy a batch works on agrees like the committed database.
BatchAgrees ==
  Running("remember") \/ Running("forget") => HeadsAgree(tx.work)

IInv ==
  /\ TypeOK
  /\ ReviveChecked
  /\ HeadsAgree(db)
  /\ BatchAgrees

-------------------------------------------------------------------------------
(* The smallest key of a set of keys. *)

Below == {pair \in Nat \X Nat : pair[1] < pair[2]}

\* The keys are well ordered.
LEMMA BelowWellFounded == IsWellFoundedOn(Below, Nat)
BY NatLessThanWellFounded DEF OpToRel, Below

\* A cursor that is moved to the smallest of some keys is at one of them, with
\* the others after it.
LEMMA LeastKey ==
  ASSUME NEW T, T \subseteq Nat, T # {}
  PROVE  Min(T) \in T /\ \A y \in T : Min(T) =< y
<1>1. \E x \in T : \A y \in T : ~(<<y, x>> \in Below)
  BY BelowWellFounded, WFMin
<1>2. \A x, y \in Nat : y < x => <<y, x>> \in Below
  BY DEF Below
<1>3. PICK x \in T : \A y \in T : ~(y < x)
  BY <1>1, <1>2
<1>4. \A y \in T : x =< y
  BY <1>3
<1>. QED  BY <1>4 DEF Min

-------------------------------------------------------------------------------
(* The types of what an operation writes. *)

\* What a caller may send, field by field.
LEMMA InputType ==
  ASSUME NEW known \in SUBSET MemoryIDs, NEW input \in Inputs(known)
  PROVE  /\ input.spaceID \in Spaces
         /\ input.kind \in Kinds
         /\ input.updates \in MemoryIDs \cup {Nil}
         /\ input.extends \subseteq MemoryIDs
         /\ input.sourceIDs \subseteq MemoryIDs
         /\ DerivesOf(input) \subseteq MemoryIDs
BY DEF Inputs, AtMost, DerivesOf

\* A memory made from an input.
LEMMA NewMemoryType ==
  ASSUME NEW known \in SUBSET MemoryIDs, NEW input \in Inputs(known),
         NEW version \in Nat, NEW parent \in MemoryIDs \cup {Nil},
         NEW root \in MemoryIDs \cup {Nil}, NEW embedding \in Models
  PROVE  NewMemory(input, version, parent, root, embedding) \in Memory
BY InputType DEF NewMemory, Memory

\* The edges of a new memory, in both buckets.
LEMMA RelationsType ==
  ASSUME NEW known \in SUBSET MemoryIDs, NEW input \in Inputs(known),
         NEW id \in MemoryIDs
  PROVE  /\ RelationsOf(input, id)
              \subseteq MemoryIDs \X RelationTypes \X MemoryIDs
         /\ RefsOf(RelationsOf(input, id))
              \subseteq MemoryIDs \X RelationTypes \X MemoryIDs
<1>1. RelationsOf(input, id) \subseteq MemoryIDs \X RelationTypes \X MemoryIDs
  BY InputType DEF RelationsOf, RelationTypes
<1>. QED  BY <1>1 DEF RefsOf

\* An audit entry names one memory, or a memory and its parent before it.
LEMMA AuditedType ==
  ASSUME NEW operation \in Operations, NEW space \in Spaces,
         NEW a \in MemoryIDs, NEW b \in MemoryIDs
  PROVE  /\ Audited(operation, space, <<a>>) \in AuditEntry
         /\ Audited(operation, space, <<a, b>>) \in AuditEntry
<1>1. <<a>> \in Seq(MemoryIDs) /\ <<a, b>> \in Seq(MemoryIDs)
  OBVIOUS
<1>. QED  BY <1>1 DEF Audited, AuditEntry

\* A stored memory is a memory, and its root is a key.
LEMMA StoredType ==
  ASSUME NEW d \in DB, NEW id \in Stored(d)
  PROVE  /\ id \in MemoryIDs
         /\ d.memories[id] \in Memory
         /\ RootOf(d, id) \in MemoryIDs
BY DEF Stored, RootOf, DB, Memory

-------------------------------------------------------------------------------
(* Every operation takes a database to a database. *)

\* A memory that starts a lineage.
LEMMA RememberRootType ==
  ASSUME NEW d \in DB, NEW known \in SUBSET MemoryIDs,
         NEW input \in Inputs(known), NEW id \in MemoryIDs,
         NEW embedding \in Models
  PROVE  RememberRoot(d, input, id, embedding) \in DB
<1>. DEFINE e == RememberRoot(d, input, id, embedding)
<1>1. e.memories \in [MemoryIDs -> Memory \cup {Nil}]
  BY NewMemoryType DEF RememberRoot, DB
<1>2. /\ e.latest \in [MemoryIDs -> MemoryIDs \cup {Nil}]
      /\ e.embeddings \in [MemoryIDs -> Models \cup {Nil}]
  BY DEF RememberRoot, DB
<1>3. e.spaces \subseteq Spaces \X MemoryIDs
  BY InputType DEF RememberRoot, DB
<1>4. e.spaceStats \in [Spaces -> [Kinds -> Int]]
  BY InputType DEF RememberRoot, DB
<1>5. /\ e.relations \subseteq MemoryIDs \X RelationTypes \X MemoryIDs
      /\ e.relationRefs \subseteq MemoryIDs \X RelationTypes \X MemoryIDs
  BY RelationsType DEF RememberRoot, DB
<1>6. e.auditLog \subseteq AuditEntry
  <2>1. Audited("remember", input.spaceID, <<id>>) \in AuditEntry
    BY AuditedType, InputType DEF Operations
  <2>. QED  BY <2>1 DEF RememberRoot, DB
<1>. QED  BY <1>1, <1>2, <1>3, <1>4, <1>5, <1>6 DEF RememberRoot, DB

\* A memory that supersedes a stored one.
LEMMA RememberUpdateType ==
  ASSUME NEW d \in DB, NEW known \in SUBSET MemoryIDs,
         NEW input \in Inputs(known), NEW id \in MemoryIDs,
         NEW embedding \in Models, input.updates \in Stored(d)
  PROVE  RememberUpdate(d, input, id, embedding) \in DB
<1>. DEFINE e == RememberUpdate(d, input, id, embedding)
            target == input.updates
            new == NewMemory(input, d.memories[target].version + 1, target,
                             RootOf(d, target), embedding)
<1>0. /\ target \in MemoryIDs
      /\ d.memories[target] \in Memory
      /\ RootOf(d, target) \in MemoryIDs
  BY StoredType
<1>1. e.memories \in [MemoryIDs -> Memory \cup {Nil}]
  <2>1. new \in Memory
    <3>1. d.memories[target].version + 1 \in Nat
      BY <1>0 DEF Memory
    <3>. QED  BY <1>0, <3>1, NewMemoryType
  <2>2. [d.memories[target] EXCEPT !.isLatest = FALSE] \in Memory
    BY <1>0 DEF Memory
  <2>3. e.memories = [d.memories EXCEPT ![target].isLatest = FALSE,
                                        ![id] = new]
    BY DEF RememberUpdate, DB
  <2>. QED  BY <1>0, <2>1, <2>2, <2>3 DEF DB
<1>2. /\ e.latest \in [MemoryIDs -> MemoryIDs \cup {Nil}]
      /\ e.embeddings \in [MemoryIDs -> Models \cup {Nil}]
  BY <1>0 DEF RememberUpdate, DB
<1>3. e.spaces \subseteq Spaces \X MemoryIDs
  BY InputType DEF RememberUpdate, DB
<1>4. e.spaceStats \in [Spaces -> [Kinds -> Int]]
  <2>1. \A counts \in [Kinds -> Int], from, to \in Kinds :
          MoveCount(counts, from, to) \in [Kinds -> Int]
    BY DEF MoveCount
  <2>2. d.memories[target].kind \in Kinds
    BY <1>0 DEF Memory
  <2>. QED  BY <2>1, <2>2, InputType DEF RememberUpdate, DB
<1>5. /\ e.relations \subseteq MemoryIDs \X RelationTypes \X MemoryIDs
      /\ e.relationRefs \subseteq MemoryIDs \X RelationTypes \X MemoryIDs
  BY RelationsType DEF RememberUpdate, DB
<1>6. e.auditLog \subseteq AuditEntry
  <2>1. Audited("remember", input.spaceID, <<target, id>>) \in AuditEntry
    BY <1>0, AuditedType, InputType DEF Operations
  <2>. QED  BY <2>1 DEF RememberUpdate, DB
<1>. QED  BY <1>1, <1>2, <1>3, <1>4, <1>5, <1>6 DEF RememberUpdate, DB

\* A Remember whose checks passed.
LEMMA RememberType ==
  ASSUME NEW d \in DB, NEW known \in SUBSET MemoryIDs,
         NEW input \in Inputs(known), NEW id \in MemoryIDs,
         NEW embedding \in Models, RememberAllowed(d, input)
  PROVE  RememberPreparedInTx(d, input, id, embedding) \in DB
<1>1. CASE input.updates = Nil
  BY <1>1, RememberRootType DEF RememberPreparedInTx
<1>2. CASE input.updates # Nil
  <2>1. input.updates \in Stored(d)
    BY <1>2, InputType DEF RememberAllowed, ValidUpdateTarget, Stored
  <2>. QED  BY <1>2, <2>1, RememberUpdateType DEF RememberPreparedInTx
<1>. QED  BY <1>1, <1>2

\* What a forget writes about the memory itself.
LEMMA ForgetVersionType ==
  ASSUME NEW d \in DB, NEW id \in Stored(d)
  PROVE  ForgetVersion(d, id) \in DB
<1>. DEFINE marked == MarkForgotten(d, id)
            e == ForgetVersion(d, id)
<1>0. id \in MemoryIDs /\ d.memories[id] \in Memory
  BY StoredType
<1>1. e.memories \in [MemoryIDs -> Memory \cup {Nil}]
  <2>1. marked \in [MemoryIDs -> Memory \cup {Nil}]
    BY <1>0 DEF MarkForgotten, DB, Memory
  <2>2. \A m \in OrphanedBy(d, id) : marked[m] \in Memory
    BY ZenonT(40), <1>0, <2>1, StoredType
      DEF OrphanedBy, LiveIn, MarkForgotten, DB, Memory
  <2>3. \A m \in OrphanedBy(d, id) :
          [marked[m] EXCEPT !.hasOrphanedSources = TRUE] \in Memory
    BY <2>2 DEF Memory
  <2>. QED  BY <2>1, <2>3 DEF ForgetVersion, MarkOrphaned, DB
<1>2. e.auditLog \subseteq AuditEntry
  <2>1. Audited("forget", d.memories[id].spaceID, <<id>>) \in AuditEntry
    BY <1>0, AuditedType DEF Operations, Memory
  <2>. QED  BY <2>1 DEF ForgetVersion, DB
<1>3. e.forgetLog \subseteq MemoryIDs
  BY <1>0 DEF ForgetVersion, DB
<1>. QED  BY <1>1, <1>2, <1>3 DEF ForgetVersion, DB

\* A Forget whose checks passed.
LEMMA ForgetType ==
  ASSUME NEW d \in DB, NEW id \in Stored(d)
  PROVE  ForgetInTx(d, id) \in DB
<1>0. /\ id \in MemoryIDs
      /\ d.memories[id] \in Memory
      /\ RootOf(d, id) \in MemoryIDs
  BY StoredType
<1>1. \A e \in DB : DeactivateLineage(e, d.memories[id], id, RootOf(d, id)) \in DB
  <2>. SUFFICES ASSUME NEW e \in DB
       PROVE DeactivateLineage(e, d.memories[id], id, RootOf(d, id)) \in DB
    OBVIOUS
  <2>. DEFINE f == DeactivateLineage(e, d.memories[id], id, RootOf(d, id))
  <2>1. d.memories[id].spaceID \in Spaces /\ d.memories[id].kind \in Kinds
    BY <1>0 DEF Memory
  <2>2. f.latest \in [MemoryIDs -> MemoryIDs \cup {Nil}]
    BY <1>0 DEF DeactivateLineage, DB
  <2>3. f.spaces \subseteq Spaces \X MemoryIDs
    BY DEF DeactivateLineage, DB
  <2>4. f.spaceStats \in [Spaces -> [Kinds -> Int]]
    BY <2>1 DEF DeactivateLineage, DB
  <2>. QED  BY <2>2, <2>3, <2>4 DEF DeactivateLineage, DB
<1>. QED  BY <1>1, ForgetVersionType DEF ForgetInTx

\* A Revive that found its predecessor.
LEMMA ReviveType ==
  ASSUME NEW d \in DB, NEW root \in Stored(d), NEW pred \in Stored(d),
         NEW kind \in Kinds, NEW id \in MemoryIDs
  PROVE  ReviveLineage(d, root, pred, kind, id) \in DB
<1>. DEFINE e == ReviveLineage(d, root, pred, kind, id)
            space == d.memories[root].spaceID
<1>0. /\ root \in MemoryIDs /\ pred \in MemoryIDs
      /\ d.memories[root] \in Memory /\ d.memories[pred] \in Memory
      /\ space \in Spaces
  BY StoredType DEF Memory
<1>1. e.memories \in [MemoryIDs -> Memory \cup {Nil}]
  <2>1. RevivedMemory(d, root, pred, kind) \in Memory
    BY <1>0 DEF RevivedMemory, Memory
  <2>. QED  BY <2>1 DEF ReviveLineage, DB
<1>2. e.latest \in [MemoryIDs -> MemoryIDs \cup {Nil}]
  BY DEF ReviveLineage, DB
<1>3. e.spaces \subseteq Spaces \X MemoryIDs
  BY <1>0 DEF ReviveLineage, DB
<1>4. e.spaceStats \in [Spaces -> [Kinds -> Int]]
  BY <1>0 DEF ReviveLineage, DB
<1>5. e.auditLog \subseteq AuditEntry
  <2>1. Audited("revive", space, <<pred, id>>) \in AuditEntry
    BY <1>0, AuditedType DEF Operations
  <2>. QED  BY <2>1 DEF ReviveLineage, DB
<1>. QED  BY <1>1, <1>2, <1>3, <1>4, <1>5 DEF ReviveLineage, DB

\* The configuration of a space is written once.
LEMMA EnsureSpaceType ==
  ASSUME NEW d \in DB, NEW space \in Spaces, NEW model \in Models,
         NEW policy \in Policies
  PROVE  EnsureSpaceInTx(d, space, model, policy) \in DB
<1>. DEFINE cfg == [model |-> model, migrating |-> FALSE, target |-> Nil,
                    writePolicy |-> NormalizeSpaceWritePolicy(policy)]
<1>1. cfg \in SpaceConfig
  BY DEF SpaceConfig
<1>2. [k \in Kinds |-> 0] \in [Kinds -> Int]
  OBVIOUS
<1>. QED  BY <1>1, <1>2 DEF EnsureSpaceInTx, DB

\* The policy of a configured space is replaced.
LEMMA UpdateSpaceConfigType ==
  ASSUME NEW d \in DB, NEW space \in Spaces, NEW policy \in Policies,
         d.spacesConfig[space] # Nil
  PROVE  ApplyConfigInTx(d, space, policy) \in DB
<1>1. [d.spacesConfig[space] EXCEPT !.writePolicy = policy] \in SpaceConfig
  BY DEF SpaceConfig, DB
<1>. QED  BY <1>1 DEF ApplyConfigInTx, UpdateSpaceConfigInTx, DB

\* A migration locks its space.
LEMMA BeginMigrationType ==
  ASSUME NEW d \in DB, NEW space \in Spaces, NEW model \in Models,
         BeginMigrationAllowed(d, space, model)
  PROVE  BeginMigrationInTx(d, space, model) \in DB
<1>1. [d.spacesConfig[space] EXCEPT !.migrating = TRUE, !.target = model]
        \in SpaceConfig
  BY DEF BeginMigrationAllowed, SpaceConfig, DB
<1>2. MigrationAudited("migration_start", space, model) \in AuditEntry
  <2>1. << >> \in Seq(MemoryIDs)
    OBVIOUS
  <2>. QED  BY <2>1 DEF MigrationAudited, AuditEntry, Operations
<1>. QED  BY <1>1, <1>2 DEF BeginMigrationInTx, DB

\* A migration embeds the versions of its space again.
LEMMA MigrateType ==
  ASSUME NEW d \in DB, NEW space \in Spaces, NEW model \in Models,
         d.spacesConfig[space] # Nil
  PROVE  MigrateInTx(d, space, model) \in DB
<1>1. [d.spacesConfig[space] EXCEPT !.model = model, !.migrating = FALSE,
                                    !.target = Nil] \in SpaceConfig
  BY DEF SpaceConfig, DB
<1>2. MigrationAudited("migration_complete", space, model) \in AuditEntry
  <2>1. << >> \in Seq(MemoryIDs)
    OBVIOUS
  <2>. QED  BY <2>1 DEF MigrationAudited, AuditEntry, Operations
<1>3. \A id \in Embedded(d, space) :
        [d.memories[id] EXCEPT !.embedding = model] \in Memory
  BY StoredType DEF Embedded, Memory
<1>. QED  BY <1>1, <1>2, <1>3 DEF MigrateInTx, DB

-------------------------------------------------------------------------------
(* Type correctness. *)

\* The empty file.
LEMMA EmptyDBType == EmptyDB \in DB
<1>. [s \in Spaces |-> [k \in Kinds |-> 0]] \in [Spaces -> [Kinds -> Int]]
  OBVIOUS
<1>. QED  BY DEF EmptyDB, DB

\* A batch in progress works on a database.
LEMMA RunningType ==
  ASSUME TypeOK
  PROVE  /\ Running("remember") => /\ tx \in [op: {"remember"}, work: DB,
                                             size: Nat, left: Nat]
                                   /\ tx.work \in DB
         /\ Running("forget") => /\ tx \in [op: {"forget"}, work: DB,
                                           asked: SUBSET MemoryIDs,
                                           ids: SUBSET MemoryIDs]
                                 /\ tx.work \in DB
         /\ Running("revive") => tx \in ReviveTx
BY DEF TypeOK, Running, Idle, BatchTx, ReviveTx

\* A step of an operation that commits at once keeps the type.
LEMMA SingleStepType ==
  ASSUME TypeOK,
         \/ Remember \/ Forget \/ EnsureSpace \/ UpdateSpaceConfig
         \/ BeginEmbeddingMigration \/ MigrateEmbeddings
  PROVE  TypeOK'
<1>0. Stored(db) \in SUBSET MemoryIDs
  BY DEF Stored
<1>1. CASE Remember
  BY <1>0, <1>1, RememberType DEF Remember, TypeOK
<1>2. CASE Forget
  BY <1>2, ForgetType DEF Forget, TypeOK
<1>3. CASE EnsureSpace
  BY <1>3, EnsureSpaceType DEF EnsureSpace, TypeOK
<1>4. CASE UpdateSpaceConfig
  BY <1>4, UpdateSpaceConfigType DEF UpdateSpaceConfig, TypeOK
<1>5. CASE BeginEmbeddingMigration
  BY <1>5, BeginMigrationType DEF BeginEmbeddingMigration, TypeOK
<1>6. CASE MigrateEmbeddings
  BY <1>6, MigrateType DEF MigrateEmbeddings, TypeOK
<1>. QED  BY <1>1, <1>2, <1>3, <1>4, <1>5, <1>6

\* A step of a batch, from its begin to its end, keeps the type.
LEMMA BatchStepType ==
  ASSUME TypeOK,
         \/ RememberBatchBegin \/ RememberBatchItem \/ RememberBatchFail
         \/ RememberBatchCommit
         \/ ForgetBatchBegin \/ ForgetBatchItem \/ ForgetBatchFail
         \/ ForgetBatchCommit
  PROVE  TypeOK'
<1>. USE DEF TypeOK
<1>1. CASE RememberBatchBegin
  BY <1>1 DEF RememberBatchBegin, BatchTx
<1>2. CASE RememberBatchItem
  <2>1. PICK id \in MemoryIDs \ Stored(tx.work), input \in Inputs(Stored(db)),
             embedding \in Models :
          /\ RememberAllowed(tx.work, input)
          /\ tx' = [tx EXCEPT
               !.work = RememberPreparedInTx(tx.work, input, id, embedding),
               !.left = @ - 1]
    BY <1>2 DEF RememberBatchItem
  <2>2. RememberPreparedInTx(tx.work, input, id, embedding) \in DB
    <3>1. Stored(db) \in SUBSET MemoryIDs
      BY DEF Stored
    <3>2. tx.work \in DB
      BY <1>2, RunningType DEF RememberBatchItem
    <3>. QED  BY <2>1, <3>1, <3>2, RememberType
  <2>3. tx.left - 1 \in Nat
    <3>1. tx.left \in Nat /\ tx.left > 0
      BY <1>2, RunningType DEF RememberBatchItem
    <3>. QED  BY <3>1
  <2>4. tx' \in BatchTx
    BY <1>2, <2>1, <2>2, <2>3, RunningType DEF RememberBatchItem, BatchTx
  <2>. QED  BY <1>2, <2>4 DEF RememberBatchItem
<1>3. CASE RememberBatchFail
  BY <1>3 DEF RememberBatchFail, Rollback
<1>4. CASE RememberBatchCommit
  BY <1>4, RunningType DEF RememberBatchCommit, Commit
<1>5. CASE ForgetBatchBegin
  BY <1>5 DEF ForgetBatchBegin, AtMost, BatchTx
<1>6. CASE ForgetBatchItem
  <2>1. ForgetInTx(tx.work, NextForgotten) \in DB
    BY <1>6, RunningType, ForgetType DEF ForgetBatchItem, ForgetAllowed
  <2>2. tx' \in BatchTx
    BY <1>6, <2>1, RunningType DEF ForgetBatchItem, BatchTx
  <2>. QED  BY <1>6, <2>2 DEF ForgetBatchItem
<1>7. CASE ForgetBatchFail
  BY <1>7 DEF ForgetBatchFail, Rollback
<1>8. CASE ForgetBatchCommit
  BY <1>8, RunningType DEF ForgetBatchCommit, Commit
<1>. QED  BY <1>1, <1>2, <1>3, <1>4, <1>5, <1>6, <1>7, <1>8

\* The memory a Revive's cursor is at is stored.
LEMMA HereStored ==
  ASSUME Ahead # {}
  PROVE  Here \in Stored(db)
BY LeastKey, IDsAssumption DEF Here, Ahead, Stored

\* A step of a Revive keeps the type.
LEMMA ReviveStepType ==
  ASSUME TypeOK, ReviveChecked,
         ReviveBegin \/ ReviveSkip \/ ReviveSuperseded \/ ReviveCommit
           \/ ReviveMiss
  PROVE  TypeOK'
<1>. USE DEF TypeOK
<1>1. CASE ReviveBegin
  BY <1>1 DEF ReviveBegin, ReviveTx
<1>2. CASE ReviveSkip
  <2>1. Here \in MemoryIDs
    BY <1>2, HereStored DEF ReviveSkip, Stored
  <2>. QED  BY <1>2, <2>1, RunningType DEF ReviveSkip, ReviveTx
<1>3. CASE ReviveSuperseded
  <2>1. Min(Successors(db, Here)) \in MemoryIDs
    BY <1>3, LeastKey, IDsAssumption DEF ReviveSuperseded, Successors, Stored
  <2>. QED  BY <1>3, <2>1, RunningType DEF ReviveSuperseded, ReviveTx
<1>4. CASE ReviveCommit
  <2>1. Here \in Stored(db) /\ tx.rootID \in Stored(db) /\ tx.kind \in Kinds
    BY <1>4, HereStored, RunningType DEF ReviveCommit, ReviveChecked, ReviveTx
  <2>. QED  BY <1>4, <2>1, ReviveType DEF ReviveCommit
<1>5. CASE ReviveMiss
  BY <1>5 DEF ReviveMiss, Rollback
<1>. QED  BY <1>1, <1>2, <1>3, <1>4, <1>5

-------------------------------------------------------------------------------
(* Every operation keeps the heads of the lineages in agreement. *)

\* An operation that touches neither the lineages nor their heads.
LEMMA SameHeads ==
  ASSUME NEW d \in DB, NEW e \in DB, HeadsAgree(d),
         Stored(e) = Stored(d), e.latest = d.latest,
         \A id \in Stored(d) :
           /\ e.memories[id].rootID = d.memories[id].rootID
           /\ e.memories[id].isLatest <=> d.memories[id].isLatest
  PROVE  HeadsAgree(e)
<1>1. \A id \in Stored(d) : RootOf(e, id) = RootOf(d, id)
  BY DEF RootOf
<1>. QED
  BY <1>1 DEF HeadsAgree, RootsAreRoots, LiveMeansLatest, LatestInLineage

\* A memory that starts a lineage is its own head.
LEMMA RememberRootHeads ==
  ASSUME NEW d \in DB, HeadsAgree(d), NEW known \in SUBSET MemoryIDs,
         NEW input \in Inputs(known), NEW id \in MemoryIDs \ Stored(d),
         NEW embedding \in Models
  PROVE  HeadsAgree(RememberRoot(d, input, id, embedding))
<1>. DEFINE e == RememberRoot(d, input, id, embedding)
            new == NewMemory(input, 1, Nil, Nil, embedding)
<1>1. /\ e.memories = [d.memories EXCEPT ![id] = new]
      /\ e.latest = [d.latest EXCEPT ![id] = id]
  BY DEF RememberRoot, DB
<1>2. new \in Memory /\ new # Nil /\ new.rootID = Nil /\ new.isLatest
  BY NewMemoryType, NilAssumption DEF NewMemory
<1>3. Stored(e) = Stored(d) \cup {id}
  BY <1>1, <1>2 DEF Stored, DB
<1>4. /\ RootOf(e, id) = id
      /\ \A other \in Stored(d) : /\ e.memories[other] = d.memories[other]
                                  /\ RootOf(e, other) = RootOf(d, other)
                                  /\ RootOf(d, other) # id
  BY <1>1, <1>2 DEF RootOf, Stored, DB, HeadsAgree, RootsAreRoots
<1>5. RootsAreRoots(e)
  BY <1>1, <1>2, <1>3, <1>4 DEF HeadsAgree, RootsAreRoots, DB
<1>6. LiveMeansLatest(e)
  BY <1>1, <1>2, <1>3, <1>4, StoredType DEF HeadsAgree, LiveMeansLatest, DB
<1>7. LatestInLineage(e)
  BY <1>1, <1>3, <1>4 DEF HeadsAgree, LatestInLineage, DB
<1>. QED  BY <1>5, <1>6, <1>7 DEF HeadsAgree

\* An update takes the place of the head it names.
LEMMA RememberUpdateHeads ==
  ASSUME NEW d \in DB, HeadsAgree(d), NEW known \in SUBSET MemoryIDs,
         NEW input \in Inputs(known), NEW id \in MemoryIDs \ Stored(d),
         NEW embedding \in Models, input.updates \in Stored(d),
         d.memories[input.updates].isLatest
  PROVE  HeadsAgree(RememberUpdate(d, input, id, embedding))
<1>. DEFINE e == RememberUpdate(d, input, id, embedding)
            target == input.updates
            root == RootOf(d, target)
            new == NewMemory(input, d.memories[target].version + 1, target,
                             root, embedding)
<1>0. /\ target \in MemoryIDs /\ root \in Stored(d) /\ root \in MemoryIDs
      /\ d.memories[target] \in Memory /\ d.memories[root].rootID = Nil
      /\ d.latest[root] = target
  BY StoredType DEF HeadsAgree, RootsAreRoots, LiveMeansLatest
<1>1. /\ e.memories = [d.memories EXCEPT ![target].isLatest = FALSE,
                                         ![id] = new]
      /\ e.latest = [d.latest EXCEPT ![root] = id]
  BY DEF RememberUpdate, DB
<1>2. new \in Memory /\ new # Nil /\ new.rootID = root /\ new.isLatest
  <2>1. d.memories[target].version + 1 \in Nat
    BY <1>0 DEF Memory
  <2>. QED  BY <1>0, <2>1, NewMemoryType, NilAssumption DEF NewMemory
<1>3. /\ e.memories[id] = new
      /\ e.memories[target] \in Memory
      /\ e.memories[target].rootID = d.memories[target].rootID
      /\ ~e.memories[target].isLatest
      /\ \A other \in MemoryIDs \ {id, target} :
           e.memories[other] = d.memories[other]
  <2>1. id # target /\ d.memories \in [MemoryIDs -> Memory \cup {Nil}]
    BY DEF DB
  <2>2. e.memories[target] = [d.memories[target] EXCEPT !.isLatest = FALSE]
    <3>. DEFINE f == [d.memories EXCEPT ![target].isLatest = FALSE]
    <3>1. e.memories = [f EXCEPT ![id] = new]
      BY <1>1
    <3>2. f[target] = [d.memories[target] EXCEPT !.isLatest = FALSE]
      BY <1>0, <2>1
    <3>. QED  BY <1>0, <2>1, <3>1, <3>2
  <2>3. [d.memories[target] EXCEPT !.isLatest = FALSE] \in Memory
    BY <1>0 DEF Memory
  <2>4. /\ e.memories[target].rootID = d.memories[target].rootID
        /\ ~e.memories[target].isLatest
    BY <1>0, <2>2 DEF Memory
  <2>. QED  BY <1>0, <1>1, <2>1, <2>2, <2>3, <2>4
<1>4. Stored(e) = Stored(d) \cup {id}
  BY <1>0, <1>2, <1>3, NilAssumption DEF Stored
<1>5. \A other \in Stored(d) :
        /\ e.memories[other].rootID = d.memories[other].rootID
        /\ e.memories[other].isLatest
             <=> other # target /\ d.memories[other].isLatest
  BY <1>3, StoredType
<1>6. /\ RootOf(e, id) = root
      /\ e.memories[id] = new
      /\ \A other \in Stored(d) : RootOf(e, other) = RootOf(d, other)
  <2>1. e.memories[id] = new
    BY <1>3
  <2>2. RootOf(e, id) = root
    BY <1>0, <1>2, <2>1, NilAssumption DEF RootOf
  <2>3. \A other \in Stored(d) : RootOf(e, other) = RootOf(d, other)
    BY <1>5 DEF RootOf
  <2>. QED  BY <2>1, <2>2, <2>3
<1>7. RootsAreRoots(e)
  BY <1>0, <1>4, <1>5, <1>6 DEF HeadsAgree, RootsAreRoots
<1>8. LiveMeansLatest(e)
  <2>1. e.memories[id].isLatest /\ e.latest[RootOf(e, id)] = id
    BY <1>0, <1>1, <1>2, <1>6 DEF DB
  <2>2. ASSUME NEW other \in Stored(d)
        PROVE  e.memories[other].isLatest <=> e.latest[RootOf(e, other)] = other
    <3>1. d.memories[other].isLatest <=> d.latest[RootOf(d, other)] = other
      BY DEF HeadsAgree, LiveMeansLatest
    <3>2. RootOf(d, other) \in MemoryIDs /\ other # id
      BY StoredType
    <3>3. e.latest[RootOf(d, other)] =
            IF RootOf(d, other) = root THEN id ELSE d.latest[RootOf(d, other)]
      BY <1>0, <1>1, <3>2 DEF DB
    <3>. QED  BY <1>0, <1>5, <1>6, <3>1, <3>2, <3>3
  <2>. QED  BY <1>4, <2>1, <2>2 DEF LiveMeansLatest
<1>9. LatestInLineage(e)
  BY <1>0, <1>1, <1>4, <1>6 DEF HeadsAgree, LatestInLineage, DB
<1>. QED  BY <1>7, <1>8, <1>9 DEF HeadsAgree

\* A Remember whose checks passed.
LEMMA RememberHeads ==
  ASSUME NEW d \in DB, HeadsAgree(d), NEW known \in SUBSET MemoryIDs,
         NEW input \in Inputs(known), NEW id \in MemoryIDs \ Stored(d),
         NEW embedding \in Models, RememberAllowed(d, input)
  PROVE  HeadsAgree(RememberPreparedInTx(d, input, id, embedding))
<1>1. CASE input.updates = Nil
  BY <1>1, RememberRootHeads DEF RememberPreparedInTx
<1>2. CASE input.updates # Nil
  <2>1. /\ input.updates \in Stored(d)
        /\ d.memories[input.updates].isLatest
    BY <1>2, InputType DEF RememberAllowed, ValidUpdateTarget, Stored
  <2>. QED  BY <1>2, <2>1, RememberUpdateHeads DEF RememberPreparedInTx
<1>. QED  BY <1>1, <1>2

\* What a forget does to the memories: the one forgotten is no longer live,
\* and nothing else of a lineage changes.
LEMMA ForgetVersionMemories ==
  ASSUME NEW d \in DB, NEW id \in Stored(d)
  PROVE  LET e == ForgetVersion(d, id)
         IN  /\ Stored(e) = Stored(d)
             /\ e.latest = d.latest
             /\ \A m \in Stored(d) :
                  /\ e.memories[m].rootID = d.memories[m].rootID
                  /\ e.memories[m].isLatest
                       <=> m # id /\ d.memories[m].isLatest
<1>. DEFINE marked == MarkForgotten(d, id)
            e == ForgetVersion(d, id)
<1>0. id \in MemoryIDs /\ d.memories[id] \in Memory
  BY StoredType
<1>1. /\ e.latest = d.latest
      /\ e.memories = MarkOrphaned(d, marked, id)
  BY DEF ForgetVersion, DB
<1>2. \A m \in Stored(d) :
        /\ marked[m] \in Memory
        /\ marked[m].rootID = d.memories[m].rootID
        /\ marked[m].isLatest <=> m # id /\ d.memories[m].isLatest
  <2>1. \A m \in Stored(d) : m # id => marked[m] = d.memories[m]
    BY StoredType DEF MarkForgotten, DB
  <2>2. marked[id] = [d.memories[id] EXCEPT !.isForgotten = TRUE, !.isLatest = FALSE]
    BY <1>0 DEF MarkForgotten, DB
  <2>. HIDE DEF marked
  <2>3. /\ marked[id] \in Memory
        /\ marked[id].rootID = d.memories[id].rootID
        /\ ~marked[id].isLatest
    BY <1>0, <2>2 DEF Memory
  <2>. QED  BY <2>1, <2>3, StoredType
<1>3. \A m \in Stored(d) :
        /\ e.memories[m] \in Memory
        /\ e.memories[m].rootID = marked[m].rootID
        /\ e.memories[m].isLatest = marked[m].isLatest
  <2>1. \A mem \in Memory :
          LET flagged == [mem EXCEPT !.hasOrphanedSources = TRUE]
          IN  /\ flagged \in Memory
              /\ flagged.rootID = mem.rootID
              /\ flagged.isLatest = mem.isLatest
    BY DEF Memory
  <2>2. \A m \in Stored(d) :
          e.memories[m] \in
            {marked[m], [marked[m] EXCEPT !.hasOrphanedSources = TRUE]}
    BY <1>1, StoredType DEF MarkOrphaned
  <2>. QED  BY <1>2, <2>1, <2>2
<1>4. \A m \in MemoryIDs \ Stored(d) : e.memories[m] = Nil
  BY <1>0, <1>1 DEF MarkOrphaned, MarkForgotten, OrphanedBy, LiveIn, Stored, DB
<1>5. Stored(e) = Stored(d)
  BY <1>3, <1>4, NilAssumption DEF Stored
<1>. QED  BY <1>1, <1>2, <1>3, <1>5

\* A forget of the live version takes the head away, another one leaves it.
LEMMA ForgetHeads ==
  ASSUME NEW d \in DB, HeadsAgree(d), NEW id \in Stored(d)
  PROVE  HeadsAgree(ForgetInTx(d, id))
<1>. DEFINE v == ForgetVersion(d, id)
            root == RootOf(d, id)
<1>0. /\ id \in MemoryIDs /\ d.memories[id] \in Memory
      /\ root \in MemoryIDs /\ v \in DB
  BY StoredType, ForgetVersionType
<1>1. CASE d.memories[id].isForgotten
  BY <1>1 DEF ForgetInTx
<1>2. CASE ~d.memories[id].isForgotten /\ ~d.memories[id].isLatest
  <2>1. \A m \in Stored(d) : v.memories[m].isLatest <=> d.memories[m].isLatest
    BY <1>2, ForgetVersionMemories
  <2>2. HeadsAgree(v)
    BY <1>0, <2>1, ForgetVersionMemories, SameHeads
  <2>. QED  BY <1>2, <2>2 DEF ForgetInTx
<1>3. CASE ~d.memories[id].isForgotten /\ d.memories[id].isLatest
  <2>. DEFINE e == DeactivateLineage(v, d.memories[id], id, root)
  <2>1. /\ e.memories = v.memories
        /\ e.latest = [d.latest EXCEPT ![root] = Nil]
    BY <1>0, ForgetVersionMemories DEF DeactivateLineage, DB
  <2>2. /\ Stored(e) = Stored(d)
        /\ \A m \in Stored(d) : /\ e.memories[m].rootID = d.memories[m].rootID
                                /\ RootOf(e, m) = RootOf(d, m)
    <3>1. Stored(e) = Stored(v)
      BY <2>1 DEF Stored
    <3>2. \A m \in Stored(d) : e.memories[m].rootID = d.memories[m].rootID
      BY <2>1, ForgetVersionMemories
    <3>. QED  BY <3>1, <3>2, ForgetVersionMemories DEF RootOf
  <2>3. d.latest[root] = id
    BY <1>3 DEF HeadsAgree, LiveMeansLatest
  <2>4. RootsAreRoots(e)
    BY <2>2 DEF HeadsAgree, RootsAreRoots
  <2>5. LiveMeansLatest(e)
    <3>. SUFFICES ASSUME NEW m \in Stored(d)
         PROVE  e.memories[m].isLatest <=> e.latest[RootOf(e, m)] = m
      BY <2>2 DEF LiveMeansLatest
    <3>1. e.memories[m].isLatest <=> m # id /\ d.memories[m].isLatest
      BY <2>1, ForgetVersionMemories
    <3>2. d.memories[m].isLatest <=> d.latest[RootOf(d, m)] = m
      BY DEF HeadsAgree, LiveMeansLatest
    <3>3. e.latest[RootOf(d, m)] =
            IF RootOf(d, m) = root THEN Nil ELSE d.latest[RootOf(d, m)]
      BY <2>1, StoredType DEF DB
    <3>4. m # Nil
      BY StoredType, NilAssumption
    <3>. QED  BY <2>2, <2>3, <3>1, <3>2, <3>3, <3>4
  <2>6. LatestInLineage(e)
    BY <1>0, <2>1, <2>2 DEF HeadsAgree, LatestInLineage, DB
  <2>. QED  BY <1>3, <2>4, <2>5, <2>6 DEF ForgetInTx, HeadsAgree
<1>. QED  BY <1>1, <1>2, <1>3

\* A revived lineage gets its new version as its head.
LEMMA ReviveHeads ==
  ASSUME NEW d \in DB, HeadsAgree(d), NEW root \in Stored(d),
         NEW pred \in ForgottenVersions(d, root), NEW kind \in Kinds,
         NEW id \in MemoryIDs \ Stored(d), d.latest[root] = Nil
  PROVE  HeadsAgree(ReviveLineage(d, root, pred, kind, id))
<1>. DEFINE e == ReviveLineage(d, root, pred, kind, id)
            new == RevivedMemory(d, root, pred, kind)
<1>0. /\ pred \in Stored(d) /\ root \in MemoryIDs
      /\ d.memories[root].rootID = Nil
  BY StoredType DEF ForgottenVersions, HeadsAgree, RootsAreRoots
<1>1. /\ e.memories = [d.memories EXCEPT ![id] = new]
      /\ e.latest = [d.latest EXCEPT ![root] = id]
  BY DEF ReviveLineage, DB
<1>2. new \in Memory /\ new # Nil /\ new.rootID = root /\ new.isLatest
  <2>1. new \in Memory
    BY <1>0, StoredType DEF RevivedMemory, Memory
  <2>. QED  BY <2>1, NilAssumption DEF RevivedMemory
<1>3. Stored(e) = Stored(d) \cup {id}
  BY <1>1, <1>2 DEF Stored, DB
<1>4. /\ RootOf(e, id) = root
      /\ \A other \in Stored(d) : /\ e.memories[other] = d.memories[other]
                                  /\ RootOf(e, other) = RootOf(d, other)
  BY <1>0, <1>1, <1>2, NilAssumption DEF RootOf, Stored, DB
<1>5. RootsAreRoots(e)
  BY <1>0, <1>3, <1>4 DEF HeadsAgree, RootsAreRoots
<1>6. LiveMeansLatest(e)
  BY <1>0, <1>1, <1>2, <1>3, <1>4, StoredType, NilAssumption
    DEF HeadsAgree, LiveMeansLatest, DB
<1>7. LatestInLineage(e)
  BY <1>0, <1>1, <1>3, <1>4 DEF HeadsAgree, LatestInLineage, DB
<1>. QED  BY <1>5, <1>6, <1>7 DEF HeadsAgree

-------------------------------------------------------------------------------
(* Spaces and migrations leave the heads alone. *)

\* Embedding a memory again changes nothing else of it.
LEMMA MigrateHeads ==
  ASSUME NEW d \in DB, HeadsAgree(d), NEW space \in Spaces,
         NEW model \in Models, d.spacesConfig[space] # Nil
  PROVE  HeadsAgree(MigrateInTx(d, space, model))
<1>. DEFINE e == MigrateInTx(d, space, model)
<1>1. e \in DB /\ e.latest = d.latest
  <2>1. e \in DB
    BY MigrateType
  <2>2. e.latest = d.latest
    BY DEF MigrateInTx, DB
  <2>. QED  BY <2>1, <2>2
<1>2. \A m \in MemoryIDs :
        e.memories[m] = IF m \in Embedded(d, space)
                        THEN [d.memories[m] EXCEPT !.embedding = model]
                        ELSE d.memories[m]
  BY DEF MigrateInTx, DB
<1>3. \A mem \in Memory :
        LET embedded == [mem EXCEPT !.embedding = model]
        IN  /\ embedded \in Memory
            /\ embedded.rootID = mem.rootID
            /\ embedded.isLatest = mem.isLatest
  BY DEF Memory
<1>4. \A m \in Stored(d) :
        /\ e.memories[m] \in Memory
        /\ e.memories[m].rootID = d.memories[m].rootID
        /\ e.memories[m].isLatest <=> d.memories[m].isLatest
  BY ZenonT(40), <1>2, <1>3, StoredType
<1>5. Stored(e) = Stored(d)
  BY <1>2, <1>4, NilAssumption DEF Stored, Embedded
<1>. QED  BY <1>1, <1>4, <1>5, SameHeads

\* The operations on the configuration of a space change no memory.
LEMMA ConfigHeads ==
  ASSUME NEW d \in DB, HeadsAgree(d), NEW space \in Spaces,
         NEW model \in Models, NEW policy \in Policies
  PROVE  /\ HeadsAgree(EnsureSpaceInTx(d, space, model, policy))
         /\ d.spacesConfig[space] # Nil =>
              HeadsAgree(ApplyConfigInTx(d, space, policy))
         /\ BeginMigrationAllowed(d, space, model) =>
              HeadsAgree(BeginMigrationInTx(d, space, model))
<1>1. \A e \in DB : e.memories = d.memories /\ e.latest = d.latest =>
        HeadsAgree(e)
  BY SameHeads DEF Stored
<1>2. HeadsAgree(EnsureSpaceInTx(d, space, model, policy))
  BY <1>1, EnsureSpaceType DEF EnsureSpaceInTx, DB
<1>3. ASSUME d.spacesConfig[space] # Nil
      PROVE  HeadsAgree(ApplyConfigInTx(d, space, policy))
  BY <1>1, <1>3, UpdateSpaceConfigType DEF ApplyConfigInTx, UpdateSpaceConfigInTx, DB
<1>4. ASSUME BeginMigrationAllowed(d, space, model)
      PROVE  HeadsAgree(BeginMigrationInTx(d, space, model))
  BY ZenonT(40), <1>1, <1>4, BeginMigrationType DEF BeginMigrationInTx, DB
<1>. QED  BY <1>2, <1>3, <1>4

\* The empty file has no lineage.
LEMMA EmptyHeads == HeadsAgree(EmptyDB)
BY DEF HeadsAgree, RootsAreRoots, LiveMeansLatest, LatestInLineage, Stored,
       EmptyDB

-------------------------------------------------------------------------------
(* The invariant is inductive. *)

\* The first state.
LEMMA InitIInv == Init => IInv
BY EmptyDBType, EmptyHeads
  DEF Init, IInv, TypeOK, ReviveChecked, BatchAgrees, Running, Idle

\* An operation that commits at once.
LEMMA SingleStepIInv ==
  ASSUME IInv,
         \/ Remember \/ Forget \/ EnsureSpace \/ UpdateSpaceConfig
         \/ BeginEmbeddingMigration \/ MigrateEmbeddings
  PROVE  IInv'
<1>1. TypeOK'
  BY SingleStepType DEF IInv
<1>2. tx = Nil /\ tx' = Nil
  BY DEF Remember, Forget, EnsureSpace, UpdateSpaceConfig,
         BeginEmbeddingMigration, MigrateEmbeddings, Idle
<1>3. ReviveChecked' /\ BatchAgrees'
  BY <1>2 DEF ReviveChecked, BatchAgrees, Running, Idle
<1>4. HeadsAgree(db)'
  <2>. db \in DB /\ HeadsAgree(db) /\ Stored(db) \in SUBSET MemoryIDs
    BY DEF IInv, TypeOK, Stored
  <2>1. CASE Remember
    BY <2>1, RememberHeads DEF Remember
  <2>2. CASE Forget
    BY <2>2, ForgetHeads DEF Forget
  <2>3. CASE EnsureSpace
    BY <2>3, ConfigHeads DEF EnsureSpace
  <2>4. CASE UpdateSpaceConfig
    <3>1. PICK space \in Spaces, policy \in Policies :
            /\ db.spacesConfig[space] # Nil
            /\ db' = ApplyConfigInTx(db, space, policy)
      BY <2>4 DEF UpdateSpaceConfig
    <3>2. PICK model \in Models : TRUE
      BY <3>1 DEF DB, SpaceConfig
    <3>. QED  BY <3>1, <3>2, ConfigHeads
  <2>5. CASE BeginEmbeddingMigration
    <3>1. PICK space \in Spaces, model \in Models :
            /\ BeginMigrationAllowed(db, space, model)
            /\ db' = BeginMigrationInTx(db, space, model)
      BY <2>5 DEF BeginEmbeddingMigration
    <3>2. PICK policy \in Policies : TRUE
      BY <3>1 DEF BeginMigrationAllowed, DB, SpaceConfig
    <3>. QED  BY <3>1, <3>2, ConfigHeads
  <2>6. CASE MigrateEmbeddings
    BY <2>6, MigrateHeads DEF MigrateEmbeddings
  <2>. QED  BY <2>1, <2>2, <2>3, <2>4, <2>5, <2>6
<1>. QED  BY <1>1, <1>3, <1>4 DEF IInv

\* A step of a batch.
LEMMA BatchStepIInv ==
  ASSUME IInv,
         \/ RememberBatchBegin \/ RememberBatchItem \/ RememberBatchFail
         \/ RememberBatchCommit
         \/ ForgetBatchBegin \/ ForgetBatchItem \/ ForgetBatchFail
         \/ ForgetBatchCommit
  PROVE  IInv'
<1>0. TypeOK /\ TypeOK' /\ HeadsAgree(db) /\ BatchAgrees
  BY BatchStepType DEF IInv
<1>1. CASE RememberBatchBegin \/ ForgetBatchBegin
  <2>1. db' = db /\ tx'.work = db /\ tx'.op # "revive"
    BY <1>1 DEF RememberBatchBegin, ForgetBatchBegin
  <2>2. ReviveChecked' /\ BatchAgrees'
    BY <1>0, <2>1 DEF ReviveChecked, BatchAgrees, Running
  <2>. QED  BY <1>0, <2>1, <2>2 DEF IInv
<1>2. CASE RememberBatchItem
  <2>1. PICK id \in MemoryIDs \ Stored(tx.work), input \in Inputs(Stored(db)),
             embedding \in Models :
          /\ RememberAllowed(tx.work, input)
          /\ tx' = [tx EXCEPT
               !.work = RememberPreparedInTx(tx.work, input, id, embedding),
               !.left = @ - 1]
    BY <1>2 DEF RememberBatchItem
  <2>2. /\ tx \in [op: {"remember"}, work: DB,
                                             size: Nat, left: Nat]
        /\ tx.work \in DB /\ HeadsAgree(tx.work) /\ db' = db
    BY <1>0, <1>2, RunningType DEF RememberBatchItem, BatchAgrees
  <2>3. /\ tx'.work = RememberPreparedInTx(tx.work, input, id, embedding)
        /\ tx'.op = "remember"
    BY <2>1, <2>2
  <2>4. HeadsAgree(tx'.work)
    <3>1. Stored(db) \in SUBSET MemoryIDs
      BY DEF Stored
    <3>. QED  BY <2>1, <2>2, <2>3, <3>1, RememberHeads
  <2>5. ReviveChecked' /\ BatchAgrees'
    BY <2>3, <2>4 DEF ReviveChecked, BatchAgrees, Running
  <2>. QED  BY <1>0, <2>2, <2>5 DEF IInv
<1>3. CASE ForgetBatchItem
  <2>1. /\ tx \in [op: {"forget"}, work: DB,
                                           asked: SUBSET MemoryIDs,
                                           ids: SUBSET MemoryIDs]
        /\ tx.work \in DB /\ HeadsAgree(tx.work) /\ db' = db
        /\ NextForgotten \in Stored(tx.work)
    BY <1>0, <1>3, RunningType DEF ForgetBatchItem, BatchAgrees, ForgetAllowed
  <2>2. tx'.work = ForgetInTx(tx.work, NextForgotten) /\ tx'.op = "forget"
    BY <1>3, <2>1 DEF ForgetBatchItem
  <2>3. HeadsAgree(tx'.work)
    BY <2>1, <2>2, ForgetHeads
  <2>4. ReviveChecked' /\ BatchAgrees'
    BY <2>2, <2>3 DEF ReviveChecked, BatchAgrees, Running
  <2>. QED  BY <1>0, <2>1, <2>4 DEF IInv
<1>4. CASE RememberBatchFail \/ ForgetBatchFail
  <2>1. db' = db /\ tx' = Nil
    BY <1>4 DEF RememberBatchFail, ForgetBatchFail, Rollback
  <2>. QED
    BY <1>0, <2>1 DEF IInv, ReviveChecked, BatchAgrees, Running, Idle
<1>5. CASE RememberBatchCommit \/ ForgetBatchCommit
  <2>1. db' = tx.work /\ tx' = Nil
    BY <1>5 DEF RememberBatchCommit, ForgetBatchCommit, Commit
  <2>2. HeadsAgree(db')
    BY <1>0, <1>5, <2>1 DEF RememberBatchCommit, ForgetBatchCommit, BatchAgrees
  <2>. QED
    BY <1>0, <2>1, <2>2 DEF IInv, ReviveChecked, BatchAgrees, Running, Idle
<1>. QED  BY <1>1, <1>2, <1>3, <1>4, <1>5

\* A step of a Revive.
LEMMA ReviveStepIInv ==
  ASSUME IInv,
         ReviveBegin \/ ReviveSkip \/ ReviveSuperseded \/ ReviveCommit
           \/ ReviveMiss
  PROVE  IInv'
<1>0. TypeOK /\ TypeOK' /\ HeadsAgree(db) /\ ReviveChecked
  BY ReviveStepType DEF IInv
<1>1. CASE ReviveBegin
  <2>1. /\ db' = db /\ tx'.op = "revive"
        /\ tx'.rootID \in Stored(db) /\ db.latest[tx'.rootID] = Nil
        /\ tx'.kind = db.memories[tx'.rootID].kind /\ tx'.kind # "derived"
        /\ SpaceWritable(db, db.memories[tx'.rootID].spaceID)
    <3>1. db' = db
      BY <1>1 DEF ReviveBegin
    <3>2. PICK root \in MemoryIDs, actor \in Actors, kind \in Kinds :
            /\ ReviveAllowed(db, root, actor, kind)
            /\ tx' = [op |-> "revive", rootID |-> root, kind |-> kind,
                      cursor |-> Nil]
      BY <1>1 DEF ReviveBegin
    <3>3. tx'.op = "revive" /\ tx'.rootID = root /\ tx'.kind = kind
      BY <3>2
    <3>. QED  BY <3>1, <3>2, <3>3 DEF ReviveAllowed
  <2>2. ReviveChecked' /\ BatchAgrees'
    BY <2>1 DEF ReviveChecked, BatchAgrees, Running
  <2>. QED  BY <1>0, <2>1, <2>2 DEF IInv
<1>2. CASE ReviveSkip \/ ReviveSuperseded
  <2>1. /\ db' = db /\ tx \in ReviveTx
        /\ Running("revive")
    BY <1>0, <1>2, RunningType DEF ReviveSkip, ReviveSuperseded
  <2>2. tx'.op = "revive" /\ tx'.rootID = tx.rootID /\ tx'.kind = tx.kind
    BY <1>2, <2>1 DEF ReviveSkip, ReviveSuperseded, ReviveTx
  <2>3. ReviveChecked' /\ BatchAgrees'
    BY <1>0, <2>1, <2>2 DEF ReviveChecked, BatchAgrees, Running
  <2>. QED  BY <1>0, <2>1, <2>3 DEF IInv
<1>3. CASE ReviveCommit
  <2>1. PICK id \in MemoryIDs \ Stored(db) :
          db' = ReviveLineage(db, tx.rootID, Here, tx.kind, id)
    BY <1>3 DEF ReviveCommit
  <2>2. HeadsAgree(db')
    <3>1. /\ Here \in ForgottenVersions(db, tx.rootID)
          /\ tx.rootID \in Stored(db) /\ db.latest[tx.rootID] = Nil
          /\ tx.kind \in Kinds /\ db \in DB
      BY <1>0, <1>3, RunningType
        DEF ReviveCommit, ReviveChecked, ReviveTx, TypeOK
    <3>. QED  BY <1>0, <2>1, <3>1, ReviveHeads
  <2>. QED
    BY <1>0, <1>3, <2>2
      DEF IInv, ReviveCommit, ReviveChecked, BatchAgrees, Running, Idle
<1>4. CASE ReviveMiss
  <2>1. db' = db /\ tx' = Nil
    BY <1>4 DEF ReviveMiss, Rollback
  <2>. QED
    BY <1>0, <2>1 DEF IInv, ReviveChecked, BatchAgrees, Running, Idle
<1>. QED  BY <1>1, <1>2, <1>3, <1>4

\* Every step.
LEMMA NextIInv == IInv /\ [Next]_vars => IInv'
<1>. SUFFICES ASSUME IInv, [Next]_vars
     PROVE  IInv'
  OBVIOUS
<1>1. CASE Crash
  <2>1. db' = db /\ tx' = Nil
    BY <1>1 DEF Crash, Rollback
  <2>. QED
    BY <2>1 DEF IInv, TypeOK, ReviveChecked, BatchAgrees, Running, Idle
<1>2. CASE UNCHANGED vars
  <2>1. db' = db /\ tx' = tx
    BY <1>2 DEF vars
  <2>. QED
    BY <2>1 DEF IInv, TypeOK, ReviveChecked, BatchAgrees, Running, Idle
<1>. QED
  BY <1>1, <1>2, SingleStepIInv, BatchStepIInv, ReviveStepIInv DEF Next, TxStep

\* A latest bucket that agrees with the memories names the one live version of
\* each lineage.
LEMMA IInvExclusive == IInv => LatestExclusive
<1>. SUFFICES ASSUME IInv, NEW root \in MemoryIDs
     PROVE  {id \in Versions(db, root) : db.memories[id].isLatest}
              = {db.latest[root]} \ {Nil}
  BY DEF LatestExclusive
<1>1. \A id \in Versions(db, root) :
        db.memories[id].isLatest <=> id = db.latest[root]
  BY DEF Versions, IInv, HeadsAgree, LiveMeansLatest
<1>2. \A id \in Versions(db, root) : id # Nil
  BY NilAssumption DEF Versions, Stored
<1>3. db.latest[root] # Nil => db.latest[root] \in Versions(db, root)
  BY DEF Versions, IInv, HeadsAgree, LatestInLineage
<1>. QED  BY <1>1, <1>2, <1>3

\* The database and the transaction in progress always have their types: no
\* sequence of operations, batches, scans of a Revive and crashes writes a
\* record of the wrong shape or a version that is no number, or lets a cursor
\* leave the keys.
THEOREM TypeCorrect == Spec => []TypeOK
<1>1. IInv => TypeOK
  BY DEF IInv
<1>. QED  BY <1>1, InitIInv, NextIInv, PTL DEF Spec

\* Of each lineage at most one version is live, and the latest bucket names it,
\* in every state of every store: an update supersedes the live version only, a
\* forget of the live one empties the bucket, and a Revive fills only an empty
\* one (rememberPreparedInTx, forgetInTx, Revive).
THEOREM LatestIsExclusive == Spec => []LatestExclusive
BY InitIInv, NextIInv, IInvExclusive, PTL DEF Spec

-------------------------------------------------------------------------------
(* The scan of a Revive. *)

\* If the end of the lineage comes before its other forgotten versions, the
\* cursor has not passed it.
ScanFindsTail ==
  Running("revive") /\ TailFirst(tx.rootID) =>
    Min(ForgottenVersions(db, tx.rootID)) \in Ahead

\* The tail is ahead of the cursor until the scan meets it.
LEMMA NextScanFindsTail ==
  ASSUME IInv, ScanFindsTail, [Next]_vars
  PROVE  ScanFindsTail'
<1>. SUFFICES ASSUME Running("revive")', TailFirst(tx.rootID)'
     PROVE  Min(ForgottenVersions(db, tx.rootID))' \in Ahead'
  BY DEF ScanFindsTail
<1>. DEFINE tail == Min(ForgottenVersions(db, tx.rootID))
<1>1. CASE ReviveBegin
  <2>1. db' = db /\ tx'.cursor = Nil
    BY <1>1 DEF ReviveBegin
  <2>2. tail' \in Stored(db')
    <3>1. /\ ForgottenVersions(db', tx'.rootID) # {}
          /\ ForgottenVersions(db', tx'.rootID) \subseteq Nat
          /\ ForgottenVersions(db', tx'.rootID) \subseteq Stored(db')
      BY IDsAssumption DEF TailFirst, ForgottenVersions, Stored
    <3>. QED  BY <3>1, LeastKey
  <2>. QED  BY <2>1, <2>2 DEF Ahead
<1>2. CASE ReviveSkip \/ ReviveSuperseded
  <2>1. /\ db' = db /\ tx'.rootID = tx.rootID /\ Running("revive")
        /\ Ahead # {}
    BY <1>2, RunningType DEF ReviveSkip, ReviveSuperseded, ReviveTx, IInv
  <2>2. TailFirst(tx.rootID) /\ tail \in Ahead
    BY <2>1 DEF ScanFindsTail, TailFirst
  <2>3. Ahead \subseteq Nat /\ ForgottenVersions(db, tx.rootID) \subseteq Nat
    BY IDsAssumption DEF Ahead, ForgottenVersions, Stored
  <2>4. Here \in Ahead /\ Here =< tail
    BY <2>2, <2>3, LeastKey DEF Here
  <2>5. CASE ReviveSkip
    <3>1. Here \notin ForgottenVersions(db, tx.rootID) /\ tx'.cursor = Here
      BY <2>5, RunningType, <2>1 DEF ReviveSkip, ReviveTx, IInv
    <3>2. tail \in ForgottenVersions(db, tx.rootID)
      BY <2>2, <2>3, LeastKey DEF TailFirst
    <3>3. Here < tail
      BY <2>2, <2>3, <2>4, <3>1, <3>2
    <3>4. tail' = tail
      BY <2>1
    <3>. QED  BY <2>1, <2>2, <3>1, <3>3, <3>4 DEF Ahead
  <2>6. CASE ReviveSuperseded
    <3>1. Here \in ForgottenVersions(db, tx.rootID) /\ Successors(db, Here) # {}
      BY <2>6 DEF ReviveSuperseded
    <3>2. tail =< Here
      BY <2>3, <3>1, LeastKey
    <3>3. tail = Here
      <4>1. tail \in Nat /\ Here \in Nat
        BY <2>2, <2>3, <2>4
      <4>. HIDE DEF tail
      <4>. QED  BY <2>4, <3>2, <4>1
    <3>. QED  BY <2>2, <3>1, <3>3 DEF TailFirst
  <2>. QED  BY <1>2, <2>5, <2>6
<1>3. CASE UNCHANGED vars
  BY <1>3 DEF vars, ScanFindsTail, Running, Idle, TailFirst, Ahead
<1>4. CASE RememberBatchItem \/ ForgetBatchItem
  <2>1. tx'.op # "revive"
    BY <1>4, RunningType DEF RememberBatchItem, ForgetBatchItem, IInv, Running
  <2>. QED  BY <2>1 DEF Running
<1>5. ASSUME tx' = Nil PROVE FALSE
  BY <1>5 DEF Running, Idle
<1>6. ASSUME RememberBatchBegin \/ ForgetBatchBegin PROVE FALSE
  BY <1>6 DEF Running, RememberBatchBegin, ForgetBatchBegin
<1>7. CASE Remember \/ Forget \/ EnsureSpace \/ UpdateSpaceConfig
             \/ BeginEmbeddingMigration \/ MigrateEmbeddings
  <2>1. tx' = Nil
    BY <1>7 DEF Remember, Forget, EnsureSpace, UpdateSpaceConfig,
                BeginEmbeddingMigration, MigrateEmbeddings, Idle
  <2>. QED  BY <1>5, <2>1
<1>8. CASE RememberBatchFail \/ RememberBatchCommit \/ ForgetBatchFail
             \/ ForgetBatchCommit \/ ReviveCommit \/ ReviveMiss \/ Crash
  <2>1. tx' = Nil
    BY <1>8 DEF RememberBatchFail, RememberBatchCommit, ForgetBatchFail,
                ForgetBatchCommit, ReviveCommit, ReviveMiss, Crash, Commit, Rollback
  <2>. QED  BY <1>5, <2>1
<1>. QED
  BY <1>1, <1>2, <1>3, <1>4, <1>6, <1>7, <1>8 DEF Next, TxStep

\* A Revive finds no predecessor only if the key of a forgotten version inside
\* the lineage precedes the key of its end, whatever keys other lineages have
\* between (loadForgottenLatestForRoot).
THEOREM ReviveFindsTail == Spec => ReviveMissesOnlyPastInnerVersion
<1>1. Init => IInv /\ ScanFindsTail
  <2>1. Init => ScanFindsTail
    BY DEF Init, ScanFindsTail, Running, Idle
  <2>. QED  BY <2>1, InitIInv
<1>2. IInv /\ ScanFindsTail /\ [Next]_vars => (IInv /\ ScanFindsTail)'
  BY NextIInv, NextScanFindsTail
<1>3. IInv /\ ScanFindsTail => [ReviveMiss => ~TailFirst(tx.rootID)]_vars
  BY DEF ScanFindsTail, ReviveMiss
<1>. QED
  BY <1>1, <1>2, <1>3, PTL DEF Spec, ReviveMissesOnlyPastInnerVersion

-------------------------------------------------------------------------------
(***************************************************************************)
(* History is never rewritten: what was committed as a version of a        *)
(* lineage keeps its identity through every operation, batch, Revive,      *)
(* migration and crash.                                                    *)
(*                                                                         *)
(* A batch replaces the whole committed database by the copy it worked on, *)
(* so the invariant says of that copy that it still keeps what is          *)
(* committed: no other writer has moved on meanwhile.                      *)
(***************************************************************************)

\* The copy a batch works on keeps the committed history.
WorkKeepsHistory ==
  Running("remember") \/ Running("forget") => KeepsHistory(db, tx.work)

HInv == IInv /\ WorkKeepsHistory

-------------------------------------------------------------------------------
(* Keeping the history is a preorder, and every operation goes up in it. *)

\* A database that is not written keeps its history.
LEMMA KeepsReflexive ==
  ASSUME NEW d, NEW e, e.memories = d.memories
  PROVE  KeepsHistory(d, e)
BY DEF KeepsHistory, Kept, Frozen, Stored

\* Steps of a transaction add up.
LEMMA KeepsTransitive ==
  ASSUME NEW d, NEW e, NEW f, KeepsHistory(d, e), KeepsHistory(e, f)
  PROVE  KeepsHistory(d, f)
<1>. SUFFICES ASSUME NEW id \in Stored(d)
     PROVE  id \in Stored(f) /\ Kept(d.memories[id], f.memories[id])
  BY DEF KeepsHistory
<1>1. /\ id \in Stored(e) /\ Kept(d.memories[id], e.memories[id])
      /\ id \in Stored(f) /\ Kept(e.memories[id], f.memories[id])
  BY DEF KeepsHistory
<1>. QED  BY <1>1 DEF Kept

\* What an operation may set in a record: the flags a forget sets, the latest
\* flag an update clears, and the vector a migration writes.
LEMMA KeptFields ==
  ASSUME NEW mem \in Memory
  PROVE  /\ Kept(mem, mem)
         /\ Kept(mem, [mem EXCEPT !.isLatest = FALSE])
         /\ Kept(mem, [mem EXCEPT !.isForgotten = TRUE, !.isLatest = FALSE])
         /\ Kept(mem, [mem EXCEPT !.hasOrphanedSources = TRUE])
         /\ \A model \in Models : Kept(mem, [mem EXCEPT !.embedding = model])
BY DEF Kept, Frozen, Memory

\* A Remember adds a record under a new key, and clears at most the latest
\* flag of the version it supersedes.
LEMMA RememberKeeps ==
  ASSUME NEW d \in DB, NEW known \in SUBSET MemoryIDs,
         NEW input \in Inputs(known), NEW id \in MemoryIDs \ Stored(d),
         NEW embedding \in Models, RememberAllowed(d, input)
  PROVE  KeepsHistory(d, RememberPreparedInTx(d, input, id, embedding))
<1>. DEFINE e == RememberPreparedInTx(d, input, id, embedding)
<1>1. e \in DB
  BY RememberType
<1>2. ASSUME NEW m \in Stored(d)
      PROVE  e.memories[m] \in
               {d.memories[m], [d.memories[m] EXCEPT !.isLatest = FALSE]}
  <2>0. m \in MemoryIDs /\ m # id
    BY <1>2 DEF Stored
  <2>1. CASE input.updates = Nil
    BY <2>0, <2>1 DEF RememberPreparedInTx, RememberRoot, DB
  <2>2. CASE input.updates # Nil
    <3>1. input.updates \in MemoryIDs /\ input.updates \in Stored(d)
      BY <2>2, InputType DEF RememberAllowed, ValidUpdateTarget, Stored
    <3>. DEFINE f == [d.memories EXCEPT ![input.updates].isLatest = FALSE]
    <3>2. PICK new : e.memories = [f EXCEPT ![id] = new]
      BY <2>2 DEF RememberPreparedInTx, RememberUpdate, DB
    <3>3. e.memories[m] = f[m]
      BY <2>0, <3>2 DEF DB
    <3>4. f[m] = IF m = input.updates
                 THEN [d.memories[m] EXCEPT !.isLatest = FALSE]
                 ELSE d.memories[m]
      BY <2>0, <3>1 DEF DB
    <3>. QED  BY <3>3, <3>4
  <2>. QED  BY <2>1, <2>2
<1>3. ASSUME NEW m \in Stored(d)
      PROVE  m \in Stored(e) /\ Kept(d.memories[m], e.memories[m])
  <2>1. m \in MemoryIDs /\ d.memories[m] \in Memory
    BY StoredType
  <2>2. [d.memories[m] EXCEPT !.isLatest = FALSE] \in Memory
    BY <2>1 DEF Memory
  <2>3. e.memories[m] \in Memory
    BY <1>2, <2>1, <2>2
  <2>4. m \in Stored(e)
    BY <2>1, <2>3, NilAssumption DEF Stored
  <2>. QED  BY <1>2, <2>1, <2>4, KeptFields
<1>. QED  BY <1>3 DEF KeepsHistory

\* A forget sets flags that no later operation clears.
LEMMA ForgetKeeps ==
  ASSUME NEW d \in DB, NEW id \in Stored(d)
  PROVE  KeepsHistory(d, ForgetInTx(d, id))
<1>. DEFINE marked == MarkForgotten(d, id)
            v == ForgetVersion(d, id)
<1>0. id \in MemoryIDs /\ d.memories[id] \in Memory
  BY StoredType
<1>1. ASSUME NEW m \in Stored(d)
      PROVE  Kept(d.memories[m], v.memories[m])
  <2>0. m \in MemoryIDs /\ d.memories[m] \in Memory
    BY StoredType
  <2>1. marked[m] = IF m = id
                    THEN [d.memories[m] EXCEPT !.isForgotten = TRUE,
                                               !.isLatest = FALSE]
                    ELSE d.memories[m]
    BY <1>0, <2>0 DEF MarkForgotten, DB
  <2>2. marked[m] \in Memory
    BY <2>0, <2>1 DEF Memory
  <2>3. Kept(d.memories[m], marked[m])
    BY <2>0, <2>1, KeptFields
  <2>4. v.memories[m] \in
          {marked[m], [marked[m] EXCEPT !.hasOrphanedSources = TRUE]}
    BY <2>0 DEF ForgetVersion, MarkOrphaned, DB
  <2>5. Kept(marked[m], v.memories[m])
    BY <2>2, <2>4, KeptFields
  <2>. QED  BY <2>3, <2>5 DEF Kept
<1>2. KeepsHistory(d, v)
  BY <1>1, ForgetVersionMemories DEF KeepsHistory
<1>3. CASE d.memories[id].isForgotten
  BY <1>3, KeepsReflexive DEF ForgetInTx
<1>4. CASE ~d.memories[id].isForgotten /\ ~d.memories[id].isLatest
  BY <1>2, <1>4 DEF ForgetInTx
<1>5. CASE ~d.memories[id].isForgotten /\ d.memories[id].isLatest
  <2>. DEFINE e == DeactivateLineage(v, d.memories[id], id, RootOf(d, id))
  <2>1. e.memories = v.memories
    <3>1. v \in DB
      BY ForgetVersionType
    <3>. QED  BY <3>1 DEF DeactivateLineage, DB
  <2>2. KeepsHistory(d, e)
    BY <1>2, <2>1, KeepsReflexive, KeepsTransitive
  <2>. QED  BY <1>5, <2>2 DEF ForgetInTx
<1>. QED  BY <1>3, <1>4, <1>5

\* A Revive adds a version and writes to no other.
LEMMA ReviveKeeps ==
  ASSUME NEW d \in DB, NEW root, NEW pred, NEW kind,
         NEW id \in MemoryIDs \ Stored(d)
  PROVE  KeepsHistory(d, ReviveLineage(d, root, pred, kind, id))
<1>. DEFINE e == ReviveLineage(d, root, pred, kind, id)
<1>1. \A m \in Stored(d) : e.memories[m] = d.memories[m]
  BY DEF ReviveLineage, Stored, DB
<1>2. \A m \in Stored(d) : m \in Stored(e)
  BY <1>1 DEF Stored
<1>. QED  BY <1>1, <1>2, StoredType, KeptFields DEF KeepsHistory

\* A migration writes vectors only.
LEMMA MigrateKeeps ==
  ASSUME NEW d \in DB, NEW space \in Spaces, NEW model \in Models
  PROVE  KeepsHistory(d, MigrateInTx(d, space, model))
<1>. DEFINE e == MigrateInTx(d, space, model)
<1>1. ASSUME NEW m \in Stored(d)
      PROVE  m \in Stored(e) /\ Kept(d.memories[m], e.memories[m])
  <2>1. m \in MemoryIDs /\ d.memories[m] \in Memory
    BY StoredType
  <2>2. e.memories[m] \in
          {d.memories[m], [d.memories[m] EXCEPT !.embedding = model]}
    BY <2>1 DEF MigrateInTx, DB
  <2>3. e.memories[m] \in Memory
    BY <2>1, <2>2 DEF Memory
  <2>4. m \in Stored(e)
    BY <2>1, <2>3, NilAssumption DEF Stored
  <2>. QED  BY <2>1, <2>2, <2>4, KeptFields
<1>. QED  BY <1>1 DEF KeepsHistory

\* The operations on the configuration of a space write to no memory.
LEMMA ConfigKeeps ==
  ASSUME NEW d \in DB, NEW space \in Spaces, NEW model, NEW policy
  PROVE  /\ KeepsHistory(d, EnsureSpaceInTx(d, space, model, policy))
         /\ KeepsHistory(d, ApplyConfigInTx(d, space, policy))
         /\ KeepsHistory(d, BeginMigrationInTx(d, space, model))
<1>1. /\ EnsureSpaceInTx(d, space, model, policy).memories = d.memories
      /\ ApplyConfigInTx(d, space, policy).memories = d.memories
      /\ BeginMigrationInTx(d, space, model).memories = d.memories
  BY DEF EnsureSpaceInTx, ApplyConfigInTx, UpdateSpaceConfigInTx, BeginMigrationInTx, DB
<1>. QED  BY <1>1, KeepsReflexive

-------------------------------------------------------------------------------
(* Every step. *)

\* A commit keeps what was committed: of an operation by its lemma, of a batch
\* because its copy did.
LEMMA NextKeepsHistory ==
  ASSUME HInv, [Next]_vars
  PROVE  KeepsHistory(db, db')
<1>0. /\ IInv /\ db \in DB /\ Stored(db) \in SUBSET MemoryIDs
  BY DEF HInv, IInv, TypeOK, Stored
<1>1. CASE db' = db
  BY <1>1, KeepsReflexive
<1>2. CASE Remember
  BY <1>0, <1>2, RememberKeeps DEF Remember
<1>3. CASE Forget
  BY <1>0, <1>3, ForgetKeeps DEF Forget
<1>4. CASE EnsureSpace \/ UpdateSpaceConfig \/ BeginEmbeddingMigration
  BY <1>0, <1>4, ConfigKeeps
    DEF EnsureSpace, UpdateSpaceConfig, BeginEmbeddingMigration
<1>5. CASE MigrateEmbeddings
  BY <1>0, <1>5, MigrateKeeps DEF MigrateEmbeddings
<1>6. CASE RememberBatchCommit \/ ForgetBatchCommit
  BY <1>6 DEF HInv, WorkKeepsHistory, RememberBatchCommit, ForgetBatchCommit,
              Commit
<1>7. CASE ReviveCommit
  BY <1>0, <1>7, ReviveKeeps DEF ReviveCommit
<1>8. CASE \/ RememberBatchBegin \/ RememberBatchItem \/ RememberBatchFail
           \/ ForgetBatchBegin \/ ForgetBatchItem \/ ForgetBatchFail
           \/ ReviveBegin \/ ReviveSkip \/ ReviveSuperseded \/ ReviveMiss
           \/ Crash \/ UNCHANGED vars
  <2>1. db' = db
    BY <1>8 DEF RememberBatchBegin, RememberBatchItem, RememberBatchFail,
                ForgetBatchBegin, ForgetBatchItem, ForgetBatchFail,
                ReviveBegin, ReviveSkip, ReviveSuperseded, ReviveMiss,
                Crash, Rollback, vars
  <2>. QED  BY <1>1, <2>1
<1>. QED
  BY <1>2, <1>3, <1>4, <1>5, <1>6, <1>7, <1>8 DEF Next, TxStep

\* The copy of a batch starts as the committed database, which no other writer
\* changes while it runs, and each item keeps what the items before it left.
LEMMA NextWorkKeepsHistory ==
  ASSUME HInv, [Next]_vars
  PROVE  WorkKeepsHistory'
<1>0. TypeOK /\ WorkKeepsHistory
  BY DEF HInv, IInv
<1>1. CASE RememberBatchBegin \/ ForgetBatchBegin
  <2>1. db' = db /\ tx'.work = db
    BY <1>1 DEF RememberBatchBegin, ForgetBatchBegin
  <2>. QED  BY <2>1, KeepsReflexive DEF WorkKeepsHistory
<1>2. CASE RememberBatchItem
  <2>1. PICK id \in MemoryIDs \ Stored(tx.work), input \in Inputs(Stored(db)),
             embedding \in Models :
          /\ RememberAllowed(tx.work, input)
          /\ tx' = [tx EXCEPT
               !.work = RememberPreparedInTx(tx.work, input, id, embedding),
               !.left = @ - 1]
    BY <1>2 DEF RememberBatchItem
  <2>2. /\ tx \in [op: {"remember"}, work: DB,
                                             size: Nat, left: Nat]
        /\ KeepsHistory(db, tx.work) /\ db' = db
    BY <1>0, <1>2, RunningType DEF RememberBatchItem, WorkKeepsHistory
  <2>3. tx'.work = RememberPreparedInTx(tx.work, input, id, embedding)
    BY <2>1, <2>2
  <2>4. KeepsHistory(tx.work, tx'.work)
    <3>1. Stored(db) \in SUBSET MemoryIDs /\ tx.work \in DB
      BY <2>2 DEF Stored
    <3>. QED  BY <2>1, <2>3, <3>1, RememberKeeps
  <2>. QED  BY <2>2, <2>4, KeepsTransitive DEF WorkKeepsHistory
<1>3. CASE ForgetBatchItem
  <2>1. /\ tx \in [op: {"forget"}, work: DB,
                                           asked: SUBSET MemoryIDs,
                                           ids: SUBSET MemoryIDs]
        /\ KeepsHistory(db, tx.work) /\ db' = db
        /\ NextForgotten \in Stored(tx.work)
    BY <1>0, <1>3, RunningType
      DEF ForgetBatchItem, WorkKeepsHistory, ForgetAllowed
  <2>2. tx'.work = ForgetInTx(tx.work, NextForgotten)
    BY <1>3, <2>1 DEF ForgetBatchItem
  <2>3. KeepsHistory(tx.work, tx'.work)
    BY <2>1, <2>2, ForgetKeeps
  <2>. QED  BY <2>1, <2>3, KeepsTransitive DEF WorkKeepsHistory
<1>4. CASE \/ Remember \/ Forget \/ EnsureSpace \/ UpdateSpaceConfig
           \/ BeginEmbeddingMigration \/ MigrateEmbeddings
           \/ RememberBatchFail \/ RememberBatchCommit
           \/ ForgetBatchFail \/ ForgetBatchCommit
           \/ ReviveCommit \/ ReviveMiss \/ Crash
  <2>1. tx' = Nil
    BY <1>4 DEF Remember, Forget, EnsureSpace, UpdateSpaceConfig,
                BeginEmbeddingMigration, MigrateEmbeddings, Idle,
                RememberBatchFail, RememberBatchCommit, ForgetBatchFail,
                ForgetBatchCommit, ReviveCommit, ReviveMiss, Crash,
                Commit, Rollback
  <2>. QED  BY <2>1 DEF WorkKeepsHistory, Running, Idle
<1>5. CASE ReviveBegin
  BY <1>5 DEF ReviveBegin, WorkKeepsHistory, Running
<1>6. CASE ReviveSkip \/ ReviveSuperseded
  <2>1. tx \in ReviveTx
    BY <1>0, <1>6, RunningType DEF ReviveSkip, ReviveSuperseded
  <2>2. tx'.op = "revive"
    BY <1>6, <2>1 DEF ReviveSkip, ReviveSuperseded, ReviveTx
  <2>. QED  BY <2>2 DEF WorkKeepsHistory, Running
<1>7. CASE UNCHANGED vars
  BY <1>0, <1>7 DEF vars, WorkKeepsHistory, Running, Idle
<1>. QED
  BY <1>1, <1>2, <1>3, <1>4, <1>5, <1>6, <1>7 DEF Next, TxStep

\* History is never rewritten: no operation, batch, Revive, migration or crash
\* changes what a committed version is, makes a forgotten one remembered, an
\* orphaned one whole, or a superseded one the latest again
\* (rememberPreparedInTx, forgetInTx, Revive, MigrateEmbeddings).
THEOREM HistoryIsImmutable == Spec => HistoryImmutable
<1>1. Init => HInv
  <2>1. Init => WorkKeepsHistory
    BY DEF Init, WorkKeepsHistory, Running, Idle
  <2>. QED  BY <2>1, InitIInv DEF HInv
<1>2. HInv /\ [Next]_vars => HInv'
  BY NextIInv, NextWorkKeepsHistory DEF HInv
<1>3. HInv /\ [Next]_vars => [KeepsHistory(db, db')]_vars
  BY NextKeepsHistory
<1>. QED  BY <1>1, <1>2, <1>3, PTL DEF Spec, HistoryImmutable

-------------------------------------------------------------------------------
(* What a step does to the databases, for the invariants to come: the        *)
(* committed one and the copy of a batch only change by whole operations.    *)

\* e is d after a Remember, of its own or in a batch, whose caller knows ids.
Remembers(known, d, e) ==
  \E id \in MemoryIDs \ Stored(d), input \in Inputs(known) :
  \E embedding \in Models :
    /\ RememberAllowed(d, input)
    /\ e = RememberPreparedInTx(d, input, id, embedding)

\* e is d after a Forget, of its own or in a batch.
Forgets(d, e) ==
  \E id \in Stored(d) : ForgetAllowed(d, id) /\ e = ForgetInTx(d, id)

\* e is d after a Revive.
Revives(d, e) ==
  \E root \in Stored(d), last \in Stored(d), id \in MemoryIDs \ Stored(d) :
    /\ d.latest[root] = Nil
    /\ SpaceWritable(d, d.memories[root].spaceID)
    /\ d.memories[root].kind # "derived"
    /\ last \in ForgottenVersions(d, root)
    /\ Successors(d, last) = {}
    /\ e = ReviveLineage(d, root, last, d.memories[root].kind, id)

\* e is d after an operation on the configuration of a space.
Configures(d, e) ==
  \E space \in Spaces :
    \/ \E model \in Models, policy \in Policies :
         e = EnsureSpaceInTx(d, space, model, policy)
    \/ \E policy \in Policies :
         /\ d.spacesConfig[space] # Nil
         /\ e = ApplyConfigInTx(d, space, policy)
    \/ \E model \in Models :
         /\ BeginMigrationAllowed(d, space, model)
         /\ e = BeginMigrationInTx(d, space, model)

\* e is d after the second transaction of a migration.
EndsMigration(d, e) ==
  \E space \in Spaces :
    /\ d.spacesConfig[space] # Nil
    /\ d.spacesConfig[space].migrating
    /\ d.spacesConfig[space].target \in Models
    /\ e = MigrateInTx(d, space, d.spacesConfig[space].target)

\* A caller that knows more ids may send more.
LEMMA InputsGrow ==
  ASSUME NEW known, NEW more, known \subseteq more
  PROVE  Inputs(known) \subseteq Inputs(more)
<1>1. \A n : AtMost(known, n) \subseteq AtMost(more, n)
  BY DEF AtMost
<1>2. ASSUME NEW kind \in Kinds, NEW input,
         input \in [spaceID: Spaces, kind: {kind}, actor: Actors,
           updates: known \cup {Nil}, ifLatestID: known \cup {Nil},
           extends: AtMost(known, MaxExtends),
           derives: AtMost(known, IF kind = "derived" THEN 0 ELSE MaxStray),
           sourceIDs:
             AtMost(known, IF kind = "derived" THEN MaxSources ELSE MaxStray)]
      PROVE  input \in [spaceID: Spaces, kind: {kind}, actor: Actors,
           updates: more \cup {Nil}, ifLatestID: more \cup {Nil},
           extends: AtMost(more, MaxExtends),
           derives: AtMost(more, IF kind = "derived" THEN 0 ELSE MaxStray),
           sourceIDs:
             AtMost(more, IF kind = "derived" THEN MaxSources ELSE MaxStray)]
  BY <1>1, <1>2
<1>. QED  BY <1>2 DEF Inputs

\* e is d after one operation.
Operates(known, d, e) ==
  \/ Remembers(known, d, e) \/ Forgets(d, e) \/ Revives(d, e)
  \/ Configures(d, e) \/ EndsMigration(d, e)

InBatch == Running("remember") \/ Running("forget")

\* The commit of a scan is a Revive of the version the scan stopped at.
LEMMA CommitRevives ==
  ASSUME HInv, ReviveCommit
  PROVE  Revives(db, db')
<1>0. ReviveChecked
  BY DEF HInv, IInv
<1>1. /\ Here \in Stored(db) /\ Here \in ForgottenVersions(db, tx.rootID)
      /\ Successors(db, Here) = {}
  BY HereStored DEF ReviveCommit
<1>2. /\ tx.rootID \in Stored(db) /\ db.latest[tx.rootID] = Nil
      /\ tx.kind = db.memories[tx.rootID].kind /\ tx.kind # "derived"
      /\ SpaceWritable(db, db.memories[tx.rootID].spaceID)
  BY <1>0 DEF ReviveCommit, ReviveChecked
<1>3. PICK id \in MemoryIDs \ Stored(db) :
        db' = ReviveLineage(db, tx.rootID, Here, tx.kind, id)
  BY DEF ReviveCommit
<1>. QED  BY <1>1, <1>2, <1>3 DEF Revives

\* The committed database changes by one operation, or by the commit of a batch.
LEMMA StepOfDB ==
  ASSUME HInv, [Next]_vars
  PROVE  \/ db' = db
         \/ ~InBatch /\ Operates(Stored(db), db, db')
         \/ InBatch /\ db' = tx.work
<1>1. CASE Remember \/ Forget
  BY <1>1 DEF Remember, Forget, Operates, Remembers, Forgets, InBatch, Running
<1>2. CASE EnsureSpace \/ UpdateSpaceConfig \/ BeginEmbeddingMigration
  BY <1>2 DEF EnsureSpace, UpdateSpaceConfig, BeginEmbeddingMigration,
              Configures, Operates, InBatch, Running
<1>3. CASE MigrateEmbeddings
  BY <1>3 DEF MigrateEmbeddings, EndsMigration, Operates, InBatch, Running
<1>4. CASE RememberBatchCommit \/ ForgetBatchCommit
  BY <1>4 DEF RememberBatchCommit, ForgetBatchCommit, Commit, InBatch
<1>5. CASE ReviveCommit
  <2>1. ~InBatch
    BY <1>5 DEF ReviveCommit, InBatch, Running
  <2>. QED  BY <1>5, <2>1, CommitRevives DEF Operates
<1>6. CASE \/ RememberBatchBegin \/ RememberBatchItem \/ RememberBatchFail
           \/ ForgetBatchBegin \/ ForgetBatchItem \/ ForgetBatchFail
           \/ ReviveBegin \/ ReviveSkip \/ ReviveSuperseded \/ ReviveMiss
           \/ Crash \/ UNCHANGED vars
  BY <1>6 DEF RememberBatchBegin, RememberBatchItem, RememberBatchFail,
              ForgetBatchBegin, ForgetBatchItem, ForgetBatchFail,
              ReviveBegin, ReviveSkip, ReviveSuperseded, ReviveMiss,
              Crash, Rollback, vars
<1>. QED
  BY <1>1, <1>2, <1>3, <1>4, <1>5, <1>6 DEF Next, TxStep

\* The copy of a batch starts as the committed database and changes by one
\* item, and nothing is committed meanwhile.
LEMMA StepOfWork ==
  ASSUME HInv, [Next]_vars, InBatch'
  PROVE  /\ db' = db
         /\ \/ tx'.work = db
            \/ InBatch /\ tx'.op = tx.op /\ tx'.work = tx.work
            \/ /\ Running("remember") /\ Running("remember")'
               /\ Remembers(Stored(db), tx.work, tx'.work)
            \/ /\ Running("forget") /\ Running("forget")'
               /\ Forgets(tx.work, tx'.work)
<1>0. TypeOK /\ WorkKeepsHistory
  BY DEF HInv, IInv
<1>1. CASE RememberBatchBegin \/ ForgetBatchBegin
  BY <1>1 DEF RememberBatchBegin, ForgetBatchBegin
<1>2. CASE RememberBatchItem
  <2>1. PICK id \in MemoryIDs \ Stored(tx.work), input \in Inputs(Stored(db)),
             embedding \in Models :
          /\ RememberAllowed(tx.work, input)
          /\ tx' = [tx EXCEPT
               !.work = RememberPreparedInTx(tx.work, input, id, embedding),
               !.left = @ - 1]
    BY <1>2 DEF RememberBatchItem
  <2>2. /\ tx \in [op: {"remember"}, work: DB,
                                             size: Nat, left: Nat]
        /\ db' = db /\ Running("remember")
    BY <1>0, <1>2, RunningType DEF RememberBatchItem
  <2>3. /\ tx'.work = RememberPreparedInTx(tx.work, input, id, embedding)
        /\ tx'.op = tx.op
    BY <2>1, <2>2
  <2>4. Remembers(Stored(db), tx.work, tx'.work)
    BY <2>1, <2>3 DEF Remembers
  <2>5. Running("remember")'
    <3>1. ~Idle'
      BY DEF InBatch, Running
    <3>. QED  BY <2>2, <2>3, <3>1 DEF Running
  <2>. QED  BY <2>2, <2>4, <2>5
<1>3. CASE ForgetBatchItem
  <2>1. /\ tx \in [op: {"forget"}, work: DB,
                                           asked: SUBSET MemoryIDs,
                                           ids: SUBSET MemoryIDs]
        /\ db' = db /\ Running("forget")
        /\ NextForgotten \in Stored(tx.work)
        /\ ForgetAllowed(tx.work, NextForgotten)
    BY <1>0, <1>3, RunningType DEF ForgetBatchItem, ForgetAllowed
  <2>2. tx'.work = ForgetInTx(tx.work, NextForgotten) /\ tx'.op = tx.op
    BY <1>3, <2>1 DEF ForgetBatchItem
  <2>3. Forgets(tx.work, tx'.work)
    BY <2>1, <2>2 DEF Forgets
  <2>4. Running("forget")'
    <3>1. ~Idle'
      BY DEF InBatch, Running
    <3>. QED  BY <2>1, <2>2, <3>1 DEF Running
  <2>. QED  BY <2>1, <2>3, <2>4
<1>4. CASE \/ Remember \/ Forget \/ EnsureSpace \/ UpdateSpaceConfig
           \/ BeginEmbeddingMigration \/ MigrateEmbeddings
           \/ RememberBatchFail \/ RememberBatchCommit
           \/ ForgetBatchFail \/ ForgetBatchCommit
           \/ ReviveCommit \/ ReviveMiss \/ Crash
  <2>1. tx' = Nil
    BY <1>4 DEF Remember, Forget, EnsureSpace, UpdateSpaceConfig,
                BeginEmbeddingMigration, MigrateEmbeddings, Idle,
                RememberBatchFail, RememberBatchCommit, ForgetBatchFail,
                ForgetBatchCommit, ReviveCommit, ReviveMiss, Crash,
                Commit, Rollback
  <2>. QED  BY <2>1 DEF InBatch, Running, Idle
<1>5. CASE ReviveBegin
  BY <1>5 DEF ReviveBegin, InBatch, Running
<1>6. CASE ReviveSkip \/ ReviveSuperseded
  <2>1. tx \in ReviveTx
    BY <1>0, <1>6, RunningType DEF ReviveSkip, ReviveSuperseded
  <2>2. tx'.op = "revive"
    BY <1>6, <2>1 DEF ReviveSkip, ReviveSuperseded, ReviveTx
  <2>. QED  BY <2>2 DEF InBatch, Running
<1>7. CASE UNCHANGED vars
  BY <1>7 DEF vars, InBatch, Running, Idle
<1>. QED
  BY <1>1, <1>2, <1>3, <1>4, <1>5, <1>6, <1>7 DEF Next, TxStep

-------------------------------------------------------------------------------
(* What each operation does to the memories, field by field. *)

\* What a commit keeps of a version.
LEMMA FrozenFields ==
  ASSUME NEW d, NEW e, KeepsHistory(d, e), NEW m \in Stored(d)
  PROVE  /\ m \in Stored(e)
         /\ e.memories[m].spaceID = d.memories[m].spaceID
         /\ e.memories[m].kind = d.memories[m].kind
         /\ e.memories[m].version = d.memories[m].version
         /\ e.memories[m].parentID = d.memories[m].parentID
         /\ e.memories[m].rootID = d.memories[m].rootID
         /\ e.memories[m].sourceIDs = d.memories[m].sourceIDs
         /\ RootOf(e, m) = RootOf(d, m)
BY DEF KeepsHistory, Kept, Frozen, RootOf

\* A Remember adds a live version and supersedes the one it updates.
LEMMA RememberEffect ==
  ASSUME NEW d \in DB, NEW known \in SUBSET MemoryIDs,
         NEW input \in Inputs(known), NEW id \in MemoryIDs \ Stored(d),
         NEW embedding \in Models, RememberAllowed(d, input)
  PROVE  LET e == RememberPreparedInTx(d, input, id, embedding)
         IN  /\ Stored(e) = Stored(d) \cup {id}
             /\ \E version \in Nat, root \in MemoryIDs \cup {Nil} :
                  /\ e.memories[id] =
                       NewMemory(input, version, input.updates, root, embedding)
                  /\ IF input.updates = Nil THEN version = 1 /\ root = Nil
                     ELSE /\ version = d.memories[input.updates].version + 1
                          /\ root = RootOf(d, input.updates)
             /\ \A m \in Stored(d) :
                  e.memories[m] =
                    IF m = input.updates
                    THEN [d.memories[m] EXCEPT !.isLatest = FALSE]
                    ELSE d.memories[m]
             /\ input.updates # Nil =>
                  /\ input.updates \in Stored(d)
                  /\ d.memories[input.updates].spaceID = input.spaceID
                  /\ d.memories[input.updates].isLatest
                  /\ ~d.memories[input.updates].isForgotten
<1>. DEFINE e == RememberPreparedInTx(d, input, id, embedding)
            target == input.updates
<1>1. target # Nil => /\ target \in Stored(d)
                      /\ d.memories[target].spaceID = input.spaceID
                      /\ d.memories[target].isLatest
                      /\ ~d.memories[target].isForgotten
  BY InputType DEF RememberAllowed, ValidUpdateTarget, Stored
<1>2. e \in DB /\ KeepsHistory(d, e)
  BY RememberType, RememberKeeps
<1>3. CASE target = Nil
  <2>1. e.memories = [d.memories EXCEPT
                        ![id] = NewMemory(input, 1, Nil, Nil, embedding)]
    BY <1>3 DEF RememberPreparedInTx, RememberRoot, DB
  <2>2. NewMemory(input, 1, Nil, Nil, embedding) # Nil
    BY NewMemoryType, NilAssumption
  <2>3. \A m \in Stored(d) : m # Nil /\ m # id
    BY NilAssumption DEF Stored
  <2>4. Stored(e) = Stored(d) \cup {id}
    BY <2>1, <2>2 DEF Stored, DB
  <2>5. e.memories[id] = NewMemory(input, 1, Nil, Nil, embedding)
    BY <2>1 DEF DB
  <2>6. \A m \in Stored(d) : e.memories[m] = d.memories[m]
    BY <2>1, <2>3 DEF Stored, DB
  <2>. QED  BY <1>3, <2>3, <2>4, <2>5, <2>6
<1>4. CASE target # Nil
  <2>. DEFINE version == d.memories[target].version + 1
              root == RootOf(d, target)
              new == NewMemory(input, version, target, root, embedding)
              f == [d.memories EXCEPT ![target].isLatest = FALSE]
  <2>0. /\ target \in Stored(d) /\ target \in MemoryIDs
        /\ d.memories[target] \in Memory
        /\ root \in MemoryIDs /\ version \in Nat
    BY <1>1, <1>4, StoredType DEF Memory
  <2>1. e.memories = [f EXCEPT ![id] = new]
    BY <1>4 DEF RememberPreparedInTx, RememberUpdate, DB
  <2>2. /\ e.memories[id] = new
        /\ \A m \in MemoryIDs \ {id} : e.memories[m] = f[m]
    BY <2>1 DEF DB
  <2>3. \A m \in Stored(d) :
          f[m] = IF m = target THEN [d.memories[m] EXCEPT !.isLatest = FALSE]
                 ELSE d.memories[m]
    BY <2>0 DEF Stored, DB
  <2>4. \A m \in Stored(d) : m \in MemoryIDs \ {id}
    BY DEF Stored
  <2>5. new # Nil
    BY <2>0, NewMemoryType, NilAssumption
  <2>6. Stored(e) = Stored(d) \cup {id}
    <3>1. Stored(d) \subseteq Stored(e) /\ id \in Stored(e)
      BY <1>2, <2>2, <2>5 DEF KeepsHistory, Stored
    <3>2. \A m \in MemoryIDs \ (Stored(d) \cup {id}) : e.memories[m] = Nil
      BY <2>0, <2>2 DEF Stored, DB
    <3>. QED  BY <3>1, <3>2 DEF Stored
  <2>7. \A m \in Stored(d) :
          e.memories[m] = IF m = target
                          THEN [d.memories[m] EXCEPT !.isLatest = FALSE]
                          ELSE d.memories[m]
    BY <2>2, <2>3, <2>4
  <2>. HIDE DEF f, new, version, root
  <2>8. \E v \in Nat, r \in MemoryIDs \cup {Nil} :
          /\ e.memories[id] = NewMemory(input, v, target, r, embedding)
          /\ v = d.memories[target].version + 1 /\ r = RootOf(d, target)
    BY <2>0, <2>2 DEF new, version, root
  <2>. QED  BY <1>1, <1>4, <2>6, <2>7, <2>8
<1>. QED  BY <1>3, <1>4

\* The flags and the vector after a Remember.
LEMMA RememberFlags ==
  ASSUME NEW d \in DB, NEW known \in SUBSET MemoryIDs,
         NEW input \in Inputs(known), NEW id \in MemoryIDs \ Stored(d),
         NEW embedding \in Models, RememberAllowed(d, input)
  PROVE  LET e == RememberPreparedInTx(d, input, id, embedding)
         IN  \A m \in Stored(d) :
               /\ e.memories[m].isLatest <=>
                    m # input.updates /\ d.memories[m].isLatest
               /\ e.memories[m].isForgotten <=> d.memories[m].isForgotten
               /\ e.memories[m].hasOrphanedSources
                    <=> d.memories[m].hasOrphanedSources
               /\ e.memories[m].embedding = d.memories[m].embedding
<1>. DEFINE e == RememberPreparedInTx(d, input, id, embedding)
<1>1. \A m \in Stored(d) :
        e.memories[m] = IF m = input.updates
                        THEN [d.memories[m] EXCEPT !.isLatest = FALSE]
                        ELSE d.memories[m]
  BY RememberEffect
<1>2. \A m \in Stored(d) : d.memories[m] \in Memory
  BY StoredType
<1>. QED  BY ZenonT(40), <1>1, <1>2 DEF Memory

\* A Forget of what is not forgotten yet sets its flags, and the orphan flag of
\* the live derived memories that rest on it.
LEMMA ForgetEffect ==
  ASSUME NEW d \in DB, NEW id \in Stored(d), ~d.memories[id].isForgotten
  PROVE  LET e == ForgetInTx(d, id)
         IN  /\ Stored(e) = Stored(d)
             /\ \A m \in Stored(d) :
                  /\ e.memories[m].isForgotten
                       <=> m = id \/ d.memories[m].isForgotten
                  /\ e.memories[m].isLatest <=> m # id /\ d.memories[m].isLatest
                  /\ e.memories[m].hasOrphanedSources
                       <=> \/ m \in OrphanedBy(d, id)
                           \/ d.memories[m].hasOrphanedSources
                  /\ e.memories[m].embedding = d.memories[m].embedding
<1>. DEFINE marked == MarkForgotten(d, id)
            v == ForgetVersion(d, id)
            e == ForgetInTx(d, id)
<1>0. id \in MemoryIDs /\ d.memories[id] \in Memory /\ v \in DB
  BY StoredType, ForgetVersionType
<1>1. e.memories = v.memories
  BY <1>0 DEF ForgetInTx, DeactivateLineage, DB
<1>2. Stored(e) = Stored(d)
  BY <1>1, ForgetVersionMemories DEF Stored
<1>3. ASSUME NEW m \in Stored(d)
      PROVE  /\ marked[m] \in Memory
             /\ marked[m].isForgotten <=> m = id \/ d.memories[m].isForgotten
             /\ marked[m].isLatest <=> m # id /\ d.memories[m].isLatest
             /\ marked[m].hasOrphanedSources
                  <=> d.memories[m].hasOrphanedSources
             /\ marked[m].embedding = d.memories[m].embedding
  <2>1. m \in MemoryIDs /\ d.memories[m] \in Memory
    BY StoredType
  <2>2. marked[m] = IF m = id
                    THEN [d.memories[m] EXCEPT !.isForgotten = TRUE,
                                               !.isLatest = FALSE]
                    ELSE d.memories[m]
    BY <1>0, <2>1 DEF MarkForgotten, DB
  <2>. QED  BY <2>1, <2>2 DEF Memory
<1>4. ASSUME NEW m \in Stored(d)
      PROVE  e.memories[m] = IF m \in OrphanedBy(d, id)
                             THEN [marked[m] EXCEPT !.hasOrphanedSources = TRUE]
                             ELSE marked[m]
  <2>1. m \in MemoryIDs
    BY StoredType
  <2>. QED  BY <1>1, <2>1 DEF ForgetVersion, MarkOrphaned, DB
<1>5. ASSUME NEW m \in Stored(d)
      PROVE  /\ e.memories[m].isForgotten = marked[m].isForgotten
             /\ e.memories[m].isLatest = marked[m].isLatest
             /\ e.memories[m].embedding = marked[m].embedding
             /\ e.memories[m].hasOrphanedSources
                  <=> m \in OrphanedBy(d, id) \/ marked[m].hasOrphanedSources
  <2>1. marked[m] \in Memory
    BY <1>3
  <2>. HIDE DEF marked, e
  <2>. QED  BY <1>4, <2>1 DEF Memory
<1>. HIDE DEF marked, e
<1>6. \A m \in Stored(d) :
        /\ e.memories[m].isForgotten <=> m = id \/ d.memories[m].isForgotten
        /\ e.memories[m].isLatest <=> m # id /\ d.memories[m].isLatest
        /\ e.memories[m].hasOrphanedSources
             <=> m \in OrphanedBy(d, id) \/ d.memories[m].hasOrphanedSources
        /\ e.memories[m].embedding = d.memories[m].embedding
  BY <1>3, <1>5
<1>. QED  BY <1>2, <1>6 DEF e

\* A Revive adds a live version and changes no other.
LEMMA ReviveEffect ==
  ASSUME NEW d \in DB, NEW root \in Stored(d), NEW pred \in Stored(d),
         NEW kind \in Kinds, NEW id \in MemoryIDs \ Stored(d)
  PROVE  LET e == ReviveLineage(d, root, pred, kind, id)
         IN  /\ Stored(e) = Stored(d) \cup {id}
             /\ e.memories[id] = RevivedMemory(d, root, pred, kind)
             /\ \A m \in Stored(d) : e.memories[m] = d.memories[m]
<1>. DEFINE e == ReviveLineage(d, root, pred, kind, id)
            new == RevivedMemory(d, root, pred, kind)
<1>1. e.memories = [d.memories EXCEPT ![id] = new]
  BY DEF ReviveLineage, DB
<1>2. new \in Memory /\ new # Nil
  <2>1. /\ root \in MemoryIDs /\ pred \in MemoryIDs
        /\ d.memories[root] \in Memory /\ d.memories[pred] \in Memory
    BY StoredType
  <2>2. new \in Memory
    BY <2>1 DEF RevivedMemory, Memory
  <2>. QED  BY <2>2, NilAssumption
<1>3. Stored(e) = Stored(d) \cup {id}
  BY <1>1, <1>2 DEF Stored, DB
<1>. QED  BY <1>1, <1>3 DEF Stored, DB

\* A migration writes the vectors of its space.
LEMMA MigrateEffect ==
  ASSUME NEW d \in DB, NEW space \in Spaces, NEW model \in Models
  PROVE  LET e == MigrateInTx(d, space, model)
         IN  /\ Stored(e) = Stored(d)
             /\ \A m \in Stored(d) :
                  e.memories[m] = IF d.memories[m].spaceID = space
                                  THEN [d.memories[m] EXCEPT !.embedding = model]
                                  ELSE d.memories[m]
<1>. DEFINE e == MigrateInTx(d, space, model)
<1>1. \A m \in MemoryIDs :
        e.memories[m] = IF m \in Embedded(d, space)
                        THEN [d.memories[m] EXCEPT !.embedding = model]
                        ELSE d.memories[m]
  BY DEF MigrateInTx, DB
<1>2. \A m \in Stored(d) : [d.memories[m] EXCEPT !.embedding = model] # Nil
  <2>1. \A m \in Stored(d) : [d.memories[m] EXCEPT !.embedding = model] \in Memory
    BY StoredType DEF Memory
  <2>. QED  BY <2>1, NilAssumption
<1>3. Stored(e) = Stored(d)
  BY <1>1, <1>2 DEF Stored, Embedded
<1>. QED  BY <1>1, <1>3 DEF Embedded, Stored

\* A migration leaves the flags of a memory.
LEMMA MigrateFlags ==
  ASSUME NEW d \in DB, NEW space \in Spaces, NEW model \in Models,
         NEW m \in Stored(d)
  PROVE  LET e == MigrateInTx(d, space, model)
         IN  /\ e.memories[m].isLatest <=> d.memories[m].isLatest
             /\ e.memories[m].isForgotten <=> d.memories[m].isForgotten
             /\ e.memories[m].hasOrphanedSources
                  <=> d.memories[m].hasOrphanedSources
<1>. DEFINE e == MigrateInTx(d, space, model)
<1>1. d.memories[m] \in Memory
  BY StoredType
<1>2. e.memories[m] \in
        {d.memories[m], [d.memories[m] EXCEPT !.embedding = model]}
  BY DEF MigrateInTx, Stored, DB
<1>. HIDE DEF e
<1>3. /\ e.memories[m].isLatest <=> d.memories[m].isLatest
      /\ e.memories[m].isForgotten <=> d.memories[m].isForgotten
      /\ e.memories[m].hasOrphanedSources
           <=> d.memories[m].hasOrphanedSources
  BY <1>1, <1>2 DEF Memory
<1>. QED  BY <1>3 DEF e

\* The operations on the configuration of a space write to no memory.
LEMMA ConfigEffect ==
  ASSUME NEW d \in DB, NEW e, Configures(d, e)
  PROVE  /\ e.memories = d.memories /\ Stored(e) = Stored(d)
         /\ e.latest = d.latest /\ e.spaces = d.spaces
         /\ e.relations = d.relations /\ e.relationRefs = d.relationRefs
         /\ e.embeddings = d.embeddings /\ e.forgetLog = d.forgetLog
BY ZenonT(40)
  DEF Configures, EnsureSpaceInTx, ApplyConfigInTx, UpdateSpaceConfigInTx, BeginMigrationInTx,
      DB, Stored

\* Whatever the operation, a database becomes one and keeps its history.
LEMMA OperationKeeps ==
  ASSUME NEW d \in DB, NEW e, NEW known \in SUBSET MemoryIDs,
         Operates(known, d, e)
  PROVE  e \in DB /\ KeepsHistory(d, e)
<1>1. CASE Remembers(known, d, e) \/ Forgets(d, e)
  BY <1>1, RememberType, RememberKeeps, ForgetType, ForgetKeeps
    DEF Remembers, Forgets
<1>2. CASE Revives(d, e)
  <2>1. PICK root \in Stored(d), last \in Stored(d), id \in MemoryIDs \ Stored(d) :
          e = ReviveLineage(d, root, last, d.memories[root].kind, id)
    BY <1>2 DEF Revives
  <2>2. d.memories[root].kind \in Kinds
    BY StoredType DEF Memory
  <2>. QED  BY <2>1, <2>2, ReviveType, ReviveKeeps
<1>3. CASE Configures(d, e)
  BY <1>3, EnsureSpaceType, UpdateSpaceConfigType, BeginMigrationType, ConfigEffect,
     KeepsReflexive DEF Configures
<1>4. CASE EndsMigration(d, e)
  BY <1>4, MigrateType, MigrateKeeps DEF EndsMigration
<1>. QED  BY <1>1, <1>2, <1>3, <1>4 DEF Operates

================================================================================
