------------------------ MODULE MemoryStoreProperties ------------------------
(***************************************************************************)
(* What the store promises about its lineages, its live index, its orphan  *)
(* flags and its logs, as properties of MemoryStore.                       *)
(***************************************************************************)
EXTENDS MemoryStore

Live(id) == id \in Stored(db) /\ db.memories[id].isLatest

LiveOf(space, kind) ==
  {id \in MemoryIDs : /\ Live(id)
                      /\ db.memories[id].spaceID = space
                      /\ db.memories[id].kind = kind}

-------------------------------------------------------------------------------
(* Invariants of the committed database. *)

\* A lineage has at most one live version, and the latest bucket names it and
\* nothing else: whatever mix of updates, forgets, revives and batches ran, no
\* reader finds two current versions, or a pointer to a superseded one
\* (rememberPreparedInTx, forgetInTx, Revive).
LatestExclusive ==
  \A root \in MemoryIDs :
    {id \in Versions(db, root) : db.memories[id].isLatest}
      = {db.latest[root]} \ {Nil}

\* The versions of a lineage form one chain from its root: each names a parent
\* of the same lineage and space and counts one more than it, no version has
\* two successors, and the end of the chain is live or was forgotten.  Revive
\* must find the very end of the chain for this to hold, also when versions in
\* the middle were forgotten (loadForgottenLatestForRoot).
LineageIsChain ==
  \A id \in Stored(db) :
    LET mem == db.memories[id]
    IN  /\ IF mem.parentID = Nil
           THEN mem.rootID = Nil /\ mem.version = 1
           ELSE /\ mem.parentID \in Stored(db)
                /\ mem.rootID = RootOf(db, mem.parentID)
                /\ mem.spaceID = db.memories[mem.parentID].spaceID
                /\ mem.version = db.memories[mem.parentID].version + 1
        /\ Cardinality(Successors(db, id)) <= 1
        /\ IF Successors(db, id) = {}
           THEN mem.isLatest # mem.isForgotten
           ELSE ~mem.isLatest

\* The membership keys of a space are its live memories and the persisted
\* counters their numbers by kind, so the corpus limits, which read only the
\* counters, count what is there (incrementLiveKindCount, addSpaceMemoryID).
LiveIndexAgrees ==
  /\ db.spaces =
       {<<db.memories[id].spaceID, id>> : id \in {i \in MemoryIDs : Live(i)}}
  /\ \A space \in Spaces, kind \in Kinds :
       db.spaceStats[space][kind] = Cardinality(LiveOf(space, kind))

\* A live memory is flagged as having lost a source exactly when it is derived
\* and a source of it was forgotten, also after the source was superseded; a
\* memory of another kind never is, whatever sources its caller sent with it
\* (markOrphanedDeriveds, which relies on the reverse index of relations).
OrphansExact ==
  \A id \in MemoryIDs :
    Live(id) =>
      (db.memories[id].hasOrphanedSources
         <=> /\ db.memories[id].kind = "derived"
             /\ \E src \in db.memories[id].sourceIDs :
                  db.memories[src].isForgotten)

Introduces(entry, id) ==
  /\ entry.operation \in {"remember", "revive"}
  /\ entry.memoryIDs[Len(entry.memoryIDs)] = id

\* The logs retell the lineages: every memory was introduced by one entry,
\* which names its parent before it if it has one, and the memories with a
\* forget entry, those with a forget record and those marked forgotten are the
\* same (writeAuditEntry and writeForgetRecord at every write).
AuditTellsHistory ==
  /\ \A id \in Stored(db) :
       LET parent == db.memories[id].parentID
           entries == {e \in db.auditLog : Introduces(e, id)}
       IN  /\ Cardinality(entries) = 1
           /\ \A e \in entries :
                e.memoryIDs = IF parent = Nil THEN <<id>> ELSE <<parent, id>>
  /\ db.forgetLog = {id \in Stored(db) : db.memories[id].isForgotten}
  /\ db.forgetLog =
       {e.memoryIDs[1] : e \in {f \in db.auditLog : f.operation = "forget"}}

\* GetRelated looks in both relation buckets, at any depth: what is related to a
\* memory is what that memory is related to.  The updates edges are the parents
\* of the memories written by Remember: walking them reaches a parent unless a
\* Revive came between, which writes no edge.  The checks of extends targets,
\* update targets and sources keep every edge inside one space, but for the
\* derives edges sent with a memory that is not derived, which nothing checks:
\* ARCHITECTURE.md forbids them too (saveRelations, Revive).
RelationsAgree ==
  /\ \A kind \in RelationTypes, depth \in 1 .. Cardinality(MemoryIDs) :
       LET related == UNION {{a} \X GetRelated(db, a, kind, depth) : a \in Stored(db)}
       IN  related = {<<pair[2], pair[1]>> : pair \in related}
  /\ \A id \in Stored(db), to \in MemoryIDs :
       <<id, "updates", to>> \in db.relations
         <=> /\ db.memories[id].parentID = to
             /\ \E e \in db.auditLog :
                  Introduces(e, id) /\ e.operation = "remember"
  /\ \A e \in db.relations :
       \/ db.memories[e[1]].spaceID = db.memories[e[3]].spaceID
       \/ e[2] = "derives" /\ db.memories[e[1]].kind # "derived"

Shown(d) ==
  [d EXCEPT !.memories = [id \in MemoryIDs |->
     IF id \in Stored(d) /\ d.memories[id].isForgotten
     THEN [d.memories[id] EXCEPT !.hasOrphanedSources = FALSE]
     ELSE d.memories[id]]]

\* Two forgets give the same database in either order, so a batch, which takes
\* its ids in key order, does what the caller listed; only the orphan flag of
\* a derived memory forgotten with its source tells the order (ForgetBatch).
ForgetsCommute ==
  \A a, b \in Stored(db) :
    ForgetAllowed(db, a) /\ ForgetAllowed(db, b) =>
      Shown(ForgetInTx(ForgetInTx(db, a), b))
        = Shown(ForgetInTx(ForgetInTx(db, b), a))

-------------------------------------------------------------------------------
(* What a commit may never do. *)

Frozen(mem) ==
  <<mem.spaceID, mem.kind, mem.version, mem.parentID, mem.rootID,
    mem.sourceIDs>>

\* What a later commit may do to a version that is stored: forget it, mark it
\* orphaned, supersede it and embed it again.
Kept(old, new) ==
  /\ Frozen(new) = Frozen(old)
  /\ old.isForgotten => new.isForgotten
  /\ old.hasOrphanedSources => new.hasOrphanedSources
  /\ new.isLatest => old.isLatest

KeepsHistory(d, e) ==
  \A id \in Stored(d) :
    id \in Stored(e) /\ Kept(d.memories[id], e.memories[id])

\* History is never rewritten: a committed version keeps its identity, a
\* forgotten one stays forgotten, an orphaned one stays orphaned, and none that
\* stopped being the latest becomes it again, also not by a Revive.
HistoryImmutable == [][KeepsHistory(db, db')]_vars

LayerSize(space, layer) ==
  Cardinality(UNION {LiveOf(space, kind) : kind \in layer})

LimitOf(space, layer) ==
  LET policy == db.spacesConfig[space].writePolicy
  IN  IF layer = StaticLayer THEN policy.maxStaticMemories
                             ELSE policy.maxEpisodicMemories

Revived == \E e \in db'.auditLog \ db.auditLog : e.operation = "revive"

\* A layer that grows ends within its limit, also over several items of a batch,
\* and over a promotion, which moves a memory between the layers
\* (wouldExceedCorpusLimit).  A Revive is excepted: it checks no limit.
RememberRespectsLimits ==
  [][~Revived =>
       \A space \in Spaces, layer \in {StaticLayer, EpisodicLayer} :
         LayerSize(space, layer)' > LayerSize(space, layer) =>
           LayerSize(space, layer)' <= LimitOf(space, layer)]_vars

ForgottenIn(d) == {id \in Stored(d) : d.memories[id].isForgotten}

\* A batch reaches the readers whole or not at all: the step by which it changes
\* the database has stored one memory for each item it was asked to remember,
\* or has forgotten every id it was asked to forget, also when items were
\* refused or the process died on the way (RememberBatch, ForgetBatch).
BatchAtomic ==
  [][db' # db =>
       /\ Running("remember") =>
            Cardinality(Stored(db') \ Stored(db)) = tx.size
       /\ Running("forget") =>
            ForgottenIn(db') = ForgottenIn(db) \cup tx.asked]_vars

MigratingIn(d, space) ==
  d.spacesConfig[space] # Nil /\ d.spacesConfig[space].migrating

MemoriesOf(d, space) ==
  {<<id, d.memories[id]>> :
     id \in {i \in Stored(d) : d.memories[i].spaceID = space}}

\* Nothing is written to a space between the two transactions of a migration,
\* by a batch or a Revive either: its memories change only in the step that
\* ends the migration (ensureSpaceWritable in every write).
MigrationLocksSpace ==
  [][\A space \in Spaces :
       MigratingIn(db, space) /\ MigratingIn(db', space) =>
         MemoriesOf(db', space) = MemoriesOf(db, space)]_vars

\* A migration leaves every version of the space, live or not, with a vector
\* of the new model, whatever model its writer had used, in both places that
\* hold one (MigrateEmbeddings).
MigrationUnifiesVectors ==
  [][\A space \in Spaces :
       MigratingIn(db, space) /\ ~MigratingIn(db', space) =>
         \A m \in MemoriesOf(db', space) :
           /\ m[2].embedding = db'.spacesConfig[space].model
           /\ db'.embeddings[m[1]] = m[2].embedding]_vars

-------------------------------------------------------------------------------
(* Transactions end. *)

\* The scan of a Revive meets the end of the lineage before any other
\* forgotten version of it.
TailFirst(root) ==
  /\ ForgottenVersions(db, root) # {}
  /\ Successors(db, Min(ForgottenVersions(db, root))) = {}

\* Every successor of a forgotten version has a key behind it.
Ascending(root) ==
  \A id \in ForgottenVersions(db, root) :
    \A next \in Successors(db, id) : next > id

\* A Revive finds no predecessor only if the key of a forgotten version inside
\* the lineage precedes the key of its end (loadForgottenLatestForRoot).  That it
\* finds none even then is what ReviveReactivates below is violated by.
ReviveMissesOnlyPastInnerVersion ==
  [][ReviveMiss => ~TailFirst(tx.rootID)]_vars

\* A Revive gives the write lock back if its cursor never has to go back, or if
\* it meets the end of the lineage first: whatever the other keys and the other
\* versions are, no writer then waits for ever (loadForgottenLatestForRoot).
AscendingReviveEnds ==
  (Running("revive") /\ (Ascending(tx.rootID) \/ TailFirst(tx.rootID))) ~> Idle

-------------------------------------------------------------------------------
(* What the documents say and the code does not do. *)

\* A Revive ends, with a new version or with an error.
ReviveTerminates == Running("revive") ~> Idle

\* A Revive that is given the root of an inactive lineage, and passes its checks,
\* finds the version to continue: it fails only for an id that is no root.
ReviveReactivates == [][ReviveMiss => Versions(db, tx.rootID) = {}]_vars

==============================================================================
