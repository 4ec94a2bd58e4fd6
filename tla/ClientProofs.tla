----------------------------- MODULE ClientProofs -----------------------------
(***************************************************************************)
(* For every set of goroutines and every value of the other constants:     *)
(* what the goroutines of StoreClients commit is what MemoryStore allows,  *)
(* although they prepare outside the transaction; and a space that never   *)
(* finished a migration holds vectors of one model.                        *)
(***************************************************************************)
EXTENDS StoreClients, MemoryStoreProofs

-------------------------------------------------------------------------------
(* The goroutines implement the store. *)

ClientTypeOK == client \in [Clients -> Prepared \cup {Nil}]

\* What a goroutine is about to write names memories that are still stored.
PreparedKnown ==
  \A c \in Clients :
    HasPrepared(c, "remember") => client[c].input \in Inputs(Stored(db))

CInv == HInv /\ ClientTypeOK /\ PreparedKnown

\* A goroutine that has prepared holds a model, and an input for a Remember.
LEMMA PreparedType ==
  ASSUME ClientTypeOK, NEW c \in Clients, NEW op, HasPrepared(c, op)
  PROVE  /\ client[c] \in Prepared
         /\ client[c].model \in Models
         /\ SpaceOf(client[c]) \in Spaces
BY InputType DEF ClientTypeOK, HasPrepared, Prepared, SpaceOf

\* The model a configured space embeds with.
LEMMA ConfigType ==
  ASSUME db \in DB, NEW space \in Spaces, db.spacesConfig[space] # Nil
  PROVE  db.spacesConfig[space].model \in Models
BY DEF DB, SpaceConfig

\* A step of the goroutines is a step of the store, or leaves it as it is.
LEMMA StepImplements ==
  ASSUME CInv, [ClientNext]_clientVars
  PROVE  [Next]_vars
<1>1. CASE \E c \in Clients : CommitRemember(c)
  <2>1. PICK c \in Clients : CommitRemember(c)
    BY <1>1
  <2>2. client[c].input \in Inputs(Stored(db)) /\ client[c].model \in Models
    BY <2>1, PreparedType DEF CommitRemember, CInv, PreparedKnown
  <2>3. Remember
    BY <2>1, <2>2 DEF CommitRemember, Remember
  <2>. QED  BY <2>3 DEF Next
<1>2. CASE \E c \in Clients : \/ PrepareRemember(c) \/ RefuseRemember(c)
                              \/ PrepareRecall(c) \/ ReadRecall(c)
  BY <1>2 DEF PrepareRemember, RefuseRemember, PrepareRecall, ReadRecall, vars
<1>3. CASE OtherStep
  BY <1>3 DEF OtherStep, Next, TxStep
<1>4. CASE CrashAll
  BY <1>4 DEF CrashAll, Next, Crash, Rollback, Idle, vars
<1>5. CASE UNCHANGED clientVars
  BY <1>5 DEF clientVars, vars
<1>. QED
  BY <1>1, <1>2, <1>3, <1>4, <1>5 DEF ClientNext, ClientStep

\* What a goroutine prepared stays a possible input, whatever others commit:
\* no memory is ever taken out of the store.
LEMMA ClientStepCInv ==
  ASSUME CInv, [ClientNext]_clientVars
  PROVE  CInv'
<1>1. [Next]_vars
  BY StepImplements
<1>2. HInv'
  BY <1>1, NextIInv, NextWorkKeepsHistory DEF CInv, HInv
<1>3. Stored(db) \subseteq Stored(db') /\ Stored(db) \subseteq MemoryIDs
  BY <1>1, NextKeepsHistory DEF CInv, KeepsHistory, Stored
<1>4. Inputs(Stored(db)) \subseteq Inputs(Stored(db'))
  BY <1>3, InputsGrow
<1>5. db \in DB /\ ClientTypeOK /\ PreparedKnown
  BY DEF CInv, HInv, IInv, TypeOK
<1>6. ASSUME NEW c \in Clients, Finishes(c)
      PROVE  ClientTypeOK' /\ PreparedKnown'
  BY <1>4, <1>5, <1>6 DEF Finishes, ClientTypeOK, PreparedKnown, HasPrepared
<1>7. ASSUME NEW c \in Clients, PrepareRemember(c)
      PROVE  ClientTypeOK' /\ PreparedKnown'
  <2>1. PICK input \in Inputs(Stored(db)) :
          /\ SpaceWritable(db, input.spaceID)
          /\ client' = [client EXCEPT ![c] =
               [op |-> "remember", input |-> input,
                model |-> db.spacesConfig[input.spaceID].model]]
    BY <1>7 DEF PrepareRemember
  <2>2. db.spacesConfig[input.spaceID].model \in Models
    BY <1>3, <1>5, <2>1, InputType, ConfigType DEF SpaceWritable
  <2>3. input \in Inputs(MemoryIDs)
    BY <1>3, InputsGrow
  <2>4. client'[c] \in Prepared
    BY <1>5, <2>1, <2>2, <2>3 DEF ClientTypeOK, Prepared
  <2>5. ClientTypeOK'
    BY <1>5, <2>1, <2>4 DEF ClientTypeOK
  <2>6. PreparedKnown'
    BY <1>4, <1>5, <2>1 DEF ClientTypeOK, PreparedKnown, HasPrepared
  <2>. QED  BY <2>5, <2>6
<1>8. ASSUME NEW c \in Clients, PrepareRecall(c)
      PROVE  ClientTypeOK' /\ PreparedKnown'
  <2>1. PICK space \in Spaces :
          /\ db.spacesConfig[space] # Nil
          /\ client' = [client EXCEPT ![c] =
               [op |-> "recall", spaceID |-> space,
                model |-> db.spacesConfig[space].model]]
    BY <1>8 DEF PrepareRecall
  <2>2. client'[c] \in Prepared
    BY <1>5, <2>1, ConfigType DEF ClientTypeOK, Prepared
  <2>3. ClientTypeOK'
    BY <1>5, <2>1, <2>2 DEF ClientTypeOK
  <2>4. PreparedKnown'
    BY <1>4, <1>5, <2>1 DEF ClientTypeOK, PreparedKnown, HasPrepared
  <2>. QED  BY <2>3, <2>4
<1>9. CASE OtherStep \/ UNCHANGED clientVars
  <2>1. client' = client
    BY <1>9 DEF OtherStep, clientVars
  <2>. QED
    BY <1>2, <1>4, <1>5, <2>1 DEF CInv, ClientTypeOK, PreparedKnown, HasPrepared
<1>10. CASE CrashAll
  <2>1. ClientTypeOK' /\ PreparedKnown'
    BY <1>10 DEF CrashAll, ClientTypeOK, PreparedKnown, HasPrepared
  <2>. QED  BY <1>2, <2>1 DEF CInv
<1>. QED
  BY <1>2, <1>6, <1>7, <1>8, <1>9, <1>10
    DEF ClientNext, ClientStep, CommitRemember, RefuseRemember, ReadRecall, CInv

\* The first state.
LEMMA ClientInitCInv == ClientInit => CInv
<1>. SUFFICES ASSUME ClientInit PROVE CInv
  OBVIOUS
<1>1. HInv
  BY InitIInv DEF ClientInit, Init, HInv, WorkKeepsHistory, Running, Idle
<1>. QED
  BY <1>1 DEF ClientInit, CInv, ClientTypeOK, PreparedKnown, HasPrepared

\* The preparation outside the transaction costs the store nothing: whatever the
\* goroutines read before it, and however they interleave, what they commit is
\* what MemoryStore allows (rememberPreparedInTx checks again), so that its
\* theorems hold of them too.
THEOREM ClientsImplementStore == ClientSpec => ImplementsStore
<1>1. ClientInit => Init
  BY DEF ClientInit
<1>2. CInv /\ [ClientNext]_clientVars => [Next]_vars
  BY StepImplements
<1>3. CInv /\ [ClientNext]_clientVars => CInv'
  BY ClientStepCInv
<1>. QED
  BY <1>1, <1>2, <1>3, ClientInitCInv, PTL DEF ClientSpec, ImplementsStore, Spec

-------------------------------------------------------------------------------
(* One model in a space until a migration ends. *)

\* e follows d: until a migration of a space ends, its model stays, and so does
\* each vector; a vector that is new is of its model.
Follows(d, e) ==
  /\ d.auditLog \subseteq e.auditLog
  /\ \A space \in Spaces :
       d.spacesConfig[space] # Nil =>
         /\ e.spacesConfig[space] # Nil
         /\ \/ Migrated(e, space)
            \/ e.spacesConfig[space].model = d.spacesConfig[space].model
  /\ \A id \in Stored(e) :
       LET mem == e.memories[id]
       IN  \/ /\ id \in Stored(d)
              /\ mem.spaceID = d.memories[id].spaceID
              /\ \/ Migrated(e, mem.spaceID)
                 \/ mem.embedding = d.memories[id].embedding
           \/ /\ mem.spaceID \in Spaces
              /\ d.spacesConfig[mem.spaceID] # Nil
              /\ \/ Migrated(e, mem.spaceID)
                 \/ mem.embedding
                      \in {d.spacesConfig[mem.spaceID].model, Nil}

\* An operation that writes no vector and no configuration.
LEMMA FollowsSameVectors ==
  ASSUME NEW d \in DB, NEW e,
         d.auditLog \subseteq e.auditLog, e.spacesConfig = d.spacesConfig,
         Stored(e) \subseteq Stored(d),
         \A m \in Stored(d) :
           /\ e.memories[m].spaceID = d.memories[m].spaceID
           /\ e.memories[m].embedding = d.memories[m].embedding
  PROVE  Follows(d, e)
BY DEF Follows

\* A Remember whose vector is of the model of its space.
LEMMA RememberFollows ==
  ASSUME NEW d \in DB, NEW known \in SUBSET MemoryIDs,
         NEW input \in Inputs(known), NEW id \in MemoryIDs \ Stored(d),
         NEW embedding \in Models, RememberAllowed(d, input),
         \/ Migrated(d, input.spaceID)
         \/ embedding = d.spacesConfig[input.spaceID].model
  PROVE  Follows(d, RememberPreparedInTx(d, input, id, embedding))
<1>. DEFINE e == RememberPreparedInTx(d, input, id, embedding)
<1>1. /\ d.auditLog \subseteq e.auditLog
      /\ e.spacesConfig = d.spacesConfig
  BY DEF RememberPreparedInTx, RememberRoot, RememberUpdate, DB
<1>2. \A space : Migrated(d, space) => Migrated(e, space)
  BY <1>1 DEF Migrated
<1>3. d.spacesConfig[input.spaceID] # Nil /\ input.spaceID \in Spaces
  BY InputType DEF RememberAllowed, SpaceWritable
<1>4. /\ e.memories[id].spaceID = input.spaceID
      /\ e.memories[id].embedding = embedding
  <2>1. PICK f \in [MemoryIDs -> Memory \cup {Nil}] :
          \E version, parent, root : e.memories =
            [f EXCEPT ![id] = NewMemory(input, version, parent, root, embedding)]
    <3>1. CASE input.updates = Nil
      BY <3>1 DEF RememberPreparedInTx, RememberRoot, DB
    <3>2. CASE input.updates # Nil
      <4>1. input.updates \in MemoryIDs /\ d.memories[input.updates] \in Memory
        BY <3>2, InputType, StoredType
          DEF RememberAllowed, ValidUpdateTarget, Stored
      <4>. DEFINE g == [d.memories EXCEPT ![input.updates].isLatest = FALSE]
      <4>2. [d.memories[input.updates] EXCEPT !.isLatest = FALSE] \in Memory
        BY <4>1 DEF Memory
      <4>3. g \in [MemoryIDs -> Memory \cup {Nil}]
        BY <4>1, <4>2 DEF DB
      <4>4. e.memories = [g EXCEPT ![id] =
              NewMemory(input, d.memories[input.updates].version + 1,
                        input.updates, RootOf(d, input.updates), embedding)]
        BY <3>2 DEF RememberPreparedInTx, RememberUpdate, DB
      <4>. QED  BY <4>3, <4>4
    <3>. QED  BY <3>1, <3>2
  <2>. QED  BY <2>1 DEF NewMemory
<1>5. ASSUME NEW m \in Stored(e), m # id
      PROVE  /\ m \in Stored(d)
             /\ e.memories[m].spaceID = d.memories[m].spaceID
             /\ e.memories[m].embedding = d.memories[m].embedding
  <2>1. CASE input.updates = Nil
    BY <1>5, <2>1 DEF RememberPreparedInTx, RememberRoot, Stored, DB
  <2>2. CASE input.updates # Nil
    <3>1. input.updates \in Stored(d)
      BY <2>2, InputType DEF RememberAllowed, ValidUpdateTarget, Stored
    <3>. DEFINE g == [d.memories EXCEPT ![input.updates].isLatest = FALSE]
    <3>2. PICK new : e.memories = [g EXCEPT ![id] = new]
      BY <2>2 DEF RememberPreparedInTx, RememberUpdate, DB
    <3>3. m \in MemoryIDs /\ e.memories[m] = g[m] /\ g[m] # Nil
      BY <1>5, <3>2 DEF Stored, DB
    <3>4. g[m] = IF m = input.updates
                 THEN [d.memories[m] EXCEPT !.isLatest = FALSE]
                 ELSE d.memories[m]
      BY <3>1, <3>3 DEF DB
    <3>5. m \in Stored(d)
      BY <3>1, <3>3, <3>4 DEF Stored
    <3>6. d.memories[m] \in Memory
      BY <3>5, StoredType
    <3>. QED  BY <3>3, <3>4, <3>5, <3>6 DEF Memory
  <2>. QED  BY <2>1, <2>2
<1>. QED  BY <1>1, <1>2, <1>3, <1>4, <1>5 DEF Follows

\* A forget sets flags only.
LEMMA ForgetFollows ==
  ASSUME NEW d \in DB, NEW id \in Stored(d)
  PROVE  Follows(d, ForgetInTx(d, id))
<1>. DEFINE v == ForgetVersion(d, id)
            e == ForgetInTx(d, id)
<1>0. v \in DB /\ Stored(v) = Stored(d)
  BY ForgetVersionType, ForgetVersionMemories
<1>1. /\ d.auditLog \subseteq v.auditLog
      /\ v.spacesConfig = d.spacesConfig
  BY DEF ForgetVersion, DB
<1>2. ASSUME NEW m \in Stored(d)
      PROVE  /\ v.memories[m].spaceID = d.memories[m].spaceID
             /\ v.memories[m].embedding = d.memories[m].embedding
  <2>. DEFINE marked == MarkForgotten(d, id)
  <2>0. m \in MemoryIDs /\ d.memories[m] \in Memory
    BY StoredType
  <2>1. marked[m] = IF m = id
                    THEN [d.memories[m] EXCEPT !.isForgotten = TRUE,
                                               !.isLatest = FALSE]
                    ELSE d.memories[m]
    BY <2>0 DEF MarkForgotten, DB
  <2>2. /\ marked[m] \in Memory
        /\ marked[m].spaceID = d.memories[m].spaceID
        /\ marked[m].embedding = d.memories[m].embedding
    BY <2>0, <2>1 DEF Memory
  <2>3. v.memories[m] \in
          {marked[m], [marked[m] EXCEPT !.hasOrphanedSources = TRUE]}
    BY <2>0 DEF ForgetVersion, MarkOrphaned, DB
  <2>. QED  BY <2>2, <2>3 DEF Memory
<1>3. \/ e = d
      \/ /\ e.memories = v.memories /\ e.auditLog = v.auditLog
         /\ e.spacesConfig = v.spacesConfig
  BY <1>0 DEF ForgetInTx, DeactivateLineage, DB
<1>4. CASE e = d
  BY <1>4, FollowsSameVectors
<1>5. CASE /\ e.memories = v.memories /\ e.auditLog = v.auditLog
           /\ e.spacesConfig = v.spacesConfig
  <2>1. Stored(e) = Stored(d)
    BY <1>0, <1>5 DEF Stored
  <2>. QED  BY <1>1, <1>2, <1>5, <2>1, FollowsSameVectors
<1>. QED  BY <1>3, <1>4, <1>5

\* A Revive writes a version with no vector.
LEMMA ReviveFollows ==
  ASSUME NEW d \in DB, NEW root \in Stored(d), NEW pred \in Stored(d),
         NEW kind \in Kinds, NEW id \in MemoryIDs \ Stored(d),
         d.spacesConfig[d.memories[root].spaceID] # Nil
  PROVE  Follows(d, ReviveLineage(d, root, pred, kind, id))
<1>. DEFINE e == ReviveLineage(d, root, pred, kind, id)
            new == RevivedMemory(d, root, pred, kind)
<1>1. /\ e.memories = [d.memories EXCEPT ![id] = new]
      /\ d.auditLog \subseteq e.auditLog
      /\ e.spacesConfig = d.spacesConfig
  BY DEF ReviveLineage, DB
<1>2. /\ e.memories[id].spaceID = d.memories[root].spaceID
      /\ e.memories[id].embedding = Nil
      /\ d.memories[root].spaceID \in Spaces
  <2>1. e.memories[id] = new /\ d.memories[root].spaceID \in Spaces
    BY <1>1, StoredType DEF DB, Memory
  <2>. QED  BY <2>1 DEF RevivedMemory
<1>3. \A m \in Stored(e) :
        m # id => m \in Stored(d) /\ e.memories[m] = d.memories[m]
  BY <1>1 DEF Stored, DB
<1>. QED  BY <1>1, <1>2, <1>3 DEF Follows

\* A migration that ends writes so in the audit log.
LEMMA MigrateFollows ==
  ASSUME NEW d \in DB, NEW space \in Spaces, NEW model \in Models,
         d.spacesConfig[space] # Nil
  PROVE  Follows(d, MigrateInTx(d, space, model))
<1>. DEFINE e == MigrateInTx(d, space, model)
<1>1. e.auditLog = d.auditLog
          \cup {MigrationAudited("migration_complete", space, model)}
  BY DEF MigrateInTx, DB
<1>2. Migrated(e, space)
  <2>. DEFINE entry == MigrationAudited("migration_complete", space, model)
  <2>1. entry.operation = "migration_complete" /\ entry.spaceID = space
    BY DEF MigrationAudited
  <2>2. entry \in e.auditLog
    BY <1>1
  <2>. QED  BY <2>1, <2>2 DEF Migrated
<1>3. /\ e.spacesConfig[space] # Nil
      /\ \A other \in Spaces \ {space} :
           e.spacesConfig[other] = d.spacesConfig[other]
  <2>1. [d.spacesConfig[space] EXCEPT !.model = model, !.migrating = FALSE,
                                      !.target = Nil] \in SpaceConfig
    BY DEF SpaceConfig, DB
  <2>. QED  BY <2>1, NilAssumption DEF MigrateInTx, DB
<1>4. ASSUME NEW m \in Stored(e)
      PROVE  /\ m \in Stored(d)
             /\ e.memories[m].spaceID = d.memories[m].spaceID
             /\ \/ d.memories[m].spaceID = space
                \/ e.memories[m].embedding = d.memories[m].embedding
  <2>1. e.memories[m] = IF m \in Embedded(d, space)
                        THEN [d.memories[m] EXCEPT !.embedding = model]
                        ELSE d.memories[m]
    BY DEF MigrateInTx, Stored, DB
  <2>2. m \in Stored(d)
    BY <2>1 DEF Embedded, Stored
  <2>3. d.memories[m] \in Memory
    BY <2>2, StoredType
  <2>. QED  BY <2>1, <2>2, <2>3 DEF Embedded, Memory
<1>. QED  BY <1>1, <1>2, <1>3, <1>4 DEF Follows

\* An operation that writes configurations only, and none's model.
LEMMA FollowsConfigured ==
  ASSUME NEW d \in DB, NEW e,
         e.memories = d.memories, d.auditLog \subseteq e.auditLog,
         \A space \in Spaces :
           d.spacesConfig[space] # Nil =>
             /\ e.spacesConfig[space] # Nil
             /\ e.spacesConfig[space].model = d.spacesConfig[space].model
  PROVE  Follows(d, e)
BY DEF Follows, Stored

\* The operations on the configuration of a space keep the model of one that is
\* configured.
LEMMA ConfigFollows ==
  ASSUME NEW d \in DB, NEW space \in Spaces, NEW model \in Models,
         NEW policy \in Policies
  PROVE  /\ Follows(d, EnsureSpaceInTx(d, space, model, policy))
         /\ d.spacesConfig[space] # Nil =>
              Follows(d, ApplyConfigInTx(d, space, policy))
<1>1. Follows(d, EnsureSpaceInTx(d, space, model, policy))
  <2>. DEFINE e == EnsureSpaceInTx(d, space, model, policy)
  <2>1. e.memories = d.memories /\ e.auditLog = d.auditLog
    BY DEF EnsureSpaceInTx, DB
  <2>2. \A s \in Spaces :
          d.spacesConfig[s] # Nil => e.spacesConfig[s] = d.spacesConfig[s]
    BY DEF EnsureSpaceInTx, DB
  <2>. HIDE DEF e
  <2>3. Follows(d, e)
    BY <2>1, <2>2, FollowsConfigured
  <2>. QED  BY <2>3 DEF e
<1>2. ASSUME d.spacesConfig[space] # Nil
      PROVE  Follows(d, ApplyConfigInTx(d, space, policy))
  <2>. DEFINE cfg == [d.spacesConfig[space] EXCEPT !.writePolicy = policy]
              e == ApplyConfigInTx(d, space, policy)
  <2>1. /\ cfg \in SpaceConfig
        /\ cfg.model = d.spacesConfig[space].model
    BY <1>2 DEF SpaceConfig, DB
  <2>2. /\ e.memories = d.memories /\ e.auditLog = d.auditLog
        /\ e.spacesConfig = [d.spacesConfig EXCEPT ![space] = cfg]
    BY DEF ApplyConfigInTx, UpdateSpaceConfigInTx, DB
  <2>3. \A s \in Spaces :
          d.spacesConfig[s] # Nil =>
            /\ e.spacesConfig[s] # Nil
            /\ e.spacesConfig[s].model = d.spacesConfig[s].model
    BY <2>1, <2>2, NilAssumption DEF DB
  <2>. HIDE DEF e
  <2>4. Follows(d, e)
    BY ZenonT(40), <2>2, <2>3, FollowsConfigured
  <2>. QED  BY <2>4 DEF e
<1>. QED  BY <1>1, <1>2

\* A migration that begins changes no model yet.
LEMMA BeginMigrationFollows ==
  ASSUME NEW d \in DB, NEW space \in Spaces, NEW model \in Models,
         BeginMigrationAllowed(d, space, model)
  PROVE  Follows(d, BeginMigrationInTx(d, space, model))
<1>. DEFINE cfg == [d.spacesConfig[space] EXCEPT !.migrating = TRUE,
                                                 !.target = model]
            e == BeginMigrationInTx(d, space, model)
<1>1. /\ cfg \in SpaceConfig
      /\ cfg.model = d.spacesConfig[space].model
  BY DEF BeginMigrationAllowed, SpaceConfig, DB
<1>2. \/ e = d
      \/ /\ e.spacesConfig = [d.spacesConfig EXCEPT ![space] = cfg]
         /\ e.memories = d.memories /\ d.auditLog \subseteq e.auditLog
  BY DEF BeginMigrationInTx, DB
<1>3. \A s \in Spaces :
        d.spacesConfig[s] # Nil =>
          /\ e.spacesConfig[s] # Nil
          /\ e.spacesConfig[s].model = d.spacesConfig[s].model
  BY <1>1, <1>2, NilAssumption DEF DB
<1>4. e.memories = d.memories /\ d.auditLog \subseteq e.auditLog
  BY <1>2
<1>. HIDE DEF e
<1>5. Follows(d, e)
  BY <1>3, <1>4, FollowsConfigured
<1>. QED  BY <1>5 DEF e

-------------------------------------------------------------------------------
(* The invariant of the goroutines. *)

\* A space that has memories, or a goroutine preparing for it, is configured.
SpacesConfigured ==
  /\ \A id \in Stored(db) : db.spacesConfig[db.memories[id].spaceID] # Nil
  /\ \A c \in Clients :
       client[c] # Nil => db.spacesConfig[SpaceOf(client[c])] # Nil

MInv == CInv /\ SpacesConfigured /\ OneModelUntilMigrated

\* Every step of the goroutines follows the database it found.
LEMMA ClientStepFollows ==
  ASSUME MInv, [ClientNext]_clientVars
  PROVE  Follows(db, db')
<1>0. /\ db \in DB /\ Stored(db) \in SUBSET MemoryIDs
      /\ TypeOK /\ ReviveChecked /\ ClientTypeOK
  BY DEF MInv, CInv, HInv, IInv, TypeOK, Stored
<1>1. CASE db' = db
  BY <1>0, <1>1, FollowsSameVectors
<1>2. CASE \E c \in Clients : CommitRemember(c)
  <2>1. PICK c \in Clients : CommitRemember(c)
    BY <1>2
  <2>. DEFINE input == client[c].input
              space == input.spaceID
  <2>2. PICK id \in MemoryIDs \ Stored(db) :
          db' = RememberPreparedInTx(db, input, id, client[c].model)
    BY <2>1 DEF CommitRemember
  <2>3. /\ input \in Inputs(Stored(db)) /\ client[c].model \in Models
        /\ client[c] # Nil /\ SpaceOf(client[c]) = space /\ space \in Spaces
        /\ RememberAllowed(db, input)
    BY <1>0, <2>1, PreparedType
      DEF CommitRemember, MInv, CInv, PreparedKnown, HasPrepared, SpaceOf
  <2>4. \/ Migrated(db, space)
        \/ client[c].model = db.spacesConfig[space].model
    BY <2>3 DEF MInv, SpacesConfigured, OneModelUntilMigrated
  <2>. QED  BY <1>0, <2>2, <2>3, <2>4, RememberFollows
<1>3. CASE Forget
  BY <1>0, <1>3, ForgetFollows DEF Forget
<1>4. CASE EnsureSpace \/ UpdateSpaceConfig \/ BeginEmbeddingMigration
  <2>1. CASE EnsureSpace
    BY <1>0, <2>1, ConfigFollows DEF EnsureSpace
  <2>2. CASE UpdateSpaceConfig
    <3>1. PICK space \in Spaces, policy \in Policies :
            /\ db.spacesConfig[space] # Nil
            /\ db' = ApplyConfigInTx(db, space, policy)
      BY <2>2 DEF UpdateSpaceConfig
    <3>2. db.spacesConfig[space].model \in Models
      BY <1>0, <3>1, ConfigType
    <3>. QED  BY <1>0, <3>1, <3>2, ConfigFollows
  <2>3. CASE BeginEmbeddingMigration
    <3>1. PICK space \in Spaces, model \in Models :
            /\ BeginMigrationAllowed(db, space, model)
            /\ db' = BeginMigrationInTx(db, space, model)
      BY <2>3 DEF BeginEmbeddingMigration
    <3>. QED  BY <1>0, <3>1, BeginMigrationFollows
  <2>. QED  BY <1>4, <2>1, <2>2, <2>3
<1>5. CASE MigrateEmbeddings
  BY <1>0, <1>5, MigrateFollows DEF MigrateEmbeddings
<1>6. CASE ReviveCommit
  <2>1. /\ Here \in Stored(db) /\ tx.rootID \in Stored(db) /\ tx.kind \in Kinds
    BY <1>0, <1>6, HereStored, RunningType
      DEF ReviveCommit, ReviveChecked, ReviveTx
  <2>2. db.spacesConfig[db.memories[tx.rootID].spaceID] # Nil
    BY <2>1 DEF MInv, SpacesConfigured
  <2>. QED  BY <1>0, <1>6, <2>1, <2>2, ReviveFollows DEF ReviveCommit
<1>7. CASE \/ \E c \in Clients : \/ PrepareRemember(c) \/ RefuseRemember(c)
                                 \/ PrepareRecall(c) \/ ReadRecall(c)
           \/ ReviveBegin \/ ReviveSkip \/ ReviveSuperseded \/ ReviveMiss
           \/ CrashAll \/ UNCHANGED clientVars
  <2>1. db' = db
    BY <1>7 DEF PrepareRemember, RefuseRemember, PrepareRecall, ReadRecall,
                ReviveBegin, ReviveSkip, ReviveSuperseded, ReviveMiss,
                CrashAll, Rollback, clientVars
  <2>. QED  BY <1>1, <2>1
<1>. QED
  BY <1>2, <1>3, <1>4, <1>5, <1>6, <1>7 DEF ClientNext, ClientStep, OtherStep

\* What a goroutine holds after a step: what it held, or the model it just read.
LEMMA ClientStepPrepares ==
  ASSUME CInv, [ClientNext]_clientVars, NEW c \in Clients, client'[c] # Nil
  PROVE  \/ client'[c] = client[c]
         \/ /\ SpaceOf(client'[c]) \in Spaces
            /\ db' = db
            /\ db.spacesConfig[SpaceOf(client'[c])] # Nil
            /\ client'[c].model = db.spacesConfig[SpaceOf(client'[c])].model
<1>0. ClientTypeOK /\ Stored(db) \in SUBSET MemoryIDs
  BY DEF CInv, Stored
<1>1. CASE \E k \in Clients : PrepareRemember(k)
  <2>1. PICK k \in Clients, input \in Inputs(Stored(db)) :
          /\ SpaceWritable(db, input.spaceID)
          /\ client' = [client EXCEPT ![k] =
               [op |-> "remember", input |-> input,
                model |-> db.spacesConfig[input.spaceID].model]]
          /\ db' = db
    BY <1>1 DEF PrepareRemember
  <2>2. input.spaceID \in Spaces
    BY <1>0, InputType
  <2>. QED  BY <1>0, <2>1, <2>2 DEF ClientTypeOK, SpaceOf, SpaceWritable
<1>2. CASE \E k \in Clients : PrepareRecall(k)
  BY <1>0, <1>2 DEF PrepareRecall, ClientTypeOK, SpaceOf
<1>3. CASE \E k \in Clients : Finishes(k)
  BY <1>0, <1>3 DEF Finishes, ClientTypeOK
<1>4. CASE client' = client
  BY <1>4
<1>5. CASE CrashAll
  BY <1>5 DEF CrashAll
<1>. QED
  BY <1>1, <1>2, <1>3, <1>4, <1>5
    DEF ClientNext, ClientStep, CommitRemember, RefuseRemember, ReadRecall,
        OtherStep, clientVars

\* The invariant is inductive.
LEMMA ClientStepMInv ==
  ASSUME MInv, [ClientNext]_clientVars
  PROVE  MInv'
<1>1. CInv' /\ Follows(db, db')
  BY ClientStepCInv, ClientStepFollows DEF MInv
<1>2. \A space : Migrated(db, space) => Migrated(db', space)
  BY <1>1 DEF Follows, Migrated
<1>3. ASSUME NEW c \in Clients, client'[c] # Nil
      PROVE  /\ SpaceOf(client'[c]) \in Spaces
             /\ db'.spacesConfig[SpaceOf(client'[c])] # Nil
             /\ \/ Migrated(db', SpaceOf(client'[c]))
                \/ client'[c].model = db'.spacesConfig[SpaceOf(client'[c])].model
  <2>1. CASE client'[c] = client[c]
    <3>1. client[c] # Nil /\ SpaceOf(client'[c]) = SpaceOf(client[c]) /\ SpaceOf(client[c]) \in Spaces
      <4>1. client[c] # Nil /\ SpaceOf(client'[c]) = SpaceOf(client[c])
        BY <1>3, <2>1 DEF SpaceOf
      <4>2. SpaceOf(client[c]) \in Spaces
        <5>1. ClientTypeOK
          BY DEF MInv, CInv
        <5>. QED  BY <4>1, <5>1, PreparedType DEF HasPrepared
      <4>. QED  BY <4>1, <4>2
    <3>2. /\ db.spacesConfig[SpaceOf(client[c])] # Nil
          /\ \/ Migrated(db, SpaceOf(client[c]))
             \/ client[c].model = db.spacesConfig[SpaceOf(client[c])].model
      BY <3>1 DEF MInv, SpacesConfigured, OneModelUntilMigrated
    <3>. QED  BY <1>1, <1>2, <2>1, <3>1, <3>2 DEF Follows
  <2>2. CASE client'[c] # client[c]
    <3>1. /\ SpaceOf(client'[c]) \in Spaces /\ db' = db
          /\ db.spacesConfig[SpaceOf(client'[c])] # Nil
          /\ client'[c].model = db.spacesConfig[SpaceOf(client'[c])].model
      BY <1>3, <2>2, ClientStepPrepares DEF MInv
    <3>. QED  BY <3>1
  <2>. QED  BY <2>1, <2>2
<1>4. ASSUME NEW id \in Stored(db')
      PROVE  LET space == db'.memories[id].spaceID
             IN  /\ db'.spacesConfig[space] # Nil
                 /\ \/ Migrated(db', space)
                    \/ db'.memories[id].embedding
                         \in {db'.spacesConfig[space].model, Nil}
  <2>. DEFINE mem == db'.memories[id]
  <2>1. CASE /\ id \in Stored(db)
             /\ mem.spaceID = db.memories[id].spaceID
             /\ \/ Migrated(db', mem.spaceID)
                \/ mem.embedding = db.memories[id].embedding
    <3>1. mem.spaceID \in Spaces /\ db.spacesConfig[mem.spaceID] # Nil
      <4>1. db \in DB
        BY DEF MInv, CInv, HInv, IInv, TypeOK
      <4>. QED
        BY <2>1, <4>1, StoredType DEF MInv, SpacesConfigured, Memory
    <3>2. \/ Migrated(db, mem.spaceID)
          \/ db.memories[id].embedding
               \in {db.spacesConfig[mem.spaceID].model, Nil}
      BY <2>1, <3>1 DEF MInv, OneModelUntilMigrated, Embedded
    <3>. QED  BY <1>1, <1>2, <2>1, <3>1, <3>2 DEF Follows
  <2>2. CASE /\ mem.spaceID \in Spaces
             /\ db.spacesConfig[mem.spaceID] # Nil
             /\ \/ Migrated(db', mem.spaceID)
                \/ mem.embedding \in {db.spacesConfig[mem.spaceID].model, Nil}
    BY <1>1, <1>2, <2>2 DEF Follows
  <2>. QED  BY <1>1, <2>1, <2>2 DEF Follows
<1>5. SpacesConfigured'
  BY <1>3, <1>4 DEF SpacesConfigured
<1>6. OneModelUntilMigrated'
  BY <1>3, <1>4 DEF OneModelUntilMigrated, Embedded
<1>. QED  BY <1>1, <1>5, <1>6 DEF MInv

\* A space that never finished a migration holds vectors of its own model only,
\* and so does every goroutine in flight (prepareRememberInputs): what a
\* Remember read before its transaction can be stale only once a migration ends.
THEOREM OneModelBeforeMigration == ClientSpec => []OneModelUntilMigrated
<1>1. ClientInit => MInv
  <2>. SUFFICES ASSUME ClientInit PROVE MInv
    OBVIOUS
  <2>1. SpacesConfigured /\ OneModelUntilMigrated
    BY DEF ClientInit, Init, EmptyDB, Stored, SpacesConfigured,
           OneModelUntilMigrated
  <2>. QED  BY <2>1, ClientInitCInv DEF MInv
<1>2. MInv /\ [ClientNext]_clientVars => MInv'
  BY ClientStepMInv
<1>3. MInv => OneModelUntilMigrated
  BY DEF MInv
<1>. QED  BY <1>1, <1>2, <1>3, PTL DEF ClientSpec

===============================================================================
