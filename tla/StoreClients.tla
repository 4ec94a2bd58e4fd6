----------------------------- MODULE StoreClients -----------------------------
(***************************************************************************)
(* The store with the goroutines that call it (one per gRPC or HTTP        *)
(* request).  A Remember reads the configuration of its space and embeds   *)
(* its content before the write transaction that stores the vector, and a  *)
(* Recall does the same with its query before the read transaction that    *)
(* compares vectors.  What other goroutines commit in between is the       *)
(* subject of this module.                                                 *)
(*                                                                         *)
(* A vector is the model that made it.  Remember batches are left to       *)
(* MemoryStore, which lets their writers embed with any model.             *)
(***************************************************************************)
EXTENDS MemoryStoreProperties

CONSTANT Clients  \* goroutines with a Remember or a Recall in flight

VARIABLE client  \* what each goroutine prepared, Nil when it has not

clientVars == <<db, tx, client>>

Prepared ==
  [op: {"remember"}, input: Inputs(MemoryIDs), model: Models]
    \cup [op: {"recall"}, spaceID: Spaces, model: Models]

HasPrepared(c, op) == client[c] # Nil /\ client[c].op = op

SpaceOf(prepared) ==
  IF prepared.op = "remember" THEN prepared.input.spaceID ELSE prepared.spaceID

Finishes(c) == client' = [client EXCEPT ![c] = Nil]

-------------------------------------------------------------------------------
(* Remember. *)

\* A read transaction, which runs beside a write transaction in progress, and
\* the call of the embedder.
PrepareRemember(c) ==
  /\ client[c] = Nil
  /\ \E input \in Inputs(Stored(db)) :
       /\ SpaceWritable(db, input.spaceID)
       /\ client' = [client EXCEPT ![c] =
            [op |-> "remember", input |-> input,
             model |-> db.spacesConfig[input.spaceID].model]]
  /\ UNCHANGED <<db, tx>>

CommitRemember_checkedBefore(c) ==
  /\ HasPrepared(c, "remember")
  /\ Idle
  /\ \E id \in MemoryIDs \ Stored(db) :
       db' = RememberPreparedInTx(db, client[c].input, id, client[c].model)
  /\ Finishes(c)
  /\ UNCHANGED tx

\* The checks are made again on the database the transaction finds; the model
\* is not looked at.
CommitRemember(c) ==
  /\ HasPrepared(c, "remember")
  /\ Idle
  /\ RememberAllowed(db, client[c].input)
  /\ \E id \in MemoryIDs \ Stored(db) :
       db' = RememberPreparedInTx(db, client[c].input, id, client[c].model)
  /\ Finishes(c)
  /\ UNCHANGED tx

RefuseRemember(c) ==
  /\ HasPrepared(c, "remember")
  /\ Idle
  /\ ~RememberAllowed(db, client[c].input)
  /\ Finishes(c)
  /\ UNCHANGED <<db, tx>>

-------------------------------------------------------------------------------
(* Recall. *)

\* A space that migrates can still be recalled from.
PrepareRecall(c) ==
  /\ client[c] = Nil
  /\ \E space \in Spaces :
       /\ db.spacesConfig[space] # Nil
       /\ client' = [client EXCEPT ![c] =
            [op |-> "recall", spaceID |-> space,
             model |-> db.spacesConfig[space].model]]
  /\ UNCHANGED <<db, tx>>

ReadRecall(c) ==
  /\ HasPrepared(c, "recall")
  /\ Finishes(c)
  /\ UNCHANGED <<db, tx>>

-------------------------------------------------------------------------------
\* The process dies with all its goroutines.
CrashAll ==
  /\ client' = [c \in Clients |-> Nil]
  /\ Rollback

\* The operations that keep nothing between two transactions.
OtherStep ==
  /\ \/ Forget
     \/ EnsureSpace \/ UpdateSpaceConfig
     \/ BeginEmbeddingMigration \/ MigrateEmbeddings
     \/ ReviveBegin \/ ReviveSkip \/ ReviveSuperseded \/ ReviveCommit
     \/ ReviveMiss
  /\ UNCHANGED client

ClientStep(c) ==
  \/ PrepareRemember(c) \/ CommitRemember(c) \/ RefuseRemember(c)
  \/ PrepareRecall(c) \/ ReadRecall(c)

ClientInit ==
  /\ Init
  /\ client = [c \in Clients |-> Nil]

ClientNext ==
  \/ \E c \in Clients : ClientStep(c)
  \/ OtherStep
  \/ CrashAll

ClientSpec == ClientInit /\ [][ClientNext]_clientVars

-------------------------------------------------------------------------------
(* Properties. *)

\* With the preparation outside the transaction, what the goroutines do to the
\* store is still what MemoryStore allows: every check that protects the
\* database is made again inside (rememberPreparedInTx).
ImplementsStore == Spec

Migrated(d, space) ==
  \E entry \in d.auditLog :
    entry.operation = "migration_complete" /\ entry.spaceID = space

\* A space that never finished a migration holds vectors of its model only, and
\* every prepared vector is one: the goroutines in flight, a started migration
\* and a crash during it bring no other in (prepareRememberInputs).
OneModelUntilMigrated ==
  \A space \in Spaces :
    db.spacesConfig[space] # Nil /\ ~Migrated(db, space) =>
      /\ \A id \in Embedded(db, space) :
           db.memories[id].embedding
             \in {db.spacesConfig[space].model, Nil}
      /\ \A c \in Clients :
           client[c] # Nil /\ SpaceOf(client[c]) = space =>
             client[c].model = db.spacesConfig[space].model

-------------------------------------------------------------------------------
(* What a document says and the code does not do. *)

\* The model of a space cannot change without a migration, and a vector of
\* another model is not stored.
EmbeddingLock ==
  \A id \in Stored(db) :
    db.memories[id].embedding
      \in {db.spacesConfig[db.memories[id].spaceID].model, Nil}

==============================================================================
