----------------------------- MODULE MemoryStore -----------------------------
(***************************************************************************)
(* The store of internal/store/bolt as its clients see it: one bbolt file  *)
(* and the write transactions that change it, one at a time.               *)
(*                                                                         *)
(* db is the committed content, which every read transaction sees.  tx is  *)
(* the write transaction in progress when it takes more than one step: a   *)
(* batch, which works on a copy of its own until it commits, or a Revive,  *)
(* which walks the memories bucket with a cursor before it writes.  An     *)
(* operation that neither loops nor stops half way is one step.            *)
(***************************************************************************)
EXTENDS MemoryDB, FiniteSetsExt

CONSTANTS
  MaxExtends,  \* extends edges a caller sends with one memory
  MaxSources,  \* source ids a caller sends with a derived memory
  MaxStray,    \* source ids and derives edges it sends with another kind
  MaxBatch     \* items of a batch

ASSUME BoundsAssumption ==
  {MaxExtends, MaxSources, MaxStray, MaxBatch} \subseteq Nat

VARIABLES
  db,  \* the committed database
  tx   \* the transaction in progress, Nil when the write lock is free

vars == <<db, tx>>

AtMost(S, n) == {T \in SUBSET S : Cardinality(T) <= n}

\* What a caller may send, given the ids it may have learnt.  The derives
\* edges sent with a derived memory are replaced, so none are enumerated.
Inputs(known) ==
  UNION {[spaceID: Spaces, kind: {kind}, actor: Actors,
          updates: known \cup {Nil}, ifLatestID: known \cup {Nil},
          extends: AtMost(known, MaxExtends),
          derives: AtMost(known, IF kind = "derived" THEN 0 ELSE MaxStray),
          sourceIDs:
            AtMost(known, IF kind = "derived" THEN MaxSources ELSE MaxStray)]
         : kind \in Kinds}

\* A batch: what was asked of it, as a number of items or as ids, and what of
\* that is still to be done.
BatchTx ==
  [op: {"remember"}, work: DB, size: Nat, left: Nat]
    \cup [op: {"forget"}, work: DB, asked: SUBSET MemoryIDs,
          ids: SUBSET MemoryIDs]

\* A Revive in its scan: cursor is the key the cursor is at, Nil before First.
ReviveTx ==
  [op: {"revive"}, rootID: MemoryIDs, kind: Kinds,
   cursor: MemoryIDs \cup {Nil}]

TypeOK ==
  /\ db \in DB
  /\ tx \in BatchTx \cup ReviveTx \cup {Nil}

Idle == tx = Nil

Running(op) == ~Idle /\ tx.op = op

-------------------------------------------------------------------------------
(* Operations that commit in one step. *)

Remember ==
  /\ Idle
  /\ \E id \in MemoryIDs \ Stored(db) :
     \E input \in Inputs(Stored(db)), embedding \in Models :
       /\ RememberAllowed(db, input)
       /\ db' = RememberPreparedInTx(db, input, id, embedding)
  /\ UNCHANGED tx

Forget ==
  /\ Idle
  /\ \E id \in Stored(db) :
       /\ ForgetAllowed(db, id)
       /\ db' = ForgetInTx(db, id)
  /\ UNCHANGED tx

EnsureSpace ==
  /\ Idle
  /\ \E space \in Spaces, model \in Models, policy \in Policies :
       db' = EnsureSpaceInTx(db, space, model, policy)
  /\ UNCHANGED tx

\* Called by apply-config alone.
UpdateSpaceConfig ==
  /\ Idle
  /\ \E space \in Spaces, policy \in Policies :
       /\ db.spacesConfig[space] # Nil
       /\ db' = ApplyConfigInTx(db, space, policy)
  /\ UNCHANGED tx

BeginEmbeddingMigration ==
  /\ Idle
  /\ \E space \in Spaces, model \in Models :
       /\ BeginMigrationAllowed(db, space, model)
       /\ db' = BeginMigrationInTx(db, space, model)
  /\ UNCHANGED tx

\* The second transaction of MigrateEmbeddings.  Between the two any other
\* operation, or a crash, may come.
MigrateEmbeddings ==
  /\ Idle
  /\ \E space \in Spaces, model \in Models :
       /\ db.spacesConfig[space] # Nil
       /\ db.spacesConfig[space].migrating
       /\ db.spacesConfig[space].target = model
       /\ db' = MigrateInTx(db, space, model)
  /\ UNCHANGED tx

-------------------------------------------------------------------------------
(* Batches. *)

Commit ==
  /\ db' = tx.work
  /\ tx' = Nil

Rollback ==
  /\ tx' = Nil
  /\ UNCHANGED db

RememberBatchBegin ==
  /\ Idle
  /\ \E n \in 2 .. MaxBatch :
       tx' = [op |-> "remember", work |-> db, size |-> n, left |-> n]
  /\ UNCHANGED db

\* An item sees the items before it, but its caller knew only committed ids.
RememberBatchItem ==
  /\ Running("remember")
  /\ tx.left > 0
  /\ \E id \in MemoryIDs \ Stored(tx.work) :
     \E input \in Inputs(Stored(db)), embedding \in Models :
       /\ RememberAllowed(tx.work, input)
       /\ tx' = [tx EXCEPT
            !.work = RememberPreparedInTx(tx.work, input, id, embedding),
            !.left = @ - 1]
  /\ UNCHANGED db

RememberBatchFail_keepsItems == Running("remember") /\ tx.left > 0 /\ Commit

\* The item is refused, and with it the whole batch.
RememberBatchFail == Running("remember") /\ tx.left > 0 /\ Rollback

RememberBatchCommit == Running("remember") /\ tx.left = 0 /\ Commit

\* The ids are deduplicated and sorted before the transaction.
ForgetBatchBegin ==
  /\ Idle
  /\ \E ids \in AtMost(MemoryIDs, MaxBatch) :
       /\ ids # {}
       /\ tx' = [op |-> "forget", work |-> db, asked |-> ids, ids |-> ids]
  /\ UNCHANGED db

NextForgotten == Min(tx.ids)

ForgetBatchItem ==
  /\ Running("forget")
  /\ tx.ids # {}
  /\ ForgetAllowed(tx.work, NextForgotten)
  /\ tx' = [tx EXCEPT !.work = ForgetInTx(tx.work, NextForgotten),
                      !.ids = @ \ {NextForgotten}]
  /\ UNCHANGED db

ForgetBatchFail ==
  /\ Running("forget")
  /\ tx.ids # {}
  /\ ~ForgetAllowed(tx.work, NextForgotten)
  /\ Rollback

ForgetBatchCommit == Running("forget") /\ tx.ids = {} /\ Commit

-------------------------------------------------------------------------------
(* Revive. *)

\* Guarded by a free id, so that a bounded instance can commit what it begins.
ReviveBegin ==
  /\ Idle
  /\ MemoryIDs \ Stored(db) # {}
  /\ \E root \in MemoryIDs, actor \in Actors, kind \in Kinds :
       /\ ReviveAllowed(db, root, actor, kind)
       /\ tx' = [op |-> "revive", rootID |-> root, kind |-> kind,
                 cursor |-> Nil]
  /\ UNCHANGED db

\* The keys the cursor has still to visit.
Ahead ==
  {id \in Stored(db) : tx.cursor = Nil \/ id > tx.cursor}

Here == Min(Ahead)

ReviveSkip_oneTooFar ==
  /\ Running("revive")
  /\ Ahead # {}
  /\ Here \notin ForgottenVersions(db, tx.rootID)
  /\ tx' = [tx EXCEPT !.cursor = Here + 1]
  /\ UNCHANGED db

\* First or Next lands on a memory the scan passes over.
ReviveSkip ==
  /\ Running("revive")
  /\ Ahead # {}
  /\ Here \notin ForgottenVersions(db, tx.rootID)
  /\ tx' = [tx EXCEPT !.cursor = Here]
  /\ UNCHANGED db

ReviveSuperseded_startsOver ==
  /\ Running("revive")
  /\ Ahead # {}
  /\ Here \in ForgottenVersions(db, tx.rootID)
  /\ Successors(db, Here) # {}
  /\ tx' = [tx EXCEPT !.cursor = Nil]
  /\ UNCHANGED db

\* It lands on a forgotten version of the lineage.  The loop that looks for a
\* successor moves the same cursor from First, and leaves it at the successor
\* it finds.
ReviveSuperseded ==
  /\ Running("revive")
  /\ Ahead # {}
  /\ Here \in ForgottenVersions(db, tx.rootID)
  /\ Successors(db, Here) # {}
  /\ tx' = [tx EXCEPT !.cursor = Min(Successors(db, Here))]
  /\ UNCHANGED db

ReviveCommit_firstForgotten ==
  /\ Running("revive")
  /\ Ahead # {}
  /\ Here \in ForgottenVersions(db, tx.rootID)
  /\ \E id \in MemoryIDs \ Stored(db) :
       db' = ReviveLineage(db, tx.rootID, Here, tx.kind, id)
  /\ tx' = Nil

\* It has no successor: the lineage goes on from it.
ReviveCommit ==
  /\ Running("revive")
  /\ Ahead # {}
  /\ Here \in ForgottenVersions(db, tx.rootID)
  /\ Successors(db, Here) = {}
  /\ \E id \in MemoryIDs \ Stored(db) :
       db' = ReviveLineage(db, tx.rootID, Here, tx.kind, id)
  /\ tx' = Nil

\* The cursor ran past the last memory: ErrMemoryNotFound.
ReviveMiss == Running("revive") /\ Ahead = {} /\ Rollback

-------------------------------------------------------------------------------
(* The process dies: the file keeps what was committed. *)
Crash == ~Idle /\ Rollback

Init ==
  /\ db = EmptyDB
  /\ tx = Nil

TxStep ==
  \/ RememberBatchItem \/ RememberBatchFail \/ RememberBatchCommit
  \/ ForgetBatchItem \/ ForgetBatchFail \/ ForgetBatchCommit
  \/ ReviveSkip \/ ReviveSuperseded \/ ReviveCommit \/ ReviveMiss

Next ==
  \/ Remember \/ Forget
  \/ EnsureSpace \/ UpdateSpaceConfig
  \/ BeginEmbeddingMigration \/ MigrateEmbeddings
  \/ RememberBatchBegin \/ ForgetBatchBegin \/ ReviveBegin
  \/ TxStep
  \/ Crash

Spec == Init /\ [][Next]_vars

\* A transaction that has begun runs on; nobody is obliged to begin one.
FairSpec == Spec /\ WF_vars(TxStep)

==============================================================================
