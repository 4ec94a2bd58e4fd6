------------------------------- MODULE Timeline -------------------------------
(***************************************************************************)
(* The export of a space as of a past instant, and the comparison of two   *)
(* such exports (internal/store/bolt/export.go, internal/memory/export.go).*)
(*                                                                         *)
(* Nothing is stored per instant: an export rebuilds the past from the     *)
(* present records and the audit log by their timestamps.  Time is put     *)
(* beside MemoryStore: a clock that may tick between any two steps, and    *)
(* within any transaction that writes, between the timestamp it takes and  *)
(* its commit; and the timestamps of the records and of the forget         *)
(* entries.  An export reads the present database; a comparison exports    *)
(* twice, and commits may come between.                                    *)
(***************************************************************************)
EXTENDS MemoryStore

CONSTANTS
  MaxTime,     \* the last instant of the clock
  ForgetAfter, \* by id: the expiry a memory is remembered with, Nil for none
  Comparing    \* whether a comparison is followed

ASSUME TimeAssumption ==
  /\ MaxTime \in Nat
  /\ ForgetAfter \in [MemoryIDs -> Nat \cup {Nil}]
  /\ Comparing \in BOOLEAN

VARIABLES
  clock,
  createdAt,    \* CreatedAt of each record, and the time of its audit entry
  forgottenAt,  \* the time of the forget entry of each forgotten memory
  stepped,      \* the instant of the last step of the store
  seen,         \* by past instant: the databases as they stood at its end
  viewed        \* the database a comparison in progress exported first, or Nil

timeVars == <<clock, createdAt, forgottenAt, stepped, seen, viewed>>

Instants == 0 .. MaxTime

-------------------------------------------------------------------------------
(* The projection of a database d to an instant.  What a later one keeps of  *)
(* it keeps its timestamps, so those of the present tell also of an earlier  *)
(* database.                                                                 *)

InSpace(d, space) == {id \in Stored(d) : d.memories[id].spaceID = space}

\* What the audit log says was forgotten by then.
ForgottenBy(d, space, asOf) ==
  {id \in MemoryIDs :
     \E e \in d.auditLog : /\ e.operation = "forget"
                           /\ e.spaceID = space
                           /\ e.memoryIDs = <<id>>
                           /\ forgottenAt[id] <= asOf}

CreatedBy(d, space, asOf) == {id \in InSpace(d, space) : createdAt[id] <= asOf}

\* The highest version of its lineage by then: forgotten or not, no other can
\* have been the latest.  Versions of a lineage differ, so the tie that the
\* code breaks by time does not occur.
HighestBy(d, space, id, asOf) ==
  \A other \in CreatedBy(d, space, asOf) :
    RootOf(d, other) = RootOf(d, id) =>
      d.memories[other].version <= d.memories[id].version

ProjectMemory_presentFlag(d, space, id, asOf) ==
  [d.memories[id] EXCEPT
     !.isForgotten = id \in ForgottenBy(d, space, asOf),
     !.hasOrphanedSources =
       d.memories[id].sourceIDs \cap ForgottenBy(d, space, asOf) # {},
     !.isLatest = HighestBy(d, space, id, asOf) /\ ~d.memories[id].isForgotten]

\* The flags are computed anew, from the log and from the versions.
ProjectMemory(d, space, id, asOf) ==
  [d.memories[id] EXCEPT
     !.isForgotten = id \in ForgottenBy(d, space, asOf),
     !.hasOrphanedSources =
       d.memories[id].sourceIDs \cap ForgottenBy(d, space, asOf) # {},
     !.isLatest = /\ HighestBy(d, space, id, asOf)
                  /\ id \notin ForgottenBy(d, space, asOf)]

ProjectMemoriesAsOf(d, space, asOf) ==
  [id \in CreatedBy(d, space, asOf) |-> ProjectMemory(d, space, id, asOf)]

-------------------------------------------------------------------------------
(* Exports. *)

\* A revived memory has no expiry, whatever its predecessor had; it never
\* changes, so the present log tells it.
ExpiryOf(id) ==
  IF \E e \in db.auditLog : /\ e.operation = "revive"
                            /\ e.memoryIDs[Len(e.memoryIDs)] = id
  THEN Nil ELSE ForgetAfter[id]

Expired(id, now) == ExpiryOf(id) # Nil /\ ExpiryOf(id) <= now

\* What Recall would offer of a set of records.
RecallEligible(memories, now) ==
  {id \in DOMAIN memories : /\ memories[id].isLatest
                            /\ ~memories[id].isForgotten
                            /\ ~Expired(id, now)}

Lineages(d, memories) ==
  [root \in {RootOf(d, id) : id \in DOMAIN memories} |->
     {id \in DOMAIN memories : RootOf(d, id) = root}]

\* An entry carries the time of the memory it introduces or forgets.  The two
\* entries of a migration name no memory, and are left out of an export here.
EntryTime(e) ==
  IF e.operation = "forget" THEN forgottenAt[e.memoryIDs[1]]
                            ELSE createdAt[e.memoryIDs[Len(e.memoryIDs)]]

AuditBy(d, space, asOf) ==
  {e \in d.auditLog : /\ e.spaceID = space
                      /\ e.memoryIDs # <<>>
                      /\ EntryTime(e) <= asOf}

ExportSnapshotAt(d, space, asOf) ==
  LET memories == ProjectMemoriesAsOf(d, space, asOf)
  IN  [memories  |-> memories,
       live      |-> RecallEligible(memories, asOf),
       lineages  |-> Lineages(d, memories),
       relations |-> {e \in d.relations : e[1] \in DOMAIN memories},
       audit     |-> AuditBy(d, space, asOf)]

\* The latest of a lineage in an export, Nil without one.
ExportLatest(snapshot, root) ==
  IF \E id \in snapshot.lineages[root] : snapshot.memories[id].isLatest
  THEN CHOOSE id \in snapshot.lineages[root] : snapshot.memories[id].isLatest
  ELSE Nil

\* A lineage that is missing from an export has no versions there.
Versioned(snapshot, root) ==
  IF root \in DOMAIN snapshot.lineages
  THEN <<ExportLatest(snapshot, root), Cardinality(snapshot.lineages[root])>>
  ELSE <<Nil, 0>>

ChangedLineages_common(before, after) ==
  {root \in DOMAIN before.lineages \cap DOMAIN after.lineages :
     Versioned(before, root) # Versioned(after, root)}

ChangedLineages(before, after) ==
  {root \in DOMAIN before.lineages \cup DOMAIN after.lineages :
     Versioned(before, root) # Versioned(after, root)}

Orphans(snapshot) ==
  {id \in snapshot.live : /\ snapshot.memories[id].kind = "derived"
                          /\ snapshot.memories[id].hasOrphanedSources}

CompareExportSnapshots(before, after) ==
  [addedLive    |-> after.live \ before.live,
   removedLive  |-> before.live \ after.live,
   newOrphans   |-> Orphans(after) \ Orphans(before),
   addedAudit   |-> after.audit \ before.audit,
   changedLineages |-> ChangedLineages(before, after)]

\* Each export has a transaction of its own.
ExportDiff(first, space, since, until) ==
  CompareExportSnapshots(ExportSnapshotAt(first, space, since),
                         ExportSnapshotAt(db, space, until))

-------------------------------------------------------------------------------
(* Time. *)

\* The database a step of MemoryStore writes to: the copy of a batch in
\* progress, or the committed one.
Written(d, t) == IF t # Nil /\ t.op # "revive" THEN t.work ELSE d

\* What was there keeps its time; what the step wrote has the one it took.
Stamp(times, before, after, at) ==
  [id \in MemoryIDs |->
     IF id \notin after THEN Nil
     ELSE IF id \in before THEN times[id] ELSE at]

\* A step takes its timestamp at some instant since the last one.  The instants
\* that ended before it did saw a transaction in progress that had written
\* already what the step leaves.
Stamped(at) ==
  LET before == Written(db, tx)
      after  == Written(db', tx')
  IN  /\ createdAt' = Stamp(createdAt, Stored(before), Stored(after), at)
      /\ forgottenAt' = Stamp(forgottenAt, before.forgetLog, after.forgetLog, at)
      /\ seen' = [t \in DOMAIN seen |->
                    IF at <= t THEN seen[t] \cup {after} ELSE seen[t]]

Step ==
  /\ Next
  /\ \E at \in stepped .. clock : Stamped(at)
  /\ stepped' = clock
  /\ UNCHANGED <<clock, viewed>>

\* The end of an instant.  Readers see the committed database; the copy of a
\* batch is remembered beside it.
Tick ==
  /\ clock < MaxTime
  /\ clock' = clock + 1
  /\ seen' = [t \in 0 .. clock |->
                IF t = clock THEN {db, Written(db, tx)} ELSE seen[t]]
  /\ UNCHANGED <<db, tx, createdAt, forgottenAt, stepped, viewed>>

\* The first transaction of ExportDiff; one comparison is followed.
ExportFirst ==
  /\ Comparing
  /\ viewed = Nil
  /\ viewed' = db
  /\ UNCHANGED <<db, tx, clock, createdAt, forgottenAt, stepped, seen>>

TimedInit ==
  /\ Init
  /\ clock = 0
  /\ createdAt = [id \in MemoryIDs |-> Nil]
  /\ forgottenAt = [id \in MemoryIDs |-> Nil]
  /\ stepped = 0
  /\ seen = [t \in {} |-> {}]
  /\ viewed = Nil

TimedNext == Step \/ Tick \/ ExportFirst

TimedSpec == TimedInit /\ [][TimedNext]_<<vars, timeVars>>

-------------------------------------------------------------------------------
(* Properties. *)

\* What an export and a database have in common: the records of the space, and
\* their flags; only a live derived memory is asked for its orphan flag, as the
\* projection computes it for every record and the store for those.
SameFlags(a, b) ==
  /\ a.isLatest = b.isLatest
  /\ a.isForgotten = b.isForgotten
  /\ a.isLatest /\ a.kind = "derived" =>
       a.hasOrphanedSources = b.hasOrphanedSources

Shows(snapshot, d, space) ==
  LET memories == snapshot.memories
  IN  /\ DOMAIN memories =
           {id \in Stored(d) : d.memories[id].spaceID = space}
      /\ \A id \in DOMAIN memories : SameFlags(memories[id], d.memories[id])
      /\ snapshot.relations =
           {e \in d.relations : d.memories[e[1]].spaceID = space}

\* An export to an instant shows the space as it was then, whatever was
\* superseded, forgotten, revived or orphaned since: as readers saw it or, when
\* the instant ended within a transaction that has committed since, as that
\* transaction had it, which no reader saw; and an export to the present shows
\* the database (projectMemoriesAsOf).
ExportShowsThePast ==
  \A space \in Spaces, asOf \in 0 .. clock :
    \E d \in IF asOf = clock THEN {db} ELSE seen[asOf] :
      Shows(ExportSnapshotAt(db, space, asOf), d, space)

\* A difference accounts for itself, whatever was committed between its two
\* exports: a memory that became live or ceased to be is named by an entry the
\* difference lists and its lineage is reported as changed, unless it only
\* expired; and a memory reported as newly orphaned became live, or lost a
\* source that a listed entry forgets (ExportDiff, CompareExportSnapshots).
DiffAccountsForItself ==
  \A space \in Spaces, since, until \in 0 .. clock :
    viewed # Nil /\ since <= until =>
      LET diff == ExportDiff(viewed, space, since, until)
          named == UNION {{e.memoryIDs[n] : n \in DOMAIN e.memoryIDs} :
                            e \in diff.addedAudit}
      IN  /\ \A id \in diff.addedLive \cup diff.removedLive :
               \/ id \in named /\ RootOf(db, id) \in diff.changedLineages
               \/ id \in diff.removedLive /\ Expired(id, until)
          /\ \A id \in diff.newOrphans :
               \/ id \in diff.addedLive
               \/ db.memories[id].sourceIDs \cap named # {}

===============================================================================
