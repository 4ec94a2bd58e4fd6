---------------------------- MODULE TimelineProofs ----------------------------
(***************************************************************************)
(* An export to a past instant shows the space as it was then, and a       *)
(* difference between two exports accounts for itself, for every value of  *)
(* the constants.                                                          *)
(*                                                                         *)
(* The database only grows, and what was there keeps its time.  So for     *)
(* each past instant one of the databases seen at its end is what the      *)
(* present one had by then: the invariant names it, and says the same of   *)
(* the copy of a batch, which may become the present database, and of the  *)
(* database that a comparison exported first.                              *)
(***************************************************************************)
EXTENDS LineageProofs, Timeline

-------------------------------------------------------------------------------
(* The invariant. *)

\* An entry lies in the space of the memory it introduces or forgets.
Located(d, entry) ==
  /\ \A id \in Stored(d) :
       Introduces(entry, id) => entry.spaceID = d.memories[id].spaceID
  /\ entry.operation = "forget" =>
       \E id \in Stored(d) :
         entry = Audited("forget", d.memories[id].spaceID, <<id>>)

EntriesLocated(d) == \A entry \in d.auditLog : Located(d, entry)

Sound(d) ==
  /\ d \in DB
  /\ Chains(d) /\ Logged(d) /\ Linked(d) /\ EntriesLocated(d)

\* past is what d had by the end of the instant t.
PastOf(d, past, created, forgotten, t) ==
  /\ Sound(past)
  /\ KeepsHistory(past, d)
  /\ Stored(past) = {id \in Stored(d) : created[id] <= t}
  /\ past.forgetLog = {id \in d.forgetLog : forgotten[id] <= t}
  /\ past.relations = {e \in d.relations : created[e[1]] <= t}

\* Every memory and every forget has its time.
TimesKnown(d, created, forgotten, now) ==
  /\ \A id \in Stored(d) : created[id] \in 0 .. now
  /\ \A id \in d.forgetLog : forgotten[id] \in 0 .. now

\* Of every past instant some database was seen that d had grown from.
PastsSeen(d, databases, created, forgotten, now) ==
  \A t \in 0 .. now - 1 :
    \E past \in databases[t] : PastOf(d, past, created, forgotten, t)

\* What a comparison exported first was the database once, and has its pasts.
PastsKept(d, created, forgotten, now) ==
  \A t \in 0 .. now : \E past : PastOf(d, past, created, forgotten, t)

ViewedBefore(first, d) ==
  /\ Sound(first) /\ KeepsHistory(first, d)
  /\ first.forgetLog \subseteq d.forgetLog

\* Where the times are, and the pasts, of the database, of the copy of a batch
\* and of what a comparison exported first.  The last step took the last time.
TimeInv ==
  /\ LogInv
  /\ clock \in Nat /\ stepped \in 0 .. clock
  /\ DOMAIN seen = 0 .. clock - 1
  /\ LET work == Written(db, tx)
     IN  /\ EntriesLocated(db) /\ EntriesLocated(work)
         /\ TimesKnown(work, createdAt, forgottenAt, stepped)
         /\ PastsSeen(db, seen, createdAt, forgottenAt, clock)
         /\ PastsSeen(work, seen, createdAt, forgottenAt, clock)
  /\ viewed # Nil => /\ ViewedBefore(viewed, db)
                     /\ PastsKept(viewed, createdAt, forgottenAt, clock)

-------------------------------------------------------------------------------
(* Where entries lie. *)

\* An operation that adds one entry locates it.
LEMMA LocatesEntry ==
  ASSUME NEW d, NEW e, KeepsHistory(d, e), Logged(d), EntriesLocated(d),
         Stored(d) \subseteq MemoryIDs, Stored(e) \subseteq MemoryIDs,
         NEW entry, Located(e, entry),
         e.auditLog \in {d.auditLog, d.auditLog \cup {entry}}
  PROVE  EntriesLocated(e)
<1>. SUFFICES ASSUME NEW f \in d.auditLog
     PROVE  Located(e, f)
  BY DEF EntriesLocated
<1>1. \A id \in Stored(d) : /\ id \in Stored(e)
                            /\ e.memories[id].spaceID = d.memories[id].spaceID
  BY FrozenFields
<1>2. Located(d, f)
  BY DEF EntriesLocated
<1>3. ASSUME NEW id \in Stored(e), Introduces(f, id)
      PROVE  f.spaceID = e.memories[id].spaceID
  <2>1. id \in Stored(d)
    BY <1>3 DEF Logged, OnlyStoredIntroduced
  <2>. QED  BY <1>1, <1>2, <1>3, <2>1 DEF Located
<1>4. ASSUME f.operation = "forget"
      PROVE  \E id \in Stored(e) :
               f = Audited("forget", e.memories[id].spaceID, <<id>>)
  BY <1>1, <1>2, <1>4 DEF Located
<1>. QED  BY <1>3, <1>4 DEF Located

\* Whatever the operation.
LEMMA OperationLocates ==
  ASSUME NEW d \in DB, Logged(d), EntriesLocated(d),
         NEW known \in SUBSET MemoryIDs, NEW e, Operates(known, d, e)
  PROVE  EntriesLocated(e)
<1>0. /\ e \in DB /\ KeepsHistory(d, e)
      /\ Stored(d) \subseteq MemoryIDs /\ Stored(e) \subseteq MemoryIDs
  BY OperationKeeps DEF Stored
<1>1. CASE Remembers(known, d, e)
  <2>1. PICK id \in MemoryIDs \ Stored(d), input \in Inputs(known) :
          \E embedding \in Models :
            /\ RememberAllowed(d, input)
            /\ e = RememberPreparedInTx(d, input, id, embedding)
    BY <1>1 DEF Remembers
  <2>2. PICK embedding \in Models :
          /\ RememberAllowed(d, input)
          /\ e = RememberPreparedInTx(d, input, id, embedding)
    BY <2>1
  <2>. DEFINE ids   == IF input.updates = Nil THEN <<id>> ELSE <<input.updates, id>>
              entry == Audited("remember", input.spaceID, ids)
  <2>3. e.auditLog = d.auditLog \cup {entry}
    BY <2>2, RememberLogs
  <2>4. e.memories[id].spaceID = input.spaceID
    <3>1. PICK version \in Nat, root \in MemoryIDs \cup {Nil} :
            e.memories[id] = NewMemory(input, version, input.updates, root, embedding)
      BY <2>2, RememberEffect
    <3>. QED  BY <3>1 DEF NewMemory
  <2>5. \A m : Introduces(entry, m) => m = id
    BY DEF Introduces, Audited
  <2>6. entry.spaceID = input.spaceID /\ entry.operation = "remember"
    BY DEF Audited
  <2>. HIDE DEF entry
  <2>7. Located(e, entry)
    BY <2>4, <2>5, <2>6 DEF Located
  <2>. QED  BY <1>0, <2>3, <2>7, LocatesEntry
<1>2. CASE Forgets(d, e)
  <2>1. PICK id \in Stored(d) : e = ForgetInTx(d, id)
    BY <1>2 DEF Forgets
  <2>2. CASE d.memories[id].isForgotten
    BY <2>1, <2>2 DEF ForgetInTx
  <2>3. CASE ~d.memories[id].isForgotten
    <3>. DEFINE entry == Audited("forget", d.memories[id].spaceID, <<id>>)
    <3>1. e.auditLog = d.auditLog \cup {entry}
      BY <2>1, <2>3, ForgetLogs
    <3>2. \A m : ~Introduces(entry, m)
      BY EntryIsOther
    <3>3. id \in Stored(e) /\ e.memories[id].spaceID = d.memories[id].spaceID
      BY <1>0, FrozenFields
    <3>4. Located(e, entry)
      BY <3>2, <3>3 DEF Located
    <3>. QED  BY <1>0, <3>1, <3>4, LocatesEntry
  <2>. QED  BY <2>2, <2>3
<1>3. CASE Revives(d, e)
  <2>1. PICK root \in Stored(d), last \in Stored(d), id \in MemoryIDs \ Stored(d) :
          e = ReviveLineage(d, root, last, d.memories[root].kind, id)
    BY <1>3 DEF Revives
  <2>. DEFINE entry == Audited("revive", d.memories[root].spaceID, <<last, id>>)
  <2>2. e.auditLog = d.auditLog \cup {entry}
    BY <2>1, ReviveLogs
  <2>3. e.memories[id].spaceID = d.memories[root].spaceID
    <3>1. d.memories[root].kind \in Kinds
      BY StoredType DEF Memory
    <3>2. e.memories[id] = RevivedMemory(d, root, last, d.memories[root].kind)
      BY <2>1, <3>1, ReviveEffect
    <3>. QED  BY <3>2 DEF RevivedMemory
  <2>4. \A m : Introduces(entry, m) => m = id
    BY DEF Introduces, Audited
  <2>5. entry.spaceID = d.memories[root].spaceID /\ entry.operation = "revive"
    BY DEF Audited
  <2>. HIDE DEF entry
  <2>6. Located(e, entry)
    BY <2>3, <2>4, <2>5 DEF Located
  <2>. QED  BY <1>0, <2>2, <2>6, LocatesEntry
<1>4. CASE Configures(d, e) \/ EndsMigration(d, e)
  <2>1. PICK entry :
          /\ \A m : ~Introduces(entry, m)
          /\ entry.operation # "forget"
          /\ e.auditLog \in {d.auditLog, d.auditLog \cup {entry}}
    BY <1>4, OtherEntry
  <2>2. Located(e, entry)
    BY <2>1 DEF Located
  <2>. QED  BY <1>0, <2>1, <2>2, LocatesEntry
<1>. QED  BY <1>1, <1>2, <1>3, <1>4 DEF Operates

-------------------------------------------------------------------------------
(* What a database grows by. *)

\* e is d and more: what is new in it names a new memory.
GrowsTo(d, e) ==
  /\ KeepsHistory(d, e)
  /\ d.forgetLog \subseteq e.forgetLog
  /\ d.relations \subseteq e.relations
  /\ \A edge \in e.relations \ d.relations : edge[1] \in Stored(e) \ Stored(d)

\* What is not written has not grown.
LEMMA GrowsReflexive == \A d : GrowsTo(d, d)
BY KeepsReflexive DEF GrowsTo

\* Whatever the operation.
LEMMA OperationGrows ==
  ASSUME NEW d \in DB, NEW known \in SUBSET MemoryIDs, NEW e,
         Operates(known, d, e)
  PROVE  GrowsTo(d, e)
<1>0. e \in DB /\ KeepsHistory(d, e)
  BY OperationKeeps
<1>1. CASE Remembers(known, d, e)
  <2>1. PICK id \in MemoryIDs \ Stored(d), input \in Inputs(known) :
          \E embedding \in Models :
            /\ RememberAllowed(d, input)
            /\ e = RememberPreparedInTx(d, input, id, embedding)
    BY <1>1 DEF Remembers
  <2>2. PICK embedding \in Models :
          /\ RememberAllowed(d, input)
          /\ e = RememberPreparedInTx(d, input, id, embedding)
    BY <2>1
  <2>3. e.forgetLog = d.forgetLog
    BY <2>2 DEF RememberPreparedInTx, RememberRoot, RememberUpdate, DB
  <2>4. e.relations = d.relations \cup RelationsOf(input, id)
    BY <2>2 DEF RememberPreparedInTx, RememberRoot, RememberUpdate, DB
  <2>5. \A edge \in RelationsOf(input, id) : edge[1] = id
    BY DEF RelationsOf
  <2>6. id \in Stored(e)
    BY <2>2, RememberEffect
  <2>. QED  BY <1>0, <2>3, <2>4, <2>5, <2>6 DEF GrowsTo
<1>2. CASE Forgets(d, e)
  <2>1. PICK id \in Stored(d) : e = ForgetInTx(d, id)
    BY <1>2 DEF Forgets
  <2>2. d.forgetLog \subseteq e.forgetLog /\ e.relations = d.relations
    BY <2>1 DEF ForgetInTx, ForgetVersion, DeactivateLineage, DB
  <2>. QED  BY <1>0, <2>2 DEF GrowsTo
<1>3. CASE Revives(d, e)
  <2>1. PICK root \in Stored(d), last \in Stored(d), id \in MemoryIDs \ Stored(d) :
          e = ReviveLineage(d, root, last, d.memories[root].kind, id)
    BY <1>3 DEF Revives
  <2>2. e.forgetLog = d.forgetLog /\ e.relations = d.relations
    BY <2>1 DEF ReviveLineage, DB
  <2>. QED  BY <1>0, <2>2 DEF GrowsTo
<1>4. CASE Configures(d, e) \/ EndsMigration(d, e)
  <2>1. e.forgetLog = d.forgetLog /\ e.relations = d.relations
    BY <1>4, OtherLogs
  <2>. QED  BY <1>0, <2>1 DEF GrowsTo
<1>. QED  BY <1>1, <1>2, <1>3, <1>4 DEF Operates


-------------------------------------------------------------------------------
(* A step and the pasts. *)

\* What was there keeps its time, and what is new has one after t.
KeepsTimes(d, e, created, forgotten, created2, forgotten2, t) ==
  /\ \A id \in Stored(d) : created2[id] = created[id]
  /\ \A id \in Stored(e) \ Stored(d) : ~(created2[id] <= t)
  /\ \A id \in d.forgetLog : forgotten2[id] = forgotten[id]
  /\ \A id \in e.forgetLog \ d.forgetLog : ~(forgotten2[id] <= t)

\* The past stays the past of what grows after it.
LEMMA PastSurvives ==
  ASSUME NEW d, NEW e, GrowsTo(d, e), EdgesMirrored(d), NEW t, NEW past,
         NEW created, NEW forgotten, NEW created2, NEW forgotten2,
         PastOf(d, past, created, forgotten, t),
         KeepsTimes(d, e, created, forgotten, created2, forgotten2, t)
  PROVE  PastOf(e, past, created2, forgotten2, t)
<1>1. KeepsHistory(past, e)
  BY KeepsTransitive DEF PastOf, GrowsTo
<1>2. Stored(d) \subseteq Stored(e)
  BY DEF GrowsTo, KeepsHistory
<1>3. Stored(past) = {id \in Stored(e) : created2[id] <= t}
  BY <1>2 DEF PastOf, KeepsTimes
<1>4. past.forgetLog = {id \in e.forgetLog : forgotten2[id] <= t}
  BY DEF PastOf, KeepsTimes, GrowsTo
<1>5. past.relations = {edge \in e.relations : created2[edge[1]] <= t}
  <2>1. \A edge \in d.relations : created2[edge[1]] = created[edge[1]]
    BY DEF EdgesMirrored, KeepsTimes
  <2>2. \A edge \in e.relations \ d.relations : ~(created2[edge[1]] <= t)
    BY DEF GrowsTo, KeepsTimes
  <2>. QED  BY <2>1, <2>2 DEF PastOf, GrowsTo
<1>. QED  BY <1>1, <1>3, <1>4, <1>5 DEF PastOf

\* y grew from x, and what is new in it is new beside w as well.
DrawnFrom(w, w2, x, y) ==
  /\ GrowsTo(x, y)
  /\ Stored(x) \subseteq Stored(w) /\ Stored(y) \subseteq Stored(w2)
  /\ x.forgetLog \subseteq w.forgetLog /\ y.forgetLog \subseteq w2.forgetLog
  /\ \A id \in Stored(y) : id \in Stored(w) => id \in Stored(x)
  /\ \A id \in y.forgetLog : id \in w.forgetLog => id \in x.forgetLog

\* The time a step takes is after every instant that ended before it; what has
\* not grown has no new one.
LEMMA StampKeepsTimes ==
  ASSUME NEW now \in Nat, NEW w, NEW w2, NEW x, NEW y, DrawnFrom(w, w2, x, y),
         w2.forgetLog \subseteq MemoryIDs,
         NEW created, NEW forgotten, NEW created2, NEW forgotten2,
         created2 = [id \in MemoryIDs |->
           IF id \notin Stored(w2) THEN Nil
           ELSE IF id \in Stored(w) THEN created[id] ELSE now],
         forgotten2 = [id \in MemoryIDs |->
           IF id \notin w2.forgetLog THEN Nil
           ELSE IF id \in w.forgetLog THEN forgotten[id] ELSE now],
         NEW t \in Nat, y = x \/ t < now
  PROVE  KeepsTimes(x, y, created, forgotten, created2, forgotten2, t)
<1>1. /\ Stored(x) \subseteq Stored(y) /\ x.forgetLog \subseteq y.forgetLog
      /\ Stored(y) \subseteq MemoryIDs
  BY DEF DrawnFrom, GrowsTo, KeepsHistory, Stored
<1>2. \A id \in Stored(x) : created2[id] = created[id]
  BY <1>1 DEF DrawnFrom
<1>3. \A id \in x.forgetLog : forgotten2[id] = forgotten[id]
  BY <1>1 DEF DrawnFrom
<1>4. \A id \in Stored(y) \ Stored(x) : created2[id] = now
  BY <1>1 DEF DrawnFrom
<1>5. \A id \in y.forgetLog \ x.forgetLog : forgotten2[id] = now
  BY <1>1 DEF DrawnFrom
<1>6. y = x \/ ~(now <= t)
  OBVIOUS
<1>. QED  BY <1>2, <1>3, <1>4, <1>5, <1>6 DEF KeepsTimes

\* The copy of a batch in progress, or what is committed.
LEMMA WrittenIs ==
  ASSUME NEW d, NEW x, x \in BatchTx \cup ReviveTx \cup {Nil}
  PROVE  Written(d, x) =
           IF x # Nil /\ (x.op = "remember" \/ x.op = "forget") THEN x.work ELSE d
BY DEF Written, BatchTx, ReviveTx


\* What is being written keeps what is committed.
WrittenSound ==
  LET w == Written(db, tx)
  IN  /\ w \in DB /\ Chains(w) /\ Logged(w) /\ Linked(w)
      /\ Stored(db) \subseteq Stored(w) /\ db.forgetLog \subseteq w.forgetLog

LEMMA WrittenKeeps ==
  ASSUME LogInv
  PROVE  LET w == Written(db, tx)
         IN  /\ w \in DB /\ KeepsHistory(db, w)
             /\ Chains(w) /\ Logged(w) /\ Linked(w)
             /\ Stored(db) \subseteq Stored(w) /\ db.forgetLog \subseteq w.forgetLog
<1>. DEFINE w == Written(db, tx)
<1>0. /\ TypeOK /\ WorkKeepsHistory
      /\ Chains(db) /\ Logged(db) /\ Linked(db)
      /\ InBatch => Chains(tx.work) /\ Logged(tx.work) /\ Linked(tx.work)
  BY DEF LogInv, ChainInv, HInv, IInv
<1>1. w = IF InBatch THEN tx.work ELSE db
  BY <1>0, WrittenIs DEF TypeOK, InBatch, Running, Idle
<1>2. w \in DB /\ KeepsHistory(db, w)
  BY <1>0, <1>1, RunningType, KeepsReflexive
     DEF InBatch, WorkKeepsHistory, TypeOK
<1>3. Chains(w) /\ Logged(w) /\ Linked(w)
  BY <1>0, <1>1
<1>. HIDE DEF w
<1>4. Stored(db) \subseteq Stored(w)
  BY <1>2 DEF KeepsHistory
<1>5. db.forgetLog \subseteq w.forgetLog
  <2>1. \A id \in Stored(db) :
          db.memories[id].isForgotten => w.memories[id].isForgotten
    BY <1>2 DEF KeepsHistory, Kept
  <2>2. db.forgetLog = {id \in Stored(db) : db.memories[id].isForgotten}
    BY <1>0 DEF Logged, ForgetsLogged
  <2>3. w.forgetLog = {id \in Stored(w) : w.memories[id].isForgotten}
    BY <1>3 DEF Logged, ForgetsLogged
  <2>. QED  BY <1>4, <2>1, <2>2, <2>3
<1>. QED  BY <1>2, <1>3, <1>4, <1>5 DEF w

LEMMA WrittenIsSound == LogInv => WrittenSound
BY WrittenKeeps DEF WrittenSound

\* What is written changes by one operation, or is dropped; what is committed
\* stays, or becomes what is written.
LEMMA StepOfWritten ==
  ASSUME HInv, HInv', [Next]_vars
  PROVE  LET w  == Written(db, tx)
             w2 == Written(db', tx')
         IN  \/ w2 = w /\ db' \in {db, w}
             \/ w2 = db /\ db' = db
             \/ Operates(Stored(db), w, w2) /\ db' \in {db, w2}
<1>. DEFINE w  == Written(db, tx)
            w2 == Written(db', tx')
<1>1. w = IF InBatch THEN tx.work ELSE db
  BY WrittenIs DEF HInv, IInv, TypeOK, InBatch, Running, Idle
<1>2. w2 = IF InBatch' THEN tx'.work ELSE db'
  BY WrittenIs DEF HInv, IInv, TypeOK, InBatch, Running, Idle
<1>. HIDE DEF w, w2
<1>3. CASE InBatch'
  <2>1. w2 = tx'.work
    BY <1>2, <1>3
  <2>. USE <1>3
  <2>2. db' = db
    BY StepOfWork
  <2>3. \/ tx'.work = db
        \/ InBatch /\ tx'.work = tx.work
        \/ InBatch /\ Remembers(Stored(db), tx.work, tx'.work)
        \/ InBatch /\ Forgets(tx.work, tx'.work)
    BY StepOfWork DEF InBatch
  <2>. QED  BY <1>1, <2>1, <2>2, <2>3 DEF Operates, w, w2
<1>4. CASE ~InBatch'
  BY <1>1, <1>2, <1>4, StepOfDB DEF w, w2
<1>. QED  BY <1>3, <1>4

\* Each database after a step grew from one before it.
LEMMA StepDraws ==
  ASSUME LogInv, HInv', [Next]_vars, NEW y,
         y \in {db', Written(db', tx')},
         EntriesLocated(db), EntriesLocated(Written(db, tx))
  PROVE  /\ Written(db', tx') \in DB
         /\ EntriesLocated(y)
         /\ \E x \in {db, Written(db, tx)} :
              /\ DrawnFrom(Written(db, tx), Written(db', tx'), x, y)
              /\ y \in {x, Written(db', tx')}
<1>. DEFINE w  == Written(db, tx)
            w2 == Written(db', tx')
<1>0. HInv /\ db \in DB
  BY DEF LogInv, ChainInv, HInv, IInv, TypeOK
<1>1. /\ w \in DB /\ Logged(w)
      /\ Stored(db) \subseteq Stored(w) /\ db.forgetLog \subseteq w.forgetLog
  BY WrittenKeeps
<1>2. \/ w2 = w /\ db' \in {db, w}
      \/ w2 = db /\ db' = db
      \/ Operates(Stored(db), w, w2) /\ db' \in {db, w2}
  BY <1>0, StepOfWritten
<1>3. GrowsTo(db, db) /\ GrowsTo(w, w)
  BY GrowsReflexive
<1>4. y \in {db', w2} /\ EntriesLocated(db) /\ EntriesLocated(w)
  OBVIOUS
<1>. HIDE DEF w, w2
<1>5. CASE w2 = w /\ db' \in {db, w}
  <2>1. y \in {db, w}
    BY <1>4, <1>5
  <2>2. DrawnFrom(w, w2, y, y)
    BY <1>1, <1>3, <1>5, <2>1 DEF DrawnFrom
  <2>. QED  BY <1>1, <1>4, <1>5, <2>1, <2>2 DEF w, w2
<1>6. CASE w2 = db /\ db' = db
  <2>1. y = db
    BY <1>4, <1>6
  <2>2. DrawnFrom(w, w2, db, y)
    BY <1>1, <1>3, <1>6, <2>1 DEF DrawnFrom
  <2>. QED  BY <1>0, <1>4, <1>6, <2>1, <2>2 DEF w, w2
<1>7. CASE Operates(Stored(db), w, w2) /\ db' \in {db, w2}
  <2>0. Stored(db) \in SUBSET MemoryIDs
    BY DEF Stored
  <2>1. w2 \in DB
    BY <1>1, <1>7, <2>0, OperationKeeps
  <2>2. GrowsTo(w, w2)
    BY <1>1, <1>7, <2>0, OperationGrows
  <2>3. EntriesLocated(w2)
    BY <1>1, <1>4, <1>7, <2>0, OperationLocates
  <2>4. Stored(w) \subseteq Stored(w2) /\ w.forgetLog \subseteq w2.forgetLog
    BY <2>2 DEF GrowsTo, KeepsHistory
  <2>5. CASE y = db
    <3>1. DrawnFrom(w, w2, db, y)
      BY <1>1, <1>3, <2>4, <2>5 DEF DrawnFrom
    <3>. QED  BY <1>4, <2>1, <2>5, <3>1 DEF w, w2
  <2>6. CASE y = w2
    <3>1. DrawnFrom(w, w2, w, y)
      BY <2>2, <2>6 DEF DrawnFrom
    <3>. QED  BY <2>1, <2>3, <2>6, <3>1 DEF w, w2
  <2>. QED  BY <1>4, <1>7, <2>5, <2>6
<1>. QED  BY <1>2, <1>5, <1>6, <1>7


-------------------------------------------------------------------------------
(* The invariant holds. *)

\* Before the first instant there are no pasts, and nothing is stored.
LEMMA InitTimeInv == TimedInit => TimeInv
<1>. SUFFICES ASSUME TimedInit
     PROVE  TimeInv
  OBVIOUS
<1>1. /\ LogInv /\ db = EmptyDB /\ tx = Nil /\ clock = 0
      /\ stepped = 0 /\ viewed = Nil /\ DOMAIN seen = {}
  BY InitLogInv DEF TimedInit, Init
<1>2. Written(db, tx) = EmptyDB
  BY <1>1 DEF Written
<1>3. EntriesLocated(EmptyDB)
  BY DEF EntriesLocated, EmptyDB
<1>4. Stored(EmptyDB) = {} /\ EmptyDB.forgetLog = {}
  BY DEF Stored, EmptyDB
<1>5. 0 .. 0 - 1 = {}
  OBVIOUS
<1>6. TimesKnown(EmptyDB, createdAt, forgottenAt, stepped)
  BY <1>4 DEF TimesKnown
<1>7. PastsSeen(EmptyDB, seen, createdAt, forgottenAt, clock)
  BY <1>1, <1>5 DEF PastsSeen
<1>8. clock \in Nat /\ stepped \in 0 .. clock /\ DOMAIN seen = 0 .. clock - 1
  BY <1>1, <1>5
<1>. QED  BY <1>1, <1>2, <1>3, <1>6, <1>7, <1>8 DEF TimeInv

\* What stands at the end of an instant is its past.
LEMMA PresentIsPast ==
  ASSUME NEW d \in DB, Chains(d), Logged(d), Linked(d), EntriesLocated(d),
         NEW created, NEW forgotten, NEW last \in Nat, NEW t \in Nat, last <= t,
         NEW w, Stored(d) \subseteq Stored(w), d.forgetLog \subseteq w.forgetLog,
         TimesKnown(w, created, forgotten, last)
  PROVE  PastOf(d, d, created, forgotten, t)
<1>1. /\ \A id \in Stored(d) : created[id] <= t
      /\ \A id \in d.forgetLog : forgotten[id] <= t
  BY DEF TimesKnown
<1>2. \A edge \in d.relations : edge[1] \in Stored(d)
  BY DEF Linked, EdgesMirrored
<1>3. KeepsHistory(d, d)
  BY KeepsReflexive
<1>. QED  BY <1>1, <1>2, <1>3 DEF PastOf, Sound

\* What a step leaves alone keeps its pasts.
LEMMA UntouchedPasts ==
  ASSUME NEW w, NEW w2, NEW d, Linked(d), NEW at \in Nat, NEW now \in Nat,
         NEW created, NEW forgotten, NEW created2, NEW forgotten2,
         Stored(d) \subseteq Stored(w) \cap Stored(w2),
         d.forgetLog \subseteq w.forgetLog \cap w2.forgetLog,
         w2.forgetLog \subseteq MemoryIDs,
         created2 = [id \in MemoryIDs |->
           IF id \notin Stored(w2) THEN Nil
           ELSE IF id \in Stored(w) THEN created[id] ELSE at],
         forgotten2 = [id \in MemoryIDs |->
           IF id \notin w2.forgetLog THEN Nil
           ELSE IF id \in w.forgetLog THEN forgotten[id] ELSE at],
         PastsKept(d, created, forgotten, now)
  PROVE  PastsKept(d, created2, forgotten2, now)
<1>. SUFFICES ASSUME NEW t \in 0 .. now
     PROVE  \E past : PastOf(d, past, created2, forgotten2, t)
  BY DEF PastsKept
<1>1. PICK past : PastOf(d, past, created, forgotten, t)
  BY DEF PastsKept
<1>2. GrowsTo(d, d) /\ EdgesMirrored(d)
  BY GrowsReflexive DEF Linked
<1>3. DrawnFrom(w, w2, d, d) /\ t \in Nat
  BY <1>2 DEF DrawnFrom
<1>4. KeepsTimes(d, d, created, forgotten, created2, forgotten2, t)
  BY <1>3, StampKeepsTimes
<1>5. PastOf(d, past, created2, forgotten2, t)
  BY <1>1, <1>2, <1>4, PastSurvives
<1>. QED  BY <1>5

\* A step takes a time since the last step.  The instants that ended before it
\* keep their pasts; those that ended after it saw what the step leaves.
LEMMA StepTimeInv == TimeInv /\ Step => TimeInv'
<1>. SUFFICES ASSUME TimeInv, Step
     PROVE  TimeInv'
  OBVIOUS
<1>. DEFINE w  == Written(db, tx)
            w2 == Written(db', tx')
<1>1. LogInv /\ LogInv' /\ HInv' /\ [Next]_vars
  BY NextLogInv DEF TimeInv, Step, LogInv, ChainInv
<1>2. PICK at \in stepped .. clock : Stamped(at)
  BY DEF Step
<1>3. /\ EntriesLocated(db) /\ EntriesLocated(w)
      /\ TimesKnown(w, createdAt, forgottenAt, stepped)
      /\ PastsSeen(db, seen, createdAt, forgottenAt, clock)
      /\ PastsSeen(w, seen, createdAt, forgottenAt, clock)
  BY DEF TimeInv
<1>4. /\ createdAt' = [id \in MemoryIDs |->
           IF id \notin Stored(w2) THEN Nil
           ELSE IF id \in Stored(w) THEN createdAt[id] ELSE at]
      /\ forgottenAt' = [id \in MemoryIDs |->
           IF id \notin w2.forgetLog THEN Nil
           ELSE IF id \in w.forgetLog THEN forgottenAt[id] ELSE at]
      /\ seen' = [t \in DOMAIN seen |->
                    IF at <= t THEN seen[t] \cup {w2} ELSE seen[t]]
  BY <1>2 DEF Stamped, Stamp
<1>5. /\ clock \in Nat /\ clock' = clock /\ viewed' = viewed
      /\ stepped \in Nat /\ stepped' = clock
      /\ at \in Nat /\ stepped <= at /\ at <= clock
      /\ DOMAIN seen = 0 .. clock - 1
  BY <1>2 DEF TimeInv, Step
<1>6. /\ Linked(db) /\ Linked(w) /\ db \in DB
      /\ Stored(db) \subseteq Stored(w) /\ db.forgetLog \subseteq w.forgetLog
  BY <1>1, WrittenKeeps DEF LogInv, ChainInv, HInv, IInv, TypeOK
<1>7. /\ w2 \in DB /\ Chains(w2) /\ Logged(w2) /\ Linked(w2)
      /\ Stored(db') \subseteq Stored(w2) /\ db'.forgetLog \subseteq w2.forgetLog
  <2>1. LogInv' => WrittenSound'
    BY WrittenIsSound, PTL
  <2>. QED  BY <1>1, <2>1 DEF WrittenSound
<1>8. EntriesLocated(db') /\ EntriesLocated(w2)
  <2>1. EntriesLocated(w2)
    BY <1>1, <1>3, StepDraws
  <2>2. EntriesLocated(db')
    BY <1>1, <1>3, StepDraws
  <2>. QED  BY <2>1, <2>2
<1>9. \A y \in {db', w2} : \E x \in {db, w} :
        DrawnFrom(w, w2, x, y) /\ y \in {x, w2}
  BY <1>1, <1>3, StepDraws
<1>10. viewed # Nil =>
         /\ ViewedBefore(viewed, db)
         /\ PastsKept(viewed, createdAt, forgottenAt, clock)
  BY DEF TimeInv
<1>11. KeepsHistory(db, db') /\ db.forgetLog \subseteq db'.forgetLog
  <2>1. PICK x \in {db, w} : GrowsTo(x, db')
    BY <1>9 DEF DrawnFrom
  <2>2. KeepsHistory(db, x) /\ db.forgetLog \subseteq x.forgetLog
    BY <1>1, <2>1, WrittenKeeps, KeepsReflexive
  <2>. QED  BY <2>1, <2>2, KeepsTransitive DEF GrowsTo
<1>. HIDE DEF w, w2
<1>12. w2.forgetLog \subseteq MemoryIDs /\ Stored(w2) \subseteq MemoryIDs
  BY <1>7 DEF DB, Stored
<1>13. ASSUME NEW t \in Nat, at <= t
       PROVE  TimesKnown(w2, createdAt', forgottenAt', t)
  <2>1. \A id \in Stored(w2) : createdAt'[id] \in 0 .. t
    BY <1>3, <1>4, <1>5, <1>12, <1>13 DEF TimesKnown
  <2>2. \A id \in w2.forgetLog : forgottenAt'[id] \in 0 .. t
    BY <1>3, <1>4, <1>5, <1>12, <1>13 DEF TimesKnown
  <2>. QED  BY <2>1, <2>2 DEF TimesKnown
<1>14. TimesKnown(w2, createdAt', forgottenAt', stepped')
  BY <1>5, <1>13
<1>15. \A t \in 0 .. clock - 1 : seen[t] \subseteq seen'[t]
  BY <1>4, <1>5
<1>16. ASSUME NEW y \in {db', w2}
       PROVE  PastsSeen(y, seen', createdAt', forgottenAt', clock')
  <2>1. PICK x \in {db, w} : DrawnFrom(w, w2, x, y) /\ y \in {x, w2}
    BY <1>9
  <2>2. PastsSeen(x, seen, createdAt, forgottenAt, clock) /\ Linked(x)
    BY <1>3, <1>6
  <2>3. EdgesMirrored(x) /\ GrowsTo(x, y)
    BY <2>1, <2>2 DEF Linked, DrawnFrom
  <2>. SUFFICES ASSUME NEW t \in 0 .. clock - 1
       PROVE  \E past \in seen'[t] : PastOf(y, past, createdAt', forgottenAt', t)
    BY <1>5 DEF PastsSeen
  <2>4. CASE y = x \/ t < at
    <3>1. PICK past \in seen[t] : PastOf(x, past, createdAt, forgottenAt, t)
      BY <2>2 DEF PastsSeen
    <3>2. t \in Nat
      OBVIOUS
    <3>3. KeepsTimes(x, y, createdAt, forgottenAt, createdAt', forgottenAt', t)
      BY <1>4, <1>5, <1>12, <2>1, <2>4, <3>2, StampKeepsTimes
    <3>4. PastOf(y, past, createdAt', forgottenAt', t)
      BY <2>3, <3>1, <3>3, PastSurvives
    <3>. QED  BY <1>15, <3>1, <3>4
  <2>5. CASE y = w2 /\ at <= t
    <3>1. w2 \in seen'[t]
      BY <1>4, <1>5, <2>5
    <3>2. t \in Nat /\ TimesKnown(w2, createdAt', forgottenAt', t)
      BY <1>13, <2>5
    <3>3. PastOf(w2, w2, createdAt', forgottenAt', t)
      BY <1>7, <1>8, <3>2, PresentIsPast
    <3>. QED  BY <2>5, <3>1, <3>3
  <2>. QED  BY <1>5, <2>1, <2>4, <2>5
<1>17. ASSUME viewed' # Nil
       PROVE  /\ ViewedBefore(viewed', db')
              /\ PastsKept(viewed', createdAt', forgottenAt', clock')
  <2>1. PICK first : first = viewed /\ first = viewed'
    BY <1>5
  <2>2. /\ ViewedBefore(first, db)
        /\ PastsKept(first, createdAt, forgottenAt, clock)
    BY <1>10, <1>17, <2>1
  <2>3. KeepsHistory(first, db') /\ first.forgetLog \subseteq db'.forgetLog
    BY <1>11, <2>2, KeepsTransitive DEF ViewedBefore
  <2>4. /\ Stored(first) \subseteq Stored(w) \cap Stored(w2)
        /\ first.forgetLog \subseteq w.forgetLog \cap w2.forgetLog
    <3>1. Stored(first) \subseteq Stored(db) /\ Stored(first) \subseteq Stored(db')
      BY <2>2, <2>3 DEF ViewedBefore, KeepsHistory
    <3>. QED  BY <1>6, <1>7, <2>2, <2>3, <3>1 DEF ViewedBefore
  <2>5. Linked(first) /\ Sound(first)
    BY <2>2 DEF ViewedBefore, Sound
  <2>6. PastsKept(first, createdAt', forgottenAt', clock)
    BY <1>4, <1>5, <1>12, <2>2, <2>4, <2>5, UntouchedPasts
  <2>. QED  BY <1>5, <2>1, <2>3, <2>5, <2>6 DEF ViewedBefore
<1>18. PastsSeen(db', seen', createdAt', forgottenAt', clock')
  BY <1>16
<1>19. PastsSeen(w2, seen', createdAt', forgottenAt', clock')
  BY <1>16
<1>20. DOMAIN seen' = 0 .. clock' - 1 /\ stepped' \in 0 .. clock'
  BY <1>4, <1>5
<1>. QED  BY <1>1, <1>5, <1>8, <1>14, <1>17, <1>18, <1>19, <1>20
             DEF TimeInv, w, w2

\* The clock ticks: the present becomes a past.
LEMMA TickTimeInv == TimeInv /\ Tick => TimeInv'
<1>. SUFFICES ASSUME TimeInv, Tick
     PROVE  TimeInv'
  OBVIOUS
<1>. DEFINE w == Written(db, tx)
<1>1. /\ LogInv /\ clock \in Nat /\ stepped \in 0 .. clock
      /\ EntriesLocated(db) /\ EntriesLocated(w)
      /\ TimesKnown(w, createdAt, forgottenAt, stepped)
      /\ PastsSeen(db, seen, createdAt, forgottenAt, clock)
      /\ PastsSeen(w, seen, createdAt, forgottenAt, clock)
      /\ viewed # Nil =>
           /\ ViewedBefore(viewed, db)
           /\ PastsKept(viewed, createdAt, forgottenAt, clock)
  BY DEF TimeInv
<1>2. /\ clock' = clock + 1
      /\ seen' = [t \in 0 .. clock |->
                    IF t = clock THEN {db, w} ELSE seen[t]]
      /\ UNCHANGED <<db, tx, createdAt, forgottenAt, stepped, viewed>>
  BY DEF Tick
<1>3. LogInv'
  BY <1>1, <1>2, NextLogInv DEF vars
<1>4. Written(db', tx') = w
  BY <1>2
<1>5. /\ db \in DB /\ Chains(db) /\ Logged(db) /\ Linked(db)
      /\ w \in DB /\ Chains(w) /\ Logged(w) /\ Linked(w)
      /\ Stored(db) \subseteq Stored(w) /\ db.forgetLog \subseteq w.forgetLog
  BY <1>1, WrittenKeeps DEF LogInv, ChainInv, HInv, IInv, TypeOK
<1>. HIDE DEF w
<1>6. /\ TimesKnown(w, createdAt, forgottenAt, stepped)
      /\ stepped \in Nat /\ stepped <= clock
  BY <1>1
<1>7. ASSUME NEW d, PastsSeen(d, seen, createdAt, forgottenAt, clock),
             \E now \in {db, w} : PastOf(d, now, createdAt, forgottenAt, clock)
      PROVE  PastsSeen(d, seen', createdAt, forgottenAt, clock + 1)
  <2>. SUFFICES ASSUME NEW t \in 0 .. clock
       PROVE  \E past \in seen'[t] : PastOf(d, past, createdAt, forgottenAt, t)
    BY <1>1 DEF PastsSeen
  <2>1. CASE t = clock
    <3>1. seen'[t] = {db, w}
      BY <1>2, <2>1
    <3>. QED  BY <1>7, <2>1, <3>1
  <2>2. CASE t # clock
    <3>1. seen'[t] = seen[t] /\ t \in 0 .. clock - 1
      BY <1>1, <1>2, <2>2
    <3>. QED  BY <1>7, <3>1 DEF PastsSeen
  <2>. QED  BY <2>1, <2>2
<1>8. ASSUME NEW d \in {db, w}
      PROVE  PastsSeen(d, seen', createdAt, forgottenAt, clock + 1)
  <2>1. PastOf(d, d, createdAt, forgottenAt, clock)
    BY <1>1, <1>5, <1>6, PresentIsPast
  <2>2. PastsSeen(d, seen, createdAt, forgottenAt, clock)
    BY <1>1
  <2>. QED  BY <1>7, <2>1, <2>2
<1>9. ASSUME viewed # Nil
      PROVE  PastsKept(viewed, createdAt, forgottenAt, clock + 1)
  <2>1. ViewedBefore(viewed, db) /\ PastsKept(viewed, createdAt, forgottenAt, clock)
    BY <1>1, <1>9
  <2>2. PICK first : first = viewed
    OBVIOUS
  <2>3. /\ first \in DB /\ Chains(first) /\ Logged(first) /\ Linked(first)
        /\ EntriesLocated(first)
    BY <2>1, <2>2 DEF ViewedBefore, Sound
  <2>4. Stored(first) \subseteq Stored(w) /\ first.forgetLog \subseteq w.forgetLog
    BY <1>5, <2>1, <2>2 DEF ViewedBefore, KeepsHistory
  <2>5. clock + 1 \in Nat /\ stepped <= clock + 1
    BY <1>1, <1>6
  <2>6. PastOf(first, first, createdAt, forgottenAt, clock + 1)
    BY <1>6, <2>3, <2>4, <2>5, PresentIsPast
  <2>7. \A t \in 0 .. clock + 1 : t = clock + 1 \/ t \in 0 .. clock
    BY <1>1
  <2>. QED  BY <2>1, <2>2, <2>6, <2>7 DEF PastsKept
<1>10. /\ clock' \in Nat /\ stepped' \in 0 .. clock'
       /\ DOMAIN seen' = 0 .. clock' - 1
  BY <1>1, <1>2
<1>. QED  BY <1>1, <1>2, <1>3, <1>4, <1>6, <1>8, <1>9, <1>10 DEF TimeInv

\* Of every instant up to the present the invariant names a past.
LEMMA PastsExist ==
  ASSUME TimeInv, NEW asOf \in 0 .. clock
  PROVE  \E past \in IF asOf = clock THEN {db} ELSE seen[asOf] :
           PastOf(db, past, createdAt, forgottenAt, asOf)
<1>. DEFINE w == Written(db, tx)
<1>1. /\ LogInv /\ clock \in Nat /\ stepped \in Nat /\ stepped <= clock
      /\ EntriesLocated(db)
      /\ TimesKnown(w, createdAt, forgottenAt, stepped)
      /\ PastsSeen(db, seen, createdAt, forgottenAt, clock)
  BY DEF TimeInv
<1>2. /\ db \in DB /\ Chains(db) /\ Logged(db) /\ Linked(db)
      /\ Stored(db) \subseteq Stored(w) /\ db.forgetLog \subseteq w.forgetLog
  BY <1>1, WrittenKeeps DEF LogInv, ChainInv, HInv, IInv, TypeOK
<1>. HIDE DEF w
<1>3. CASE asOf = clock
  BY <1>1, <1>2, <1>3, PresentIsPast
<1>4. CASE asOf # clock
  <2>1. asOf \in 0 .. clock - 1
    BY <1>1, <1>4
  <2>. QED  BY <1>1, <1>4, <2>1 DEF PastsSeen
<1>. QED  BY <1>3, <1>4

\* A comparison begins: what it exports first is the database.
LEMMA ViewTimeInv == TimeInv /\ ExportFirst => TimeInv'
<1>. SUFFICES ASSUME TimeInv, ExportFirst
     PROVE  TimeInv'
  OBVIOUS
<1>1. /\ viewed' = db
      /\ UNCHANGED <<db, tx, clock, createdAt, forgottenAt, stepped, seen>>
  BY DEF ExportFirst
<1>2. LogInv'
  BY <1>1, NextLogInv DEF TimeInv, vars
<1>3. \A t \in 0 .. clock : \E past : PastOf(db, past, createdAt, forgottenAt, t)
  BY PastsExist
<1>4. PastsKept(db, createdAt, forgottenAt, clock)
  BY <1>3 DEF PastsKept
<1>5. Sound(db) /\ KeepsHistory(db, db)
  BY KeepsReflexive DEF Sound, TimeInv, LogInv, ChainInv, HInv, IInv, TypeOK
<1>. QED  BY <1>1, <1>2, <1>4, <1>5 DEF TimeInv, ViewedBefore

\* Every step keeps it.
LEMMA NextTimeInv == TimeInv /\ [TimedNext]_<<vars, timeVars>> => TimeInv'
<1>. SUFFICES ASSUME TimeInv, [TimedNext]_<<vars, timeVars>>
     PROVE  TimeInv'
  OBVIOUS
<1>1. CASE Step
  BY <1>1, StepTimeInv
<1>2. CASE Tick
  BY <1>2, TickTimeInv
<1>4. CASE ExportFirst
  BY <1>4, ViewTimeInv
<1>3. CASE UNCHANGED <<vars, timeVars>>
  <2>1. LogInv'
    BY <1>3, NextLogInv DEF TimeInv
  <2>2. /\ db' = db /\ tx' = tx /\ clock' = clock /\ seen' = seen
        /\ createdAt' = createdAt /\ forgottenAt' = forgottenAt
        /\ stepped' = stepped /\ viewed' = viewed
    BY <1>3 DEF vars, timeVars
  <2>. QED  BY <2>1, <2>2 DEF TimeInv
<1>. QED  BY <1>1, <1>2, <1>3, <1>4 DEF TimedNext


-------------------------------------------------------------------------------
(* An export shows the past. *)

\* The highest version of a lineage is the end of its chain.
LEMMA HighestIsEnd ==
  ASSUME NEW d \in DB, Chains(d), NEW id \in Stored(d)
  PROVE  Successors(d, id) = {} <=>
           \A other \in Versions(d, RootOf(d, id)) :
             d.memories[other].version <= d.memories[id].version
<1>. DEFINE root == RootOf(d, id)
            n == Cardinality(Versions(d, root))
<1>1. root \in MemoryIDs /\ n \in Nat
  BY StoredType, VersionsFinite
<1>2. CASE Successors(d, id) = {}
  <2>1. d.memories[id].version = n
    BY <1>2, EndIsLast
  <2>2. \A other \in Versions(d, root) : d.memories[other].version \in 1 .. n
    BY <1>1 DEF Chains, Numbered
  <2>. QED  BY <1>1, <1>2, <2>1, <2>2
<1>3. CASE Successors(d, id) # {}
  <2>1. PICK next \in Stored(d) : d.memories[next].parentID = id
    BY <1>3 DEF Successors
  <2>2. id # Nil
    BY NilAssumption DEF Stored
  <2>3. /\ d.memories[next].rootID = root
        /\ d.memories[next].version = d.memories[id].version + 1
    BY <2>1, <2>2 DEF Chains, ParentsAgree
  <2>4. next \in Versions(d, root)
    BY <1>1, <2>3, NilAssumption DEF Versions, RootOf
  <2>5. d.memories[id].version \in Nat
    BY StoredType DEF Memory
  <2>6. ~(d.memories[next].version <= d.memories[id].version)
    BY <2>3, <2>5
  <2>. QED  BY <1>3, <2>4, <2>6
<1>. QED  BY <1>2, <1>3

\* What an export takes to be created and forgotten by then.
LEMMA PastRecords ==
  ASSUME NEW d \in DB, Logged(d), EntriesLocated(d),
         NEW space, NEW asOf, NEW past,
         PastOf(d, past, createdAt, forgottenAt, asOf)
  PROVE  /\ CreatedBy(d, space, asOf) =
              {id \in Stored(past) : past.memories[id].spaceID = space}
         /\ ForgottenBy(d, space, asOf) =
              {id \in Stored(past) : /\ past.memories[id].isForgotten
                                     /\ past.memories[id].spaceID = space}
<1>1. /\ KeepsHistory(past, d)
      /\ Stored(past) = {id \in Stored(d) : createdAt[id] <= asOf}
      /\ past.forgetLog = {id \in d.forgetLog : forgottenAt[id] <= asOf}
      /\ past.forgetLog = {id \in Stored(past) : past.memories[id].isForgotten}
  BY DEF PastOf, Sound, Logged, ForgetsLogged
<1>2. \A id \in Stored(past) :
        id \in Stored(d) /\ d.memories[id].spaceID = past.memories[id].spaceID
  BY <1>1, FrozenFields
<1>3. CreatedBy(d, space, asOf) =
        {id \in Stored(past) : past.memories[id].spaceID = space}
  BY <1>1, <1>2 DEF CreatedBy, InSpace
<1>4. \A e \in d.auditLog : e.operation = "forget" =>
        \E m \in Stored(d) : e = Audited("forget", d.memories[m].spaceID, <<m>>)
  BY DEF EntriesLocated, Located
<1>5. ASSUME NEW id \in ForgottenBy(d, space, asOf)
      PROVE  /\ id \in Stored(past) /\ past.memories[id].isForgotten
             /\ past.memories[id].spaceID = space
  <2>1. PICK e \in d.auditLog : /\ e.operation = "forget" /\ e.spaceID = space
                                 /\ e.memoryIDs = <<id>>
                                 /\ forgottenAt[id] <= asOf
    BY <1>5 DEF ForgottenBy
  <2>2. PICK m \in Stored(d) : e = Audited("forget", d.memories[m].spaceID, <<m>>)
    BY <1>4, <2>1
  <2>3. m = id /\ d.memories[m].spaceID = space
    BY <2>1, <2>2 DEF Audited
  <2>4. id \in d.forgetLog
    <3>1. e.memoryIDs[1] = id
      BY <2>1
    <3>. QED  BY <2>1, <3>1 DEF Logged, ForgetsLogged
  <2>. QED  BY <1>1, <1>2, <2>1, <2>3, <2>4
<1>6. ASSUME NEW id \in Stored(past), past.memories[id].isForgotten,
             past.memories[id].spaceID = space
      PROVE  id \in ForgottenBy(d, space, asOf)
  <2>1. id \in d.forgetLog /\ forgottenAt[id] <= asOf
    BY <1>1, <1>6
  <2>2. PICK e \in d.auditLog : e.operation = "forget" /\ e.memoryIDs[1] = id
    BY <2>1 DEF Logged, ForgetsLogged
  <2>3. PICK m \in Stored(d) : e = Audited("forget", d.memories[m].spaceID, <<m>>)
    BY <1>4, <2>2
  <2>4. m = id
    BY <2>2, <2>3 DEF Audited
  <2>5. e.spaceID = space /\ e.memoryIDs = <<id>>
    BY <1>2, <1>6, <2>3, <2>4 DEF Audited
  <2>. QED  BY <2>1, <2>2, <2>5 DEF ForgottenBy, Stored
<1>7. ForgottenBy(d, space, asOf) =
        {id \in Stored(past) : /\ past.memories[id].isForgotten
                               /\ past.memories[id].spaceID = space}
  BY <1>5, <1>6
<1>. QED  BY <1>3, <1>7

\* An export to an instant shows the database that is its past.
LEMMA PastIsShown ==
  ASSUME NEW d \in DB, Logged(d), Linked(d), EntriesLocated(d),
         NEW space, NEW asOf, NEW past,
         PastOf(d, past, createdAt, forgottenAt, asOf)
  PROVE  Shows(ExportSnapshotAt(d, space, asOf), past, space)
<1>. DEFINE created == CreatedBy(d, space, asOf)
            gone    == ForgottenBy(d, space, asOf)
            memories == ProjectMemoriesAsOf(d, space, asOf)
            snapshot == ExportSnapshotAt(d, space, asOf)
<1>1. /\ past \in DB /\ Chains(past) /\ Linked(past)
      /\ KeepsHistory(past, d)
  BY DEF PastOf, Sound
<1>2. /\ created = {id \in Stored(past) : past.memories[id].spaceID = space}
      /\ gone = {id \in Stored(past) : /\ past.memories[id].isForgotten
                                       /\ past.memories[id].spaceID = space}
  BY PastRecords
<1>3. \A id \in Stored(past) :
        /\ id \in Stored(d)
        /\ d.memories[id].version = past.memories[id].version
        /\ d.memories[id].kind = past.memories[id].kind
        /\ d.memories[id].sourceIDs = past.memories[id].sourceIDs
        /\ RootOf(d, id) = RootOf(past, id)
  BY <1>1, FrozenFields
<1>4. \A id \in Stored(past) : past.memories[id] \in Memory /\ d.memories[id] \in Memory
  BY <1>1, <1>3, StoredType
<1>5. /\ snapshot.memories = memories /\ DOMAIN memories = created
      /\ snapshot.relations = {e \in d.relations : e[1] \in created}
      /\ \A id \in created : memories[id] = ProjectMemory(d, space, id, asOf)
  BY DEF ExportSnapshotAt, ProjectMemoriesAsOf
<1>6. ASSUME NEW id \in created
      PROVE  HighestBy(d, space, id, asOf) <=> Successors(past, id) = {}
  <2>1. id \in Stored(past) /\ past.memories[id].spaceID = space
    BY <1>2
  <2>2. \A other \in Versions(past, RootOf(past, id)) : other \in created
    <3>1. ASSUME NEW other \in Stored(past), RootOf(past, other) = RootOf(past, id)
          PROVE  past.memories[other].spaceID = past.memories[id].spaceID
      BY <1>1, <2>1, <3>1 DEF Chains, OneSpace
    <3>. QED  BY <1>2, <2>1, <3>1 DEF Versions
  <2>3. {other \in created : RootOf(d, other) = RootOf(d, id)}
          = Versions(past, RootOf(past, id))
    BY <1>2, <1>3, <2>1, <2>2 DEF Versions
  <2>4. HighestBy(d, space, id, asOf) <=>
          \A other \in Versions(past, RootOf(past, id)) :
            past.memories[other].version <= past.memories[id].version
    BY <1>2, <1>3, <2>1, <2>3 DEF HighestBy
  <2>. HIDE DEF created
  <2>. QED  BY <1>1, <2>1, <2>4, HighestIsEnd
<1>7. ASSUME NEW id \in created
      PROVE  /\ memories[id].isForgotten = past.memories[id].isForgotten
             /\ memories[id].isLatest = past.memories[id].isLatest
             /\ memories[id].kind = past.memories[id].kind
             /\ memories[id].hasOrphanedSources =
                  (past.memories[id].sourceIDs \cap gone # {})
  <2>1. id \in Stored(past) /\ past.memories[id].spaceID = space
    BY <1>2
  <2>2. /\ memories[id].isForgotten = (id \in gone)
        /\ memories[id].isLatest = (HighestBy(d, space, id, asOf) /\ id \notin gone)
        /\ memories[id].kind = past.memories[id].kind
        /\ memories[id].hasOrphanedSources =
             (past.memories[id].sourceIDs \cap gone # {})
    <3>1. /\ d.memories[id] \in Memory
          /\ d.memories[id].kind = past.memories[id].kind
          /\ d.memories[id].sourceIDs = past.memories[id].sourceIDs
      BY <1>3, <1>4, <2>1
    <3>2. ProjectMemory(d, space, id, asOf).isForgotten = (id \in gone)
      BY <3>1 DEF ProjectMemory, Memory
    <3>3. ProjectMemory(d, space, id, asOf).isLatest
            = (HighestBy(d, space, id, asOf) /\ id \notin gone)
      BY <3>1 DEF ProjectMemory, Memory
    <3>4. ProjectMemory(d, space, id, asOf).kind = past.memories[id].kind
      BY <3>1 DEF ProjectMemory, Memory
    <3>5. ProjectMemory(d, space, id, asOf).hasOrphanedSources
            = (past.memories[id].sourceIDs \cap gone # {})
      BY <3>1 DEF ProjectMemory, Memory
    <3>6. memories[id] = ProjectMemory(d, space, id, asOf)
      BY <1>5
    <3>. QED  BY <3>2, <3>3, <3>4, <3>5, <3>6
  <2>3. past.memories[id].isForgotten \in BOOLEAN /\ past.memories[id].isLatest \in BOOLEAN
    BY <1>4, <2>1 DEF Memory
  <2>4. id \in gone <=> past.memories[id].isForgotten
    BY <1>2, <2>1
  <2>5. past.memories[id].isLatest <=>
          Successors(past, id) = {} /\ ~past.memories[id].isForgotten
    BY <1>1, <2>1 DEF Chains, EndsLive
  <2>6. HighestBy(d, space, id, asOf) <=> Successors(past, id) = {}
    BY <1>6
  <2>. HIDE DEF gone, memories, created
  <2>. QED  BY <2>2, <2>3, <2>4, <2>5, <2>6
<1>8. ASSUME NEW id \in created
      PROVE  SameFlags(memories[id], past.memories[id])
  <2>1. id \in Stored(past) /\ past.memories[id].spaceID = space
    BY <1>2
  <2>2. ASSUME past.memories[id].isLatest, past.memories[id].kind = "derived"
        PROVE  past.memories[id].sourceIDs \cap gone # {}
                 <=> past.memories[id].hasOrphanedSources
    <3>1. \A src \in past.memories[id].sourceIDs :
            /\ src \in Stored(past)
            /\ past.memories[src].spaceID = space
      BY <1>1, <2>1, <2>2 DEF Linked, SourcesLinked
    <3>2. past.memories[id].hasOrphanedSources <=>
            \E src \in past.memories[id].sourceIDs : past.memories[src].isForgotten
      BY <1>1, <2>1, <2>2 DEF Linked, OrphansFlagged
    <3>. QED  BY <1>2, <3>1, <3>2
  <2>3. past.memories[id].hasOrphanedSources \in BOOLEAN
    BY <1>4, <2>1 DEF Memory
  <2>4. /\ memories[id].isForgotten = past.memories[id].isForgotten
        /\ memories[id].isLatest = past.memories[id].isLatest
        /\ memories[id].kind = past.memories[id].kind
        /\ memories[id].hasOrphanedSources =
             (past.memories[id].sourceIDs \cap gone # {})
    BY <1>7
  <2>. HIDE DEF memories, gone
  <2>. QED  BY <2>2, <2>3, <2>4 DEF SameFlags
<1>9. snapshot.relations =
        {e \in past.relations : past.memories[e[1]].spaceID = space}
  <2>1. past.relations = {e \in d.relations : createdAt[e[1]] <= asOf}
    BY DEF PastOf
  <2>2. \A e \in past.relations : e[1] \in Stored(past)
    BY <1>1 DEF Linked, EdgesMirrored
  <2>3. \A id \in created : createdAt[id] <= asOf
    BY DEF CreatedBy
  <2>. HIDE DEF created
  <2>. QED  BY <1>2, <1>5, <2>1, <2>2, <2>3
<1>. HIDE DEF memories, created, snapshot
<1>. QED  BY <1>2, <1>5, <1>8, <1>9 DEF Shows, snapshot

\* Whatever was superseded, forgotten, revived or orphaned since.
LEMMA PastsAreShown == TimeInv => ExportShowsThePast
<1>. SUFFICES ASSUME TimeInv, NEW space \in Spaces, NEW asOf \in 0 .. clock
     PROVE  \E d \in IF asOf = clock THEN {db} ELSE seen[asOf] :
              Shows(ExportSnapshotAt(db, space, asOf), d, space)
  BY DEF ExportShowsThePast
<1>1. PICK past \in IF asOf = clock THEN {db} ELSE seen[asOf] :
        PastOf(db, past, createdAt, forgottenAt, asOf)
  BY PastsExist
<1>2. db \in DB /\ Logged(db) /\ Linked(db) /\ EntriesLocated(db)
  BY DEF TimeInv, LogInv, ChainInv, HInv, IInv, TypeOK
<1>. QED  BY <1>1, <1>2, PastIsShown

\* An export to any instant shows the space as it was then (projectMemoriesAsOf).
THEOREM ExportsShowThePast == TimedSpec => []ExportShowsThePast
<1>1. TimedInit => TimeInv
  BY InitTimeInv
<1>2. TimeInv /\ [TimedNext]_<<vars, timeVars>> => TimeInv'
  BY NextTimeInv
<1>3. TimeInv => ExportShowsThePast
  BY PastsAreShown
<1>. QED  BY <1>1, <1>2, <1>3, PTL DEF TimedSpec


-------------------------------------------------------------------------------
(* A difference accounts for itself. *)

\* What is known of two instants, the first before the second, of which the
\* first is exported from the earlier database d.
TwoPasts(d, since, until, before, after) ==
  /\ Sound(db) /\ ViewedBefore(d, db)
  /\ clock \in Nat /\ since \in 0 .. clock /\ until \in 0 .. clock
  /\ since <= until
  /\ TimesKnown(db, createdAt, forgottenAt, clock)
  /\ PastOf(d, before, createdAt, forgottenAt, since)
  /\ PastOf(db, after, createdAt, forgottenAt, until)

\* The earlier one has less, and what it has is the same.
LEMMA PastsInOrder ==
  ASSUME NEW d, NEW since, NEW until, NEW before, NEW after,
         TwoPasts(d, since, until, before, after)
  PROVE  \A id \in Stored(before) :
           /\ id \in Stored(after)
           /\ after.memories[id].parentID = before.memories[id].parentID
           /\ after.memories[id].spaceID = before.memories[id].spaceID
           /\ before.memories[id].isForgotten => after.memories[id].isForgotten
<1>1. /\ KeepsHistory(before, d) /\ KeepsHistory(d, db) /\ KeepsHistory(after, db)
      /\ Stored(before) = {id \in Stored(d) : createdAt[id] <= since}
      /\ Stored(after) = {id \in Stored(db) : createdAt[id] <= until}
      /\ before.forgetLog = {id \in d.forgetLog : forgottenAt[id] <= since}
      /\ after.forgetLog = {id \in db.forgetLog : forgottenAt[id] <= until}
      /\ before.forgetLog = {id \in Stored(before) : before.memories[id].isForgotten}
      /\ after.forgetLog = {id \in Stored(after) : after.memories[id].isForgotten}
  BY DEF TwoPasts, ViewedBefore, PastOf, Sound, Logged, ForgetsLogged
<1>2. /\ since \in Nat /\ until \in Nat /\ since <= until
      /\ \A id \in Stored(db) : createdAt[id] \in Nat
      /\ \A id \in db.forgetLog : forgottenAt[id] \in Nat
  BY DEF TwoPasts, TimesKnown
<1>3. /\ \A id \in Stored(db) : createdAt[id] <= since => createdAt[id] <= until
      /\ \A id \in db.forgetLog : forgottenAt[id] <= since => forgottenAt[id] <= until
  BY <1>2
<1>4. /\ Stored(d) \subseteq Stored(db) /\ d.forgetLog \subseteq db.forgetLog
      /\ KeepsHistory(before, db)
  BY <1>1, KeepsTransitive DEF TwoPasts, ViewedBefore, KeepsHistory
<1>. SUFFICES ASSUME NEW id \in Stored(before)
     PROVE  /\ id \in Stored(after)
            /\ after.memories[id].parentID = before.memories[id].parentID
            /\ after.memories[id].spaceID = before.memories[id].spaceID
            /\ before.memories[id].isForgotten => after.memories[id].isForgotten
  OBVIOUS
<1>5. id \in Stored(after)
  BY <1>1, <1>3, <1>4
<1>6. before.memories[id].isForgotten => after.memories[id].isForgotten
  BY <1>1, <1>3, <1>4
<1>7. /\ db.memories[id].parentID = before.memories[id].parentID
      /\ db.memories[id].spaceID = before.memories[id].spaceID
  BY <1>4, FrozenFields
<1>8. /\ db.memories[id].parentID = after.memories[id].parentID
      /\ db.memories[id].spaceID = after.memories[id].spaceID
  BY <1>1, <1>5, FrozenFields
<1>. QED  BY <1>5, <1>6, <1>7, <1>8

\* A memory created between the two instants is introduced by an entry that
\* only the second export lists.
LEMMA CreationIsListed ==
  ASSUME Logged(db), EntriesLocated(db), NEW d, Logged(d),
         NEW space, NEW since, NEW until,
         NEW id \in Stored(db), db.memories[id].spaceID = space,
         createdAt[id] <= until, id \in Stored(d) => ~(createdAt[id] <= since)
  PROVE  \E e \in AuditBy(db, space, until) \ AuditBy(d, space, since) :
           e.memoryIDs = IF db.memories[id].parentID = Nil THEN <<id>>
                         ELSE <<db.memories[id].parentID, id>>
<1>. DEFINE parent == db.memories[id].parentID
<1>1. PICK e \in db.auditLog :
        /\ Introduces(e, id)
        /\ e.memoryIDs = (IF parent = Nil THEN <<id>> ELSE <<parent, id>>)
  BY DEF Logged, EachIntroduced
<1>2. e.spaceID = space
  BY <1>1 DEF EntriesLocated, Located
<1>3. e.operation # "forget" /\ e.memoryIDs # <<>>
  BY <1>1 DEF Introduces
<1>4. EntryTime(e) = createdAt[id]
  BY <1>1, <1>3 DEF EntryTime, Introduces
<1>5. e \in d.auditLog => id \in Stored(d)
  BY <1>1 DEF Logged, OnlyStoredIntroduced, Stored
<1>. QED  BY <1>1, <1>2, <1>3, <1>4, <1>5 DEF AuditBy

\* So is one that was forgotten between them.
LEMMA ForgetIsListed ==
  ASSUME NEW d, NEW space, NEW since, NEW until,
         NEW id \in ForgottenBy(db, space, until),
         id \notin ForgottenBy(d, space, since)
  PROVE  \E e \in AuditBy(db, space, until) \ AuditBy(d, space, since) :
           e.memoryIDs = <<id>>
<1>1. PICK e \in db.auditLog : /\ e.operation = "forget" /\ e.spaceID = space
                               /\ e.memoryIDs = <<id>>
                               /\ forgottenAt[id] <= until
  BY DEF ForgottenBy
<1>2. id \in MemoryIDs
  BY DEF ForgottenBy
<1>3. e \in d.auditLog => ~(forgottenAt[id] <= since)
  BY <1>1, <1>2 DEF ForgottenBy
<1>4. EntryTime(e) = forgottenAt[id] /\ e.memoryIDs # <<>>
  BY <1>1 DEF EntryTime
<1>. QED  BY <1>1, <1>3, <1>4 DEF AuditBy

\* What a listed entry names.
LEMMA ListedIsNamed ==
  ASSUME NEW added, NEW e \in added, NEW n \in DOMAIN e.memoryIDs
  PROVE  e.memoryIDs[n] \in
           UNION {{f.memoryIDs[m] : m \in DOMAIN f.memoryIDs} : f \in added}
OBVIOUS

\* The versions of a lineage that were created by then.
VersionsBy(d, space, root, asOf) ==
  {id \in CreatedBy(d, space, asOf) : RootOf(d, id) = root}

\* An export counts them.
LEMMA CountsVersions ==
  ASSUME NEW d, NEW space, NEW asOf, NEW root
  PROVE  LET snapshot == ExportSnapshotAt(d, space, asOf)
         IN  /\ VersionsBy(d, space, root, asOf) # {} <=> root \in DOMAIN snapshot.lineages
             /\ root \in DOMAIN snapshot.lineages =>
                  snapshot.lineages[root] = VersionsBy(d, space, root, asOf)
             /\ Versioned(snapshot, root)[2]
                  = Cardinality(VersionsBy(d, space, root, asOf))
<1>. DEFINE snapshot == ExportSnapshotAt(d, space, asOf)
            memories == ProjectMemoriesAsOf(d, space, asOf)
            own == VersionsBy(d, space, root, asOf)
<1>1. DOMAIN memories = CreatedBy(d, space, asOf) /\ snapshot.lineages = Lineages(d, memories)
  BY DEF ExportSnapshotAt, ProjectMemoriesAsOf
<1>. HIDE DEF memories
<1>2. DOMAIN Lineages(d, memories) = {RootOf(d, id) : id \in DOMAIN memories}
  BY DEF Lineages
<1>3. own # {} <=> root \in DOMAIN snapshot.lineages
  BY <1>1, <1>2 DEF VersionsBy
<1>4. root \in DOMAIN snapshot.lineages => snapshot.lineages[root] = own
  BY <1>1, <1>2 DEF VersionsBy, Lineages
<1>. HIDE DEF snapshot
<1>5. Versioned(snapshot, root)[2] = Cardinality(own)
  <2>1. CASE root \in DOMAIN snapshot.lineages
    BY <1>4, <2>1 DEF Versioned
  <2>2. CASE root \notin DOMAIN snapshot.lineages
    <3>1. own = {}
      BY <1>3, <2>2
    <3>. HIDE DEF own
    <3>2. Cardinality(own) = 0
      BY <3>1, FS_EmptySet
    <3>. QED  BY <2>2, <3>2 DEF Versioned
  <2>. QED  BY <2>1, <2>2
<1>. QED  BY <1>3, <1>4, <1>5 DEF snapshot

\* A lineage that grew is reported as changed.
LEMMA GrowthIsChange ==
  ASSUME NEW d, NEW space, NEW since, NEW until, NEW root,
         VersionsBy(d, space, root, since) \subseteq VersionsBy(db, space, root, until),
         NEW id \in VersionsBy(db, space, root, until),
         id \notin VersionsBy(d, space, root, since)
  PROVE  root \in ExportDiff(d, space, since, until).changedLineages
<1>. DEFINE before == ExportSnapshotAt(d, space, since)
            after  == ExportSnapshotAt(db, space, until)
            old    == VersionsBy(d, space, root, since)
            new    == VersionsBy(db, space, root, until)
<1>1. new \in SUBSET MemoryIDs
  BY DEF VersionsBy, CreatedBy, InSpace, Stored
<1>2. IsFiniteSet(new)
  BY <1>1, IDsAssumption, FS_Subset
<1>3. Cardinality(old) # Cardinality(new)
  <2>. HIDE DEF old, new
  <2>1. old \in SUBSET new /\ old # new
    BY DEF old, new
  <2>. QED  BY <1>2, <2>1, FS_Subset
<1>4. Versioned(before, root)[2] = Cardinality(old)
  BY CountsVersions
<1>5. Versioned(after, root)[2] = Cardinality(new)
  BY CountsVersions
<1>6. root \in DOMAIN after.lineages
  BY CountsVersions
<1>. HIDE DEF before, after, old, new
<1>7. root \in ChangedLineages(before, after)
  BY <1>3, <1>4, <1>5, <1>6 DEF ChangedLineages
<1>. QED  BY <1>7 DEF ExportDiff, CompareExportSnapshots, before, after


\* The records of an export, by the past it shows: what is live in it is the end
\* of its lineage, and not forgotten.
LEMMA LiveByPast ==
  ASSUME NEW d \in DB, Logged(d), Linked(d), EntriesLocated(d),
         NEW space, NEW asOf, NEW past,
         PastOf(d, past, createdAt, forgottenAt, asOf)
  PROVE  LET memories == ExportSnapshotAt(d, space, asOf).memories
         IN  /\ DOMAIN memories = CreatedBy(d, space, asOf)
             /\ \A id \in DOMAIN memories :
                  /\ id \in Stored(past) /\ past.memories[id].spaceID = space
                  /\ memories[id].isLatest = past.memories[id].isLatest
             /\ \A id : id \in ExportSnapshotAt(d, space, asOf).live <=>
                  /\ id \in DOMAIN memories
                  /\ Successors(past, id) = {} /\ ~past.memories[id].isForgotten
                  /\ ~Expired(id, asOf)
<1>. DEFINE snapshot == ExportSnapshotAt(d, space, asOf)
            memories == snapshot.memories
<1>1. Shows(snapshot, past, space)
  BY PastIsShown
<1>2. DOMAIN memories = CreatedBy(d, space, asOf)
  BY DEF ExportSnapshotAt, ProjectMemoriesAsOf
<1>3. snapshot.live = RecallEligible(memories, asOf)
  BY DEF ExportSnapshotAt
<1>. HIDE DEF snapshot
<1>4. \A id \in DOMAIN memories :
        /\ id \in Stored(past) /\ past.memories[id].spaceID = space
        /\ memories[id].isLatest = past.memories[id].isLatest
        /\ memories[id].isForgotten = past.memories[id].isForgotten
  BY <1>1 DEF Shows, SameFlags
<1>5. \A id \in Stored(past) :
        past.memories[id].isLatest /\ ~past.memories[id].isForgotten
          <=> Successors(past, id) = {} /\ ~past.memories[id].isForgotten
  BY DEF PastOf, Sound, Chains, EndsLive
<1>6. \A id : id \in snapshot.live <=>
        /\ id \in DOMAIN memories
        /\ Successors(past, id) = {} /\ ~past.memories[id].isForgotten
        /\ ~Expired(id, asOf)
  BY <1>3, <1>4, <1>5 DEF RecallEligible
<1>. QED  BY <1>2, <1>4, <1>6 DEF snapshot

\* What expires expires for good.
LEMMA ExpiryIsFinal ==
  ASSUME NEW since \in Nat, NEW until \in Nat, since <= until,
         NEW id \in MemoryIDs, Expired(id, since)
  PROVE  Expired(id, until)
<1>1. ExpiryOf(id) # Nil /\ ExpiryOf(id) <= since
  BY DEF Expired
<1>2. ExpiryOf(id) \in Nat \cup {Nil}
  BY TimeAssumption DEF ExpiryOf
<1>. HIDE DEF ExpiryOf
<1>3. ExpiryOf(id) <= until
  BY <1>1, <1>2
<1>. QED  BY <1>1, <1>3 DEF Expired

\* A lineage that lost its latest version is reported as changed.
LEMMA LossIsChange ==
  ASSUME NEW d, NEW space, NEW since, NEW until, NEW before, NEW after,
         TwoPasts(d, since, until, before, after),
         NEW id \in CreatedBy(d, space, since), before.memories[id].isLatest,
         ~after.memories[id].isLatest
  PROVE  RootOf(db, id) \in ExportDiff(d, space, since, until).changedLineages
<1>. DEFINE first  == ExportSnapshotAt(d, space, since)
            second == ExportSnapshotAt(db, space, until)
            root   == RootOf(db, id)
<1>0. /\ db \in DB /\ Logged(db) /\ Linked(db) /\ EntriesLocated(db)
      /\ d \in DB /\ Logged(d) /\ Linked(d) /\ EntriesLocated(d)
      /\ PastOf(d, before, createdAt, forgottenAt, since)
      /\ PastOf(db, after, createdAt, forgottenAt, until)
      /\ before \in DB /\ Chains(before) /\ KeepsHistory(before, d)
      /\ KeepsHistory(d, db) /\ KeepsHistory(before, db)
  BY KeepsTransitive DEF TwoPasts, ViewedBefore, PastOf, Sound
<1>1. /\ DOMAIN first.memories = CreatedBy(d, space, since)
      /\ \A m \in DOMAIN first.memories :
           /\ m \in Stored(before)
           /\ first.memories[m].isLatest = before.memories[m].isLatest
  BY <1>0, LiveByPast
<1>2. \A m \in DOMAIN second.memories :
        second.memories[m].isLatest = after.memories[m].isLatest
  BY <1>0, LiveByPast
<1>3. id \in VersionsBy(d, space, root, since)
  <2>1. id \in Stored(d)
    BY DEF CreatedBy, InSpace
  <2>2. RootOf(d, id) = RootOf(db, id)
    BY <1>0, <2>1, FrozenFields
  <2>. QED  BY <2>2 DEF VersionsBy
<1>4. /\ root \in DOMAIN first.lineages
      /\ first.lineages[root] = VersionsBy(d, space, root, since)
  BY <1>3, CountsVersions
<1>5. VersionsBy(db, space, root, until) # {} <=> root \in DOMAIN second.lineages
  BY CountsVersions
<1>6. root \in DOMAIN second.lineages =>
        second.lineages[root] = VersionsBy(db, space, root, until)
  BY CountsVersions
<1>7. VersionsBy(db, space, root, until) \subseteq DOMAIN second.memories
  BY <1>0, LiveByPast DEF VersionsBy
<1>. HIDE DEF first, second, root
<1>8. ASSUME NEW m \in VersionsBy(d, space, root, since), first.memories[m].isLatest
      PROVE  m = id
  <2>1. /\ m \in Stored(before) /\ id \in Stored(before)
        /\ before.memories[m].isLatest /\ before.memories[id].isLatest
    BY <1>1, <1>3, <1>8 DEF VersionsBy
  <2>2. RootOf(before, m) = RootOf(d, m) /\ RootOf(before, id) = RootOf(d, id)
    BY <1>0, <2>1, FrozenFields
  <2>3. RootOf(before, m) = root /\ RootOf(before, id) = root
    BY <1>3, <1>8, <2>2 DEF VersionsBy
  <2>4. Successors(before, m) = {} /\ Successors(before, id) = {}
    BY <1>0, <2>1 DEF Chains, EndsLive
  <2>5. before.memories[m].version = before.memories[id].version
    <3>1. before.memories[m].version = Cardinality(Versions(before, RootOf(before, m)))
      BY <1>0, <2>1, <2>4, EndIsLast
    <3>2. before.memories[id].version = Cardinality(Versions(before, RootOf(before, id)))
      BY <1>0, <2>1, <2>4, EndIsLast
    <3>. QED  BY <2>3, <3>1, <3>2
  <2>6. m \in Versions(before, root) /\ id \in Versions(before, root)
    BY <2>1, <2>3 DEF Versions
  <2>7. root \in MemoryIDs
    BY <1>0, <2>1, <2>3, StoredType
  <2>. QED  BY <1>0, <2>5, <2>6, <2>7 DEF Chains, Numbered
<1>9. ExportLatest(first, root) = id
  <2>1. id \in first.lineages[root] /\ first.memories[id].isLatest
    BY <1>1, <1>3, <1>4
  <2>. QED  BY <1>4, <1>8, <2>1 DEF ExportLatest
<1>10. id # Nil
  BY <1>1, NilAssumption DEF Stored
<1>11. root \in DOMAIN second.lineages => ExportLatest(second, root) # id
  <2>. SUFFICES ASSUME root \in DOMAIN second.lineages,
                       ExportLatest(second, root) = id
       PROVE  FALSE
    OBVIOUS
  <2>1. id \in second.lineages[root] /\ second.memories[id].isLatest
    BY <1>10 DEF ExportLatest
  <2>. QED  BY <1>2, <1>6, <1>7, <2>1
<1>12. Versioned(first, root)[1] = id
  BY <1>4, <1>9 DEF Versioned
<1>13. Versioned(second, root)[1] # id
  BY <1>10, <1>11 DEF Versioned
<1>14. root \in ChangedLineages(first, second)
  BY <1>4, <1>12, <1>13 DEF ChangedLineages
<1>. QED  BY <1>14 DEF ExportDiff, CompareExportSnapshots, first, second, root


\* What the entries name that a difference lists.
Named(diff) ==
  UNION {{e.memoryIDs[n] : n \in DOMAIN e.memoryIDs} : e \in diff.addedAudit}

\* A memory created between the two instants is accounted for, and with it the
\* one it supersedes.
LEMMA CreationAccounts ==
  ASSUME NEW d, NEW space, NEW since, NEW until, NEW before, NEW after,
         TwoPasts(d, since, until, before, after),
         NEW id \in Stored(after), id \notin Stored(before),
         after.memories[id].spaceID = space
  PROVE  LET diff == ExportDiff(d, space, since, until)
             parent == db.memories[id].parentID
         IN  /\ id \in Named(diff)
             /\ parent # Nil => parent \in Named(diff)
             /\ RootOf(db, id) \in diff.changedLineages
<1>. DEFINE diff == ExportDiff(d, space, since, until)
            parent == db.memories[id].parentID
            root == RootOf(db, id)
<1>0. /\ db \in DB /\ Logged(db) /\ Linked(db) /\ EntriesLocated(db)
      /\ d \in DB /\ Logged(d) /\ Linked(d) /\ EntriesLocated(d)
      /\ KeepsHistory(d, db)
      /\ PastOf(d, before, createdAt, forgottenAt, since)
      /\ PastOf(db, after, createdAt, forgottenAt, until)
  BY DEF TwoPasts, ViewedBefore, Sound
<1>1. /\ KeepsHistory(after, db)
      /\ Stored(before) = {m \in Stored(d) : createdAt[m] <= since}
      /\ Stored(after) = {m \in Stored(db) : createdAt[m] <= until}
  BY <1>0 DEF PastOf
<1>2. /\ id \in Stored(db) /\ db.memories[id].spaceID = space
      /\ createdAt[id] <= until
      /\ id \in Stored(d) => ~(createdAt[id] <= since)
  BY <1>1, FrozenFields
<1>3. PICK e \in AuditBy(db, space, until) \ AuditBy(d, space, since) :
        e.memoryIDs = IF parent = Nil THEN <<id>> ELSE <<parent, id>>
  BY <1>0, <1>2, CreationIsListed
<1>4. e \in diff.addedAudit
  BY DEF ExportDiff, CompareExportSnapshots, ExportSnapshotAt
<1>. HIDE DEF diff
<1>5. id \in Named(diff) /\ (parent # Nil => parent \in Named(diff))
  <2>1. CASE parent = Nil
    <3>1. 1 \in DOMAIN e.memoryIDs /\ e.memoryIDs[1] = id
      BY <1>3, <2>1
    <3>. QED  BY <1>4, <2>1, <3>1 DEF Named
  <2>2. CASE parent # Nil
    <3>1. /\ 1 \in DOMAIN e.memoryIDs /\ e.memoryIDs[1] = parent
          /\ 2 \in DOMAIN e.memoryIDs /\ e.memoryIDs[2] = id
      BY <1>3, <2>2
    <3>. QED  BY <1>4, <3>1 DEF Named
  <2>. QED  BY <2>1, <2>2
<1>6. /\ CreatedBy(d, space, since) =
           {m \in Stored(before) : before.memories[m].spaceID = space}
      /\ CreatedBy(db, space, until) =
           {m \in Stored(after) : after.memories[m].spaceID = space}
  <2>1. CreatedBy(d, space, since) =
          {m \in Stored(before) : before.memories[m].spaceID = space}
    BY <1>0, PastRecords
  <2>2. CreatedBy(db, space, until) =
          {m \in Stored(after) : after.memories[m].spaceID = space}
    BY <1>0, PastRecords
  <2>. QED  BY <2>1, <2>2
<1>7. CreatedBy(d, space, since) \subseteq CreatedBy(db, space, until)
  BY <1>6, PastsInOrder
<1>8. /\ VersionsBy(d, space, root, since) \subseteq VersionsBy(db, space, root, until)
      /\ id \in VersionsBy(db, space, root, until)
      /\ id \notin VersionsBy(d, space, root, since)
  <2>1. \A m \in CreatedBy(d, space, since) : RootOf(d, m) = RootOf(db, m)
    BY <1>0, FrozenFields DEF CreatedBy, InSpace
  <2>. QED  BY <1>6, <1>7, <2>1 DEF VersionsBy
<1>9. root \in diff.changedLineages
  BY <1>8, GrowthIsChange DEF diff
<1>. QED  BY <1>5, <1>9 DEF diff

\* What became live was created in between.
LEMMA AddedAccounts ==
  ASSUME NEW d, NEW space, NEW since, NEW until, NEW before, NEW after,
         TwoPasts(d, since, until, before, after),
         NEW id \in ExportDiff(d, space, since, until).addedLive
  PROVE  LET diff == ExportDiff(d, space, since, until)
         IN  id \in Named(diff) /\ RootOf(db, id) \in diff.changedLineages
<1>. DEFINE first  == ExportSnapshotAt(d, space, since)
            second == ExportSnapshotAt(db, space, until)
<1>0. /\ db \in DB /\ Logged(db) /\ Linked(db) /\ EntriesLocated(db)
      /\ d \in DB /\ Logged(d) /\ Linked(d) /\ EntriesLocated(d)
      /\ KeepsHistory(d, db)
      /\ PastOf(d, before, createdAt, forgottenAt, since)
      /\ PastOf(db, after, createdAt, forgottenAt, until)
      /\ since \in Nat /\ until \in Nat /\ since <= until
  BY DEF TwoPasts, ViewedBefore, Sound
<1>1. id \in second.live /\ id \notin first.live
  BY DEF ExportDiff, CompareExportSnapshots
<1>2. DOMAIN first.memories = CreatedBy(d, space, since)
  BY <1>0, LiveByPast
<1>3. CreatedBy(d, space, since) =
        {m \in Stored(before) : before.memories[m].spaceID = space}
  BY <1>0, PastRecords
<1>4. id \in first.live <=>
        /\ id \in DOMAIN first.memories
        /\ Successors(before, id) = {} /\ ~before.memories[id].isForgotten
        /\ ~Expired(id, since)
  BY <1>0, LiveByPast
<1>5. id \in second.live <=>
        /\ id \in DOMAIN second.memories
        /\ Successors(after, id) = {} /\ ~after.memories[id].isForgotten
        /\ ~Expired(id, until)
  BY <1>0, LiveByPast
<1>6. \A m \in DOMAIN second.memories :
        m \in Stored(after) /\ after.memories[m].spaceID = space
  BY <1>0, LiveByPast
<1>. HIDE DEF first, second
<1>7. id \in Stored(after) /\ after.memories[id].spaceID = space
  BY <1>1, <1>5, <1>6
<1>8. id \notin Stored(before)
  <2>. SUFFICES ASSUME id \in Stored(before)
       PROVE  FALSE
    OBVIOUS
  <2>1. before.memories[id].spaceID = space /\ ~before.memories[id].isForgotten
    BY <1>1, <1>5, <1>7, PastsInOrder
  <2>2. Successors(before, id) \subseteq Successors(after, id)
    BY PastsInOrder DEF Successors
  <2>3. ~Expired(id, since)
    BY <1>0, <1>1, <1>5, ExpiryIsFinal DEF Stored
  <2>. QED  BY <1>1, <1>2, <1>3, <1>4, <1>5, <2>1, <2>2, <2>3
<1>. QED  BY <1>7, <1>8, CreationAccounts

\* What ceased to be live expired, was superseded or was forgotten.
LEMMA RemovedAccounts ==
  ASSUME NEW d, NEW space, NEW since, NEW until, NEW before, NEW after,
         TwoPasts(d, since, until, before, after),
         NEW id \in ExportDiff(d, space, since, until).removedLive,
         ~Expired(id, until)
  PROVE  LET diff == ExportDiff(d, space, since, until)
         IN  id \in Named(diff) /\ RootOf(db, id) \in diff.changedLineages
<1>. DEFINE first  == ExportSnapshotAt(d, space, since)
            second == ExportSnapshotAt(db, space, until)
            diff   == ExportDiff(d, space, since, until)
<1>0. /\ db \in DB /\ Logged(db) /\ Linked(db) /\ EntriesLocated(db)
      /\ d \in DB /\ Logged(d) /\ Linked(d) /\ EntriesLocated(d)
      /\ KeepsHistory(d, db)
      /\ PastOf(d, before, createdAt, forgottenAt, since)
      /\ PastOf(db, after, createdAt, forgottenAt, until)
      /\ before \in DB /\ Chains(before)
      /\ after \in DB /\ Chains(after) /\ KeepsHistory(after, db)
  BY DEF TwoPasts, ViewedBefore, PastOf, Sound
<1>1. id \in first.live /\ id \notin second.live
  BY DEF ExportDiff, CompareExportSnapshots
<1>2. DOMAIN first.memories = CreatedBy(d, space, since)
  BY <1>0, LiveByPast
<1>3. id \in first.live <=>
        /\ id \in DOMAIN first.memories
        /\ Successors(before, id) = {} /\ ~before.memories[id].isForgotten
        /\ ~Expired(id, since)
  BY <1>0, LiveByPast
<1>4. id \in second.live <=>
        /\ id \in DOMAIN second.memories
        /\ Successors(after, id) = {} /\ ~after.memories[id].isForgotten
        /\ ~Expired(id, until)
  BY <1>0, LiveByPast
<1>5. DOMAIN second.memories = CreatedBy(db, space, until)
  BY <1>0, LiveByPast
<1>6. /\ CreatedBy(d, space, since) =
           {m \in Stored(before) : before.memories[m].spaceID = space}
      /\ ForgottenBy(d, space, since) =
           {m \in Stored(before) : /\ before.memories[m].isForgotten
                                   /\ before.memories[m].spaceID = space}
  BY <1>0, PastRecords
<1>7. /\ CreatedBy(db, space, until) =
           {m \in Stored(after) : after.memories[m].spaceID = space}
      /\ ForgottenBy(db, space, until) =
           {m \in Stored(after) : /\ after.memories[m].isForgotten
                                  /\ after.memories[m].spaceID = space}
  BY <1>0, PastRecords
<1>. HIDE DEF first, second, diff
<1>8. /\ id \in Stored(before) /\ before.memories[id].spaceID = space
      /\ Successors(before, id) = {} /\ ~before.memories[id].isForgotten
  BY <1>1, <1>2, <1>3, <1>6
<1>9. id \in Stored(after) /\ after.memories[id].spaceID = space
  BY <1>8, PastsInOrder
<1>10. Successors(after, id) # {} \/ after.memories[id].isForgotten
  BY <1>1, <1>4, <1>5, <1>7, <1>9
<1>11. CASE Successors(after, id) # {}
  <2>1. PICK next \in Stored(after) : after.memories[next].parentID = id
    BY <1>11 DEF Successors
  <2>2. next \notin Stored(before)
    BY <1>8, <2>1, PastsInOrder DEF Successors
  <2>3. id # Nil
    BY <1>8, NilAssumption DEF Stored
  <2>4. /\ after.memories[next].spaceID = space
        /\ after.memories[next].rootID = RootOf(after, id)
    BY <1>0, <1>9, <2>1, <2>3 DEF Chains, ParentsAgree
  <2>5. RootOf(after, next) = RootOf(after, id)
    <3>1. RootOf(after, id) \in MemoryIDs
      BY <1>0, <1>9, StoredType
    <3>. QED  BY <2>4, <3>1, NilAssumption DEF RootOf
  <2>6. /\ RootOf(db, next) = RootOf(db, id)
        /\ db.memories[next].parentID = id
    <3>1. RootOf(db, next) = RootOf(after, next) /\ db.memories[next].parentID = id
      BY <1>0, <2>1, FrozenFields
    <3>2. RootOf(db, id) = RootOf(after, id)
      BY <1>0, <1>9, FrozenFields
    <3>. QED  BY <2>5, <3>1, <3>2
  <2>7. /\ db.memories[next].parentID \in Named(diff)
        /\ RootOf(db, next) \in diff.changedLineages
    <3>1. db.memories[next].parentID # Nil
      BY <2>3, <2>6
    <3>. QED  BY <2>2, <2>4, <3>1, CreationAccounts DEF diff
  <2>. QED  BY <2>6, <2>7 DEF diff
<1>12. CASE after.memories[id].isForgotten
  <2>1. id \in ForgottenBy(db, space, until) /\ id \notin ForgottenBy(d, space, since)
    BY <1>6, <1>7, <1>8, <1>9, <1>12
  <2>2. PICK e \in AuditBy(db, space, until) \ AuditBy(d, space, since) :
          e.memoryIDs = <<id>>
    BY <2>1, ForgetIsListed
  <2>3. e \in diff.addedAudit
    BY DEF diff, ExportDiff, CompareExportSnapshots, ExportSnapshotAt
  <2>4. id \in Named(diff)
    <3>1. 1 \in DOMAIN e.memoryIDs /\ e.memoryIDs[1] = id
      BY <2>2
    <3>. QED  BY <2>3, <3>1 DEF Named
  <2>5. before.memories[id].isLatest
    BY <1>0, <1>8 DEF Chains, EndsLive
  <2>6. ~after.memories[id].isLatest
    BY <1>0, <1>9, <1>12 DEF Chains, EndsLive
  <2>7. RootOf(db, id) \in diff.changedLineages
    BY <1>6, <1>8, <2>5, <2>6, LossIsChange DEF diff
  <2>. QED  BY <2>4, <2>7 DEF diff
<1>. QED  BY <1>10, <1>11, <1>12

\* What became an orphan became live, or lost a source in between.
LEMMA OrphanAccounts ==
  ASSUME db \in DB, NEW d \in DB, KeepsHistory(d, db),
         NEW space, NEW since, NEW until,
         NEW id \in ExportDiff(d, space, since, until).newOrphans,
         id \notin ExportDiff(d, space, since, until).addedLive
  PROVE  db.memories[id].sourceIDs
           \cap Named(ExportDiff(d, space, since, until)) # {}
<1>. DEFINE first  == ExportSnapshotAt(d, space, since)
            second == ExportSnapshotAt(db, space, until)
            diff   == ExportDiff(d, space, since, until)
            sources == db.memories[id].sourceIDs
<1>1. /\ id \in Orphans(second) /\ id \notin Orphans(first)
      /\ id \notin second.live \ first.live
  BY DEF ExportDiff, CompareExportSnapshots
<1>2. /\ id \in second.live /\ id \in first.live
      /\ second.memories[id].kind = "derived"
      /\ second.memories[id].hasOrphanedSources
      /\ ~(first.memories[id].kind = "derived" /\ first.memories[id].hasOrphanedSources)
  BY <1>1 DEF Orphans
<1>3. /\ first.memories = ProjectMemoriesAsOf(d, space, since)
      /\ second.memories = ProjectMemoriesAsOf(db, space, until)
      /\ first.live = RecallEligible(first.memories, since)
      /\ second.live = RecallEligible(second.memories, until)
  BY DEF ExportSnapshotAt
<1>. HIDE DEF first, second, diff
<1>4. id \in CreatedBy(d, space, since) /\ id \in CreatedBy(db, space, until)
  BY <1>2, <1>3 DEF RecallEligible, ProjectMemoriesAsOf
<1>5. /\ first.memories[id] = ProjectMemory(d, space, id, since)
      /\ second.memories[id] = ProjectMemory(db, space, id, until)
  BY <1>3, <1>4 DEF ProjectMemoriesAsOf
<1>6. /\ db.memories[id] \in Memory /\ d.memories[id] \in Memory
      /\ d.memories[id].kind = db.memories[id].kind
      /\ d.memories[id].sourceIDs = sources
  <2>1. id \in Stored(d) /\ id \in Stored(db)
    BY <1>4 DEF CreatedBy, InSpace
  <2>. QED  BY <2>1, StoredType, FrozenFields
<1>7. \A asOf : \A e \in {d, db} :
        /\ ProjectMemory(e, space, id, asOf).kind = db.memories[id].kind
        /\ ProjectMemory(e, space, id, asOf).hasOrphanedSources
             = (sources \cap ForgottenBy(e, space, asOf) # {})
  <2>. SUFFICES ASSUME NEW asOf, NEW e \in {d, db}
       PROVE  /\ ProjectMemory(e, space, id, asOf).kind = db.memories[id].kind
              /\ ProjectMemory(e, space, id, asOf).hasOrphanedSources
                   = (sources \cap ForgottenBy(e, space, asOf) # {})
    OBVIOUS
  <2>1. /\ e.memories[id] \in Memory /\ e.memories[id].sourceIDs = sources
        /\ e.memories[id].kind = db.memories[id].kind
    BY <1>6
  <2>. HIDE DEF sources
  <2>. QED  BY <2>1 DEF ProjectMemory, Memory
<1>. HIDE DEF sources
<1>8. PICK src \in sources :
        src \in ForgottenBy(db, space, until) /\ src \notin ForgottenBy(d, space, since)
  BY <1>2, <1>5, <1>7
<1>9. PICK e \in AuditBy(db, space, until) \ AuditBy(d, space, since) :
        e.memoryIDs = <<src>>
  BY <1>8, ForgetIsListed
<1>10. e \in diff.addedAudit
  BY DEF diff, ExportDiff, CompareExportSnapshots, ExportSnapshotAt
<1>11. src \in Named(diff)
  <2>1. 1 \in DOMAIN e.memoryIDs /\ e.memoryIDs[1] = src
    BY <1>9
  <2>. QED  BY <1>10, <2>1 DEF Named
<1>. QED  BY <1>8, <1>11 DEF diff, sources

\* Of any two instants.
LEMMA DiffsAccount == TimeInv => DiffAccountsForItself
<1>. SUFFICES ASSUME TimeInv, NEW space \in Spaces,
                     NEW since \in 0 .. clock, NEW until \in 0 .. clock,
                     viewed # Nil, since <= until
     PROVE  LET diff == ExportDiff(viewed, space, since, until)
            IN  /\ \A id \in diff.addedLive \cup diff.removedLive :
                     \/ id \in Named(diff) /\ RootOf(db, id) \in diff.changedLineages
                     \/ id \in diff.removedLive /\ Expired(id, until)
                /\ \A id \in diff.newOrphans :
                     \/ id \in diff.addedLive
                     \/ db.memories[id].sourceIDs \cap Named(diff) # {}
  BY DEF DiffAccountsForItself, Named
<1>1. PICK first : first = viewed
  OBVIOUS
<1>2. PICK before : PastOf(first, before, createdAt, forgottenAt, since)
  BY <1>1 DEF TimeInv, PastsKept
<1>3. \E after : PastOf(db, after, createdAt, forgottenAt, until)
  BY PastsExist
<1>4. PICK after : PastOf(db, after, createdAt, forgottenAt, until)
  BY <1>3
<1>5. /\ LogInv /\ clock \in Nat /\ EntriesLocated(db) /\ ViewedBefore(first, db)
      /\ stepped \in 0 .. clock
      /\ TimesKnown(Written(db, tx), createdAt, forgottenAt, stepped)
  BY <1>1 DEF TimeInv
<1>6. db \in DB /\ Chains(db) /\ Logged(db) /\ Linked(db)
  BY <1>5 DEF LogInv, ChainInv, HInv, IInv, TypeOK
<1>7. TimesKnown(db, createdAt, forgottenAt, clock)
  <2>1. /\ Stored(db) \subseteq Stored(Written(db, tx))
        /\ db.forgetLog \subseteq Written(db, tx).forgetLog
    BY <1>5, WrittenKeeps
  <2>. QED  BY <1>5, <2>1 DEF TimesKnown
<1>8. TwoPasts(first, since, until, before, after)
  BY <1>2, <1>4, <1>5, <1>6, <1>7 DEF TwoPasts, Sound
<1>. DEFINE diff == ExportDiff(first, space, since, until)
<1>9. \A id \in diff.addedLive :
        id \in Named(diff) /\ RootOf(db, id) \in diff.changedLineages
  BY <1>8, AddedAccounts
<1>10. \A id \in diff.removedLive :
         \/ id \in Named(diff) /\ RootOf(db, id) \in diff.changedLineages
         \/ Expired(id, until)
  BY <1>8, RemovedAccounts
<1>11. \A id \in diff.newOrphans :
         \/ id \in diff.addedLive
         \/ db.memories[id].sourceIDs \cap Named(diff) # {}
  <2>1. first \in DB /\ KeepsHistory(first, db)
    BY <1>5 DEF ViewedBefore, Sound
  <2>. QED  BY <1>6, <2>1, OrphanAccounts
<1>. HIDE DEF diff
<1>12. \A id \in diff.addedLive \cup diff.removedLive :
         \/ id \in Named(diff) /\ RootOf(db, id) \in diff.changedLineages
         \/ id \in diff.removedLive /\ Expired(id, until)
  BY <1>9, <1>10
<1>. QED  BY <1>1, <1>11, <1>12 DEF diff

\* A difference between two exports accounts for itself
\* (CompareExportSnapshots).
THEOREM DiffsAccountForThemselves == TimedSpec => []DiffAccountsForItself
<1>1. TimedInit => TimeInv
  BY InitTimeInv
<1>2. TimeInv /\ [TimedNext]_<<vars, timeVars>> => TimeInv'
  BY NextTimeInv
<1>3. TimeInv => DiffAccountsForItself
  BY DiffsAccount
<1>. QED  BY <1>1, <1>2, <1>3, PTL DEF TimedSpec

===============================================================================
