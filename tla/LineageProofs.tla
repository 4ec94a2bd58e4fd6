----------------------------- MODULE LineageProofs -----------------------------
(***************************************************************************)
(* A lineage is a chain of versions that are numbered from one, for every  *)
(* value of the constants, and MemoryStore implements Lineage.             *)
(*                                                                         *)
(* What is written beside the memories follows: the audit and forget logs  *)
(* retell the lineages, the relation buckets mirror each other, the orphan *)
(* flags are exact, and the order of two forgets does not show.            *)
(*                                                                         *)
(* The invariants are ones of a database.  Each operation preserves them,  *)
(* so they hold of the committed database and of the copy of a batch.  An  *)
(* orphan flag is set by a forget, which finds the derived memories in the *)
(* reverse index: so the second invariant has to say that every source of  *)
(* a derived memory is stored, in its space, and has its edge there.       *)
(***************************************************************************)
EXTENDS MemoryStoreProofs, LineageRefinement, FiniteSetTheorems, SequenceTheorems

-------------------------------------------------------------------------------
(* The invariant. *)

\* A version names a parent of its lineage and space and counts one more.
ParentsAgree(d) ==
  \A id \in Stored(d) :
    LET mem == d.memories[id]
    IN  IF mem.parentID = Nil
        THEN mem.rootID = Nil /\ mem.version = 1
        ELSE /\ mem.parentID \in Stored(d)
             /\ mem.rootID = RootOf(d, mem.parentID)
             /\ mem.spaceID = d.memories[mem.parentID].spaceID
             /\ mem.version = d.memories[mem.parentID].version + 1

\* The chain does not fork.
NoFork(d) ==
  \A a, b \in Stored(d) :
    d.memories[a].parentID = d.memories[b].parentID /\ d.memories[a].parentID # Nil
      => a = b

\* The end of the chain is live or was forgotten, and only the end is live.
EndsLive(d) ==
  \A id \in Stored(d) :
    IF Successors(d, id) = {}
    THEN d.memories[id].isLatest <=> ~d.memories[id].isForgotten
    ELSE ~d.memories[id].isLatest

\* A lineage stays in the space of its root, where Revive writes.
OneSpace(d) ==
  \A id \in Stored(d) :
    d.memories[id].spaceID = d.memories[RootOf(d, id)].spaceID

\* The versions of a lineage are numbered from one without a gap.
Numbered(d) ==
  \A root \in MemoryIDs :
    /\ \A a, b \in Versions(d, root) :
         d.memories[a].version = d.memories[b].version => a = b
    /\ {d.memories[id].version : id \in Versions(d, root)}
         = 1 .. Cardinality(Versions(d, root))

Chains(d) ==
  /\ ParentsAgree(d)
  /\ NoFork(d)
  /\ EndsLive(d)
  /\ OneSpace(d)
  /\ Numbered(d)

ChainInv ==
  /\ HInv
  /\ Chains(db)
  /\ InBatch => Chains(tx.work)

-------------------------------------------------------------------------------
(* What does not touch the versions. *)

\* There are finitely many versions.
LEMMA VersionsFinite ==
  ASSUME NEW d, NEW root
  PROVE  /\ IsFiniteSet(Versions(d, root))
         /\ Cardinality(Versions(d, root)) \in Nat
<1>1. Versions(d, root) \in SUBSET MemoryIDs
  BY DEF Versions, Stored
<1>. QED  BY <1>1, IDsAssumption, FS_Subset, FS_CardinalityType

\* An operation that adds no version keeps the chains, if what it forgets is no
\* longer live and what it leaves keeps its flags.
LEMMA SameChains ==
  ASSUME NEW d \in DB, NEW e \in DB, HeadsAgree(d), Chains(d),
         KeepsHistory(d, e),
         Stored(e) = Stored(d),
         \A m \in Stored(d) :
           \/ /\ e.memories[m].isLatest <=> d.memories[m].isLatest
              /\ e.memories[m].isForgotten <=> d.memories[m].isForgotten
           \/ /\ ~d.memories[m].isForgotten
              /\ ~e.memories[m].isLatest /\ e.memories[m].isForgotten
  PROVE  Chains(e)
<1>1. \A m \in Stored(d) :
        /\ e.memories[m].spaceID = d.memories[m].spaceID
        /\ e.memories[m].version = d.memories[m].version
        /\ e.memories[m].parentID = d.memories[m].parentID
        /\ e.memories[m].rootID = d.memories[m].rootID
        /\ RootOf(e, m) = RootOf(d, m)
  BY FrozenFields
<1>2. ParentsAgree(e)
  BY <1>1 DEF Chains, ParentsAgree
<1>3. NoFork(e)
  BY <1>1 DEF Chains, NoFork
<1>4. \A m \in Stored(d) : Successors(e, m) = Successors(d, m)
  BY <1>1 DEF Successors
<1>5. EndsLive(e)
  BY <1>4 DEF Chains, EndsLive
<1>6. \A root \in MemoryIDs : Versions(e, root) = Versions(d, root)
  BY <1>1 DEF Versions
<1>7. Numbered(e)
  <2>. SUFFICES ASSUME NEW root \in MemoryIDs
       PROVE  /\ \A a, b \in Versions(e, root) :
                   e.memories[a].version = e.memories[b].version => a = b
              /\ {e.memories[id].version : id \in Versions(e, root)}
                   = 1 .. Cardinality(Versions(e, root))
    BY DEF Numbered
  <2>1. \A id \in Versions(d, root) : e.memories[id].version = d.memories[id].version
    BY <1>1 DEF Versions
  <2>2. {e.memories[id].version : id \in Versions(d, root)}
          = {d.memories[id].version : id \in Versions(d, root)}
    BY <2>1
  <2>. QED  BY <1>6, <2>1, <2>2 DEF Chains, Numbered
<1>8. OneSpace(e)
  BY <1>1 DEF HeadsAgree, RootsAreRoots, Chains, OneSpace
<1>. QED  BY <1>2, <1>3, <1>5, <1>7, <1>8 DEF Chains

-------------------------------------------------------------------------------
(* A lineage grows at its end. *)

\* The end of a chain has the number of its versions: one with a greater number
\* would have a parent with this one.
LEMMA EndIsLast ==
  ASSUME NEW d \in DB, Chains(d), NEW last \in Stored(d),
         Successors(d, last) = {}
  PROVE  d.memories[last].version = Cardinality(Versions(d, RootOf(d, last)))
<1>. DEFINE root == RootOf(d, last)
            n == Cardinality(Versions(d, root))
            v == d.memories[last].version
<1>1. /\ root \in MemoryIDs /\ last \in Versions(d, root) /\ n \in Nat
  BY StoredType, VersionsFinite DEF Versions
<1>2. {d.memories[id].version : id \in Versions(d, root)} = 1 .. n
  BY <1>1 DEF Chains, Numbered
<1>3. v \in 1 .. n
  BY <1>1, <1>2
<1>4. ASSUME v # n
      PROVE  FALSE
  <2>1. v + 1 \in 1 .. n
    BY <1>1, <1>3, <1>4
  <2>2. PICK next \in Versions(d, root) : d.memories[next].version = v + 1
    BY <1>2, <2>1
  <2>3. next \in Stored(d) /\ RootOf(d, next) = root /\ v + 1 # 1
    BY <1>3, <2>2 DEF Versions
  <2>. DEFINE parent == d.memories[next].parentID
  <2>4. /\ parent \in Stored(d)
        /\ d.memories[next].rootID = RootOf(d, parent)
        /\ d.memories[next].version = d.memories[parent].version + 1
    BY <2>2, <2>3 DEF Chains, ParentsAgree
  <2>5. RootOf(d, parent) = root
    <3>1. RootOf(d, parent) \in MemoryIDs
      BY <2>4, StoredType
    <3>. QED  BY <2>3, <2>4, <3>1, NilAssumption DEF RootOf
  <2>6. d.memories[parent].version = v
    <3>1. d.memories[parent].version \in Nat /\ v \in Nat
      BY <2>4, StoredType DEF Memory
    <3>. QED  BY <2>2, <2>4, <3>1
  <2>7. parent = last
    BY <1>1, <2>4, <2>5, <2>6 DEF Chains, Numbered, Versions
  <2>. QED  BY <2>3, <2>7 DEF Successors
<1>. QED  BY <1>3, <1>4

\* A version added at the end of a lineage, or as its root, keeps the chains.
LEMMA GrownChains ==
  ASSUME NEW d \in DB, NEW e \in DB, HeadsAgree(d), Chains(d),
         KeepsHistory(d, e), NEW id \in MemoryIDs \ Stored(d),
         Stored(e) = Stored(d) \cup {id},
         e.memories[id].isLatest, ~e.memories[id].isForgotten,
         NEW parent, e.memories[id].parentID = parent,
         IF parent = Nil
         THEN e.memories[id].rootID = Nil /\ e.memories[id].version = 1
         ELSE /\ parent \in Stored(d)
              /\ Successors(d, parent) = {}
              /\ e.memories[id].rootID = RootOf(d, parent)
              /\ e.memories[id].spaceID = d.memories[parent].spaceID
              /\ e.memories[id].version = d.memories[parent].version + 1,
         \A m \in Stored(d) :
           /\ e.memories[m].isForgotten <=> d.memories[m].isForgotten
           /\ e.memories[m].isLatest <=> m # parent /\ d.memories[m].isLatest
  PROVE  Chains(e)
<1>. DEFINE root == IF parent = Nil THEN id ELSE RootOf(d, parent)
<1>1. \A m \in Stored(d) :
        /\ e.memories[m].spaceID = d.memories[m].spaceID
        /\ e.memories[m].version = d.memories[m].version
        /\ e.memories[m].parentID = d.memories[m].parentID
        /\ e.memories[m].rootID = d.memories[m].rootID
        /\ RootOf(e, m) = RootOf(d, m)
  BY FrozenFields
<1>2. \A m \in Stored(d) : m # id /\ m # Nil
  BY NilAssumption DEF Stored
<1>3. \A m \in Stored(d) : d.memories[m].parentID # id
  <2>1. \A m \in Stored(d) : d.memories[m].parentID \in Stored(d) \cup {Nil}
    BY DEF Chains, ParentsAgree
  <2>. QED  BY <1>2, <2>1, NilAssumption
<1>4. RootOf(e, id) = root /\ root \in MemoryIDs
  <2>1. parent # Nil => RootOf(d, parent) \in MemoryIDs
    BY StoredType
  <2>. QED  BY <2>1, NilAssumption DEF RootOf
<1>5. ParentsAgree(e)
  BY <1>1 DEF Chains, ParentsAgree
<1>6. NoFork(e)
  <2>. SUFFICES ASSUME NEW a \in Stored(e), NEW b \in Stored(e),
                       e.memories[a].parentID = e.memories[b].parentID,
                       e.memories[a].parentID # Nil
       PROVE  a = b
    BY DEF NoFork
  <2>1. CASE a \in Stored(d) /\ b \in Stored(d)
    BY <1>1, <2>1 DEF Chains, NoFork
  <2>2. \A m \in Stored(d) : parent # Nil => d.memories[m].parentID # parent
    BY DEF Successors
  <2>. QED  BY <1>1, <2>1, <2>2
<1>7. EndsLive(e)
  <2>1. Successors(e, id) = {}
    <3>1. parent # id
      BY <1>2, NilAssumption
    <3>. QED  BY <1>1, <1>3, <3>1 DEF Successors
  <2>2. \A m \in Stored(d) :
          Successors(e, m) = Successors(d, m) \cup (IF m = parent THEN {id} ELSE {})
    BY <1>1 DEF Successors
  <2>3. \A m \in Stored(d) :
          IF Successors(e, m) = {}
          THEN e.memories[m].isLatest <=> ~e.memories[m].isForgotten
          ELSE ~e.memories[m].isLatest
    BY <2>2 DEF Chains, EndsLive
  <2>. QED  BY <2>1, <2>3 DEF EndsLive
<1>8. OneSpace(e)
  <2>1. \A m \in Stored(d) : RootOf(d, m) \in Stored(d)
    BY DEF HeadsAgree, RootsAreRoots
  <2>2. \A m \in Stored(d) : e.memories[m].spaceID = e.memories[RootOf(e, m)].spaceID
    BY <1>1, <2>1 DEF Chains, OneSpace
  <2>3. e.memories[id].spaceID = e.memories[RootOf(e, id)].spaceID
    <3>1. CASE parent = Nil
      BY <1>4, <3>1
    <3>2. CASE parent # Nil
      BY <1>1, <1>4, <2>1, <3>2 DEF Chains, OneSpace
    <3>. QED  BY <3>1, <3>2
  <2>. QED  BY <2>2, <2>3 DEF OneSpace
<1>9. Numbered(e)
  <2>. DEFINE n == Cardinality(Versions(d, root))
  <2>1. \A r \in MemoryIDs :
          Versions(e, r) = Versions(d, r) \cup (IF r = root THEN {id} ELSE {})
    BY <1>1, <1>4 DEF Versions
  <2>2. /\ n \in Nat
        /\ e.memories[id].version = n + 1
        /\ Cardinality(Versions(e, root)) = n + 1
    <3>1. id \notin Versions(d, root) /\ Versions(e, root) = Versions(d, root) \cup {id}
      BY <1>4, <2>1 DEF Versions
    <3>2. Cardinality(Versions(e, root)) = n + 1 /\ n \in Nat
      BY <3>1, VersionsFinite, FS_AddElement
    <3>3. CASE parent = Nil
      <4>1. Versions(d, id) = {}
        BY DEF Versions, HeadsAgree, RootsAreRoots
      <4>2. root = id
        BY <3>3
      <4>3. n = 0
        BY <4>1, <4>2, FS_EmptySet
      <4>. QED  BY <3>2, <3>3, <4>3
    <3>4. CASE parent # Nil
      BY <3>2, <3>4, EndIsLast
    <3>. QED  BY <3>2, <3>3, <3>4
  <2>. HIDE DEF n, root
  <2>3. ASSUME NEW r \in MemoryIDs
        PROVE  /\ \A a, b \in Versions(e, r) :
                    e.memories[a].version = e.memories[b].version => a = b
               /\ {e.memories[m].version : m \in Versions(e, r)}
                    = 1 .. Cardinality(Versions(e, r))
    <3>1. \A m \in Versions(d, r) : e.memories[m].version = d.memories[m].version
      BY <1>1 DEF Versions
    <3>2. {e.memories[m].version : m \in Versions(d, r)}
            = 1 .. Cardinality(Versions(d, r))
      <4>1. {e.memories[m].version : m \in Versions(d, r)}
              = {d.memories[m].version : m \in Versions(d, r)}
        BY <3>1
      <4>. QED  BY <4>1 DEF Chains, Numbered
    <3>3. \A a, b \in Versions(d, r) :
            e.memories[a].version = e.memories[b].version => a = b
      BY <3>1 DEF Chains, Numbered
    <3>4. CASE r # root
      <4>1. Versions(e, r) = Versions(d, r)
        BY <2>1, <3>4
      <4>. QED  BY <3>2, <3>3, <4>1
    <3>5. CASE r = root
      <4>1. Versions(e, r) = Versions(d, r) \cup {id}
        BY <2>1, <3>5
      <4>2. \A m \in Versions(d, r) : e.memories[m].version \in 1 .. n
        BY <3>2, <3>5 DEF n
      <4>3. {e.memories[m].version : m \in Versions(e, r)} = (1 .. n) \cup {n + 1}
        BY <2>2, <3>2, <3>5, <4>1 DEF n
      <4>4. (1 .. n) \cup {n + 1} = 1 .. (n + 1)
        BY <2>2
      <4>5. \A a, b \in Versions(e, r) :
              e.memories[a].version = e.memories[b].version => a = b
        <5>1. \A m \in Versions(d, r) : e.memories[m].version # e.memories[id].version
          BY <2>2, <4>2
        <5>. QED  BY <3>3, <4>1, <5>1
      <4>. QED  BY <2>2, <3>5, <4>3, <4>4, <4>5
    <3>. QED  BY <3>4, <3>5
  <2>. QED  BY <2>3 DEF Numbered
<1>. QED  BY <1>5, <1>6, <1>7, <1>8, <1>9 DEF Chains

-------------------------------------------------------------------------------
(* Every operation keeps the chains. *)

\* An update follows the live version, which is an end.
LEMMA RememberChains ==
  ASSUME NEW d \in DB, HeadsAgree(d), Chains(d), NEW known \in SUBSET MemoryIDs,
         NEW input \in Inputs(known), NEW id \in MemoryIDs \ Stored(d),
         NEW embedding \in Models, RememberAllowed(d, input)
  PROVE  Chains(RememberPreparedInTx(d, input, id, embedding))
<1>. DEFINE e == RememberPreparedInTx(d, input, id, embedding)
            parent == input.updates
<1>1. e \in DB /\ KeepsHistory(d, e)
  BY RememberType, RememberKeeps
<1>2. /\ Stored(e) = Stored(d) \cup {id}
      /\ parent # Nil => /\ parent \in Stored(d)
                         /\ d.memories[parent].spaceID = input.spaceID
                         /\ d.memories[parent].isLatest
  BY RememberEffect
<1>3. PICK version \in Nat, root \in MemoryIDs \cup {Nil} :
        /\ e.memories[id] = NewMemory(input, version, parent, root, embedding)
        /\ IF parent = Nil THEN version = 1 /\ root = Nil
           ELSE /\ version = d.memories[parent].version + 1
                /\ root = RootOf(d, parent)
  BY RememberEffect
<1>4. \A m \in Stored(d) :
        /\ e.memories[m].isForgotten <=> d.memories[m].isForgotten
        /\ e.memories[m].isLatest <=> m # parent /\ d.memories[m].isLatest
  BY RememberFlags
<1>5. /\ e.memories[id].isLatest /\ ~e.memories[id].isForgotten
      /\ e.memories[id].parentID = parent
      /\ e.memories[id].rootID = root /\ e.memories[id].version = version
      /\ e.memories[id].spaceID = input.spaceID
  BY <1>3 DEF NewMemory
<1>6. parent # Nil => Successors(d, parent) = {}
  BY <1>2 DEF Chains, EndsLive
<1>. HIDE DEF e, parent
<1>7. Chains(e)
  BY <1>1, <1>2, <1>3, <1>4, <1>5, <1>6, GrownChains
<1>. QED  BY <1>7 DEF e

\* A Forget forgets what was live or in the middle.
LEMMA ForgetChains ==
  ASSUME NEW d \in DB, HeadsAgree(d), Chains(d), NEW id \in Stored(d)
  PROVE  Chains(ForgetInTx(d, id))
<1>. DEFINE e == ForgetInTx(d, id)
<1>1. e \in DB /\ KeepsHistory(d, e)
  BY ForgetType, ForgetKeeps
<1>2. CASE d.memories[id].isForgotten
  BY <1>2 DEF ForgetInTx
<1>3. CASE ~d.memories[id].isForgotten
  <2>1. /\ Stored(e) = Stored(d)
        /\ \A m \in Stored(d) :
             /\ e.memories[m].isForgotten
                  <=> m = id \/ d.memories[m].isForgotten
             /\ e.memories[m].isLatest <=> m # id /\ d.memories[m].isLatest
    BY <1>3, ForgetEffect
  <2>. QED  BY <1>1, <1>3, <2>1, SameChains
<1>. QED  BY <1>2, <1>3

\* A Revive goes on from the end its scan found.
LEMMA ReviveChains ==
  ASSUME NEW d \in DB, HeadsAgree(d), Chains(d), NEW e, Revives(d, e)
  PROVE  Chains(e)
<1>1. PICK root \in Stored(d), last \in Stored(d), id \in MemoryIDs \ Stored(d) :
        /\ last \in ForgottenVersions(d, root)
        /\ Successors(d, last) = {}
        /\ e = ReviveLineage(d, root, last, d.memories[root].kind, id)
  BY DEF Revives
<1>2. d.memories[root].kind \in Kinds
  BY StoredType DEF Memory
<1>3. e \in DB /\ KeepsHistory(d, e)
  BY <1>1, <1>2, ReviveType, ReviveKeeps
<1>4. /\ Stored(e) = Stored(d) \cup {id}
      /\ e.memories[id] = RevivedMemory(d, root, last, d.memories[root].kind)
      /\ \A m \in Stored(d) : e.memories[m] = d.memories[m]
  BY <1>1, <1>2, ReviveEffect
<1>5. /\ RootOf(d, last) = root /\ ~d.memories[last].isLatest
      /\ last # Nil
  BY <1>1, NilAssumption DEF ForgottenVersions, Stored
<1>6. d.memories[root].spaceID = d.memories[last].spaceID
  BY <1>5 DEF Chains, OneSpace
<1>7. /\ e.memories[id].isLatest /\ ~e.memories[id].isForgotten
      /\ e.memories[id].parentID = last /\ e.memories[id].rootID = root
      /\ e.memories[id].version = d.memories[last].version + 1
      /\ e.memories[id].spaceID = d.memories[last].spaceID
  BY <1>4, <1>6 DEF RevivedMemory
<1>. QED  BY <1>1, <1>3, <1>4, <1>5, <1>7, GrownChains

\* Whatever the operation.
LEMMA OperationChains ==
  ASSUME NEW d \in DB, HeadsAgree(d), Chains(d), NEW e,
         NEW known \in SUBSET MemoryIDs, Operates(known, d, e)
  PROVE  Chains(e)
<1>1. e \in DB /\ KeepsHistory(d, e)
  BY OperationKeeps
<1>2. CASE Remembers(known, d, e) \/ Forgets(d, e)
  BY <1>2, RememberChains, ForgetChains DEF Remembers, Forgets
<1>3. CASE Revives(d, e)
  BY <1>3, ReviveChains
<1>4. CASE Configures(d, e)
  BY <1>1, <1>4, ConfigEffect, SameChains
<1>5. CASE EndsMigration(d, e)
  <2>1. PICK space \in Spaces, model \in Models : e = MigrateInTx(d, space, model)
    BY <1>5 DEF EndsMigration
  <2>. QED  BY <1>1, <2>1, MigrateEffect, MigrateFlags, SameChains
<1>. QED  BY <1>2, <1>3, <1>4, <1>5 DEF Operates

-------------------------------------------------------------------------------
(* The invariant is inductive. *)

\* The empty file has no version.
LEMMA EmptyChains == Chains(EmptyDB)
<1>1. Stored(EmptyDB) = {}
  BY DEF Stored, EmptyDB
<1>2. \A root \in MemoryIDs : Versions(EmptyDB, root) = {}
  BY <1>1 DEF Versions
<1>3. Numbered(EmptyDB)
  BY <1>2, FS_EmptySet DEF Numbered
<1>. QED
  BY <1>1, <1>3 DEF Chains, ParentsAgree, NoFork, EndsLive, OneSpace

\* The first state.
LEMMA InitChainInv == Init => ChainInv
<1>. SUFFICES ASSUME Init PROVE ChainInv
  OBVIOUS
<1>1. HInv
  BY InitIInv DEF Init, HInv, WorkKeepsHistory, Running, Idle
<1>. QED  BY <1>1, EmptyChains DEF Init, ChainInv, InBatch, Running, Idle

\* Every step.
LEMMA NextChainInv == ChainInv /\ [Next]_vars => ChainInv'
<1>. SUFFICES ASSUME ChainInv, [Next]_vars
     PROVE  ChainInv'
  OBVIOUS
<1>0. /\ HInv /\ db \in DB /\ HeadsAgree(db) /\ Chains(db)
      /\ Stored(db) \in SUBSET MemoryIDs
      /\ InBatch => tx.work \in DB /\ HeadsAgree(tx.work) /\ Chains(tx.work)
  BY RunningType DEF ChainInv, HInv, IInv, TypeOK, BatchAgrees, InBatch, Stored
<1>1. HInv'
  BY <1>0, NextIInv, NextWorkKeepsHistory DEF HInv
<1>2. Chains(db')
  BY <1>0, StepOfDB, OperationChains
<1>3. ASSUME InBatch' PROVE Chains(tx'.work)
  BY <1>0, <1>3, StepOfWork, OperationChains DEF Operates, InBatch
<1>. QED  BY <1>1, <1>2, <1>3 DEF ChainInv

\* A chain that does not fork has at most one successor of each version.
LEMMA ChainsAreChains == ChainInv => LineageIsChain
<1>. SUFFICES ASSUME ChainInv, NEW id \in Stored(db)
     PROVE  Cardinality(Successors(db, id)) <= 1
  BY StoredType DEF ChainInv, HInv, IInv, TypeOK, Chains, ParentsAgree, EndsLive,
       LineageIsChain, Memory
<1>1. id # Nil
  BY NilAssumption DEF Stored
<1>2. \A a, b \in Successors(db, id) : a = b
  BY <1>1 DEF ChainInv, Chains, NoFork, Successors
<1>3. CASE Successors(db, id) = {}
  BY <1>3, FS_EmptySet
<1>4. CASE Successors(db, id) # {}
  <2>1. PICK next : Successors(db, id) = {next}
    BY <1>2, <1>4
  <2>. QED  BY <2>1, FS_Singleton
<1>. QED  BY <1>3, <1>4

\* The versions of a lineage form one chain from its root: each names a parent
\* of the same lineage and space and counts one more than it, no version has
\* two successors, and the end of the chain is live or was forgotten.  Nothing
\* forks a lineage, also not a Revive of one whose middle was forgotten
\* (rememberPreparedInTx, forgetInTx, Revive).
THEOREM LineagesAreChains == Spec => []LineageIsChain
BY InitChainInv, NextChainInv, ChainsAreChains, PTL DEF Spec

-------------------------------------------------------------------------------
(* MemoryStore implements Lineage.                                           *)
(*                                                                           *)
(* GetLineage sorts the versions of a lineage by their numbers.  As these    *)
(* run from one without a gap, each version stands at its number, and a new  *)
(* one, which counts one more than the last, comes at the end.               *)

\* GetLineage returns each version of the lineage once, at its number.
LEMMA LineageInOrder ==
  ASSUME NEW d \in DB, Chains(d), NEW root \in MemoryIDs
  PROVE  /\ GetLineage(d, root) \in Seq(Versions(d, root))
         /\ Len(GetLineage(d, root)) = Cardinality(Versions(d, root))
         /\ \A id \in Versions(d, root) :
              /\ d.memories[id].version \in 1 .. Cardinality(Versions(d, root))
              /\ GetLineage(d, root)[d.memories[id].version] = id
<1>. DEFINE V == Versions(d, root)
            n == Cardinality(V)
            number(id) == d.memories[id].version
            UpTo(k) == {v \in V : number(v) <= k}
            Place(k) == CHOOSE id \in V : Cardinality(UpTo(number(id))) = k
<1>1. /\ n \in Nat /\ IsFiniteSet(V)
      /\ \A a, b \in V : number(a) = number(b) => a = b
      /\ {number(id) : id \in V} = 1 .. n
  BY VersionsFinite DEF Chains, Numbered
<1>2. GetLineage(d, root) = [k \in 1 .. n |-> Place(k)]
  BY DEF GetLineage
<1>. HIDE DEF V, n, number
<1>3. ASSUME NEW k \in 1 .. n
      PROVE  Cardinality(UpTo(k)) = k
  <2>. DEFINE f == [v \in UpTo(k) |-> number(v)]
  <2>1. \A v \in V : number(v) \in 1 .. n
    BY <1>1
  <2>2. f \in Injection(UpTo(k), 1 .. k)
    <3>1. f \in [UpTo(k) -> 1 .. k]
      BY <1>1, <2>1
    <3>2. \A a, b \in UpTo(k) : f[a] = f[b] => a = b
      BY <1>1
    <3>. QED  BY <3>1, <3>2 DEF Injection, IsInjective
  <2>3. f \in Surjection(UpTo(k), 1 .. k)
    <3>1. f \in [UpTo(k) -> 1 .. k]
      BY <2>2 DEF Injection
    <3>2. ASSUME NEW j \in 1 .. k
          PROVE  \E v \in UpTo(k) : f[v] = j
      <4>1. j \in 1 .. n /\ j <= k
        BY <1>1
      <4>2. PICK v \in V : number(v) = j
        BY <1>1, <4>1
      <4>. QED  BY <4>1, <4>2
    <3>. QED  BY <3>1, <3>2 DEF Surjection
  <2>4. ExistsBijection(UpTo(k), 1 .. k)
    BY <2>2, <2>3 DEF ExistsBijection, Bijection
  <2>5. IsFiniteSet(UpTo(k))
    BY <1>1, FS_Subset
  <2>6. Cardinality(1 .. k) = Cardinality(UpTo(k))
    BY <2>4, <2>5, FS_Bijection
  <2>7. Cardinality(1 .. k) = k
    <3>1. k \in Int /\ 1 \in Int /\ ~(1 > k)
      BY <1>1
    <3>2. Cardinality(1 .. k) = k - 1 + 1
      BY <3>1, FS_Interval
    <3>. QED  BY <3>1, <3>2
  <2>. QED  BY <2>6, <2>7
<1>4. ASSUME NEW id \in V
      PROVE  number(id) \in 1 .. n /\ Place(number(id)) = id
  <2>1. \A v \in V : number(v) \in 1 .. n
    BY <1>1
  <2>2. \A v \in V : Cardinality(UpTo(number(v))) = number(v)
    BY <1>3, <2>1
  <2>. HIDE DEF UpTo
  <2>3. \A v \in V : Cardinality(UpTo(number(v))) = number(id) <=> v = id
    BY <1>1, <2>2
  <2>. QED  BY <2>1, <2>3
<1>. HIDE DEF Place
<1>5. ASSUME NEW k \in 1 .. n
      PROVE  Place(k) \in V
  <2>1. PICK id \in V : number(id) = k
    BY <1>1
  <2>2. Place(number(id)) = id
    BY <1>4
  <2>. QED  BY <2>1, <2>2
<1>6. /\ GetLineage(d, root) \in Seq(V) /\ Len(GetLineage(d, root)) = n
      /\ \A k \in 1 .. n : GetLineage(d, root)[k] = Place(k)
  BY <1>1, <1>2, <1>5
<1>. QED  BY <1>4, <1>6 DEF V, n, number

\* A lineage with the same versions reads the same.
LEMMA SameReads ==
  ASSUME NEW d \in DB, NEW e \in DB, KeepsHistory(d, e), Chains(d), Chains(e),
         NEW root \in MemoryIDs, Versions(e, root) = Versions(d, root)
  PROVE  GetLineage(e, root) = GetLineage(d, root)
<1>. DEFINE V == Versions(d, root)
            n == Cardinality(V)
            s == GetLineage(d, root)
            t == GetLineage(e, root)
<1>1. /\ s \in Seq(V) /\ Len(s) = n /\ t \in Seq(V) /\ Len(t) = n
      /\ \A v \in V : s[d.memories[v].version] = v /\ t[e.memories[v].version] = v
  BY LineageInOrder
<1>2. \A v \in V : e.memories[v].version = d.memories[v].version
  BY FrozenFields DEF Versions
<1>3. ASSUME NEW k \in 1 .. n
      PROVE  t[k] = s[k]
  <2>1. PICK v \in V : d.memories[v].version = k
    BY DEF Chains, Numbered
  <2>. QED  BY <1>1, <1>2, <2>1
<1>. HIDE DEF s, t, n, V
<1>4. t = s
  BY <1>1, <1>3
<1>. QED  BY <1>4 DEF s, t

\* A lineage with one version more reads the same, and that version at its end.
LEMMA GrownReads ==
  ASSUME NEW d \in DB, NEW e \in DB, KeepsHistory(d, e), Chains(d), Chains(e),
         NEW root \in MemoryIDs, NEW id \in MemoryIDs \ Stored(d),
         Versions(e, root) = Versions(d, root) \cup {id}
  PROVE  GetLineage(e, root) = Append(GetLineage(d, root), id)
<1>. DEFINE n == Cardinality(Versions(d, root))
            s == GetLineage(d, root)
            t == GetLineage(e, root)
<1>1. id \notin Versions(d, root)
  BY DEF Versions
<1>2. n \in Nat /\ Cardinality(Versions(e, root)) = n + 1
  BY <1>1, VersionsFinite, FS_AddElement
<1>3. /\ s \in Seq(Versions(d, root)) /\ Len(s) = n
      /\ t \in Seq(Versions(e, root)) /\ Len(t) = n + 1
      /\ \A v \in Versions(d, root) :
           d.memories[v].version \in 1 .. n /\ s[d.memories[v].version] = v
      /\ \A v \in Versions(e, root) :
           e.memories[v].version \in 1 .. n + 1 /\ t[e.memories[v].version] = v
  BY <1>2, LineageInOrder
<1>4. \A v \in Versions(d, root) : e.memories[v].version = d.memories[v].version
  BY FrozenFields DEF Versions
<1>5. \A k \in 1 .. n : t[k] = s[k]
  <2>1. ASSUME NEW k \in 1 .. n
        PROVE  t[k] = s[k]
    <3>1. PICK v \in Versions(d, root) : d.memories[v].version = k
      BY DEF Chains, Numbered
    <3>. QED  BY <1>3, <1>4, <3>1
  <2>. QED  BY <2>1
<1>6. e.memories[id].version = n + 1
  <2>1. {e.memories[v].version : v \in Versions(e, root)} = 1 .. n + 1
    BY <1>2 DEF Chains, Numbered
  <2>2. n + 1 \in 1 .. n + 1
    BY <1>2
  <2>3. PICK v \in Versions(e, root) : e.memories[v].version = n + 1
    BY <2>1, <2>2
  <2>4. v \notin Versions(d, root)
    BY <1>2, <1>3, <1>4, <2>3
  <2>. QED  BY <2>3, <2>4
<1>7. t[n + 1] = id
  BY <1>3, <1>6
<1>. HIDE DEF s, t, n
<1>8. t = Append(s, id)
  BY <1>2, <1>3, <1>5, <1>7
<1>. QED  BY <1>8 DEF s, t

-------------------------------------------------------------------------------
(* What a commit does to a lineage, said of the databases.                   *)

KeepsForgotten(d, e, root) ==
  Versions(d, root) \cap ForgottenIn(e) = Versions(d, root) \cap ForgottenIn(d)

SameIn(d, e, root) ==
  /\ Versions(e, root) = Versions(d, root)
  /\ e.latest[root] = d.latest[root]
  /\ KeepsForgotten(d, e, root)

GrowsIn(d, e, root) ==
  \E id \in MemoryIDs \ Stored(d) :
    /\ Versions(d, root) = {} => id = root
    /\ Versions(e, root) = Versions(d, root) \cup {id}
    /\ e.latest[root] = id
    /\ KeepsForgotten(d, e, root)

LosesIn(d, e, root) ==
  /\ Versions(e, root) = Versions(d, root)
  /\ e.latest[root] = IF d.latest[root] \in ForgottenIn(e) THEN Nil
                                                           ELSE d.latest[root]

\* Remembers and Revives only add, Forgets only forget: in one step, or over the
\* items of a batch.
OnlyAdds(d, e) ==
  /\ ForgottenIn(e) = ForgottenIn(d)
  /\ \A root \in MemoryIDs : SameIn(d, e, root) \/ GrowsIn(d, e, root)

OnlyForgets(d, e) ==
  /\ Stored(e) = Stored(d)
  /\ \A root \in MemoryIDs : SameIn(d, e, root) \/ LosesIn(d, e, root)

\* Against the committed database, the copy of a batch changed each lineage in
\* one way, and once if it added to it.
WorkMovesOnce ==
  /\ Running("remember") => OnlyAdds(db, tx.work)
  /\ Running("forget") => OnlyForgets(db, tx.work)

MoveInv == ChainInv /\ WorkMovesOnce

\* A database is itself.
LEMMA NothingMoves ==
  ASSUME NEW d
  PROVE  OnlyAdds(d, d) /\ OnlyForgets(d, d)
BY DEF OnlyAdds, OnlyForgets, SameIn, KeepsForgotten, ForgottenIn

\* What was forgotten stays so.
LEMMA ForgottenGrows ==
  ASSUME NEW d, NEW e, KeepsHistory(d, e)
  PROVE  ForgottenIn(d) \subseteq ForgottenIn(e)
BY DEF KeepsHistory, Kept, ForgottenIn

\* An operation that adds one version, as the latest of its lineage.
LEMMA AddsOne ==
  ASSUME NEW d \in DB, NEW e \in DB, HeadsAgree(d), KeepsHistory(d, e),
         NEW id \in MemoryIDs \ Stored(d), Stored(e) = Stored(d) \cup {id},
         \A m \in Stored(d) :
           e.memories[m].isForgotten <=> d.memories[m].isForgotten,
         ~e.memories[id].isForgotten,
         NEW root \in MemoryIDs, RootOf(e, id) = root,
         root # id => root \in Stored(d) /\ RootOf(d, root) = root,
         e.latest = [d.latest EXCEPT ![root] = id]
  PROVE  /\ OnlyAdds(d, e)
         /\ \A r \in MemoryIDs \ {root} : SameIn(d, e, r)
         /\ GrowsIn(d, e, root)
<1>1. \A m \in Stored(d) : RootOf(e, m) = RootOf(d, m) /\ m # id
  BY FrozenFields
<1>2. \A r \in MemoryIDs :
        Versions(e, r) = Versions(d, r) \cup (IF r = root THEN {id} ELSE {})
  BY <1>1 DEF Versions
<1>3. ForgottenIn(e) = ForgottenIn(d)
  BY DEF ForgottenIn
<1>4. \A r \in MemoryIDs : KeepsForgotten(d, e, r)
  BY <1>3 DEF KeepsForgotten
<1>5. ASSUME NEW r \in MemoryIDs \ {root}
      PROVE  SameIn(d, e, r)
  <2>1. e.latest[r] = d.latest[r]
    BY DEF DB
  <2>2. r \in MemoryIDs /\ r # root
    OBVIOUS
  <2>3. Versions(e, r) = Versions(d, r)
    BY ZenonT(40), <1>2, <2>2
  <2>. QED  BY <1>4, <2>1, <2>2, <2>3 DEF SameIn
<1>6. GrowsIn(d, e, root)
  <2>1. e.latest[root] = id
    BY DEF DB
  <2>2. Versions(d, root) = {} => id = root
    BY DEF Versions
  <2>3. Versions(e, root) = Versions(d, root) \cup {id}
    BY <1>2
  <2>. QED  BY <1>4, <2>1, <2>2, <2>3 DEF GrowsIn
<1>. QED  BY <1>3, <1>5, <1>6 DEF OnlyAdds

\* A Remember starts a lineage, or adds to the one of the version it updates.
LEMMA RememberMoves ==
  ASSUME NEW d \in DB, HeadsAgree(d), NEW known \in SUBSET MemoryIDs,
         NEW input \in Inputs(known), NEW id \in MemoryIDs \ Stored(d),
         NEW embedding \in Models, RememberAllowed(d, input)
  PROVE  LET e == RememberPreparedInTx(d, input, id, embedding)
             root == IF input.updates = Nil THEN id ELSE RootOf(d, input.updates)
         IN  /\ root \in MemoryIDs
             /\ OnlyAdds(d, e)
             /\ \A r \in MemoryIDs \ {root} : SameIn(d, e, r)
             /\ GrowsIn(d, e, root)
<1>. DEFINE e == RememberPreparedInTx(d, input, id, embedding)
            root == IF input.updates = Nil THEN id ELSE RootOf(d, input.updates)
<1>1. e \in DB /\ KeepsHistory(d, e)
  BY RememberType, RememberKeeps
<1>2. /\ Stored(e) = Stored(d) \cup {id}
      /\ input.updates # Nil => input.updates \in Stored(d)
  BY RememberEffect
<1>3. PICK version \in Nat, from \in MemoryIDs \cup {Nil} :
        /\ e.memories[id] = NewMemory(input, version, input.updates, from, embedding)
        /\ IF input.updates = Nil THEN version = 1 /\ from = Nil
           ELSE /\ version = d.memories[input.updates].version + 1
                /\ from = RootOf(d, input.updates)
  BY RememberEffect
<1>4. /\ ~e.memories[id].isForgotten
      /\ e.memories[id].rootID = from
  BY <1>3 DEF NewMemory
<1>5. \A m \in Stored(d) : e.memories[m].isForgotten <=> d.memories[m].isForgotten
  BY RememberFlags
<1>6. /\ root \in MemoryIDs
      /\ root # id => root \in Stored(d) /\ RootOf(d, root) = root
  BY <1>2, StoredType DEF HeadsAgree, RootsAreRoots, RootOf
<1>7. RootOf(e, id) = root
  BY <1>3, <1>4, <1>6, NilAssumption DEF RootOf
<1>8. e.latest = [d.latest EXCEPT ![root] = id]
  BY DEF RememberPreparedInTx, RememberRoot, RememberUpdate, DB
<1>. HIDE DEF e, root
<1>9. /\ OnlyAdds(d, e) /\ GrowsIn(d, e, root)
      /\ \A r \in MemoryIDs \ {root} : SameIn(d, e, r)
  BY <1>1, <1>2, <1>4, <1>5, <1>6, <1>7, <1>8, AddsOne
<1>. QED  BY <1>6, <1>9 DEF e, root

\* A Revive adds to the lineage it found forgotten.
LEMMA ReviveMoves ==
  ASSUME NEW d \in DB, HeadsAgree(d), NEW e, Revives(d, e)
  PROVE  OnlyAdds(d, e)
<1>1. PICK root \in Stored(d), last \in Stored(d), id \in MemoryIDs \ Stored(d) :
        /\ last \in ForgottenVersions(d, root)
        /\ e = ReviveLineage(d, root, last, d.memories[root].kind, id)
  BY DEF Revives
<1>2. d.memories[root].kind \in Kinds /\ root \in MemoryIDs
  BY StoredType DEF Memory
<1>3. e \in DB /\ KeepsHistory(d, e)
  BY <1>1, <1>2, ReviveType, ReviveKeeps
<1>4. /\ Stored(e) = Stored(d) \cup {id}
      /\ e.memories[id] = RevivedMemory(d, root, last, d.memories[root].kind)
      /\ \A m \in Stored(d) : e.memories[m] = d.memories[m]
  BY <1>1, <1>2, ReviveEffect
<1>5. ~e.memories[id].isForgotten /\ e.memories[id].rootID = root
  BY <1>4 DEF RevivedMemory
<1>6. RootOf(e, id) = root
  BY <1>2, <1>5, NilAssumption DEF RootOf
<1>7. RootOf(d, root) = root
  <2>1. RootOf(d, last) = root
    BY <1>1 DEF ForgottenVersions
  <2>2. d.memories[root].rootID = Nil
    BY <2>1 DEF HeadsAgree, RootsAreRoots
  <2>. QED  BY <2>2 DEF RootOf
<1>8. e.latest = [d.latest EXCEPT ![root] = id]
  BY <1>1 DEF ReviveLineage, DB
<1>. QED  BY <1>2, <1>3, <1>4, <1>5, <1>6, <1>7, <1>8, AddsOne

\* A Forget takes the latest version from its lineage, or leaves it.
LEMMA ForgetMoves ==
  ASSUME NEW d \in DB, HeadsAgree(d), Chains(d), NEW id \in Stored(d)
  PROVE  OnlyForgets(d, ForgetInTx(d, id))
<1>. DEFINE v == ForgetVersion(d, id)
            root == RootOf(d, id)
            e == ForgetInTx(d, id)
<1>1. CASE d.memories[id].isForgotten
  BY <1>1, NothingMoves DEF ForgetInTx
<1>2. CASE ~d.memories[id].isForgotten
  <2>1. /\ e \in DB /\ KeepsHistory(d, e) /\ v \in DB
        /\ root \in MemoryIDs /\ id \in MemoryIDs
    BY ForgetType, ForgetKeeps, ForgetVersionType, StoredType
  <2>2. /\ Stored(e) = Stored(d)
        /\ \A m \in Stored(d) :
             e.memories[m].isForgotten <=> m = id \/ d.memories[m].isForgotten
    BY <1>2, ForgetEffect
  <2>3. ForgottenIn(e) = ForgottenIn(d) \cup {id}
    BY <2>2 DEF ForgottenIn
  <2>4. \A r \in MemoryIDs : Versions(e, r) = Versions(d, r)
    <3>1. \A m \in Stored(d) : RootOf(e, m) = RootOf(d, m)
      BY <2>1, FrozenFields
    <3>. QED  BY <2>2, <3>1 DEF Versions
  <2>5. e.latest = IF d.memories[id].isLatest THEN [d.latest EXCEPT ![root] = Nil]
                                              ELSE d.latest
    <3>1. v.latest = d.latest
      BY DEF ForgetVersion, DB
    <3>2. DeactivateLineage(v, d.memories[id], id, root).latest
            = [v.latest EXCEPT ![root] = Nil]
      BY <2>1 DEF DeactivateLineage, DB
    <3>. HIDE DEF v
    <3>. QED  BY <1>2, <3>1, <3>2 DEF ForgetInTx, v
  <2>6. ASSUME NEW r \in MemoryIDs, r # root
        PROVE  SameIn(d, e, r)
    <3>1. id \notin Versions(d, r)
      BY <2>6 DEF Versions
    <3>2. KeepsForgotten(d, e, r)
      BY <2>3, <3>1 DEF KeepsForgotten
    <3>3. e.latest[r] = d.latest[r]
      BY <2>1, <2>5, <2>6 DEF DB
    <3>. QED  BY <2>4, <3>2, <3>3 DEF SameIn
  <2>7. LosesIn(d, e, root)
    <3>1. d.memories[id].isLatest <=> d.latest[root] = id
      BY DEF HeadsAgree, LiveMeansLatest
    <3>2. CASE d.memories[id].isLatest
      <4>1. e.latest[root] = Nil
        BY <2>1, <2>5, <3>2 DEF DB
      <4>2. d.latest[root] \in ForgottenIn(e)
        BY <2>3, <3>1, <3>2
      <4>. QED  BY <2>1, <2>4, <4>1, <4>2 DEF LosesIn
    <3>3. CASE ~d.memories[id].isLatest
      <4>1. e.latest[root] = d.latest[root]
        BY <2>5, <3>3
      <4>2. d.latest[root] \notin ForgottenIn(d)
        <5>. SUFFICES ASSUME d.latest[root] \in ForgottenIn(d)
             PROVE  FALSE
          OBVIOUS
        <5>. DEFINE head == d.latest[root]
        <5>1. head \in Stored(d) /\ head # Nil /\ d.memories[head].isForgotten
          BY NilAssumption DEF ForgottenIn, Stored
        <5>2. RootOf(d, head) = root
          BY <2>1, <5>1 DEF HeadsAgree, LatestInLineage
        <5>3. d.memories[head].isLatest
          BY <5>1, <5>2 DEF HeadsAgree, LiveMeansLatest
        <5>. QED  BY <5>1, <5>3 DEF Chains, EndsLive
      <4>3. d.latest[root] \notin ForgottenIn(e)
        BY <2>3, <3>1, <3>3, <4>2
      <4>. QED  BY <2>1, <2>4, <4>1, <4>3 DEF LosesIn
    <3>. QED  BY <3>2, <3>3
  <2>. QED  BY <2>2, <2>6, <2>7 DEF OnlyForgets
<1>. QED  BY <1>1, <1>2

\* Whatever the operation.
LEMMA OperationMoves ==
  ASSUME NEW d \in DB, HeadsAgree(d), Chains(d), NEW known \in SUBSET MemoryIDs,
         NEW e, Operates(known, d, e)
  PROVE  OnlyAdds(d, e) \/ OnlyForgets(d, e)
<1>1. CASE Remembers(known, d, e)
  BY <1>1, RememberMoves DEF Remembers
<1>2. CASE Forgets(d, e)
  BY <1>2, ForgetMoves DEF Forgets
<1>3. CASE Revives(d, e)
  BY <1>3, ReviveMoves
<1>4. CASE Configures(d, e) \/ EndsMigration(d, e)
  <2>1. /\ Stored(e) = Stored(d) /\ e.latest = d.latest
        /\ \A m \in Stored(d) : e.memories[m].isForgotten <=> d.memories[m].isForgotten
    <3>1. CASE Configures(d, e)
      BY <3>1, ConfigEffect
    <3>2. CASE EndsMigration(d, e)
      <4>1. PICK space \in Spaces, model \in Models : e = MigrateInTx(d, space, model)
        BY <3>2 DEF EndsMigration
      <4>2. e.latest = d.latest
        BY <4>1 DEF MigrateInTx, DB
      <4>. QED  BY <4>1, <4>2, MigrateEffect, MigrateFlags
    <3>. QED  BY <1>4, <3>1, <3>2
  <2>2. \A m \in Stored(d) : RootOf(e, m) = RootOf(d, m)
    BY OperationKeeps, FrozenFields
  <2>3. ForgottenIn(e) = ForgottenIn(d)
    BY <2>1 DEF ForgottenIn
  <2>4. \A root \in MemoryIDs : SameIn(d, e, root)
    BY <2>1, <2>2, <2>3 DEF SameIn, Versions, KeepsForgotten
  <2>. QED  BY <2>3, <2>4 DEF OnlyAdds
<1>. QED  BY <1>1, <1>2, <1>3, <1>4 DEF Operates

-------------------------------------------------------------------------------
(* Every step moves each lineage once.                                       *)

\* The callers of a batch know no memory it wrote: they can only update what was
\* committed, so no item adds to a lineage that another item has added to.
LEMMA NextItemAdds ==
  ASSUME NEW d \in DB, NEW e \in DB, HeadsAgree(e), KeepsHistory(d, e),
         OnlyAdds(d, e), NEW f, Remembers(Stored(d), e, f)
  PROVE  OnlyAdds(d, f)
<1>0. Stored(d) \in SUBSET MemoryIDs /\ Stored(d) \subseteq Stored(e)
  BY DEF KeepsHistory, Stored
<1>1. PICK id \in MemoryIDs \ Stored(e), input \in Inputs(Stored(d)) :
      \E embedding \in Models :
        /\ RememberAllowed(e, input)
        /\ f = RememberPreparedInTx(e, input, id, embedding)
  BY DEF Remembers
<1>2. PICK embedding \in Models :
        /\ RememberAllowed(e, input)
        /\ f = RememberPreparedInTx(e, input, id, embedding)
  BY <1>1
<1>. DEFINE root == IF input.updates = Nil THEN id ELSE RootOf(e, input.updates)
<1>3. /\ root \in MemoryIDs
      /\ OnlyAdds(e, f)
      /\ \A r \in MemoryIDs \ {root} : SameIn(e, f, r)
      /\ GrowsIn(e, f, root)
  BY <1>0, <1>2, RememberMoves
<1>4. SameIn(d, e, root)
  <2>. SUFFICES ASSUME GrowsIn(d, e, root)
       PROVE  FALSE
    BY <1>3 DEF OnlyAdds
  <2>1. PICK x \in MemoryIDs \ Stored(d) :
          Versions(e, root) = Versions(d, root) \cup {x} /\ e.latest[root] = x
    BY DEF GrowsIn
  <2>2. CASE input.updates = Nil
    <3>1. Versions(e, id) = {}
      BY DEF Versions, HeadsAgree, RootsAreRoots
    <3>. QED  BY <2>1, <2>2, <3>1
  <2>3. CASE input.updates # Nil
    <3>1. input.updates \in Stored(d)
      BY <1>0, <2>3, InputType DEF Inputs
    <3>2. input.updates \in Stored(e) /\ e.memories[input.updates].isLatest
      BY <1>0, <1>2, <2>3, RememberEffect
    <3>3. e.latest[root] = input.updates
      BY <2>3, <3>2 DEF HeadsAgree, LiveMeansLatest
    <3>. QED  BY <2>1, <3>1, <3>3
  <2>. QED  BY <2>2, <2>3
<1>. HIDE DEF root
<1>5. ForgottenIn(f) = ForgottenIn(d)
  BY <1>3 DEF OnlyAdds
<1>6. \A r \in MemoryIDs : KeepsForgotten(d, f, r)
  BY <1>5 DEF KeepsForgotten
<1>7. ASSUME NEW r \in MemoryIDs, r # root
      PROVE  SameIn(d, f, r) \/ GrowsIn(d, f, r)
  <2>1. Versions(f, r) = Versions(e, r) /\ f.latest[r] = e.latest[r]
    BY <1>3, <1>7 DEF SameIn
  <2>2. SameIn(d, e, r) \/ GrowsIn(d, e, r)
    BY DEF OnlyAdds
  <2>. QED  BY <1>6, <2>1, <2>2 DEF SameIn, GrowsIn
<1>8. GrowsIn(d, f, root)
  <2>1. PICK new \in MemoryIDs \ Stored(e) :
          /\ Versions(e, root) = {} => new = root
          /\ Versions(f, root) = Versions(e, root) \cup {new}
          /\ f.latest[root] = new
    BY <1>3 DEF GrowsIn
  <2>2. Versions(e, root) = Versions(d, root) /\ new \in MemoryIDs \ Stored(d)
    BY <1>0, <1>4, <2>1 DEF SameIn
  <2>. QED  BY <1>3, <1>6, <2>1, <2>2 DEF GrowsIn
<1>. QED  BY <1>5, <1>7, <1>8 DEF OnlyAdds

\* The forgets of a batch add up: what one left as the latest, another may take.
LEMMA NextItemForgets ==
  ASSUME NEW d \in DB, HeadsAgree(d), NEW e, NEW f, KeepsHistory(e, f),
         OnlyForgets(d, e), OnlyForgets(e, f)
  PROVE  OnlyForgets(d, f)
<1>. SUFFICES ASSUME NEW root \in MemoryIDs
     PROVE  SameIn(d, f, root) \/ LosesIn(d, f, root)
  BY DEF OnlyForgets
<1>. DEFINE head == d.latest[root]
<1>1. /\ SameIn(d, e, root) \/ LosesIn(d, e, root)
      /\ SameIn(e, f, root) \/ LosesIn(e, f, root)
  BY DEF OnlyForgets
<1>2. /\ ForgottenIn(e) \subseteq ForgottenIn(f)
      /\ Nil \notin ForgottenIn(e) /\ Nil \notin ForgottenIn(f)
  BY ForgottenGrows, NilAssumption DEF ForgottenIn, Stored
<1>3. head # Nil => head \in Versions(d, root)
  BY DEF HeadsAgree, LatestInLineage, Versions
<1>4. Versions(e, root) = Versions(d, root) /\ Versions(f, root) = Versions(d, root)
  BY <1>1 DEF SameIn, LosesIn
<1>5. CASE SameIn(d, e, root) /\ SameIn(e, f, root)
  BY <1>4, <1>5 DEF SameIn, KeepsForgotten
<1>6. CASE SameIn(d, e, root) /\ LosesIn(e, f, root)
  BY <1>4, <1>6 DEF SameIn, LosesIn
<1>7. CASE LosesIn(d, e, root) /\ SameIn(e, f, root)
  <2>1. head \in ForgottenIn(e) <=> head \in ForgottenIn(f)
    BY <1>2, <1>3, <1>4, <1>7 DEF SameIn, KeepsForgotten
  <2>. QED  BY <1>4, <1>7, <2>1 DEF SameIn, LosesIn
<1>8. CASE LosesIn(d, e, root) /\ LosesIn(e, f, root)
  BY <1>2, <1>4, <1>8 DEF LosesIn
<1>. QED  BY <1>1, <1>5, <1>6, <1>7, <1>8

\* No batch is open in the first state.
LEMMA InitMoveInv == Init => MoveInv
BY InitChainInv DEF Init, MoveInv, WorkMovesOnce, Running, Idle

\* Every step.
LEMMA NextMoveInv == MoveInv /\ [Next]_vars => MoveInv'
<1>. SUFFICES ASSUME MoveInv, [Next]_vars
     PROVE  MoveInv'
  OBVIOUS
<1>0. /\ ChainInv /\ HInv /\ WorkMovesOnce /\ db \in DB /\ HeadsAgree(db)
      /\ InBatch => /\ tx.work \in DB /\ HeadsAgree(tx.work) /\ Chains(tx.work)
                    /\ KeepsHistory(db, tx.work)
  BY RunningType DEF MoveInv, ChainInv, HInv, IInv, TypeOK, BatchAgrees, InBatch,
                     WorkKeepsHistory
<1>1. ChainInv'
  BY <1>0, NextChainInv
<1>2. ASSUME Running("remember")'
      PROVE  OnlyAdds(db', tx'.work)
  <2>1. InBatch' /\ tx'.op = "remember"
    BY <1>2 DEF InBatch, Running
  <2>2. /\ db' = db
        /\ \/ tx'.work = db
           \/ InBatch /\ tx'.op = tx.op /\ tx'.work = tx.work
           \/ Running("remember") /\ Remembers(Stored(db), tx.work, tx'.work)
           \/ Running("forget")'
    BY <1>0, <2>1, StepOfWork
  <2>3. CASE tx'.work = db
    BY <2>2, <2>3, NothingMoves
  <2>4. CASE InBatch /\ tx'.op = tx.op /\ tx'.work = tx.work
    BY <1>0, <2>1, <2>2, <2>4 DEF InBatch, Running, WorkMovesOnce
  <2>5. CASE Running("remember") /\ Remembers(Stored(db), tx.work, tx'.work)
    <3>1. OnlyAdds(db, tx.work) /\ InBatch
      BY <1>0, <2>5 DEF WorkMovesOnce, InBatch
    <3>. QED  BY <1>0, <2>2, <2>5, <3>1, NextItemAdds
  <2>6. CASE Running("forget")'
    BY <2>1, <2>6 DEF Running
  <2>. QED  BY <2>2, <2>3, <2>4, <2>5, <2>6
<1>3. ASSUME Running("forget")'
      PROVE  OnlyForgets(db', tx'.work)
  <2>1. InBatch' /\ tx'.op = "forget"
    BY <1>3 DEF InBatch, Running
  <2>2. /\ db' = db
        /\ \/ tx'.work = db
           \/ InBatch /\ tx'.op = tx.op /\ tx'.work = tx.work
           \/ Running("forget") /\ Forgets(tx.work, tx'.work)
           \/ Running("remember")'
    BY <1>0, <2>1, StepOfWork
  <2>3. CASE tx'.work = db
    BY <2>2, <2>3, NothingMoves
  <2>4. CASE InBatch /\ tx'.op = tx.op /\ tx'.work = tx.work
    BY <1>0, <2>1, <2>2, <2>4 DEF InBatch, Running, WorkMovesOnce
  <2>5. CASE Running("forget") /\ Forgets(tx.work, tx'.work)
    <3>1. OnlyForgets(db, tx.work) /\ InBatch
      BY <1>0, <2>5 DEF WorkMovesOnce, InBatch
    <3>2. PICK id \in Stored(tx.work) : tx'.work = ForgetInTx(tx.work, id)
      BY <2>5 DEF Forgets
    <3>3. /\ OnlyForgets(tx.work, tx'.work)
          /\ KeepsHistory(tx.work, tx'.work)
      BY <1>0, <3>1, <3>2, ForgetMoves, ForgetKeeps
    <3>. QED  BY <1>0, <2>2, <3>1, <3>3, NextItemForgets
  <2>6. CASE Running("remember")'
    BY <2>1, <2>6 DEF Running
  <2>. QED  BY <2>2, <2>3, <2>4, <2>5, <2>6
<1>. QED  BY <1>1, <1>2, <1>3 DEF MoveInv, WorkMovesOnce

\* What a commit does.
LEMMA StepMoves ==
  ASSUME MoveInv, [Next]_vars
  PROVE  OnlyAdds(db, db') \/ OnlyForgets(db, db')
<1>1. /\ HInv /\ db \in DB /\ HeadsAgree(db) /\ Chains(db) /\ WorkMovesOnce
      /\ Stored(db) \in SUBSET MemoryIDs
  BY DEF MoveInv, ChainInv, HInv, IInv, TypeOK, Stored
<1>2. CASE db' = db
  BY <1>2, NothingMoves
<1>3. CASE Operates(Stored(db), db, db')
  BY <1>1, <1>3, OperationMoves
<1>4. CASE InBatch /\ db' = tx.work
  BY <1>1, <1>4 DEF InBatch, WorkMovesOnce
<1>. QED  BY <1>1, <1>2, <1>3, <1>4, StepOfDB

\* What GetLineage returns in a state is the versions of the lineage, each once.
LEMMA HistoryShown ==
  ASSUME NEW d \in DB, Chains(d), NEW root \in MemoryIDs
  PROVE  LET s == GetLineage(d, root)
         IN  /\ {s[n] : n \in DOMAIN s} = Versions(d, root)
             /\ s = <<>> <=> Versions(d, root) = {}
<1>. DEFINE V == Versions(d, root)
            s == GetLineage(d, root)
            k == Cardinality(V)
<1>1. /\ s \in Seq(V) /\ Len(s) = k
      /\ \A id \in V : d.memories[id].version \in 1 .. k /\ s[d.memories[id].version] = id
  BY LineageInOrder
<1>2. k \in Nat /\ IsFiniteSet(V)
  BY VersionsFinite
<1>3. k = 0 <=> V = {}
  BY <1>2, FS_EmptySet
<1>. HIDE DEF s, V, k
<1>4. DOMAIN s = 1 .. k /\ \A n \in 1 .. k : s[n] \in V
  BY <1>1, <1>2
<1>5. {s[n] : n \in DOMAIN s} = V
  BY <1>1, <1>4
<1>6. s = <<>> <=> k = 0
  BY <1>1, EmptySeq
<1>. QED  BY <1>3, <1>5, <1>6 DEF s, V

\* The refinement mapping, applied to a lineage.
LEMMA MappedVersions ==
  ASSUME db \in DB, Chains(db), NEW root \in MemoryIDs
  PROVE  Abstract!VersionsIn(root) = Versions(db, root)
BY HistoryShown DEF Abstract!VersionsIn

\* The memories the history shows are the stored ones.
LEMMA MappedKnown ==
  ASSUME db \in DB, Chains(db), HeadsAgree(db)
  PROVE  Abstract!Known = Stored(db)
<1>1. Abstract!Known = UNION {Versions(db, root) : root \in MemoryIDs}
  BY MappedVersions DEF Abstract!Known
<1>2. \A id \in Stored(db) : RootOf(db, id) \in MemoryIDs
  BY StoredType
<1>. QED  BY <1>1, <1>2 DEF Versions

\* The empty file shows empty histories.
LEMMA InitRefines ==
  ASSUME Init
  PROVE  Abstract!LineageInit
<1>1. db \in DB /\ Chains(db)
  BY InitChainInv DEF ChainInv, HInv, IInv, TypeOK
<1>2. Stored(db) = {} /\ db.latest = [root \in MemoryIDs |-> Nil]
  BY DEF Init, EmptyDB, Stored
<1>3. \A root \in MemoryIDs : GetLineage(db, root) = <<>>
  BY <1>1, <1>2, HistoryShown DEF Versions
<1>. QED  BY <1>2, <1>3 DEF Abstract!LineageInit

\* A commit is a step of Lineage: each lineage stays, grows at its end by one
\* version that nobody knew, or loses versions.
LEMMA StepRefines ==
  ASSUME MoveInv, MoveInv', [Next]_vars
  PROVE  Abstract!LineageNext
<1>0. /\ db \in DB /\ Chains(db) /\ HeadsAgree(db)
      /\ db' \in DB /\ Chains(db') /\ KeepsHistory(db, db')
  BY NextKeepsHistory DEF MoveInv, ChainInv, HInv, IInv, TypeOK
<1>1. OnlyAdds(db, db') \/ OnlyForgets(db, db')
  BY StepMoves
<1>2. ForgottenIn(db) \subseteq ForgottenIn(db')
  BY <1>0, ForgottenGrows
<1>3. /\ {id \in Stored(db) : db.memories[id].isForgotten} = ForgottenIn(db)
      /\ {id \in Stored(db') : db'.memories[id].isForgotten} = ForgottenIn(db')
  BY DEF ForgottenIn
<1>4. ASSUME NEW root \in MemoryIDs, SameIn(db, db', root)
      PROVE  Abstract!Same(root)
  <2>1. GetLineage(db', root) = GetLineage(db, root)
    BY <1>0, <1>4, SameReads DEF SameIn
  <2>2. Abstract!VersionsIn(root) = Versions(db, root)
    BY <1>0, MappedVersions
  <2>. QED  BY <1>3, <1>4, <2>1, <2>2 DEF SameIn, KeepsForgotten, Abstract!Same
<1>5. ASSUME NEW root \in MemoryIDs, GrowsIn(db, db', root)
      PROVE  Abstract!Grows(root)
  <2>1. PICK id \in MemoryIDs \ Stored(db) :
          /\ Versions(db, root) = {} => id = root
          /\ Versions(db', root) = Versions(db, root) \cup {id}
          /\ db'.latest[root] = id
          /\ KeepsForgotten(db, db', root)
    BY <1>5 DEF GrowsIn
  <2>2. GetLineage(db', root) = Append(GetLineage(db, root), id)
    BY <1>0, <2>1, GrownReads
  <2>3. GetLineage(db, root) = <<>> => id = root
    BY <1>0, <2>1, HistoryShown
  <2>4. /\ Abstract!VersionsIn(root) = Versions(db, root)
        /\ Abstract!Known = Stored(db)
    BY <1>0, MappedVersions, MappedKnown
  <2>. QED
    BY <1>3, <2>1, <2>2, <2>3, <2>4 DEF KeepsForgotten, Abstract!Grows
<1>6. ASSUME NEW root \in MemoryIDs, LosesIn(db, db', root)
      PROVE  Abstract!Loses(root)
  <2>1. GetLineage(db', root) = GetLineage(db, root)
    BY <1>0, <1>6, SameReads DEF LosesIn
  <2>2. Abstract!VersionsIn(root) = Versions(db, root)
    BY <1>0, MappedVersions
  <2>. QED  BY <1>2, <1>3, <1>6, <2>1, <2>2 DEF LosesIn, Abstract!Loses
<1>7. \A root \in MemoryIDs :
        Abstract!Same(root) \/ Abstract!Grows(root) \/ Abstract!Loses(root)
  BY <1>1, <1>4, <1>5, <1>6 DEF OnlyAdds, OnlyForgets
<1>8. ForgottenIn(db') \subseteq Abstract!Known
  <2>1. ForgottenIn(db') \subseteq Stored(db)
    BY <1>1 DEF OnlyAdds, OnlyForgets, ForgottenIn
  <2>. QED  BY <1>0, <2>1, MappedKnown
<1>. QED  BY <1>3, <1>7, <1>8 DEF Abstract!LineageNext

\* Whatever the operations, batches and crashes, GetLineage returns a sequence
\* that grows only at its end, by one version a commit; the latest bucket names
\* that version until it is forgotten, and a Revive adds after the last version
\* (GetLineage, which sorts by the version numbers the writers count).
THEOREM StoreImplementsLineage == Spec => ImplementsLineage
<1>1. MoveInv /\ MoveInv' /\ [Next]_vars => [Abstract!LineageNext]_Abstract!lineageVars
  BY StepRefines
<1>. QED
  BY <1>1, InitRefines, InitMoveInv, NextMoveInv, PTL
    DEF Spec, ImplementsLineage, Abstract!LineageSpec

-------------------------------------------------------------------------------
(* What is written beside the memories: the invariant of the logs, the       *)
(* relation buckets and the orphan flags.                                    *)

\* The entry that introduces a memory is the only one, and names its parent.
EachIntroduced(d) ==
  \A id \in Stored(d) :
    LET parent == d.memories[id].parentID
    IN  \E e \in d.auditLog :
          /\ Introduces(e, id)
          /\ e.memoryIDs = (IF parent = Nil THEN <<id>> ELSE <<parent, id>>)
          /\ \A f \in d.auditLog : Introduces(f, id) => f = e

\* What is introduced was stored: no entry speaks of a key still to be drawn.
OnlyStoredIntroduced(d) ==
  \A e \in d.auditLog, id \in MemoryIDs : Introduces(e, id) => id \in Stored(d)

\* Both logs name the forgotten memories.
ForgetsLogged(d) ==
  /\ d.forgetLog = {id \in Stored(d) : d.memories[id].isForgotten}
  /\ d.forgetLog =
       {e.memoryIDs[1] : e \in {f \in d.auditLog : f.operation = "forget"}}

Logged(d) == EachIntroduced(d) /\ OnlyStoredIntroduced(d) /\ ForgetsLogged(d)

\* Both ends of an edge are stored, and the reverse index has it.
EdgesMirrored(d) ==
  /\ \A e \in d.relations : e[1] \in Stored(d) /\ e[3] \in Stored(d)
  /\ d.relationRefs = RefsOf(d.relations)

\* An edge leaves its space only as one that nothing checks: a derives edge of a
\* memory that is not derived.
EdgesKeptIn(d) ==
  \A e \in d.relations :
    \/ d.memories[e[1]].spaceID = d.memories[e[3]].spaceID
    \/ e[2] = "derives" /\ d.memories[e[1]].kind # "derived"

\* The memory was written by a Remember.
Remembered(log, id) ==
  \E e \in log : Introduces(e, id) /\ e.operation = "remember"

\* The updates edges are the parents of what a Remember wrote.
UpdatesAreParents(d) ==
  \A id \in Stored(d), to \in MemoryIDs :
    <<id, "updates", to>> \in d.relations
      <=> d.memories[id].parentID = to /\ Remembered(d.auditLog, id)

\* A forget of a source finds the derived memories that rest on it.
SourcesLinked(d) ==
  \A id \in Stored(d) :
    d.memories[id].kind = "derived" =>
      \A src \in d.memories[id].sourceIDs :
        /\ src \in Stored(d)
        /\ d.memories[src].spaceID = d.memories[id].spaceID
        /\ <<id, "derives", src>> \in d.relations

OrphansFlagged(d) ==
  \A id \in Stored(d) :
    d.memories[id].isLatest =>
      (d.memories[id].hasOrphanedSources
         <=> /\ d.memories[id].kind = "derived"
             /\ \E src \in d.memories[id].sourceIDs : d.memories[src].isForgotten)

Linked(d) ==
  /\ EdgesMirrored(d)
  /\ EdgesKeptIn(d)
  /\ UpdatesAreParents(d)
  /\ SourcesLinked(d)
  /\ OrphansFlagged(d)

LogInv ==
  /\ ChainInv
  /\ Logged(db) /\ Linked(db)
  /\ InBatch => Logged(tx.work) /\ Linked(tx.work)

-------------------------------------------------------------------------------
(* What an operation writes to the logs and to the relation buckets. *)

\* The entry of a write names the memory written last.
LEMMA EntryIntroduces ==
  ASSUME NEW operation \in {"remember", "revive"}, NEW space, NEW a, NEW b
  PROVE  /\ \A id : Introduces(Audited(operation, space, <<a>>), id) <=> id = a
         /\ \A id : Introduces(Audited(operation, space, <<a, b>>), id) <=> id = b
BY DEF Introduces, Audited

\* A forget introduces nothing, nor does a migration.
LEMMA EntryIsOther ==
  ASSUME NEW space, NEW ids, NEW model, NEW id
  PROVE  /\ ~Introduces(Audited("forget", space, ids), id)
         /\ ~Introduces(MigrationAudited("migration_start", space, model), id)
         /\ ~Introduces(MigrationAudited("migration_complete", space, model), id)
BY DEF Introduces, Audited, MigrationAudited

\* The reverse index holds what points to a memory.
LEMMA RefsMirror ==
  ASSUME NEW edges, edges \subseteq MemoryIDs \X RelationTypes \X MemoryIDs,
         NEW a, NEW kind, NEW b
  PROVE  <<a, kind, b>> \in RefsOf(edges) <=> <<b, kind, a>> \in edges
<1>1. \A e \in edges : e = <<e[1], e[2], e[3]>>
  OBVIOUS
<1>. QED  BY <1>1 DEF RefsOf

\* A Remember writes an entry and the edges of the new memory.
LEMMA RememberLogs ==
  ASSUME NEW d \in DB, NEW input, NEW id, NEW embedding
  PROVE  LET e == RememberPreparedInTx(d, input, id, embedding)
         IN  /\ e.auditLog = d.auditLog \cup
                  {Audited("remember", input.spaceID,
                     IF input.updates = Nil THEN <<id>>
                                            ELSE <<input.updates, id>>)}
             /\ e.forgetLog = d.forgetLog
             /\ e.relations = d.relations \cup RelationsOf(input, id)
             /\ e.relationRefs = d.relationRefs \cup RefsOf(RelationsOf(input, id))
BY DEF RememberPreparedInTx, RememberRoot, RememberUpdate, DB

\* A Forget of what is not forgotten yet writes an entry and a record.
LEMMA ForgetLogs ==
  ASSUME NEW d \in DB, NEW id, ~d.memories[id].isForgotten
  PROVE  LET e == ForgetInTx(d, id)
         IN  /\ e.auditLog = d.auditLog \cup
                  {Audited("forget", d.memories[id].spaceID, <<id>>)}
             /\ e.forgetLog = d.forgetLog \cup {id}
             /\ e.relations = d.relations /\ e.relationRefs = d.relationRefs
BY DEF ForgetInTx, ForgetVersion, DeactivateLineage, DB

\* A Revive writes an entry, and no edge.
LEMMA ReviveLogs ==
  ASSUME NEW d \in DB, NEW root, NEW last, NEW kind, NEW id
  PROVE  LET e == ReviveLineage(d, root, last, kind, id)
         IN  /\ e.auditLog = d.auditLog \cup
                  {Audited("revive", d.memories[root].spaceID, <<last, id>>)}
             /\ e.forgetLog = d.forgetLog
             /\ e.relations = d.relations /\ e.relationRefs = d.relationRefs
BY DEF ReviveLineage, DB

\* A configuration or a migration writes at most an entry of its own.
LEMMA OtherLogs ==
  ASSUME NEW d \in DB, NEW e, Configures(d, e) \/ EndsMigration(d, e)
  PROVE  /\ e.forgetLog = d.forgetLog
         /\ e.relations = d.relations /\ e.relationRefs = d.relationRefs
         /\ \/ e.auditLog = d.auditLog
            \/ \E space, model :
                 \E operation \in {"migration_start", "migration_complete"} :
                   e.auditLog = d.auditLog \cup
                     {MigrationAudited(operation, space, model)}
<1>1. CASE Configures(d, e)
  <2>1. PICK space \in Spaces :
          \/ \E model \in Models, policy \in Policies :
               e = EnsureSpaceInTx(d, space, model, policy)
          \/ \E policy \in Policies : e = ApplyConfigInTx(d, space, policy)
          \/ \E model \in Models : e = BeginMigrationInTx(d, space, model)
    BY <1>1 DEF Configures
  <2>2. CASE \/ \E model \in Models, policy \in Policies :
                  e = EnsureSpaceInTx(d, space, model, policy)
             \/ \E policy \in Policies : e = ApplyConfigInTx(d, space, policy)
    BY <2>2 DEF EnsureSpaceInTx, ApplyConfigInTx, UpdateSpaceConfigInTx, DB
  <2>3. CASE \E model \in Models : e = BeginMigrationInTx(d, space, model)
    <3>1. PICK model \in Models : e = BeginMigrationInTx(d, space, model)
      BY <2>3
    <3>2. \/ e.auditLog = d.auditLog
          \/ e.auditLog = d.auditLog \cup
               {MigrationAudited("migration_start", space, model)}
      BY <3>1 DEF BeginMigrationInTx, DB
    <3>3. /\ e.forgetLog = d.forgetLog
          /\ e.relations = d.relations /\ e.relationRefs = d.relationRefs
      BY <3>1 DEF BeginMigrationInTx, DB
    <3>. QED  BY <3>2, <3>3
  <2>. QED  BY <2>1, <2>2, <2>3
<1>2. CASE EndsMigration(d, e)
  <2>1. PICK space \in Spaces, model \in Models : e = MigrateInTx(d, space, model)
    BY <1>2 DEF EndsMigration
  <2>2. e.auditLog = d.auditLog \cup
          {MigrationAudited("migration_complete", space, model)}
    BY <2>1 DEF MigrateInTx, DB
  <2>3. /\ e.forgetLog = d.forgetLog
        /\ e.relations = d.relations /\ e.relationRefs = d.relationRefs
    BY <2>1 DEF MigrateInTx, DB
  <2>. QED  BY <2>2, <2>3
<1>. QED  BY <1>1, <1>2

\* That entry, if there is one, introduces nothing and is no forget.
LEMMA OtherEntry ==
  ASSUME NEW d \in DB, NEW e, Configures(d, e) \/ EndsMigration(d, e)
  PROVE  \E entry :
          /\ \A m : ~Introduces(entry, m)
          /\ entry.operation # "forget"
          /\ e.auditLog \in {d.auditLog, d.auditLog \cup {entry}}
<1>. DEFINE Entry(operation, space, model) ==
              MigrationAudited(operation, space, model)
<1>1. \A space, model : \A operation \in {"migration_start", "migration_complete"} :
        /\ \A m : ~Introduces(Entry(operation, space, model), m)
        /\ Entry(operation, space, model).operation # "forget"
  BY DEF Introduces, MigrationAudited
<1>. HIDE DEF Entry
<1>2. \/ e.auditLog = d.auditLog
      \/ \E space, model :
           \E operation \in {"migration_start", "migration_complete"} :
             e.auditLog = d.auditLog \cup {Entry(operation, space, model)}
  BY OtherLogs DEF Entry
<1>3. CASE e.auditLog = d.auditLog
  <2>1. /\ \A m : ~Introduces(Entry("migration_start", 0, 0), m)
        /\ Entry("migration_start", 0, 0).operation # "forget"
    BY <1>1
  <2>. QED  BY <1>3, <2>1
<1>. QED  BY <1>1, <1>2, <1>3

\* So they introduce what they introduced.
LEMMA OtherIntroduces ==
  ASSUME NEW d \in DB, NEW e, Configures(d, e) \/ EndsMigration(d, e)
  PROVE  \A m : {f \in e.auditLog : Introduces(f, m)}
                  = {f \in d.auditLog : Introduces(f, m)}
<1>1. PICK entry :
        /\ \A m : ~Introduces(entry, m)
        /\ e.auditLog \in {d.auditLog, d.auditLog \cup {entry}}
  BY OtherEntry
<1>. QED  BY <1>1

-------------------------------------------------------------------------------
(* The logs retell the lineages. *)

\* The memories the forget entries name.
ForgetNames(log) ==
  {e.memoryIDs[1] : e \in {f \in log : f.operation = "forget"}}

\* An entry that is no forget names no forgotten memory.
LEMMA NamesGrow ==
  ASSUME NEW log, NEW entry
  PROVE  ForgetNames(log \cup {entry}) =
           ForgetNames(log) \cup
             (IF entry.operation = "forget" THEN {entry.memoryIDs[1]} ELSE {})
BY DEF ForgetNames

\* What no entry introduces is not added.
LEMMA LogKept ==
  ASSUME NEW d \in DB, NEW e \in DB, KeepsHistory(d, e), Logged(d),
         Stored(e) = Stored(d), NEW entry,
         \A id : ~Introduces(entry, id),
         e.auditLog \in {d.auditLog, d.auditLog \cup {entry}}
  PROVE  EachIntroduced(e) /\ OnlyStoredIntroduced(e)
<1>1. \A id : {f \in e.auditLog : Introduces(f, id)} = {f \in d.auditLog : Introduces(f, id)}
  OBVIOUS
<1>2. \A id \in Stored(d) : e.memories[id].parentID = d.memories[id].parentID
  BY FrozenFields
<1>3. EachIntroduced(e)
  BY <1>2 DEF Logged, EachIntroduced
<1>4. OnlyStoredIntroduced(e)
  BY DEF Logged, OnlyStoredIntroduced
<1>. QED  BY <1>3, <1>4

\* The entry of a write introduces the memory that is new.
LEMMA LogIntroduces ==
  ASSUME NEW d \in DB, NEW e \in DB, KeepsHistory(d, e), Logged(d),
         NEW id \in MemoryIDs \ Stored(d), Stored(e) = Stored(d) \cup {id},
         NEW entry, \A m : Introduces(entry, m) <=> m = id,
         LET parent == e.memories[id].parentID
         IN  entry.memoryIDs = (IF parent = Nil THEN <<id>> ELSE <<parent, id>>),
         e.auditLog = d.auditLog \cup {entry}
  PROVE  EachIntroduced(e) /\ OnlyStoredIntroduced(e)
<1>1. \A m \in Stored(d) : e.memories[m].parentID = d.memories[m].parentID
  BY FrozenFields
<1>2. \A f \in d.auditLog : ~Introduces(f, id)
  BY DEF Logged, OnlyStoredIntroduced
<1>3. \A m \in Stored(d) : ~Introduces(entry, m)
  OBVIOUS
<1>4. EachIntroduced(e)
  <2>. SUFFICES ASSUME NEW m \in Stored(e)
       PROVE  LET parent == e.memories[m].parentID
              IN  \E f \in e.auditLog :
                    /\ Introduces(f, m)
                    /\ f.memoryIDs = (IF parent = Nil THEN <<m>> ELSE <<parent, m>>)
                    /\ \A g \in e.auditLog : Introduces(g, m) => g = f
    BY DEF EachIntroduced
  <2>1. CASE m = id
    BY <1>2, <2>1
  <2>2. CASE m \in Stored(d)
    BY <1>1, <1>3, <2>2 DEF Logged, EachIntroduced
  <2>. QED  BY <2>1, <2>2
<1>5. OnlyStoredIntroduced(e)
  BY DEF Logged, OnlyStoredIntroduced
<1>. QED  BY <1>4, <1>5

\* A Remember logs the memory it writes.
LEMMA RememberLogged ==
  ASSUME NEW d \in DB, NEW known \in SUBSET MemoryIDs,
         NEW input \in Inputs(known), NEW id \in MemoryIDs \ Stored(d),
         NEW embedding \in Models, RememberAllowed(d, input), Logged(d)
  PROVE  Logged(RememberPreparedInTx(d, input, id, embedding))
<1>. DEFINE e == RememberPreparedInTx(d, input, id, embedding)
            entry == Audited("remember", input.spaceID,
                       IF input.updates = Nil THEN <<id>> ELSE <<input.updates, id>>)
<1>1. e \in DB /\ KeepsHistory(d, e)
  BY RememberType, RememberKeeps
<1>2. Stored(e) = Stored(d) \cup {id}
  BY RememberEffect
<1>3. PICK version \in Nat, root \in MemoryIDs \cup {Nil} :
        e.memories[id] = NewMemory(input, version, input.updates, root, embedding)
  BY RememberEffect
<1>4. e.memories[id].parentID = input.updates /\ ~e.memories[id].isForgotten
  BY <1>3 DEF NewMemory
<1>5. \A m \in Stored(d) : e.memories[m].isForgotten <=> d.memories[m].isForgotten
  BY RememberFlags
<1>6. e.auditLog = d.auditLog \cup {entry} /\ e.forgetLog = d.forgetLog
  BY RememberLogs
<1>7. /\ \A m : Introduces(entry, m) <=> m = id
      /\ entry.operation = "remember"
      /\ entry.memoryIDs =
           (IF input.updates = Nil THEN <<id>> ELSE <<input.updates, id>>)
  BY EntryIntroduces DEF Audited
<1>. HIDE DEF e, entry
<1>8. EachIntroduced(e) /\ OnlyStoredIntroduced(e)
  BY <1>1, <1>2, <1>4, <1>6, <1>7, LogIntroduces
<1>9. ForgetsLogged(e)
  <2>1. ForgetNames(e.auditLog) = ForgetNames(d.auditLog)
    <3>1. ForgetNames(d.auditLog \cup {entry}) = ForgetNames(d.auditLog) \cup
            (IF entry.operation = "forget" THEN {entry.memoryIDs[1]} ELSE {})
      BY NamesGrow
    <3>. QED  BY <1>6, <1>7, <3>1
  <2>2. {m \in Stored(e) : e.memories[m].isForgotten}
          = {m \in Stored(d) : d.memories[m].isForgotten}
    BY <1>2, <1>4, <1>5
  <2>. QED  BY <1>6, <2>1, <2>2 DEF Logged, ForgetsLogged, ForgetNames
<1>10. Logged(e)
  BY <1>8, <1>9 DEF Logged
<1>. QED  BY <1>10 DEF e

\* A Forget, in both logs.
LEMMA ForgetLogged ==
  ASSUME NEW d \in DB, NEW id \in Stored(d), Logged(d)
  PROVE  Logged(ForgetInTx(d, id))
<1>. DEFINE e == ForgetInTx(d, id)
            entry == Audited("forget", d.memories[id].spaceID, <<id>>)
<1>1. CASE d.memories[id].isForgotten
  BY <1>1 DEF ForgetInTx
<1>2. CASE ~d.memories[id].isForgotten
  <2>1. e \in DB /\ KeepsHistory(d, e)
    BY ForgetType, ForgetKeeps
  <2>2. /\ Stored(e) = Stored(d)
        /\ \A m \in Stored(d) :
             e.memories[m].isForgotten <=> m = id \/ d.memories[m].isForgotten
    BY <1>2, ForgetEffect
  <2>3. e.auditLog = d.auditLog \cup {entry} /\ e.forgetLog = d.forgetLog \cup {id}
    BY <1>2, ForgetLogs
  <2>4. /\ \A m : ~Introduces(entry, m)
        /\ entry.operation = "forget" /\ entry.memoryIDs[1] = id
    BY EntryIsOther DEF Audited
  <2>. HIDE DEF e, entry
  <2>5. EachIntroduced(e) /\ OnlyStoredIntroduced(e)
    BY <2>1, <2>2, <2>3, <2>4, LogKept
  <2>6. ForgetsLogged(e)
    <3>1. ForgetNames(e.auditLog) = ForgetNames(d.auditLog) \cup {id}
      BY <2>3, <2>4, NamesGrow
    <3>2. {m \in Stored(e) : e.memories[m].isForgotten}
            = {m \in Stored(d) : d.memories[m].isForgotten} \cup {id}
      BY <2>2
    <3>. QED  BY <2>3, <3>1, <3>2 DEF Logged, ForgetsLogged, ForgetNames
  <2>7. Logged(e)
    BY <2>5, <2>6 DEF Logged
  <2>. QED  BY <2>7 DEF e
<1>. QED  BY <1>1, <1>2

\* A Revive.
LEMMA ReviveLogged ==
  ASSUME NEW d \in DB, NEW e, Revives(d, e), Logged(d)
  PROVE  Logged(e)
<1>1. PICK root \in Stored(d), last \in Stored(d), id \in MemoryIDs \ Stored(d) :
        e = ReviveLineage(d, root, last, d.memories[root].kind, id)
  BY DEF Revives
<1>. DEFINE entry == Audited("revive", d.memories[root].spaceID, <<last, id>>)
<1>2. d.memories[root].kind \in Kinds
  BY StoredType DEF Memory
<1>3. e \in DB /\ KeepsHistory(d, e)
  BY <1>1, <1>2, ReviveType, ReviveKeeps
<1>4. /\ Stored(e) = Stored(d) \cup {id}
      /\ e.memories[id] = RevivedMemory(d, root, last, d.memories[root].kind)
      /\ \A m \in Stored(d) : e.memories[m] = d.memories[m]
  BY <1>1, <1>2, ReviveEffect
<1>5. e.memories[id].parentID = last /\ ~e.memories[id].isForgotten
  BY <1>4 DEF RevivedMemory
<1>6. e.auditLog = d.auditLog \cup {entry} /\ e.forgetLog = d.forgetLog
  BY <1>1, ReviveLogs
<1>7. /\ \A m : Introduces(entry, m) <=> m = id
      /\ entry.operation = "revive" /\ entry.memoryIDs = <<last, id>>
  <2>1. \A m : Introduces(entry, m) <=> m = id
    BY DEF Introduces, Audited
  <2>2. entry.operation = "revive" /\ entry.memoryIDs = <<last, id>>
    BY DEF Audited
  <2>. QED  BY <2>1, <2>2
<1>8. last # Nil
  BY NilAssumption DEF Stored
<1>. HIDE DEF entry
<1>9. EachIntroduced(e) /\ OnlyStoredIntroduced(e)
  BY <1>3, <1>4, <1>5, <1>6, <1>7, <1>8, LogIntroduces
<1>10. ForgetsLogged(e)
  <2>1. ForgetNames(e.auditLog) = ForgetNames(d.auditLog)
    <3>1. ForgetNames(d.auditLog \cup {entry}) = ForgetNames(d.auditLog) \cup
            (IF entry.operation = "forget" THEN {entry.memoryIDs[1]} ELSE {})
      BY NamesGrow
    <3>. QED  BY <1>6, <1>7, <3>1
  <2>2. {m \in Stored(e) : e.memories[m].isForgotten}
          = {m \in Stored(d) : d.memories[m].isForgotten}
    BY <1>4, <1>5
  <2>. QED  BY <1>6, <2>1, <2>2 DEF Logged, ForgetsLogged, ForgetNames
<1>. QED  BY <1>9, <1>10 DEF Logged

\* A configuration and a migration, which introduce and forget nothing.
LEMMA OtherLogged ==
  ASSUME NEW d \in DB, NEW e, Configures(d, e) \/ EndsMigration(d, e), Logged(d)
  PROVE  Logged(e)
<1>1. e \in DB /\ KeepsHistory(d, e)
  BY OperationKeeps DEF Operates
<1>2. /\ Stored(e) = Stored(d)
      /\ \A m \in Stored(d) : e.memories[m].isForgotten <=> d.memories[m].isForgotten
  <2>1. CASE Configures(d, e)
    BY <2>1, ConfigEffect
  <2>2. CASE EndsMigration(d, e)
    <3>1. PICK space \in Spaces, model \in Models : e = MigrateInTx(d, space, model)
      BY <2>2 DEF EndsMigration
    <3>. QED  BY <3>1, MigrateEffect, MigrateFlags
  <2>. QED  BY <2>1, <2>2
<1>3. e.forgetLog = d.forgetLog
  BY OtherLogs
<1>4. PICK entry :
        /\ \A m : ~Introduces(entry, m)
        /\ entry.operation # "forget"
        /\ e.auditLog \in {d.auditLog, d.auditLog \cup {entry}}
  BY OtherEntry
<1>5. EachIntroduced(e) /\ OnlyStoredIntroduced(e)
  BY <1>1, <1>2, <1>4, LogKept
<1>6. ForgetsLogged(e)
  <2>1. ForgetNames(e.auditLog) = ForgetNames(d.auditLog)
    <3>1. ForgetNames(d.auditLog \cup {entry}) = ForgetNames(d.auditLog) \cup
            (IF entry.operation = "forget" THEN {entry.memoryIDs[1]} ELSE {})
      BY NamesGrow
    <3>. QED  BY <1>4, <3>1
  <2>2. {m \in Stored(e) : e.memories[m].isForgotten}
          = {m \in Stored(d) : d.memories[m].isForgotten}
    BY <1>2
  <2>. QED  BY <1>3, <2>1, <2>2 DEF Logged, ForgetsLogged, ForgetNames
<1>. QED  BY <1>5, <1>6 DEF Logged

-------------------------------------------------------------------------------
(* The relation buckets and the orphan flags. *)

\* What is live was not forgotten.
LEMMA LiveIsRemembered ==
  ASSUME NEW d, Chains(d), NEW id \in Stored(d), d.memories[id].isLatest
  PROVE  ~d.memories[id].isForgotten
BY DEF Chains, EndsLive

\* The edges of a new memory go from it to what its caller knew.
LEMMA NewEdges ==
  ASSUME NEW known \in SUBSET MemoryIDs, NEW input \in Inputs(known), NEW id
  PROVE  /\ \A e \in RelationsOf(input, id) : e[1] = id /\ e[3] \in known
         /\ \A a, to : <<a, "updates", to>> \in RelationsOf(input, id)
              <=> a = id /\ to = input.updates /\ to # Nil
         /\ input.kind = "derived" =>
              \A src \in input.sourceIDs :
                <<id, "derives", src>> \in RelationsOf(input, id)
<1>1. /\ input.updates \in known \cup {Nil}
      /\ input.extends \subseteq known
      /\ DerivesOf(input) \subseteq known
  BY DEF Inputs, AtMost, DerivesOf
<1>2. input.kind = "derived" => DerivesOf(input) = input.sourceIDs
  BY DEF DerivesOf
<1>. QED  BY <1>1, <1>2 DEF RelationsOf

\* They lead to memories of its space where a check of the Remember looks.
LEMMA NewEdgesKeptIn ==
  ASSUME NEW d \in DB, NEW known, NEW input \in Inputs(known), NEW id,
         RememberAllowed(d, input), NEW e \in RelationsOf(input, id)
  PROVE  \/ d.memories[e[3]].spaceID = input.spaceID
         \/ e[2] = "derives" /\ input.kind # "derived"
<1>1. CASE e \in {id} \X {"updates"} \X ({input.updates} \ {Nil})
  <2>1. e[3] = input.updates /\ input.updates # Nil
    BY <1>1
  <2>. QED  BY <2>1 DEF RememberAllowed, ValidUpdateTarget
<1>2. CASE e \in {id} \X {"extends"} \X input.extends
  BY <1>2 DEF RememberAllowed, ValidExtends, LiveIn
<1>3. CASE e \in {id} \X {"derives"} \X DerivesOf(input)
  <2>1. e[2] = "derives" /\ e[3] \in DerivesOf(input)
    BY <1>3
  <2>2. input.kind = "derived" => e[3] \in LiveIn(d, input.spaceID)
    BY <2>1 DEF DerivesOf, RememberAllowed, ValidDerivedInput
  <2>. QED  BY <2>1, <2>2 DEF LiveIn
<1>. QED  BY <1>1, <1>2, <1>3 DEF RelationsOf

\* Edges are added to both buckets.
LEMMA RefsAdd ==
  ASSUME NEW A, NEW B
  PROVE  RefsOf(A \cup B) = RefsOf(A) \cup RefsOf(B)
BY DEF RefsOf

\* A Remember links the new memory to its parent and to its sources.
LEMMA RememberLinked ==
  ASSUME NEW d \in DB, NEW known \in SUBSET Stored(d),
         NEW input \in Inputs(known), NEW id \in MemoryIDs \ Stored(d),
         NEW embedding \in Models, RememberAllowed(d, input),
         Logged(d), Linked(d)
  PROVE  Linked(RememberPreparedInTx(d, input, id, embedding))
<1>. DEFINE e == RememberPreparedInTx(d, input, id, embedding)
            edges == RelationsOf(input, id)
            entry == Audited("remember", input.spaceID,
                       IF input.updates = Nil THEN <<id>> ELSE <<input.updates, id>>)
<1>0. known \in SUBSET MemoryIDs
  BY DEF Stored
<1>1. e \in DB /\ KeepsHistory(d, e)
  BY <1>0, RememberType, RememberKeeps
<1>2. Stored(e) = Stored(d) \cup {id}
  BY <1>0, RememberEffect
<1>3. PICK version \in Nat, root \in MemoryIDs \cup {Nil} :
        e.memories[id] = NewMemory(input, version, input.updates, root, embedding)
  BY <1>0, RememberEffect
<1>4. /\ e.memories[id].parentID = input.updates
      /\ e.memories[id].spaceID = input.spaceID
      /\ e.memories[id].kind = input.kind
      /\ e.memories[id].sourceIDs = input.sourceIDs
      /\ ~e.memories[id].isForgotten /\ ~e.memories[id].hasOrphanedSources
  BY <1>3 DEF NewMemory
<1>5. \A m \in Stored(d) :
        /\ e.memories[m].isLatest => d.memories[m].isLatest
        /\ e.memories[m].isForgotten <=> d.memories[m].isForgotten
        /\ e.memories[m].hasOrphanedSources <=> d.memories[m].hasOrphanedSources
  BY <1>0, RememberFlags
<1>6. /\ e.auditLog = d.auditLog \cup {entry}
      /\ e.relations = d.relations \cup edges
      /\ e.relationRefs = d.relationRefs \cup RefsOf(edges)
  BY DEF RememberPreparedInTx, RememberRoot, RememberUpdate, DB
<1>7. /\ \A m : Introduces(entry, m) <=> m = id
      /\ entry.operation = "remember"
  BY EntryIntroduces DEF Audited
<1>8. /\ \A x \in edges : x[1] = id /\ x[3] \in Stored(d)
      /\ \A a, to : <<a, "updates", to>> \in edges
              <=> a = id /\ to = input.updates /\ to # Nil
      /\ input.kind = "derived" =>
           \A src \in input.sourceIDs : <<id, "derives", src>> \in edges
  BY <1>0, NewEdges
<1>9. input.kind = "derived" =>
        \A src \in input.sourceIDs :
          /\ src \in Stored(d)
          /\ d.memories[src].spaceID = input.spaceID
          /\ ~d.memories[src].isForgotten
  BY DEF RememberAllowed, ValidDerivedInput, LiveIn
<1>10. \A m \in Stored(d) :
         /\ m # id
         /\ e.memories[m].spaceID = d.memories[m].spaceID
         /\ e.memories[m].kind = d.memories[m].kind
         /\ e.memories[m].parentID = d.memories[m].parentID
         /\ e.memories[m].sourceIDs = d.memories[m].sourceIDs
  BY <1>1, FrozenFields
<1>. HIDE DEF e, edges, entry
<1>11. EdgesMirrored(e)
  BY <1>2, <1>6, <1>8, RefsAdd DEF Linked, EdgesMirrored
<1>12. UpdatesAreParents(e)
  <2>. SUFFICES ASSUME NEW m \in Stored(e), NEW to \in MemoryIDs
       PROVE  <<m, "updates", to>> \in e.relations
                <=> e.memories[m].parentID = to /\ Remembered(e.auditLog, m)
    BY DEF UpdatesAreParents
  <2>1. CASE m = id
    <3>1. <<id, "updates", to>> \notin d.relations
      BY DEF Linked, EdgesMirrored
    <3>2. <<id, "updates", to>> \in edges <=> to = input.updates
      BY <1>8, NilAssumption
    <3>3. Remembered(e.auditLog, id)
      BY <1>6, <1>7 DEF Remembered
    <3>. QED  BY <1>4, <1>6, <2>1, <3>1, <3>2, <3>3
  <2>2. CASE m \in Stored(d)
    <3>1. <<m, "updates", to>> \notin edges
      BY <1>8, <1>10, <2>2
    <3>2. Remembered(e.auditLog, m) <=> Remembered(d.auditLog, m)
      BY <1>6, <1>7, <1>10, <2>2 DEF Remembered
    <3>. QED  BY <1>6, <1>10, <2>2, <3>1, <3>2 DEF Linked, UpdatesAreParents
  <2>. QED  BY <1>2, <2>1, <2>2
<1>13. SourcesLinked(e)
  <2>1. ASSUME NEW m \in Stored(d), d.memories[m].kind = "derived",
               NEW src \in d.memories[m].sourceIDs
        PROVE  /\ src \in Stored(e)
               /\ e.memories[src].spaceID = e.memories[m].spaceID
               /\ <<m, "derives", src>> \in e.relations
    BY <1>2, <1>6, <1>10, <2>1 DEF Linked, SourcesLinked
  <2>2. ASSUME input.kind = "derived", NEW src \in input.sourceIDs
        PROVE  /\ src \in Stored(e)
               /\ e.memories[src].spaceID = input.spaceID
               /\ <<id, "derives", src>> \in e.relations
    BY <1>2, <1>6, <1>8, <1>9, <1>10, <2>2
  <2>. QED  BY <1>2, <1>4, <1>10, <2>1, <2>2 DEF SourcesLinked
<1>14. OrphansFlagged(e)
  <2>1. ASSUME NEW m \in Stored(d), e.memories[m].isLatest
        PROVE  e.memories[m].hasOrphanedSources
                 <=> /\ e.memories[m].kind = "derived"
                     /\ \E src \in e.memories[m].sourceIDs :
                          e.memories[src].isForgotten
    <3>1. d.memories[m].kind = "derived" =>
            \A src \in d.memories[m].sourceIDs :
              e.memories[src].isForgotten <=> d.memories[src].isForgotten
      BY <1>5 DEF Linked, SourcesLinked
    <3>. QED  BY <1>5, <1>10, <2>1, <3>1 DEF Linked, OrphansFlagged
  <2>2. input.kind = "derived" =>
          \A src \in input.sourceIDs : ~e.memories[src].isForgotten
    BY <1>5, <1>9
  <2>. QED  BY <1>2, <1>4, <2>1, <2>2 DEF OrphansFlagged
<1>15. EdgesKeptIn(e)
  <2>1. ASSUME NEW x \in edges
        PROVE  \/ e.memories[x[1]].spaceID = e.memories[x[3]].spaceID
               \/ x[2] = "derives" /\ e.memories[x[1]].kind # "derived"
    <3>1. \/ d.memories[x[3]].spaceID = input.spaceID
          \/ x[2] = "derives" /\ input.kind # "derived"
      BY NewEdgesKeptIn DEF edges
    <3>. QED  BY <1>4, <1>8, <1>10, <3>1
  <2>2. ASSUME NEW x \in d.relations
        PROVE  \/ e.memories[x[1]].spaceID = e.memories[x[3]].spaceID
               \/ x[2] = "derives" /\ e.memories[x[1]].kind # "derived"
    BY <1>10 DEF Linked, EdgesMirrored, EdgesKeptIn
  <2>. QED  BY <1>6, <2>1, <2>2 DEF EdgesKeptIn
<1>16. Linked(e)
  BY <1>11, <1>12, <1>13, <1>14, <1>15 DEF Linked
<1>. QED  BY <1>16 DEF e

\* A Forget flags exactly the live derived memories that rest on what it
\* forgets: the reverse index leads to each of them.
LEMMA ForgetLinked ==
  ASSUME NEW d \in DB, NEW id \in Stored(d), Chains(d), Linked(d)
  PROVE  Linked(ForgetInTx(d, id))
<1>. DEFINE e == ForgetInTx(d, id)
<1>1. CASE d.memories[id].isForgotten
  BY <1>1 DEF ForgetInTx
<1>2. CASE ~d.memories[id].isForgotten
  <2>1. KeepsHistory(d, e)
    BY ForgetKeeps
  <2>2. /\ Stored(e) = Stored(d)
        /\ \A m \in Stored(d) :
             /\ e.memories[m].isForgotten <=> m = id \/ d.memories[m].isForgotten
             /\ e.memories[m].isLatest <=> m # id /\ d.memories[m].isLatest
             /\ e.memories[m].hasOrphanedSources
                  <=> m \in OrphanedBy(d, id) \/ d.memories[m].hasOrphanedSources
    BY <1>2, ForgetEffect
  <2>3. /\ e.auditLog = d.auditLog \cup
             {Audited("forget", d.memories[id].spaceID, <<id>>)}
        /\ e.relations = d.relations /\ e.relationRefs = d.relationRefs
    BY <1>2, ForgetLogs
  <2>4. \A m \in Stored(d) :
          /\ e.memories[m].spaceID = d.memories[m].spaceID
          /\ e.memories[m].kind = d.memories[m].kind
          /\ e.memories[m].parentID = d.memories[m].parentID
          /\ e.memories[m].sourceIDs = d.memories[m].sourceIDs
    BY <2>1, FrozenFields
  <2>. HIDE DEF e
  <2>5. EdgesMirrored(e)
    BY <2>2, <2>3 DEF Linked, EdgesMirrored
  <2>6. UpdatesAreParents(e)
    <3>1. \A m : ~Introduces(Audited("forget", d.memories[id].spaceID, <<id>>), m)
      BY EntryIsOther
    <3>2. \A m : Remembered(e.auditLog, m) <=> Remembered(d.auditLog, m)
      BY <2>3, <3>1 DEF Remembered
    <3>3. /\ Stored(e) = Stored(d) /\ e.relations = d.relations
          /\ UpdatesAreParents(d)
      BY <2>2, <2>3 DEF Linked
    <3>. QED  BY <2>4, <3>2, <3>3 DEF UpdatesAreParents
  <2>7. SourcesLinked(e)
    BY <2>2, <2>3, <2>4 DEF Linked, SourcesLinked
  <2>8. ASSUME NEW m \in Stored(d), d.memories[m].isLatest
        PROVE  m \in OrphanedBy(d, id)
                 <=> d.memories[m].kind = "derived" /\ id \in d.memories[m].sourceIDs
    <3>1. ~d.memories[m].isForgotten /\ m \in MemoryIDs
      BY <2>8, LiveIsRemembered, StoredType
    <3>2. ASSUME d.memories[m].kind = "derived", id \in d.memories[m].sourceIDs
          PROVE  m \in OrphanedBy(d, id)
      <4>1. d.memories[id].spaceID = d.memories[m].spaceID
        BY <3>2 DEF Linked, SourcesLinked
      <4>2. <<m, "derives", id>> \in d.relations
        BY <3>2 DEF Linked, SourcesLinked
      <4>3. <<id, "derives", m>> \in d.relationRefs
        <5>1. d.relations \subseteq MemoryIDs \X RelationTypes \X MemoryIDs
          BY DEF DB
        <5>. QED  BY <4>2, <5>1, RefsMirror DEF Linked, EdgesMirrored
      <4>. QED  BY <2>8, <3>1, <3>2, <4>1, <4>3 DEF OrphanedBy, LiveIn
    <3>. QED  BY <3>2 DEF OrphanedBy
  <2>9. OrphansFlagged(e)
    <3>. SUFFICES ASSUME NEW m \in Stored(d), m # id, d.memories[m].isLatest
         PROVE  e.memories[m].hasOrphanedSources
                  <=> /\ d.memories[m].kind = "derived"
                      /\ \E src \in d.memories[m].sourceIDs :
                           e.memories[src].isForgotten
      BY <2>2, <2>4 DEF OrphansFlagged
    <3>1. d.memories[m].kind = "derived" =>
            \A src \in d.memories[m].sourceIDs :
              e.memories[src].isForgotten <=> src = id \/ d.memories[src].isForgotten
      BY <2>2 DEF Linked, SourcesLinked
    <3>. QED  BY <2>2, <2>8, <3>1 DEF Linked, OrphansFlagged
  <2>10. EdgesKeptIn(e)
    BY <2>3, <2>4 DEF Linked, EdgesMirrored, EdgesKeptIn
  <2>11. Linked(e)
    BY <2>5, <2>6, <2>7, <2>9, <2>10 DEF Linked
  <2>. QED  BY <2>11 DEF e
<1>. QED  BY <1>1, <1>2

\* A Revive writes no edge and rests on nothing.
LEMMA ReviveLinked ==
  ASSUME NEW d \in DB, NEW e, Revives(d, e), Logged(d), Linked(d)
  PROVE  Linked(e)
<1>1. PICK root \in Stored(d), last \in Stored(d), id \in MemoryIDs \ Stored(d) :
        /\ d.memories[root].kind # "derived"
        /\ e = ReviveLineage(d, root, last, d.memories[root].kind, id)
  BY DEF Revives
<1>. DEFINE entry == Audited("revive", d.memories[root].spaceID, <<last, id>>)
<1>2. d.memories[root].kind \in Kinds
  BY StoredType DEF Memory
<1>3. /\ Stored(e) = Stored(d) \cup {id}
      /\ e.memories[id] = RevivedMemory(d, root, last, d.memories[root].kind)
      /\ \A m \in Stored(d) : e.memories[m] = d.memories[m]
  BY <1>1, <1>2, ReviveEffect
<1>4. /\ e.memories[id].kind # "derived"
      /\ ~e.memories[id].hasOrphanedSources
  BY <1>1, <1>3 DEF RevivedMemory
<1>5. /\ e.auditLog = d.auditLog \cup {entry}
      /\ e.relations = d.relations /\ e.relationRefs = d.relationRefs
  BY <1>1, ReviveLogs
<1>6. entry.operation = "revive"
  BY DEF Audited
<1>. HIDE DEF entry
<1>7. EdgesMirrored(e)
  BY <1>3, <1>5 DEF Linked, EdgesMirrored
<1>8. UpdatesAreParents(e)
  <2>1. \A f \in d.auditLog : ~Introduces(f, id)
    BY DEF Logged, OnlyStoredIntroduced
  <2>2. \A to : <<id, "updates", to>> \notin d.relations
    BY DEF Linked, EdgesMirrored
  <2>3. \A m : Remembered(e.auditLog, m) <=> Remembered(d.auditLog, m)
    BY <1>5, <1>6 DEF Remembered
  <2>4. ~Remembered(e.auditLog, id)
    BY <2>1, <2>3 DEF Remembered
  <2>5. /\ UpdatesAreParents(d)
        /\ \A m \in Stored(d) : e.memories[m].parentID = d.memories[m].parentID
    BY <1>3 DEF Linked
  <2>6. \A m \in Stored(d), to \in MemoryIDs :
          <<m, "updates", to>> \in e.relations
            <=> e.memories[m].parentID = to /\ Remembered(e.auditLog, m)
    BY <1>5, <2>3, <2>5 DEF UpdatesAreParents
  <2>7. \A to : <<id, "updates", to>> \notin e.relations
    BY <1>5, <2>2
  <2>8. \A m \in Stored(e), to \in MemoryIDs :
          <<m, "updates", to>> \in e.relations
            <=> e.memories[m].parentID = to /\ Remembered(e.auditLog, m)
    <3>1. \A m \in Stored(e) : m = id \/ m \in Stored(d)
      BY <1>3
    <3>. QED  BY ZenonT(40), <2>4, <2>6, <2>7, <3>1
  <2>. QED  BY <2>8 DEF UpdatesAreParents
<1>9. SourcesLinked(e)
  BY <1>3, <1>4, <1>5 DEF Linked, SourcesLinked
<1>10. OrphansFlagged(e)
  <2>1. ASSUME NEW m \in Stored(d), d.memories[m].isLatest
        PROVE  d.memories[m].hasOrphanedSources
                 <=> /\ d.memories[m].kind = "derived"
                     /\ \E src \in d.memories[m].sourceIDs :
                          e.memories[src].isForgotten
    <3>1. d.memories[m].kind = "derived" =>
            \A src \in d.memories[m].sourceIDs :
              e.memories[src] = d.memories[src]
      BY <1>3 DEF Linked, SourcesLinked
    <3>. QED  BY <2>1, <3>1 DEF Linked, OrphansFlagged
  <2>. QED  BY <1>3, <1>4, <2>1 DEF OrphansFlagged
<1>11. EdgesKeptIn(e)
  BY <1>3, <1>5 DEF Linked, EdgesMirrored, EdgesKeptIn
<1>. QED  BY <1>7, <1>8, <1>9, <1>10, <1>11 DEF Linked

\* A configuration or a migration touches neither.
LEMMA OtherLinked ==
  ASSUME NEW d \in DB, NEW e, Configures(d, e) \/ EndsMigration(d, e), Linked(d)
  PROVE  Linked(e)
<1>1. e \in DB /\ KeepsHistory(d, e)
  BY OperationKeeps DEF Operates
<1>2. /\ Stored(e) = Stored(d)
      /\ \A m \in Stored(d) :
           /\ e.memories[m].isLatest <=> d.memories[m].isLatest
           /\ e.memories[m].isForgotten <=> d.memories[m].isForgotten
           /\ e.memories[m].hasOrphanedSources <=> d.memories[m].hasOrphanedSources
  <2>1. CASE Configures(d, e)
    BY <2>1, ConfigEffect
  <2>2. CASE EndsMigration(d, e)
    <3>1. PICK space \in Spaces, model \in Models : e = MigrateInTx(d, space, model)
      BY <2>2 DEF EndsMigration
    <3>. QED  BY <3>1, MigrateEffect, MigrateFlags
  <2>. QED  BY <2>1, <2>2
<1>3. \A m \in Stored(d) :
        /\ e.memories[m].spaceID = d.memories[m].spaceID
        /\ e.memories[m].kind = d.memories[m].kind
        /\ e.memories[m].parentID = d.memories[m].parentID
        /\ e.memories[m].sourceIDs = d.memories[m].sourceIDs
  BY <1>1, FrozenFields
<1>4. /\ e.relations = d.relations /\ e.relationRefs = d.relationRefs
      /\ \A m : {f \in e.auditLog : Introduces(f, m)}
                  = {f \in d.auditLog : Introduces(f, m)}
  BY OtherLogs, OtherIntroduces
<1>5. EdgesMirrored(e)
  BY <1>2, <1>4 DEF Linked, EdgesMirrored
<1>6. UpdatesAreParents(e)
  <2>1. \A m : Remembered(e.auditLog, m) <=> Remembered(d.auditLog, m)
    BY <1>4 DEF Remembered
  <2>. QED  BY ZenonT(40), <1>2, <1>3, <1>4, <2>1 DEF Linked, UpdatesAreParents
<1>7. SourcesLinked(e)
  BY <1>2, <1>3, <1>4 DEF Linked, SourcesLinked
<1>8. ASSUME NEW m \in Stored(e), e.memories[m].isLatest
      PROVE  e.memories[m].hasOrphanedSources
               <=> /\ e.memories[m].kind = "derived"
                   /\ \E src \in e.memories[m].sourceIDs : e.memories[src].isForgotten
  <2>1. m \in Stored(d) /\ d.memories[m].isLatest
    BY <1>2, <1>8
  <2>2. d.memories[m].hasOrphanedSources
          <=> /\ d.memories[m].kind = "derived"
              /\ \E src \in d.memories[m].sourceIDs : d.memories[src].isForgotten
    BY <2>1 DEF Linked, OrphansFlagged
  <2>3. d.memories[m].kind = "derived" =>
          \A src \in d.memories[m].sourceIDs : src \in Stored(d)
    BY <2>1 DEF Linked, SourcesLinked
  <2>. QED  BY <1>2, <1>3, <2>1, <2>2, <2>3
<1>9. OrphansFlagged(e)
  BY <1>8 DEF OrphansFlagged
<1>10. EdgesKeptIn(e)
  BY <1>3, <1>4 DEF Linked, EdgesMirrored, EdgesKeptIn
<1>. QED  BY <1>5, <1>6, <1>7, <1>9, <1>10 DEF Linked

-------------------------------------------------------------------------------
(* That invariant is inductive. *)

\* Whatever the operation, by a caller that knows stored memories only.
LEMMA OperationLogs ==
  ASSUME NEW d \in DB, Chains(d), Logged(d), Linked(d),
         NEW known \in SUBSET Stored(d), NEW e, Operates(known, d, e)
  PROVE  Logged(e) /\ Linked(e)
<1>0. known \in SUBSET MemoryIDs
  BY DEF Stored
<1>1. CASE Remembers(known, d, e)
  BY <1>0, <1>1, RememberLogged, RememberLinked DEF Remembers
<1>2. CASE Forgets(d, e)
  BY <1>2, ForgetLogged, ForgetLinked DEF Forgets
<1>3. CASE Revives(d, e)
  BY <1>3, ReviveLogged, ReviveLinked
<1>4. CASE Configures(d, e) \/ EndsMigration(d, e)
  BY <1>4, OtherLogged, OtherLinked
<1>. QED  BY <1>1, <1>2, <1>3, <1>4 DEF Operates

\* Nothing is written in the empty file.
LEMMA EmptyLogs == Logged(EmptyDB) /\ Linked(EmptyDB)
<1>1. /\ Stored(EmptyDB) = {} /\ EmptyDB.auditLog = {} /\ EmptyDB.forgetLog = {}
      /\ EmptyDB.relations = {} /\ EmptyDB.relationRefs = {}
  BY DEF Stored, EmptyDB
<1>2. Logged(EmptyDB)
  BY <1>1 DEF Logged, EachIntroduced, OnlyStoredIntroduced, ForgetsLogged
<1>3. Linked(EmptyDB)
  BY <1>1 DEF Linked, EdgesMirrored, EdgesKeptIn, UpdatesAreParents,
              SourcesLinked, OrphansFlagged, RefsOf
<1>. QED  BY <1>2, <1>3

\* The first state.
LEMMA InitLogInv == Init => LogInv
BY InitChainInv, EmptyLogs DEF Init, LogInv, InBatch, Running, Idle

\* Every step.
LEMMA NextLogInv == LogInv /\ [Next]_vars => LogInv'
<1>. SUFFICES ASSUME LogInv, [Next]_vars
     PROVE  LogInv'
  OBVIOUS
<1>0. /\ ChainInv /\ HInv /\ db \in DB /\ Chains(db) /\ Logged(db) /\ Linked(db)
      /\ InBatch => /\ tx.work \in DB /\ Chains(tx.work)
                    /\ Logged(tx.work) /\ Linked(tx.work)
                    /\ Stored(db) \in SUBSET Stored(tx.work)
  BY RunningType DEF LogInv, ChainInv, HInv, IInv, TypeOK, InBatch,
                     WorkKeepsHistory, KeepsHistory
<1>1. ChainInv'
  BY <1>0, NextChainInv
<1>2. Logged(db') /\ Linked(db')
  BY <1>0, StepOfDB, OperationLogs
<1>3. ASSUME InBatch' PROVE Logged(tx'.work) /\ Linked(tx'.work)
  BY <1>0, <1>3, StepOfWork, OperationLogs DEF Operates, InBatch
<1>. QED  BY <1>1, <1>2, <1>3 DEF LogInv

\* The logs of the committed database are those of the invariant.
LEMMA LogsTellHistory == LogInv => AuditTellsHistory
<1>. SUFFICES ASSUME LogInv
     PROVE  AuditTellsHistory
  OBVIOUS
<1>1. ASSUME NEW id \in Stored(db)
      PROVE  LET parent == db.memories[id].parentID
                 entries == {e \in db.auditLog : Introduces(e, id)}
             IN  /\ Cardinality(entries) = 1
                 /\ \A e \in entries :
                      e.memoryIDs = IF parent = Nil THEN <<id>> ELSE <<parent, id>>
  <2>. DEFINE parent == db.memories[id].parentID
              entries == {e \in db.auditLog : Introduces(e, id)}
  <2>1. PICK e \in db.auditLog :
          /\ Introduces(e, id)
          /\ e.memoryIDs = (IF parent = Nil THEN <<id>> ELSE <<parent, id>>)
          /\ \A f \in db.auditLog : Introduces(f, id) => f = e
    BY DEF LogInv, Logged, EachIntroduced
  <2>2. entries = {e}
    BY <2>1
  <2>3. Cardinality(entries) = 1
    BY <2>2, FS_Singleton
  <2>. QED  BY <2>1, <2>2, <2>3
<1>. QED  BY <1>1 DEF LogInv, Logged, ForgetsLogged, AuditTellsHistory

\* The logs retell the lineages: every memory was introduced by one entry,
\* which names its parent before it if it has one, and the memories with a
\* forget entry, those with a forget record and those marked forgotten are the
\* same.  A batch that fails leaves no entry, and one that commits leaves them
\* all (writeAuditEntry and writeForgetRecord at every write).
THEOREM AuditTellsTheHistory == Spec => []AuditTellsHistory
BY InitLogInv, NextLogInv, LogsTellHistory, PTL DEF Spec

\* A live memory is flagged as having lost a source exactly when it is derived
\* and a source of it was forgotten, also after the source was superseded
\* (markOrphanedDeriveds, which relies on the reverse index of relations).
THEOREM OrphansAreExact == Spec => []OrphansExact
<1>1. LogInv => OrphansExact
  BY DEF LogInv, Linked, OrphansFlagged, OrphansExact, Live
<1>. QED  BY <1>1, InitLogInv, NextLogInv, PTL DEF Spec

-------------------------------------------------------------------------------
(* What is related to a memory is what that memory is related to.            *)
(* GetRelated widens a set of memories level by level, so this takes         *)
(* inductions over the levels: there is no lowest level where it fails.      *)

\* A set of numbers without zero, and without the successor of what is not in
\* it, is empty: it would have a smallest element.
LEMMA NoLeast ==
  ASSUME NEW S \in SUBSET Nat, 0 \notin S,
         \A n \in Nat : n \notin S => n + 1 \notin S
  PROVE  S = {}
<1>. SUFFICES ASSUME S # {}
     PROVE  FALSE
  OBVIOUS
<1>1. PICK x \in S : \A y \in S : ~(<<y, x>> \in Below)
  BY BelowWellFounded, WFMin
<1>2. \A y \in S : ~(y < x)
  BY <1>1 DEF Below
<1>3. x \in Nat /\ x # 0
  OBVIOUS
<1>4. x - 1 \in Nat /\ x - 1 < x /\ (x - 1) + 1 = x
  BY <1>3
<1>5. x - 1 \notin S
  BY <1>2, <1>4
<1>. QED  BY <1>4, <1>5

\* One level of GetRelated.
Wider(d, kind, before) ==
  before \cup UNION {LoadRelatedIDs(d, from, kind) : from \in before}

\* The levels GetRelated goes through.
IsSeen(d, kind, depth, id, seen) ==
  seen = [level \in 0 .. depth |->
            IF level = 0 THEN {id} ELSE Wider(d, kind, seen[level - 1])]

Seen(d, kind, depth, id) == CHOOSE seen : IsSeen(d, kind, depth, id, seen)

\* There are such levels, to any depth.
LEMMA SeenExists ==
  ASSUME NEW d, NEW kind, NEW depth \in Nat, NEW id
  PROVE  IsSeen(d, kind, depth, id, Seen(d, kind, depth, id))
<1>. DEFINE Missing == {n \in Nat : ~ \E seen : IsSeen(d, kind, n, id, seen)}
<1>1. 0 \notin Missing
  <2>. DEFINE seen == [level \in 0 .. 0 |-> {id}]
  <2>1. IsSeen(d, kind, 0, id, seen)
    BY DEF IsSeen
  <2>. QED  BY <2>1
<1>2. ASSUME NEW n \in Nat, n \notin Missing
      PROVE  n + 1 \notin Missing
  <2>1. PICK seen : IsSeen(d, kind, n, id, seen)
    BY <1>2
  <2>. DEFINE more == [level \in 0 .. n + 1 |->
                         IF level = n + 1 THEN Wider(d, kind, seen[n])
                                          ELSE seen[level]]
  <2>2. \A level \in 0 .. n :
          seen[level] = IF level = 0 THEN {id} ELSE Wider(d, kind, seen[level - 1])
    BY <2>1 DEF IsSeen
  <2>3. \A level \in 0 .. n + 1 :
          more[level] = IF level = 0 THEN {id} ELSE Wider(d, kind, more[level - 1])
    <3>. SUFFICES ASSUME NEW level \in 0 .. n + 1
         PROVE  more[level] =
                  IF level = 0 THEN {id} ELSE Wider(d, kind, more[level - 1])
      OBVIOUS
    <3>1. CASE level = n + 1
      <4>1. more[level - 1] = seen[n] /\ level # 0
        BY <3>1
      <4>. QED  BY <3>1, <4>1
    <3>2. CASE level \in 0 .. n
      <4>1. more[level] = seen[level]
        BY <3>2
      <4>2. level # 0 => more[level - 1] = seen[level - 1]
        BY <3>2
      <4>. QED  BY <2>2, <3>2, <4>1, <4>2
    <3>. QED  BY <3>1, <3>2
  <2>4. IsSeen(d, kind, n + 1, id, more)
    BY <2>3 DEF IsSeen
  <2>. QED  BY <2>4
<1>3. Missing = {}
  <2>. HIDE DEF Missing
  <2>1. Missing \in SUBSET Nat
    BY DEF Missing
  <2>. QED  BY <1>1, <1>2, <2>1, NoLeast
<1>. QED  BY <1>3 DEF Seen

\* The first level is the memory itself.
LEMMA SeenStart ==
  ASSUME NEW d, NEW kind, NEW depth \in Nat, NEW id
  PROVE  Seen(d, kind, depth, id)[0] = {id}
<1>. DEFINE seen == Seen(d, kind, depth, id)
<1>1. seen = [level \in 0 .. depth |->
                IF level = 0 THEN {id} ELSE Wider(d, kind, seen[level - 1])]
  BY SeenExists DEF IsSeen
<1>. HIDE DEF seen
<1>2. seen[0] = {id}
  BY <1>1
<1>. QED  BY <1>2 DEF seen

\* Each level widens the one before it.
LEMMA SeenStep ==
  ASSUME NEW d, NEW kind, NEW depth \in Nat, NEW id, NEW level \in 0 .. depth - 1
  PROVE  Seen(d, kind, depth, id)[level + 1] =
           Wider(d, kind, Seen(d, kind, depth, id)[level])
<1>. DEFINE seen == Seen(d, kind, depth, id)
<1>1. seen = [n \in 0 .. depth |->
                IF n = 0 THEN {id} ELSE Wider(d, kind, seen[n - 1])]
  BY SeenExists DEF IsSeen
<1>. HIDE DEF seen
<1>2. \A n \in 0 .. depth :
        seen[n] = IF n = 0 THEN {id} ELSE Wider(d, kind, seen[n - 1])
  BY <1>1
<1>3. level + 1 \in 0 .. depth /\ level + 1 # 0 /\ (level + 1) - 1 = level
  OBVIOUS
<1>4. seen[level + 1] = Wider(d, kind, seen[level])
  BY <1>2, <1>3
<1>. QED  BY <1>4 DEF seen

\* GetRelated returns the last level, without the memory itself.
LEMMA RelatedIsSeen ==
  ASSUME NEW d, NEW kind, NEW depth \in Nat, NEW id
  PROVE  GetRelated(d, id, kind, depth) = Seen(d, kind, depth, id)[depth] \ {id}
BY DEF GetRelated, Seen, IsSeen, Wider

\* The edges lead both ways, and only to what is stored.
LEMMA LoadsMirror ==
  ASSUME NEW d \in DB, EdgesMirrored(d), NEW kind, NEW a, NEW b,
         b \in LoadRelatedIDs(d, a, kind)
  PROVE  a \in LoadRelatedIDs(d, b, kind) /\ b \in Stored(d)
<1>1. \A x, y : <<x, kind, y>> \in d.relationRefs <=> <<y, kind, x>> \in d.relations
  <2>1. d.relations \subseteq MemoryIDs \X RelationTypes \X MemoryIDs
    BY DEF DB
  <2>. QED  BY <2>1, RefsMirror DEF EdgesMirrored
<1>2. \A x, y : y \in LoadRelatedIDs(d, x, kind)
                  <=> <<x, kind, y>> \in d.relations \cup d.relationRefs
  <2>1. \A e \in d.relations \cup d.relationRefs : e = <<e[1], e[2], e[3]>>
    BY DEF DB
  <2>. QED  BY <2>1 DEF LoadRelatedIDs
<1>3. \A x, y : <<x, kind, y>> \in d.relations => x \in Stored(d) /\ y \in Stored(d)
  BY DEF EdgesMirrored
<1>. QED  BY <1>1, <1>2, <1>3

\* A walk may start one edge earlier and take one level more.
LEMMA WalksExtend ==
  ASSUME NEW d, NEW kind, NEW depth \in Nat, NEW level \in 0 .. depth - 1,
         NEW a, NEW c \in LoadRelatedIDs(d, a, kind)
  PROVE  Seen(d, kind, depth, c)[level] \subseteq Seen(d, kind, depth, a)[level + 1]
<1>. DEFINE from == Seen(d, kind, depth, c)
            to == Seen(d, kind, depth, a)
            Short == {n \in Nat : n < depth /\ ~(from[n] \subseteq to[n + 1])}
<1>1. /\ from[0] = {c} /\ to[0] = {a}
      /\ \A n \in 0 .. depth - 1 : /\ from[n + 1] = Wider(d, kind, from[n])
                                   /\ to[n + 1] = Wider(d, kind, to[n])
  BY SeenStart, SeenStep
<1>. HIDE DEF from, to
<1>2. 0 \notin Short
  <2>1. to[0 + 1] = Wider(d, kind, {a})
    BY <1>1
  <2>2. c \in Wider(d, kind, {a})
    BY DEF Wider
  <2>. QED  BY <1>1, <2>1, <2>2
<1>3. ASSUME NEW n \in Nat, n \notin Short
      PROVE  n + 1 \notin Short
  <2>. SUFFICES ASSUME n + 1 < depth
       PROVE  from[n + 1] \subseteq to[(n + 1) + 1]
    OBVIOUS
  <2>1. from[n] \subseteq to[n + 1]
    BY <1>3
  <2>2. n \in 0 .. depth - 1 /\ n + 1 \in 0 .. depth - 1
    OBVIOUS
  <2>3. /\ from[n + 1] = Wider(d, kind, from[n])
        /\ to[(n + 1) + 1] = Wider(d, kind, to[n + 1])
    BY <1>1, <2>2
  <2>. QED  BY <2>1, <2>3 DEF Wider
<1>4. Short = {}
  <2>. HIDE DEF Short
  <2>1. Short \in SUBSET Nat
    BY DEF Short
  <2>. QED  BY <1>2, <1>3, <2>1, NoLeast
<1>5. level \in Nat /\ level < depth
  OBVIOUS
<1>6. from[level] \subseteq to[level + 1]
  BY <1>4, <1>5
<1>. QED  BY <1>6 DEF from, to

\* A walk can be walked back, and from a stored memory it leads to one.
LEMMA WalksReverse ==
  ASSUME NEW d \in DB, EdgesMirrored(d), NEW kind, NEW depth \in Nat
  PROVE  \A a, b : b \in Seen(d, kind, depth, a)[depth] =>
           /\ a \in Seen(d, kind, depth, b)[depth]
           /\ a \in Stored(d) => b \in Stored(d)
<1>. DEFINE S(a) == Seen(d, kind, depth, a)
            OneWay == {n \in Nat : n <= depth /\
                         ~ \A a, b : b \in S(a)[n] =>
                             /\ a \in S(b)[n]
                             /\ a \in Stored(d) => b \in Stored(d)}
<1>1. \A a : /\ S(a)[0] = {a}
             /\ \A n \in 0 .. depth - 1 : S(a)[n + 1] = Wider(d, kind, S(a)[n])
  BY SeenStart, SeenStep
<1>2. \A n \in 0 .. depth - 1 : \A a : \A c \in LoadRelatedIDs(d, a, kind) :
        S(c)[n] \subseteq S(a)[n + 1]
  BY WalksExtend
<1>. HIDE DEF S
<1>3. 0 \notin OneWay
  BY <1>1
<1>4. ASSUME NEW n \in Nat, n \notin OneWay
      PROVE  n + 1 \notin OneWay
  <2>. SUFFICES ASSUME n + 1 <= depth, NEW a, NEW b, b \in S(a)[n + 1]
       PROVE  /\ a \in S(b)[n + 1]
              /\ a \in Stored(d) => b \in Stored(d)
    OBVIOUS
  <2>1. \A x, y : y \in S(x)[n] => /\ x \in S(y)[n]
                                   /\ x \in Stored(d) => y \in Stored(d)
    BY <1>4
  <2>2. n \in 0 .. depth - 1
    OBVIOUS
  <2>3. \A x : S(x)[n + 1] = Wider(d, kind, S(x)[n])
    BY <1>1, <2>2
  <2>4. CASE b \in S(a)[n]
    BY <2>1, <2>3, <2>4 DEF Wider
  <2>5. CASE \E x \in S(a)[n] : b \in LoadRelatedIDs(d, x, kind)
    <3>1. PICK x \in S(a)[n] : b \in LoadRelatedIDs(d, x, kind)
      BY <2>5
    <3>2. x \in LoadRelatedIDs(d, b, kind) /\ b \in Stored(d)
      BY <3>1, LoadsMirror
    <3>3. a \in S(x)[n]
      BY <2>1
    <3>. QED  BY <1>2, <2>2, <3>2, <3>3
  <2>. QED  BY <2>3, <2>4, <2>5 DEF Wider
<1>5. OneWay = {}
  <2>. HIDE DEF OneWay
  <2>1. OneWay \in SUBSET Nat
    BY DEF OneWay
  <2>. QED  BY <1>3, <1>4, <2>1, NoLeast
<1>6. \A a, b : b \in S(a)[depth] => /\ a \in S(b)[depth]
                                     /\ a \in Stored(d) => b \in Stored(d)
  BY <1>5
<1>. QED  BY <1>6 DEF S

\* Pairs of related memories can be turned round.
LEMMA RelatedMirror ==
  ASSUME NEW d \in DB, EdgesMirrored(d), NEW kind, NEW depth \in Nat
  PROVE  LET related == UNION {{a} \X GetRelated(d, a, kind, depth) : a \in Stored(d)}
         IN  related = {<<pair[2], pair[1]>> : pair \in related}
<1>. DEFINE related == UNION {{a} \X GetRelated(d, a, kind, depth) : a \in Stored(d)}
            R(a) == GetRelated(d, a, kind, depth)
<1>1. \A a, b : b \in R(a) => /\ a \in R(b)
                              /\ a \in Stored(d) => b \in Stored(d)
  <2>1. \A a : R(a) = Seen(d, kind, depth, a)[depth] \ {a}
    BY RelatedIsSeen
  <2>. HIDE DEF R
  <2>. QED  BY <2>1, WalksReverse
<1>. HIDE DEF R
<1>2. related = UNION {{a} \X R(a) : a \in Stored(d)}
  BY DEF R
<1>. HIDE DEF related
<1>3. \A pair \in related : /\ pair = <<pair[1], pair[2]>>
                            /\ pair[1] \in Stored(d) /\ pair[2] \in R(pair[1])
  BY <1>2
<1>4. \A a, b : a \in Stored(d) /\ b \in R(a) => <<a, b>> \in related
  BY <1>2
<1>5. \A pair \in related : <<pair[2], pair[1]>> \in related
  BY <1>1, <1>3, <1>4
<1>6. related = {<<pair[2], pair[1]>> : pair \in related}
  <2>1. \A pair \in related : \E q \in related : pair = <<q[2], q[1]>>
    <3>. SUFFICES ASSUME NEW pair \in related
         PROVE  \E q \in related : pair = <<q[2], q[1]>>
      OBVIOUS
    <3>1. <<pair[2], pair[1]>> \in related /\ pair = <<pair[1], pair[2]>>
      BY <1>3, <1>5
    <3>. QED  BY <3>1
  <2>. QED  BY <1>5, <2>1
<1>. QED  BY <1>6 DEF related

\* The relations of the committed database are those of the invariant.
LEMMA RelationsAreMirrored == LogInv => RelationsAgree
<1>. SUFFICES ASSUME LogInv
     PROVE  RelationsAgree
  OBVIOUS
<1>0. db \in DB /\ EdgesMirrored(db) /\ EdgesKeptIn(db) /\ UpdatesAreParents(db)
  BY DEF LogInv, ChainInv, HInv, IInv, TypeOK, Linked
<1>1. ASSUME NEW kind \in RelationTypes, NEW depth \in 1 .. Cardinality(MemoryIDs)
      PROVE  LET related ==
                   UNION {{a} \X GetRelated(db, a, kind, depth) : a \in Stored(db)}
             IN  related = {<<pair[2], pair[1]>> : pair \in related}
  <2>1. depth \in Nat
    BY IDsAssumption, FS_CardinalityType
  <2>. QED  BY <1>0, <2>1, RelatedMirror
<1>2. ASSUME NEW id \in Stored(db), NEW to \in MemoryIDs
      PROVE  <<id, "updates", to>> \in db.relations
               <=> /\ db.memories[id].parentID = to
                   /\ \E e \in db.auditLog :
                        Introduces(e, id) /\ e.operation = "remember"
  BY <1>0 DEF UpdatesAreParents, Remembered
<1>. QED  BY <1>0, <1>1, <1>2 DEF RelationsAgree, EdgesKeptIn

\* GetRelated looks in both relation buckets, at any depth: what is related to a
\* memory is what that memory is related to.  The updates edges are the parents
\* of the memories written by Remember, and only the unchecked derives edges
\* leave their space (saveRelations, Revive, GetRelated).
THEOREM RelationsAreSymmetric == Spec => []RelationsAgree
BY InitLogInv, NextLogInv, RelationsAreMirrored, PTL DEF Spec

-------------------------------------------------------------------------------
(* Two forgets. *)

\* A memory is what its fields are.
LEMMA SameMemory ==
  ASSUME NEW x \in Memory, NEW y \in Memory,
         Frozen(x) = Frozen(y),
         x.isLatest = y.isLatest, x.isForgotten = y.isForgotten,
         x.hasOrphanedSources = y.hasOrphanedSources,
         x.embedding = y.embedding
  PROVE  x = y
BY DEF Memory, Frozen

\* What forgetting a takes from the counter of a kind in a space.
Uncounted(d, a, space, kind) ==
  IF /\ d.memories[a].isLatest
     /\ d.memories[a].spaceID = space /\ d.memories[a].kind = kind
  THEN 1 ELSE 0

\* The head that forgetting a takes from its root, and the membership key.
Beheaded(d, a, root) == d.memories[a].isLatest /\ root = RootOf(d, a)

Unlisted(d, a, pair) ==
  d.memories[a].isLatest /\ pair = <<d.memories[a].spaceID, a>>

\* What a forget writes beside the memories and the logs.
LEMMA ForgetWrites ==
  ASSUME NEW d \in DB, NEW id \in Stored(d), ~d.memories[id].isForgotten
  PROVE  LET e == ForgetInTx(d, id)
         IN  /\ \A root \in MemoryIDs :
                  e.latest[root] =
                    IF Beheaded(d, id, root) THEN Nil ELSE d.latest[root]
             /\ e.spaces = {pair \in d.spaces : ~Unlisted(d, id, pair)}
             /\ \A space \in Spaces, kind \in Kinds :
                  e.spaceStats[space][kind] =
                    d.spaceStats[space][kind] - Uncounted(d, id, space, kind)
             /\ e.embeddings = d.embeddings /\ e.spacesConfig = d.spacesConfig
<1>. DEFINE e   == ForgetInTx(d, id)
            mem == d.memories[id]
<1>0. /\ mem.spaceID \in Spaces /\ mem.kind \in Kinds
      /\ d.latest \in [MemoryIDs -> MemoryIDs \cup {Nil}]
      /\ d.spaceStats \in [Spaces -> [Kinds -> Int]]
  BY StoredType DEF DB, Memory
<1>1. /\ e.embeddings = d.embeddings /\ e.spacesConfig = d.spacesConfig
      /\ mem.isLatest =>
           /\ e.latest = [d.latest EXCEPT ![RootOf(d, id)] = Nil]
           /\ e.spaces = d.spaces \ {<<mem.spaceID, id>>}
           /\ e.spaceStats = [d.spaceStats EXCEPT ![mem.spaceID][mem.kind] = @ - 1]
      /\ ~mem.isLatest =>
           /\ e.latest = d.latest /\ e.spaces = d.spaces
           /\ e.spaceStats = d.spaceStats
  BY DEF ForgetInTx, ForgetVersion, DeactivateLineage, DB
<1>. HIDE DEF e
<1>2. ASSUME NEW root \in MemoryIDs
      PROVE  e.latest[root] =
               IF Beheaded(d, id, root) THEN Nil ELSE d.latest[root]
  BY <1>0, <1>1 DEF Beheaded
<1>3. e.spaces = {pair \in d.spaces : ~Unlisted(d, id, pair)}
  BY <1>1 DEF Unlisted
<1>4. ASSUME NEW space \in Spaces, NEW kind \in Kinds
      PROVE  e.spaceStats[space][kind] =
               d.spaceStats[space][kind] - Uncounted(d, id, space, kind)
  <2>1. d.spaceStats[space][kind] \in Int
    BY <1>0
  <2>. QED  BY <1>0, <1>1, <2>1 DEF Uncounted
<1>. QED  BY <1>1, <1>2, <1>3, <1>4 DEF e

\* What forgetting a and b makes of d, whichever came first: what f is told to
\* be does not change when a and b are swapped.
ForgottenBoth(d, f, a, b) ==
  /\ f \in DB /\ Stored(f) = Stored(d) /\ KeepsHistory(d, f)
  /\ \A m \in Stored(d) :
       /\ f.memories[m].isForgotten <=> m \in {a, b} \/ d.memories[m].isForgotten
       /\ f.memories[m].isLatest <=> m \notin {a, b} /\ d.memories[m].isLatest
       /\ m \notin {a, b} =>
            (f.memories[m].hasOrphanedSources
               <=> \/ m \in OrphanedBy(d, a) \/ m \in OrphanedBy(d, b)
                   \/ d.memories[m].hasOrphanedSources)
       /\ f.memories[m].embedding = d.memories[m].embedding
  /\ \A root \in MemoryIDs :
       f.latest[root] =
         IF Beheaded(d, a, root) \/ Beheaded(d, b, root)
         THEN Nil ELSE d.latest[root]
  /\ f.spaces =
       {pair \in d.spaces : ~Unlisted(d, a, pair) /\ ~Unlisted(d, b, pair)}
  /\ \A space \in Spaces, kind \in Kinds :
       f.spaceStats[space][kind] =
         d.spaceStats[space][kind]
           - (Uncounted(d, a, space, kind) + Uncounted(d, b, space, kind))
  /\ f.relations = d.relations /\ f.relationRefs = d.relationRefs
  /\ f.embeddings = d.embeddings /\ f.spacesConfig = d.spacesConfig
  /\ f.auditLog = d.auditLog \cup
       {Audited("forget", d.memories[a].spaceID, <<a>>),
        Audited("forget", d.memories[b].spaceID, <<b>>)}
  /\ f.forgetLog = d.forgetLog \cup {a, b}

\* The second forget finds the lineages and the sources as the first one did.
LEMMA TwoForgets ==
  ASSUME NEW d \in DB, NEW a \in Stored(d), NEW b \in Stored(d), a # b,
         ~d.memories[a].isForgotten, ~d.memories[b].isForgotten
  PROVE  ForgottenBoth(d, ForgetInTx(ForgetInTx(d, a), b), a, b)
<1>. DEFINE e == ForgetInTx(d, a)
            f == ForgetInTx(e, b)
<1>1. /\ e \in DB /\ KeepsHistory(d, e) /\ Stored(e) = Stored(d)
      /\ b \in Stored(e) /\ ~e.memories[b].isForgotten
  <2>1. e \in DB /\ KeepsHistory(d, e)
    BY ForgetType, ForgetKeeps
  <2>2. /\ Stored(e) = Stored(d)
        /\ \A m \in Stored(d) :
             e.memories[m].isForgotten <=> m = a \/ d.memories[m].isForgotten
    BY ForgetEffect
  <2>. QED  BY <2>1, <2>2
<1>2. /\ f \in DB /\ KeepsHistory(e, f) /\ Stored(f) = Stored(e)
  BY <1>1, ForgetType, ForgetKeeps, ForgetEffect
<1>3. KeepsHistory(d, f)
  BY <1>1, <1>2, KeepsTransitive
<1>4. \A m \in Stored(d) :
        /\ e.memories[m].isForgotten <=> m = a \/ d.memories[m].isForgotten
        /\ e.memories[m].isLatest <=> m # a /\ d.memories[m].isLatest
        /\ e.memories[m].hasOrphanedSources
             <=> m \in OrphanedBy(d, a) \/ d.memories[m].hasOrphanedSources
        /\ e.memories[m].embedding = d.memories[m].embedding
  BY ForgetEffect
<1>5. \A m \in Stored(d) :
        /\ f.memories[m].isForgotten <=> m = b \/ e.memories[m].isForgotten
        /\ f.memories[m].isLatest <=> m # b /\ e.memories[m].isLatest
        /\ f.memories[m].hasOrphanedSources
             <=> m \in OrphanedBy(e, b) \/ e.memories[m].hasOrphanedSources
        /\ f.memories[m].embedding = e.memories[m].embedding
  BY <1>1, ForgetEffect
<1>6. \A m \in Stored(d) :
        /\ e.memories[m].spaceID = d.memories[m].spaceID
        /\ e.memories[m].kind = d.memories[m].kind
        /\ e.memories[m].sourceIDs = d.memories[m].sourceIDs
        /\ RootOf(e, m) = RootOf(d, m)
  BY <1>1, FrozenFields
<1>7. /\ e.relations = d.relations /\ e.relationRefs = d.relationRefs
      /\ e.auditLog = d.auditLog \cup
           {Audited("forget", d.memories[a].spaceID, <<a>>)}
      /\ e.forgetLog = d.forgetLog \cup {a}
  BY ForgetLogs
<1>8. /\ f.relations = e.relations /\ f.relationRefs = e.relationRefs
      /\ f.auditLog = e.auditLog \cup
           {Audited("forget", e.memories[b].spaceID, <<b>>)}
      /\ f.forgetLog = e.forgetLog \cup {b}
  BY <1>1, ForgetLogs
<1>9. \A m \in Stored(d) \ {a, b} : m \in OrphanedBy(e, b) <=> m \in OrphanedBy(d, b)
  BY <1>1, <1>4, <1>6, <1>7 DEF OrphanedBy, LiveIn
<1>10. /\ \A root \in MemoryIDs :
            e.latest[root] = IF Beheaded(d, a, root) THEN Nil ELSE d.latest[root]
       /\ e.spaces = {pair \in d.spaces : ~Unlisted(d, a, pair)}
       /\ \A space \in Spaces, kind \in Kinds :
            e.spaceStats[space][kind] =
              d.spaceStats[space][kind] - Uncounted(d, a, space, kind)
       /\ e.embeddings = d.embeddings /\ e.spacesConfig = d.spacesConfig
  BY ForgetWrites
<1>11. /\ \A root \in MemoryIDs :
            f.latest[root] = IF Beheaded(e, b, root) THEN Nil ELSE e.latest[root]
       /\ f.spaces = {pair \in e.spaces : ~Unlisted(e, b, pair)}
       /\ \A space \in Spaces, kind \in Kinds :
            f.spaceStats[space][kind] =
              e.spaceStats[space][kind] - Uncounted(e, b, space, kind)
       /\ f.embeddings = e.embeddings /\ f.spacesConfig = e.spacesConfig
  BY <1>1, ForgetWrites
<1>12. /\ \A root \in MemoryIDs : Beheaded(e, b, root) <=> Beheaded(d, b, root)
       /\ \A pair \in d.spaces : Unlisted(e, b, pair) <=> Unlisted(d, b, pair)
       /\ \A space \in Spaces, kind \in Kinds :
            Uncounted(e, b, space, kind) = Uncounted(d, b, space, kind)
       /\ e.memories[b].spaceID = d.memories[b].spaceID
  BY <1>4, <1>6 DEF Beheaded, Unlisted, Uncounted
<1>. HIDE DEF e, f
<1>14. \A m \in Stored(d) :
         /\ f.memories[m].isForgotten <=> m \in {a, b} \/ d.memories[m].isForgotten
         /\ f.memories[m].isLatest <=> m \notin {a, b} /\ d.memories[m].isLatest
         /\ f.memories[m].embedding = d.memories[m].embedding
  BY <1>4, <1>5
<1>15. \A m \in Stored(d) \ {a, b} :
         f.memories[m].hasOrphanedSources
           <=> \/ m \in OrphanedBy(d, a) \/ m \in OrphanedBy(d, b)
               \/ d.memories[m].hasOrphanedSources
  BY <1>4, <1>5, <1>9
<1>16. \A root \in MemoryIDs :
         f.latest[root] = IF Beheaded(d, a, root) \/ Beheaded(d, b, root)
                          THEN Nil ELSE d.latest[root]
  BY <1>10, <1>11, <1>12
<1>17. f.spaces =
         {pair \in d.spaces : ~Unlisted(d, a, pair) /\ ~Unlisted(d, b, pair)}
  BY <1>10, <1>11, <1>12
<1>18. ASSUME NEW space \in Spaces, NEW kind \in Kinds
       PROVE  f.spaceStats[space][kind] =
                d.spaceStats[space][kind]
                  - (Uncounted(d, a, space, kind) + Uncounted(d, b, space, kind))
  <2>1. d.spaceStats[space][kind] \in Int
    BY DEF DB
  <2>2. Uncounted(d, a, space, kind) \in Int /\ Uncounted(d, b, space, kind) \in Int
    BY DEF Uncounted
  <2>. QED  BY <1>10, <1>11, <1>12, <2>1, <2>2
<1>19. /\ f.auditLog = d.auditLog \cup
            {Audited("forget", d.memories[a].spaceID, <<a>>),
             Audited("forget", d.memories[b].spaceID, <<b>>)}
       /\ f.forgetLog = d.forgetLog \cup {a, b}
       /\ f.relations = d.relations /\ f.relationRefs = d.relationRefs
       /\ f.embeddings = d.embeddings /\ f.spacesConfig = d.spacesConfig
  <2>1. f.auditLog = d.auditLog \cup
            {Audited("forget", d.memories[a].spaceID, <<a>>),
             Audited("forget", d.memories[b].spaceID, <<b>>)}
    BY <1>7, <1>8, <1>12
  <2>2. f.forgetLog = d.forgetLog \cup {a, b}
    BY <1>7, <1>8
  <2>. QED  BY <2>1, <2>2, <1>7, <1>8, <1>10, <1>11
<1>20. ForgottenBoth(d, f, a, b)
  BY <1>1, <1>2, <1>3, <1>14, <1>15, <1>16, <1>17, <1>18, <1>19 DEF ForgottenBoth
<1>. QED  BY <1>20 DEF e, f


\* All that a database shows is in what ForgottenBoth says of it.
LEMMA BothShowTheSame ==
  ASSUME NEW d \in DB, NEW e, NEW f, NEW a \in Stored(d), NEW b \in Stored(d),
         ForgottenBoth(d, e, a, b), ForgottenBoth(d, f, b, a)
  PROVE  Shown(e) = Shown(f)
<1>0. e \in DB /\ f \in DB /\ Stored(e) = Stored(d) /\ Stored(f) = Stored(d)
  BY DEF ForgottenBoth
<1>1. ASSUME NEW m \in Stored(d)
      PROVE  /\ e.memories[m].isForgotten <=> f.memories[m].isForgotten
             /\ IF e.memories[m].isForgotten
                THEN [e.memories[m] EXCEPT !.hasOrphanedSources = FALSE]
                       = [f.memories[m] EXCEPT !.hasOrphanedSources = FALSE]
                ELSE e.memories[m] = f.memories[m]
  <2>1. e.memories[m] \in Memory /\ f.memories[m] \in Memory
    BY <1>0, StoredType
  <2>2. Frozen(e.memories[m]) = Frozen(f.memories[m])
    BY DEF ForgottenBoth, KeepsHistory, Kept
  <2>3. /\ e.memories[m].isForgotten <=> f.memories[m].isForgotten
        /\ e.memories[m].isLatest <=> f.memories[m].isLatest
        /\ e.memories[m].embedding = f.memories[m].embedding
    BY DEF ForgottenBoth
  <2>4. e.memories[m].isForgotten \/ m \notin {a, b}
    BY DEF ForgottenBoth
  <2>5. m \notin {a, b} => (e.memories[m].hasOrphanedSources
                              <=> f.memories[m].hasOrphanedSources)
    BY DEF ForgottenBoth
  <2>6. /\ e.memories[m].isForgotten = f.memories[m].isForgotten
        /\ e.memories[m].isLatest = f.memories[m].isLatest
        /\ m \notin {a, b} => e.memories[m].hasOrphanedSources
                                = f.memories[m].hasOrphanedSources
    <3>1. /\ {e.memories[m].isForgotten, f.memories[m].isForgotten} \subseteq BOOLEAN
          /\ {e.memories[m].isLatest, f.memories[m].isLatest} \subseteq BOOLEAN
          /\ {e.memories[m].hasOrphanedSources, f.memories[m].hasOrphanedSources}
               \subseteq BOOLEAN
      BY <2>1 DEF Memory
    <3>. QED  BY <2>3, <2>5, <3>1
  <2>7. [e.memories[m] EXCEPT !.hasOrphanedSources = FALSE]
          = [f.memories[m] EXCEPT !.hasOrphanedSources = FALSE]
    <3>. DEFINE x == [e.memories[m] EXCEPT !.hasOrphanedSources = FALSE]
                y == [f.memories[m] EXCEPT !.hasOrphanedSources = FALSE]
    <3>1. /\ x \in Memory /\ y \in Memory
          /\ Frozen(x) = Frozen(y)
          /\ x.isLatest = y.isLatest /\ x.isForgotten = y.isForgotten
          /\ x.hasOrphanedSources = y.hasOrphanedSources
          /\ x.embedding = y.embedding
      BY <2>1, <2>2, <2>3, <2>6 DEF Memory, Frozen
    <3>. HIDE DEF x, y
    <3>2. x = y
      BY <3>1, SameMemory
    <3>. QED  BY <3>2 DEF x, y
  <2>8. ~e.memories[m].isForgotten => e.memories[m] = f.memories[m]
    BY <2>1, <2>2, <2>3, <2>4, <2>6, SameMemory
  <2>. QED  BY <2>3, <2>7, <2>8
<1>2. Shown(e).memories = Shown(f).memories
  <2>1. \A m \in MemoryIDs \ Stored(d) : e.memories[m] = f.memories[m]
    BY <1>0 DEF Stored
  <2>2. ASSUME NEW m \in MemoryIDs
        PROVE  (IF m \in Stored(e) /\ e.memories[m].isForgotten
                THEN [e.memories[m] EXCEPT !.hasOrphanedSources = FALSE]
                ELSE e.memories[m])
                 = IF m \in Stored(f) /\ f.memories[m].isForgotten
                   THEN [f.memories[m] EXCEPT !.hasOrphanedSources = FALSE]
                   ELSE f.memories[m]
    BY <1>0, <1>1, <2>1
  <2>. QED  BY <1>0, <2>2 DEF Shown, DB
<1>3. e.latest = f.latest
  <2>1. /\ e.latest \in [MemoryIDs -> MemoryIDs \cup {Nil}]
        /\ f.latest \in [MemoryIDs -> MemoryIDs \cup {Nil}]
    BY <1>0 DEF DB
  <2>2. \A root \in MemoryIDs : e.latest[root] = f.latest[root]
    BY DEF ForgottenBoth
  <2>. QED  BY <2>1, <2>2
<1>4. e.spaceStats = f.spaceStats
  <2>1. /\ e.spaceStats \in [Spaces -> [Kinds -> Int]]
        /\ f.spaceStats \in [Spaces -> [Kinds -> Int]]
    BY <1>0 DEF DB
  <2>2. ASSUME NEW space \in Spaces, NEW kind \in Kinds
        PROVE  e.spaceStats[space][kind] = f.spaceStats[space][kind]
    <3>1. Uncounted(d, a, space, kind) \in Int /\ Uncounted(d, b, space, kind) \in Int
      BY DEF Uncounted
    <3>2. Uncounted(d, a, space, kind) + Uncounted(d, b, space, kind)
            = Uncounted(d, b, space, kind) + Uncounted(d, a, space, kind)
      BY <3>1
    <3>. QED  BY <3>2 DEF ForgottenBoth
  <2>3. \A space \in Spaces : e.spaceStats[space] = f.spaceStats[space]
    BY <2>1, <2>2
  <2>. QED  BY <2>1, <2>3
<1>5. e.spaces = f.spaces
  BY DEF ForgottenBoth
<1>6. /\ e.auditLog = f.auditLog /\ e.forgetLog = f.forgetLog
      /\ e.relations = f.relations /\ e.relationRefs = f.relationRefs
      /\ e.embeddings = f.embeddings /\ e.spacesConfig = f.spacesConfig
  BY DEF ForgottenBoth
<1>. QED  BY <1>0, <1>2, <1>3, <1>4, <1>5, <1>6 DEF Shown, DB

\* Either memory may have been forgotten before.
LEMMA ForgetsSwap ==
  ASSUME NEW d \in DB, NEW a \in Stored(d), NEW b \in Stored(d)
  PROVE  Shown(ForgetInTx(ForgetInTx(d, a), b))
           = Shown(ForgetInTx(ForgetInTx(d, b), a))
<1>1. ASSUME NEW x \in Stored(d), NEW y \in Stored(d), d.memories[y].isForgotten
      PROVE  ForgetInTx(ForgetInTx(d, x), y) = ForgetInTx(ForgetInTx(d, y), x)
  <2>1. KeepsHistory(d, ForgetInTx(d, x))
    BY ForgetKeeps
  <2>2. ForgetInTx(d, x).memories[y].isForgotten
    BY <1>1, <2>1 DEF KeepsHistory, Kept
  <2>. QED  BY <1>1, <2>2 DEF ForgetInTx
<1>2. CASE a = b \/ d.memories[a].isForgotten \/ d.memories[b].isForgotten
  BY <1>1, <1>2
<1>3. CASE a # b /\ ~d.memories[a].isForgotten /\ ~d.memories[b].isForgotten
  BY <1>3, TwoForgets, BothShowTheSame
<1>. QED  BY <1>2, <1>3

\* Two forgets give the same database in either order, so a batch, which takes
\* its ids in key order, does what the caller listed; only the orphan flag of a
\* derived memory forgotten with its source tells the order (ForgetBatch).
THEOREM ForgetsCommuteAlways == Spec => []ForgetsCommute
<1>1. TypeOK => ForgetsCommute
  BY ForgetsSwap DEF TypeOK, ForgetsCommute
<1>. QED  BY <1>1, TypeCorrect, PTL

================================================================================
