------------------------------ MODULE SpaceProofs ------------------------------
(***************************************************************************)
(* The spaces, for every value of the constants: the live index and the    *)
(* counters agree with the memories, so the corpus limits that read only   *)
(* the counters hold; a batch reaches the readers whole; a migrating space *)
(* is locked, and a migration leaves every memory with a vector of its     *)
(* model.                                                                  *)
(*                                                                         *)
(* These four say what a commit may do to the database.  A batch           *)
(* commits many writes at once, so the invariant says of its copy, against *)
(* the committed database, what the property says of a step.               *)
(*                                                                         *)
(* Then the index as the file has it, from the older program to the        *)
(* present one: whatever form the file is in, the ids that are keys or in  *)
(* the list are the live memories; while there is a list there are neither *)
(* keys nor counters, so no reader takes the wrong one of the two; and     *)
(* saved counters add up to the live memories and the drift of the         *)
(* operation that saved them.                                              *)
(***************************************************************************)
EXTENDS LineageProofs, SpaceIndex

-------------------------------------------------------------------------------
(* The invariant. *)

\* The live memories of a kind in a space.
Current(d, space, kind) ==
  {id \in Stored(d) : /\ d.memories[id].isLatest
                      /\ d.memories[id].spaceID = space
                      /\ d.memories[id].kind = kind}

\* The membership keys and the counters agree with the memories.
IndexAgrees(d) ==
  /\ d.spaces =
       {<<d.memories[id].spaceID, id>> :
          id \in {i \in Stored(d) : d.memories[i].isLatest}}
  /\ \A space \in Spaces, kind \in Kinds :
       d.spaceStats[space][kind] = Cardinality(Current(d, space, kind))

\* A memory lies in a space that has a configuration: the counters that
\* EnsureSpace sets to zero count nothing.
SpacesConfigured(d) ==
  \A id \in Stored(d) : d.spacesConfig[d.memories[id].spaceID] # Nil

\* The size of a layer of a space, and its limit.
SizeOf(d, space, layer) ==
  Cardinality(UNION {Current(d, space, kind) : kind \in layer})

LimitIn(d, space, layer) ==
  LET policy == d.spacesConfig[space].writePolicy
  IN  IF layer = StaticLayer THEN policy.maxStaticMemories
                             ELSE policy.maxEpisodicMemories

\* A layer that is larger in e than in d is within the limit it has in d.
WithinLimits(d, e) ==
  \A space \in Spaces, layer \in {StaticLayer, EpisodicLayer} :
    SizeOf(e, space, layer) > SizeOf(d, space, layer) =>
      SizeOf(e, space, layer) <= LimitIn(d, space, layer)

\* A space that is locked in d has the same memories in e.
LockedKept(d, e) ==
  \A space \in Spaces :
    MigratingIn(d, space) => MemoriesOf(e, space) = MemoriesOf(d, space)

\* Against the committed database, the copy of a batch keeps the configurations,
\* the locked spaces and the limits.
WorkKeepsSpaces ==
  InBatch => /\ tx.work.spacesConfig = db.spacesConfig
             /\ WithinLimits(db, tx.work)
             /\ LockedKept(db, tx.work)

\* It has a memory more for each item that is done, and has forgotten just what
\* it was asked to and is no longer to do.
WorkAsAsked ==
  /\ Running("remember") =>
       Cardinality(Stored(tx.work) \ Stored(db)) + tx.left = tx.size
  /\ Running("forget") =>
       /\ ForgottenIn(tx.work) = ForgottenIn(db) \cup (tx.asked \ tx.ids)
       /\ tx.ids \subseteq tx.asked

SpaceInv ==
  /\ LogInv
  /\ IndexAgrees(db) /\ SpacesConfigured(db)
  /\ InBatch => IndexAgrees(tx.work) /\ SpacesConfigured(tx.work)
  /\ WorkKeepsSpaces
  /\ WorkAsAsked

-------------------------------------------------------------------------------
(* The live index. *)

\* There are finitely many memories, so they can be counted.
LEMMA CurrentFinite ==
  ASSUME NEW d, NEW space, NEW kind
  PROVE  /\ IsFiniteSet(Current(d, space, kind))
         /\ Cardinality(Current(d, space, kind)) \in Nat
<1>1. Current(d, space, kind) \in SUBSET MemoryIDs
  BY DEF Current, Stored
<1>. QED  BY <1>1, IDsAssumption, FS_Subset, FS_CardinalityType

\* What a counter does when one memory goes and another comes.
LEMMA CountMoves ==
  ASSUME NEW S, IsFiniteSet(S), NEW out, NEW in, in \notin S, NEW p \in BOOLEAN
  PROVE  Cardinality((S \ {out}) \cup (IF p THEN {in} ELSE {})) =
           Cardinality(S) - (IF out \in S THEN 1 ELSE 0) + (IF p THEN 1 ELSE 0)
<1>. DEFINE T == S \ {out}
<1>1. /\ IsFiniteSet(T)
      /\ Cardinality(T) = Cardinality(S) - (IF out \in S THEN 1 ELSE 0)
      /\ Cardinality(T) \in Nat /\ Cardinality(S) \in Nat
  <2>1. /\ IsFiniteSet(T)
        /\ Cardinality(T) = IF out \in S THEN Cardinality(S) - 1 ELSE Cardinality(S)
    BY FS_RemoveElement
  <2>2. Cardinality(T) \in Nat /\ Cardinality(S) \in Nat
    BY <2>1, FS_CardinalityType
  <2>. QED  BY <2>1, <2>2
<1>2. in \notin T
  OBVIOUS
<1>. HIDE DEF T
<1>3. Cardinality(T \cup {in}) = Cardinality(T) + 1
  BY <1>1, <1>2, FS_AddElement
<1>4. CASE p
  <2>1. T \cup (IF p THEN {in} ELSE {}) = T \cup {in}
    BY <1>4
  <2>. QED  BY <1>1, <1>3, <1>4, <2>1 DEF T
<1>5. CASE ~p
  <2>1. T \cup (IF p THEN {in} ELSE {}) = T
    BY <1>5
  <2>. QED  BY <1>1, <1>5, <2>1 DEF T
<1>. QED  BY <1>4, <1>5

\* A live memory that goes and a memory that comes, as the memories, the keys
\* and the counters show them.  Nil stands for none.
LEMMA IndexMoves ==
  ASSUME NEW d \in DB, NEW e \in DB, KeepsHistory(d, e), IndexAgrees(d),
         NEW out \in Stored(d) \cup {Nil}, out # Nil => d.memories[out].isLatest,
         NEW in \in (MemoryIDs \ Stored(d)) \cup {Nil},
         Stored(e) = Stored(d) \cup ({in} \ {Nil}),
         in # Nil => e.memories[in].isLatest,
         \A m \in Stored(d) :
           e.memories[m].isLatest <=> m # out /\ d.memories[m].isLatest,
         \A pair \in Spaces \X MemoryIDs :
           pair \in e.spaces <=>
             \/ pair \in d.spaces /\ pair[2] # out
             \/ in # Nil /\ pair = <<e.memories[in].spaceID, in>>,
         \A space \in Spaces, kind \in Kinds :
           e.spaceStats[space][kind] = d.spaceStats[space][kind]
             - (IF out \in Current(d, space, kind) THEN 1 ELSE 0)
             + (IF in \in Current(e, space, kind) THEN 1 ELSE 0)
  PROVE  IndexAgrees(e)
<1>1. \A m \in Stored(d) :
        /\ e.memories[m].spaceID = d.memories[m].spaceID
        /\ e.memories[m].kind = d.memories[m].kind
  BY FrozenFields
<1>2. /\ Nil \notin Stored(d) /\ Nil \notin MemoryIDs
      /\ in # Nil => in \notin Stored(d) /\ in \in MemoryIDs
  BY NilAssumption DEF Stored
<1>3. ASSUME NEW space \in Spaces, NEW kind \in Kinds
      PROVE  e.spaceStats[space][kind] = Cardinality(Current(e, space, kind))
  <2>. DEFINE p == in \in Current(e, space, kind)
  <2>1. p => in # Nil
    BY <1>2 DEF Current, Stored
  <2>2. Current(e, space, kind)
          = (Current(d, space, kind) \ {out}) \cup (IF p THEN {in} ELSE {})
    BY <1>1, <1>2, <2>1 DEF Current
  <2>3. in \notin Current(d, space, kind)
    BY <1>2 DEF Current
  <2>4. p \in BOOLEAN
    OBVIOUS
  <2>. HIDE DEF p
  <2>5. Cardinality(Current(e, space, kind)) =
          Cardinality(Current(d, space, kind))
            - (IF out \in Current(d, space, kind) THEN 1 ELSE 0)
            + (IF p THEN 1 ELSE 0)
    BY <2>2, <2>3, <2>4, CurrentFinite, CountMoves
  <2>6. d.spaceStats[space][kind] = Cardinality(Current(d, space, kind))
    BY DEF IndexAgrees
  <2>. QED  BY <2>5, <2>6 DEF p
<1>4. e.spaces = {<<e.memories[id].spaceID, id>> :
                    id \in {i \in Stored(e) : e.memories[i].isLatest}}
  <2>. DEFINE Keys(f) == {<<f.memories[id].spaceID, id>> :
                            id \in {i \in Stored(f) : f.memories[i].isLatest}}
  <2>1. \A pair \in d.spaces : /\ pair[2] \in Stored(d) /\ d.memories[pair[2]].isLatest
                               /\ pair = <<d.memories[pair[2]].spaceID, pair[2]>>
    BY DEF IndexAgrees
  <2>2. \A m \in Stored(d) :
          d.memories[m].isLatest => <<d.memories[m].spaceID, m>> \in d.spaces
    BY DEF IndexAgrees
  <2>3. ASSUME NEW pair \in e.spaces
        PROVE  pair \in Keys(e)
    <3>1. pair \in Spaces \X MemoryIDs
      BY DEF DB
    <3>2. CASE pair \in d.spaces /\ pair[2] # out
      BY <1>1, <2>1, <3>2
    <3>3. CASE in # Nil /\ pair = <<e.memories[in].spaceID, in>>
      BY <3>3
    <3>. QED  BY <3>1, <3>2, <3>3
  <2>4. ASSUME NEW m \in Stored(e), e.memories[m].isLatest
        PROVE  <<e.memories[m].spaceID, m>> \in e.spaces
    <3>1. e.memories[m].spaceID \in Spaces /\ m \in MemoryIDs
      BY StoredType DEF Memory
    <3>2. CASE m \in Stored(d)
      BY <1>1, <2>2, <2>4, <3>1, <3>2
    <3>3. CASE m = in /\ in # Nil
      BY <3>1, <3>3
    <3>. QED  BY <3>2, <3>3
  <2>. QED  BY <2>3, <2>4
<1>. QED  BY <1>3, <1>4 DEF IndexAgrees

\* A Remember counts the new memory, and no longer the one it updates.
LEMMA RememberStats ==
  ASSUME NEW d \in DB, NEW known \in SUBSET MemoryIDs,
         NEW input \in Inputs(known), NEW id \in MemoryIDs \ Stored(d),
         NEW embedding \in Models, RememberAllowed(d, input),
         NEW space \in Spaces, NEW kind \in Kinds
  PROVE  RememberPreparedInTx(d, input, id, embedding).spaceStats[space][kind] =
           d.spaceStats[space][kind]
             - (IF /\ input.updates # Nil /\ input.spaceID = space
                   /\ d.memories[input.updates].kind = kind THEN 1 ELSE 0)
             + (IF input.spaceID = space /\ input.kind = kind THEN 1 ELSE 0)
<1>. DEFINE e == RememberPreparedInTx(d, input, id, embedding)
            counts == d.spaceStats[input.spaceID]
<1>0. /\ input.spaceID \in Spaces /\ input.kind \in Kinds
      /\ counts \in [Kinds -> Int] /\ d.spaceStats \in [Spaces -> [Kinds -> Int]]
  BY InputType DEF DB
<1>1. CASE input.updates = Nil
  <2>1. e.spaceStats =
          [d.spaceStats EXCEPT ![input.spaceID][input.kind] = @ + 1]
    BY <1>1 DEF RememberPreparedInTx, RememberRoot, DB
  <2>. QED  BY <1>0, <1>1, <2>1
<1>2. CASE input.updates # Nil
  <2>. DEFINE old == d.memories[input.updates].kind
  <2>1. old \in Kinds
    <3>1. input.updates \in Stored(d)
      BY <1>2, RememberEffect
    <3>. QED  BY <3>1, StoredType DEF Memory
  <2>2. e.spaceStats =
          [d.spaceStats EXCEPT ![input.spaceID] = MoveCount(@, old, input.kind)]
    BY <1>2 DEF RememberPreparedInTx, RememberUpdate, DB
  <2>. HIDE DEF old
  <2>3. MoveCount(counts, old, input.kind)[kind] = counts[kind]
          - (IF old = kind THEN 1 ELSE 0) + (IF input.kind = kind THEN 1 ELSE 0)
    BY <1>0, <2>1 DEF MoveCount
  <2>4. e.spaceStats[space] =
          IF space = input.spaceID THEN MoveCount(counts, old, input.kind)
                                   ELSE d.spaceStats[space]
    BY <1>0, <2>2
  <2>5. d.spaceStats[space][kind] \in Int
    BY <1>0
  <2>. HIDE DEF e
  <2>6. e.spaceStats[space][kind] = d.spaceStats[space][kind]
          - (IF input.spaceID = space /\ old = kind THEN 1 ELSE 0)
          + (IF input.spaceID = space /\ input.kind = kind THEN 1 ELSE 0)
    <3>1. CASE space = input.spaceID
      BY <2>3, <2>4, <3>1
    <3>2. CASE space # input.spaceID
      BY <2>4, <2>5, <3>2
    <3>. QED  BY <3>1, <3>2
  <2>. QED  BY <1>2, <2>6 DEF e, old
<1>. QED  BY <1>1, <1>2

\* A Remember moves the index.
LEMMA RememberIndexes ==
  ASSUME NEW d \in DB, NEW known \in SUBSET MemoryIDs,
         NEW input \in Inputs(known), NEW id \in MemoryIDs \ Stored(d),
         NEW embedding \in Models, RememberAllowed(d, input), IndexAgrees(d)
  PROVE  IndexAgrees(RememberPreparedInTx(d, input, id, embedding))
<1>. DEFINE e == RememberPreparedInTx(d, input, id, embedding)
            out == input.updates
<1>1. e \in DB /\ KeepsHistory(d, e)
  BY RememberType, RememberKeeps
<1>2. /\ Stored(e) = Stored(d) \cup {id}
      /\ out # Nil => /\ out \in Stored(d) /\ d.memories[out].isLatest
                      /\ d.memories[out].spaceID = input.spaceID
  BY RememberEffect
<1>3. PICK version \in Nat, root \in MemoryIDs \cup {Nil} :
        e.memories[id] = NewMemory(input, version, out, root, embedding)
  BY RememberEffect
<1>4. /\ e.memories[id].isLatest
      /\ e.memories[id].spaceID = input.spaceID
      /\ e.memories[id].kind = input.kind
  BY <1>3 DEF NewMemory
<1>5. \A m \in Stored(d) : e.memories[m].isLatest <=> m # out /\ d.memories[m].isLatest
  BY RememberFlags
<1>6. id # Nil /\ out \in Stored(d) \cup {Nil}
  BY <1>2, NilAssumption
<1>7. \A pair \in Spaces \X MemoryIDs :
        pair \in e.spaces <=> \/ pair \in d.spaces /\ pair[2] # out
                              \/ pair = <<input.spaceID, id>>
  <2>1. CASE out = Nil
    <3>1. e.spaces = d.spaces \cup {<<input.spaceID, id>>}
      BY <2>1 DEF RememberPreparedInTx, RememberRoot, DB
    <3>. QED  BY <2>1, <3>1, NilAssumption
  <2>2. CASE out # Nil
    <3>1. e.spaces = (d.spaces \ {<<input.spaceID, out>>}) \cup {<<input.spaceID, id>>}
      BY <2>2 DEF RememberPreparedInTx, RememberUpdate, DB
    <3>2. \A pair \in d.spaces : pair[2] = out <=> pair = <<input.spaceID, out>>
      <4>1. \A pair \in d.spaces : pair = <<d.memories[pair[2]].spaceID, pair[2]>>
        BY DEF IndexAgrees
      <4>. QED  BY <1>2, <2>2, <4>1
    <3>. QED  BY <3>1, <3>2
  <2>. QED  BY <2>1, <2>2
<1>8. ASSUME NEW space \in Spaces, NEW kind \in Kinds
      PROVE  e.spaceStats[space][kind] = d.spaceStats[space][kind]
               - (IF out \in Current(d, space, kind) THEN 1 ELSE 0)
               + (IF id \in Current(e, space, kind) THEN 1 ELSE 0)
  <2>1. out \in Current(d, space, kind)
          <=> /\ out # Nil /\ input.spaceID = space
              /\ d.memories[out].kind = kind
    BY <1>2, NilAssumption DEF Current, Stored
  <2>2. id \in Current(e, space, kind)
          <=> input.spaceID = space /\ input.kind = kind
    BY <1>2, <1>4 DEF Current
  <2>. QED  BY <2>1, <2>2, RememberStats
<1>. HIDE DEF e, out
<1>9. /\ id \in (MemoryIDs \ Stored(d)) \cup {Nil}
      /\ Stored(e) = Stored(d) \cup ({id} \ {Nil})
      /\ id # Nil => e.memories[id].isLatest
      /\ out # Nil => d.memories[out].isLatest
  BY <1>2, <1>4, <1>6
<1>10. \A pair \in Spaces \X MemoryIDs :
         pair \in e.spaces <=> \/ pair \in d.spaces /\ pair[2] # out
                               \/ id # Nil /\ pair = <<e.memories[id].spaceID, id>>
  BY <1>4, <1>6, <1>7
<1>11. IndexAgrees(e)
  BY <1>1, <1>5, <1>6, <1>8, <1>9, <1>10, IndexMoves
<1>. QED  BY <1>11 DEF e

\* A Forget of a live memory takes it out of the index, another one leaves it.
LEMMA ForgetIndexes ==
  ASSUME NEW d \in DB, NEW id \in Stored(d), IndexAgrees(d)
  PROVE  IndexAgrees(ForgetInTx(d, id))
<1>. DEFINE e == ForgetInTx(d, id)
            mem == d.memories[id]
            out == IF mem.isLatest THEN id ELSE Nil
<1>0. /\ mem \in Memory /\ mem.spaceID \in Spaces /\ mem.kind \in Kinds
      /\ id \in MemoryIDs
      /\ d.spaceStats \in [Spaces -> [Kinds -> Int]]
  BY StoredType DEF Memory, DB
<1>1. CASE mem.isForgotten
  BY <1>1 DEF ForgetInTx
<1>2. CASE ~mem.isForgotten
  <2>1. e \in DB /\ KeepsHistory(d, e)
    BY ForgetType, ForgetKeeps
  <2>2. /\ Stored(e) = Stored(d)
        /\ \A m \in Stored(d) :
             e.memories[m].isLatest <=> m # id /\ d.memories[m].isLatest
    BY <1>2, ForgetEffect
  <2>3. id # Nil /\ Nil \notin Stored(d) /\ Nil \notin MemoryIDs
    BY <1>0, NilAssumption DEF Stored
  <2>4. IF mem.isLatest
        THEN /\ e.spaces = d.spaces \ {<<mem.spaceID, id>>}
             /\ e.spaceStats = [d.spaceStats EXCEPT ![mem.spaceID][mem.kind] = @ - 1]
        ELSE e.spaces = d.spaces /\ e.spaceStats = d.spaceStats
    BY <1>2 DEF ForgetInTx, ForgetVersion, DeactivateLineage, DB
  <2>5. \A pair \in d.spaces : pair[2] = id <=> pair = <<mem.spaceID, id>>
    <3>1. \A pair \in d.spaces : pair = <<d.memories[pair[2]].spaceID, pair[2]>>
      BY DEF IndexAgrees
    <3>. QED  BY <3>1
  <2>6. \A pair \in Spaces \X MemoryIDs :
          pair \in e.spaces <=> pair \in d.spaces /\ pair[2] # out
    BY <2>3, <2>4, <2>5
  <2>7. ASSUME NEW space \in Spaces, NEW kind \in Kinds
        PROVE  e.spaceStats[space][kind] = d.spaceStats[space][kind]
                 - (IF out \in Current(d, space, kind) THEN 1 ELSE 0)
    <3>1. out \in Current(d, space, kind)
            <=> mem.isLatest /\ mem.spaceID = space /\ mem.kind = kind
      BY <2>3 DEF Current
    <3>2. e.spaceStats[space][kind] = d.spaceStats[space][kind]
            - (IF mem.isLatest /\ mem.spaceID = space /\ mem.kind = kind
               THEN 1 ELSE 0)
      <4>. HIDE DEF e, mem
      <4>1. CASE mem.isLatest
        BY <1>0, <2>4, <4>1
      <4>2. CASE ~mem.isLatest
        BY <1>0, <2>4, <4>2
      <4>. QED  BY <4>1, <4>2
    <3>. QED  BY <3>1, <3>2
  <2>8. ASSUME NEW space \in Spaces, NEW kind \in Kinds
        PROVE  Nil \notin Current(e, space, kind)
    BY <2>2, <2>3 DEF Current
  <2>9. /\ out \in Stored(d) \cup {Nil}
        /\ out # Nil => d.memories[out].isLatest
        /\ \A m \in Stored(d) :
             e.memories[m].isLatest <=> m # out /\ d.memories[m].isLatest
    BY <2>2, <2>3
  <2>10. \A space \in Spaces, kind \in Kinds :
           e.spaceStats[space][kind] = d.spaceStats[space][kind]
             - (IF out \in Current(d, space, kind) THEN 1 ELSE 0)
             + (IF Nil \in Current(e, space, kind) THEN 1 ELSE 0)
    BY <1>0, <2>7, <2>8
  <2>. HIDE DEF e, out
  <2>11. /\ Nil \in (MemoryIDs \ Stored(d)) \cup {Nil}
         /\ Stored(e) = Stored(d) \cup ({Nil} \ {Nil})
         /\ Nil # Nil => e.memories[Nil].isLatest
    BY <2>2
  <2>12. \A pair \in Spaces \X MemoryIDs :
           pair \in e.spaces <=> \/ pair \in d.spaces /\ pair[2] # out
                                 \/ Nil # Nil /\ pair = <<e.memories[Nil].spaceID, Nil>>
    BY <2>6
  <2>13. IndexAgrees(e)
    BY SMTT(20), <2>1, <2>9, <2>10, <2>11, <2>12, IndexMoves
  <2>. QED  BY <2>13 DEF e
<1>. QED  BY <1>1, <1>2

\* A Revive brings a memory and takes none away.
LEMMA ReviveIndexes ==
  ASSUME NEW d \in DB, NEW e, Revives(d, e), IndexAgrees(d)
  PROVE  IndexAgrees(e)
<1>1. PICK root \in Stored(d), last \in Stored(d), id \in MemoryIDs \ Stored(d) :
        e = ReviveLineage(d, root, last, d.memories[root].kind, id)
  BY DEF Revives
<1>. DEFINE space0 == d.memories[root].spaceID
            kind0 == d.memories[root].kind
<1>2. kind0 \in Kinds /\ space0 \in Spaces
  BY StoredType DEF Memory
<1>3. e \in DB /\ KeepsHistory(d, e)
  BY <1>1, <1>2, ReviveType, ReviveKeeps
<1>4. /\ Stored(e) = Stored(d) \cup {id}
      /\ e.memories[id] = RevivedMemory(d, root, last, kind0)
      /\ \A m \in Stored(d) : e.memories[m] = d.memories[m]
  BY <1>1, <1>2, ReviveEffect
<1>5. /\ e.memories[id].isLatest /\ e.memories[id].spaceID = space0
      /\ e.memories[id].kind = kind0
  BY <1>4 DEF RevivedMemory
<1>6. id # Nil /\ Nil \notin Stored(d) /\ Nil \notin MemoryIDs
  BY NilAssumption DEF Stored
<1>7. /\ e.spaces = d.spaces \cup {<<space0, id>>}
      /\ e.spaceStats = [d.spaceStats EXCEPT ![space0][kind0] = @ + 1]
  BY <1>1 DEF ReviveLineage, DB
<1>. HIDE DEF space0, kind0
<1>8. ASSUME NEW space \in Spaces, NEW kind \in Kinds
      PROVE  e.spaceStats[space][kind] = d.spaceStats[space][kind]
               - (IF Nil \in Current(d, space, kind) THEN 1 ELSE 0)
               + (IF id \in Current(e, space, kind) THEN 1 ELSE 0)
  <2>1. Nil \notin Current(d, space, kind)
    BY <1>6 DEF Current
  <2>2. id \in Current(e, space, kind) <=> space = space0 /\ kind = kind0
    BY <1>4, <1>5 DEF Current
  <2>3. d.spaceStats \in [Spaces -> [Kinds -> Int]]
    BY DEF DB
  <2>. QED  BY <1>2, <1>7, <2>1, <2>2, <2>3
<1>9. \A pair \in Spaces \X MemoryIDs :
        pair \in e.spaces <=> \/ pair \in d.spaces /\ pair[2] # Nil
                              \/ pair = <<space0, id>>
  BY <1>6, <1>7
<1>10. \A m \in Stored(d) :
         e.memories[m].isLatest <=> m # Nil /\ d.memories[m].isLatest
  BY <1>4, <1>6
<1>. QED  BY <1>3, <1>4, <1>5, <1>6, <1>8, <1>9, <1>10, IndexMoves

\* The first EnsureSpace of a space finds no memory to count, and nothing else
\* of a configuration or a migration touches the index.
LEMMA OtherIndex ==
  ASSUME NEW d \in DB, NEW e, Configures(d, e) \/ EndsMigration(d, e),
         IndexAgrees(d), SpacesConfigured(d)
  PROVE  IndexAgrees(e)
<1>1. e \in DB /\ KeepsHistory(d, e)
  BY OperationKeeps DEF Operates
<1>2. /\ Stored(e) = Stored(d)
      /\ \A m \in Stored(d) : e.memories[m].isLatest <=> d.memories[m].isLatest
  <2>1. CASE Configures(d, e)
    BY <2>1, ConfigEffect
  <2>2. CASE EndsMigration(d, e)
    BY <2>2, MigrateEffect, MigrateFlags DEF EndsMigration
  <2>. QED  BY <2>1, <2>2
<1>3. e.spaces = d.spaces
  <2>1. CASE Configures(d, e)
    BY <2>1, ConfigEffect
  <2>2. CASE EndsMigration(d, e)
    BY <2>2 DEF EndsMigration, MigrateInTx, DB
  <2>. QED  BY <2>1, <2>2
<1>4. \A m \in Stored(d) : /\ e.memories[m].spaceID = d.memories[m].spaceID
                           /\ e.memories[m].kind = d.memories[m].kind
  BY <1>1, FrozenFields
<1>5. \A space, kind : Current(e, space, kind) = Current(d, space, kind)
  BY <1>2, <1>4 DEF Current
<1>6. ASSUME NEW space \in Spaces, NEW kind \in Kinds
      PROVE  e.spaceStats[space][kind] = Cardinality(Current(d, space, kind))
  <2>1. d.spaceStats[space][kind] = Cardinality(Current(d, space, kind))
    BY DEF IndexAgrees
  <2>2. \/ e.spaceStats[space] = d.spaceStats[space]
        \/ d.spacesConfig[space] = Nil /\ e.spaceStats[space] = [k \in Kinds |-> 0]
    <3>1. CASE Configures(d, e)
      <4>1. PICK s \in Spaces :
              \/ \E model \in Models, policy \in Policies :
                   e = EnsureSpaceInTx(d, s, model, policy)
              \/ \E policy \in Policies : e = ApplyConfigInTx(d, s, policy)
              \/ \E model \in Models : e = BeginMigrationInTx(d, s, model)
        BY <3>1 DEF Configures
      <4>2. CASE \E model \in Models, policy \in Policies :
                   e = EnsureSpaceInTx(d, s, model, policy)
        BY <4>2 DEF EnsureSpaceInTx, DB
      <4>3. CASE \/ \E policy \in Policies : e = ApplyConfigInTx(d, s, policy)
                 \/ \E model \in Models : e = BeginMigrationInTx(d, s, model)
        BY <4>3 DEF ApplyConfigInTx, UpdateSpaceConfigInTx, BeginMigrationInTx, DB
      <4>. QED  BY <4>1, <4>2, <4>3
    <3>2. CASE EndsMigration(d, e)
      BY <3>2 DEF EndsMigration, MigrateInTx, DB
    <3>. QED  BY <3>1, <3>2
  <2>3. CASE d.spacesConfig[space] = Nil
    <3>1. Current(d, space, kind) = {}
      BY <2>3 DEF SpacesConfigured, Current
    <3>2. Cardinality(Current(d, space, kind)) = 0
      BY <3>1, FS_EmptySet
    <3>. QED  BY <2>1, <2>2, <3>2
  <2>. QED  BY <2>1, <2>2, <2>3
<1>7. {<<e.memories[id].spaceID, id>> : id \in {i \in Stored(e) : e.memories[i].isLatest}}
        = {<<d.memories[id].spaceID, id>> : id \in {i \in Stored(d) : d.memories[i].isLatest}}
  BY <1>2, <1>4
<1>. QED  BY <1>3, <1>5, <1>6, <1>7 DEF IndexAgrees

-------------------------------------------------------------------------------
(* The configurations. *)

\* A Remember, a Forget or a Revive writes no configuration.
LEMMA WritesKeepConfigs ==
  ASSUME NEW d \in DB, NEW known \in SUBSET MemoryIDs, NEW e,
         Remembers(known, d, e) \/ Forgets(d, e) \/ Revives(d, e)
  PROVE  e.spacesConfig = d.spacesConfig
<1>1. CASE Remembers(known, d, e)
  <2>1. PICK id \in MemoryIDs \ Stored(d), input \in Inputs(known) :
        \E embedding \in Models : e = RememberPreparedInTx(d, input, id, embedding)
    BY <1>1 DEF Remembers
  <2>2. PICK embedding \in Models : e = RememberPreparedInTx(d, input, id, embedding)
    BY <2>1
  <2>3. CASE input.updates = Nil
    BY <2>2, <2>3 DEF RememberPreparedInTx, RememberRoot, DB
  <2>4. CASE input.updates # Nil
    BY <2>2, <2>4 DEF RememberPreparedInTx, RememberUpdate, DB
  <2>. QED  BY <2>3, <2>4
<1>2. CASE Forgets(d, e)
  <2>1. PICK id \in Stored(d) : e = ForgetInTx(d, id)
    BY <1>2 DEF Forgets
  <2>. DEFINE v == ForgetVersion(d, id)
              mem == d.memories[id]
  <2>2. v \in DB /\ v.spacesConfig = d.spacesConfig
    BY ZenonT(40), ForgetVersionType DEF ForgetVersion, DB
  <2>3. DeactivateLineage(v, mem, id, RootOf(d, id)).spacesConfig = v.spacesConfig
    BY <2>2 DEF DeactivateLineage, DB
  <2>. HIDE DEF v
  <2>4. e \in {d, v, DeactivateLineage(v, mem, id, RootOf(d, id))}
    BY <2>1 DEF ForgetInTx, v
  <2>. QED  BY <2>2, <2>3, <2>4
<1>3. CASE Revives(d, e)
  <2>1. PICK root \in Stored(d), last \in Stored(d), id \in MemoryIDs \ Stored(d) :
          e = ReviveLineage(d, root, last, d.memories[root].kind, id)
    BY <1>3 DEF Revives
  <2>. QED  BY <2>1 DEF ReviveLineage, DB
<1>. QED  BY <1>1, <1>2, <1>3

\* A configured space stays configured.
LEMMA ConfigsStay ==
  ASSUME NEW d \in DB, NEW e, NEW space \in Spaces, d.spacesConfig[space] # Nil,
         Configures(d, e) \/ EndsMigration(d, e)
  PROVE  e.spacesConfig[space] # Nil
<1>0. d.spacesConfig \in [Spaces -> SpaceConfig \cup {Nil}]
  BY DEF DB
<1>1. CASE Configures(d, e)
  <2>1. PICK s \in Spaces :
          \/ \E model \in Models, policy \in Policies :
               e = EnsureSpaceInTx(d, s, model, policy)
          \/ \E policy \in Policies : /\ d.spacesConfig[s] # Nil
                                      /\ e = ApplyConfigInTx(d, s, policy)
          \/ \E model \in Models : /\ d.spacesConfig[s] # Nil
                                   /\ e = BeginMigrationInTx(d, s, model)
    BY <1>1 DEF Configures, BeginMigrationAllowed
  <2>2. CASE \E model \in Models, policy \in Policies :
               e = EnsureSpaceInTx(d, s, model, policy)
    BY <1>0, <2>2 DEF EnsureSpaceInTx, DB
  <2>3. CASE \E policy \in Policies : /\ d.spacesConfig[s] # Nil
                                      /\ e = ApplyConfigInTx(d, s, policy)
    <3>1. PICK policy \in Policies : e = ApplyConfigInTx(d, s, policy)
      BY <2>3
    <3>2. e.spacesConfig = [d.spacesConfig EXCEPT ![s].writePolicy = policy]
      BY <3>1 DEF ApplyConfigInTx, UpdateSpaceConfigInTx, DB
    <3>3. [d.spacesConfig[s] EXCEPT !.writePolicy = policy] \in SpaceConfig
      BY <1>0, <2>3 DEF SpaceConfig
    <3>. QED  BY <1>0, <3>2, <3>3, NilAssumption
  <2>4. CASE \E model \in Models : /\ d.spacesConfig[s] # Nil
                                   /\ e = BeginMigrationInTx(d, s, model)
    <3>1. PICK model \in Models : e = BeginMigrationInTx(d, s, model)
      BY <2>4
    <3>. DEFINE config == [d.spacesConfig[s] EXCEPT !.migrating = TRUE, !.target = model]
    <3>2. e.spacesConfig \in {d.spacesConfig, [d.spacesConfig EXCEPT ![s] = config]}
      BY <3>1 DEF BeginMigrationInTx, DB
    <3>3. config \in SpaceConfig
      BY <1>0, <2>4 DEF SpaceConfig
    <3>. QED  BY <1>0, <3>2, <3>3, NilAssumption
  <2>. QED  BY <2>1, <2>2, <2>3, <2>4
<1>2. CASE EndsMigration(d, e)
  <2>1. PICK s \in Spaces, model \in Models : /\ d.spacesConfig[s] # Nil
                                              /\ e = MigrateInTx(d, s, model)
    BY <1>2 DEF EndsMigration
  <2>. DEFINE config == [d.spacesConfig[s] EXCEPT
                           !.model = model, !.migrating = FALSE, !.target = Nil]
  <2>2. e.spacesConfig = [d.spacesConfig EXCEPT ![s] = config]
    BY <2>1 DEF MigrateInTx, DB
  <2>3. config \in SpaceConfig
    BY <1>0, <2>1 DEF SpaceConfig
  <2>. QED  BY <1>0, <2>2, <2>3, NilAssumption
<1>. QED  BY <1>1, <1>2

\* A memory is written only to a space that has a configuration.
LEMMA OperationConfigured ==
  ASSUME NEW d \in DB, NEW known \in SUBSET MemoryIDs, NEW e,
         Operates(known, d, e), SpacesConfigured(d)
  PROVE  SpacesConfigured(e)
<1>1. e \in DB /\ KeepsHistory(d, e)
  BY OperationKeeps
<1>2. \A m \in Stored(d) : e.memories[m].spaceID = d.memories[m].spaceID
  BY <1>1, FrozenFields
<1>3. \A m \in Stored(d) : d.memories[m].spaceID \in Spaces
  BY StoredType DEF Memory
<1>4. CASE Remembers(known, d, e)
  <2>1. PICK id \in MemoryIDs \ Stored(d), input \in Inputs(known) :
        \E embedding \in Models :
          /\ RememberAllowed(d, input)
          /\ e = RememberPreparedInTx(d, input, id, embedding)
    BY <1>4 DEF Remembers
  <2>2. Stored(e) = Stored(d) \cup {id} /\ e.memories[id].spaceID = input.spaceID
    <3>1. PICK embedding \in Models : e = RememberPreparedInTx(d, input, id, embedding)
      BY <2>1
    <3>2. Stored(e) = Stored(d) \cup {id}
      BY <2>1, <3>1, RememberEffect
    <3>3. PICK version \in Nat, from \in MemoryIDs \cup {Nil} :
            e.memories[id] = NewMemory(input, version, input.updates, from, embedding)
      BY <2>1, <3>1, RememberEffect
    <3>. QED  BY <3>2, <3>3 DEF NewMemory
  <2>3. d.spacesConfig[input.spaceID] # Nil
    BY <2>1 DEF RememberAllowed, SpaceWritable
  <2>4. e.spacesConfig = d.spacesConfig
    BY <1>4, WritesKeepConfigs
  <2>. QED  BY <1>2, <2>2, <2>3, <2>4 DEF SpacesConfigured
<1>5. CASE Forgets(d, e)
  <2>1. Stored(e) = Stored(d)
    BY <1>5, ForgetEffect DEF Forgets, ForgetInTx
  <2>2. e.spacesConfig = d.spacesConfig
    BY <1>5, WritesKeepConfigs
  <2>. QED  BY <1>2, <2>1, <2>2 DEF SpacesConfigured
<1>6. CASE Revives(d, e)
  <2>1. PICK root \in Stored(d), last \in Stored(d), id \in MemoryIDs \ Stored(d) :
          e = ReviveLineage(d, root, last, d.memories[root].kind, id)
    BY <1>6 DEF Revives
  <2>2. d.memories[root].kind \in Kinds
    BY StoredType DEF Memory
  <2>3. /\ Stored(e) = Stored(d) \cup {id}
        /\ e.memories[id].spaceID = d.memories[root].spaceID
    <3>1. /\ Stored(e) = Stored(d) \cup {id}
          /\ e.memories[id] = RevivedMemory(d, root, last, d.memories[root].kind)
      BY <2>1, <2>2, ReviveEffect
    <3>. QED  BY <3>1 DEF RevivedMemory
  <2>4. e.spacesConfig = d.spacesConfig
    BY <1>6, WritesKeepConfigs
  <2>. QED  BY <1>2, <2>3, <2>4 DEF SpacesConfigured
<1>7. CASE Configures(d, e) \/ EndsMigration(d, e)
  <2>1. Stored(e) = Stored(d)
    BY <1>7, ConfigEffect, MigrateEffect DEF EndsMigration
  <2>. QED  BY <1>2, <1>3, <1>7, <2>1, ConfigsStay DEF SpacesConfigured
<1>. QED  BY <1>4, <1>5, <1>6, <1>7 DEF Operates

\* Whatever the operation, the index agrees.
LEMMA OperationIndex ==
  ASSUME NEW d \in DB, NEW known \in SUBSET MemoryIDs, NEW e,
         Operates(known, d, e), IndexAgrees(d), SpacesConfigured(d)
  PROVE  IndexAgrees(e)
<1>1. CASE Remembers(known, d, e) \/ Forgets(d, e)
  BY <1>1, RememberIndexes, ForgetIndexes DEF Remembers, Forgets
<1>. QED  BY <1>1, ReviveIndexes, OtherIndex DEF Operates

-------------------------------------------------------------------------------
(* The corpus limits. *)

\* The counters of a layer add up to its size.
LEMMA LayersCounted ==
  ASSUME NEW d \in DB, IndexAgrees(d), NEW space \in Spaces
  PROVE  /\ SizeOf(d, space, StaticLayer) =
              d.spaceStats[space]["static"] + d.spaceStats[space]["derived"]
         /\ SizeOf(d, space, EpisodicLayer) = d.spaceStats[space]["episodic"]
         /\ SizeOf(d, space, StaticLayer) \in Nat
         /\ SizeOf(d, space, EpisodicLayer) \in Nat
<1>. DEFINE S(kind) == Current(d, space, kind)
<1>1. \A kind \in Kinds :
        /\ IsFiniteSet(S(kind)) /\ Cardinality(S(kind)) \in Nat
        /\ d.spaceStats[space][kind] = Cardinality(S(kind))
  BY CurrentFinite DEF IndexAgrees
<1>2. S("static") \cap S("derived") = {}
  BY DEF Current
<1>3. /\ UNION {S(kind) : kind \in StaticLayer} = S("static") \cup S("derived")
      /\ UNION {S(kind) : kind \in EpisodicLayer} = S("episodic")
  BY DEF StaticLayer, EpisodicLayer
<1>. HIDE DEF S
<1>4. {"static", "derived", "episodic"} \subseteq Kinds
  BY DEF Kinds
<1>5. Cardinality(S("static") \cup S("derived"))
        = Cardinality(S("static")) + Cardinality(S("derived"))
  <2>1. IsFiniteSet(S("static")) /\ IsFiniteSet(S("derived"))
    BY <1>1, <1>4
  <2>2. Cardinality(S("static") \cup S("derived"))
          = Cardinality(S("static")) + Cardinality(S("derived"))
              - Cardinality(S("static") \cap S("derived"))
    BY <2>1, FS_Union
  <2>3. Cardinality(S("static") \cap S("derived")) = 0
    BY <1>2, FS_EmptySet
  <2>4. Cardinality(S("static")) \in Nat /\ Cardinality(S("derived")) \in Nat
    BY <1>1, <1>4
  <2>. QED  BY <2>2, <2>3, <2>4
<1>6. /\ SizeOf(d, space, StaticLayer) = Cardinality(S("static") \cup S("derived"))
      /\ SizeOf(d, space, EpisodicLayer) = Cardinality(S("episodic"))
  BY <1>3 DEF SizeOf, S
<1>. QED  BY <1>1, <1>4, <1>5, <1>6

\* The limits are numbers.
LEMMA LimitType ==
  ASSUME NEW d \in DB, NEW space \in Spaces, d.spacesConfig[space] # Nil,
         NEW layer \in {StaticLayer, EpisodicLayer}
  PROVE  LimitIn(d, space, layer) \in Int
<1>1. d.spacesConfig[space].writePolicy \in
        Policies \cup {NormalizeSpaceWritePolicy(policy) : policy \in Policies}
  BY DEF DB, SpaceConfig
<1>2. \A policy \in Policies :
        /\ policy.maxStaticMemories \in Int /\ policy.maxEpisodicMemories \in Int
        /\ NormalizeSpaceWritePolicy(policy).maxStaticMemories \in Int
        /\ NormalizeSpaceWritePolicy(policy).maxEpisodicMemories \in Int
  BY PoliciesAssumption
    DEF NormalizeSpaceWritePolicy, ZeroPolicy, DefaultSpaceWritePolicy
<1>. QED  BY <1>1, <1>2 DEF LimitIn

\* A Remember that makes a layer larger leaves it within its limit.
LEMMA RememberWithin ==
  ASSUME NEW d \in DB, NEW known \in SUBSET MemoryIDs,
         NEW input \in Inputs(known), NEW id \in MemoryIDs \ Stored(d),
         NEW embedding \in Models, RememberAllowed(d, input), IndexAgrees(d)
  PROVE  WithinLimits(d, RememberPreparedInTx(d, input, id, embedding))
<1>. DEFINE e == RememberPreparedInTx(d, input, id, embedding)
            replaced == IF input.updates = Nil THEN Nil
                        ELSE d.memories[input.updates].kind
            counts == d.spaceStats[input.spaceID]
            policy == d.spacesConfig[input.spaceID].writePolicy
<1>1. e \in DB /\ IndexAgrees(e)
  BY RememberType, RememberIndexes
<1>2. /\ input.spaceID \in Spaces /\ input.kind \in Kinds
      /\ counts \in [Kinds -> Int]
      /\ {"static", "derived", "episodic"} \subseteq Kinds
  BY InputType DEF DB, Kinds
<1>3. \A space \in Spaces, kind \in Kinds :
        e.spaceStats[space][kind] = d.spaceStats[space][kind]
          - (IF input.updates # Nil /\ input.spaceID = space /\ replaced = kind
             THEN 1 ELSE 0)
          + (IF input.spaceID = space /\ input.kind = kind THEN 1 ELSE 0)
  BY RememberStats
<1>4. /\ d.spacesConfig[input.spaceID] # Nil
      /\ ~WouldExceedCorpusLimit(policy, counts, input.kind, replaced)
  BY DEF RememberAllowed, SpaceWritable
<1>5. replaced \in Kinds \cup {Nil} /\ (replaced = Nil <=> input.updates = Nil)
  <2>1. input.updates # Nil => d.memories[input.updates].kind \in Kinds
    <3>1. input.updates # Nil => input.updates \in Stored(d)
      BY RememberEffect
    <3>. QED  BY <3>1, StoredType DEF Memory
  <2>. QED  BY <2>1, NilAssumption
<1>6. \A space \in Spaces, layer \in {StaticLayer, EpisodicLayer} :
        /\ SizeOf(d, space, layer) \in Nat /\ SizeOf(e, space, layer) \in Nat
  BY <1>1, LayersCounted
<1>. HIDE DEF e, replaced
<1>7. ASSUME NEW space \in Spaces, space # input.spaceID,
             NEW layer \in {StaticLayer, EpisodicLayer}
      PROVE  SizeOf(e, space, layer) = SizeOf(d, space, layer)
  <2>1. d.spaceStats[space] \in [Kinds -> Int]
    BY DEF DB
  <2>2. \A kind \in Kinds : e.spaceStats[space][kind] = d.spaceStats[space][kind]
    BY <1>3, <1>7, <2>1
  <2>. QED  BY <1>1, <1>2, <2>2, LayersCounted
<1>8. ASSUME NEW layer \in {StaticLayer, EpisodicLayer}
      PROVE  SizeOf(e, input.spaceID, layer) =
               NextCount(counts, layer, input.kind, replaced)
  <2>1. /\ StaticLayer # EpisodicLayer
        /\ \A kind : kind \in StaticLayer <=> kind = "static" \/ kind = "derived"
        /\ \A kind : kind \in EpisodicLayer <=> kind = "episodic"
    <3>1. "static" \in StaticLayer /\ "static" \notin EpisodicLayer
      BY DEF StaticLayer, EpisodicLayer
    <3>. QED  BY <3>1 DEF StaticLayer, EpisodicLayer
  <2>2. Nil \notin StaticLayer /\ Nil \notin EpisodicLayer
    BY <1>2, <2>1, NilAssumption
  <2>3. \A kind \in Kinds :
          e.spaceStats[input.spaceID][kind] = counts[kind]
            - (IF replaced = kind THEN 1 ELSE 0)
            + (IF input.kind = kind THEN 1 ELSE 0)
    BY <1>2, <1>3, <1>5, NilAssumption
  <2>. HIDE DEF counts
  <2>4. CASE layer = StaticLayer
    <3>1. SizeOf(e, input.spaceID, layer) =
            e.spaceStats[input.spaceID]["static"]
              + e.spaceStats[input.spaceID]["derived"]
      BY <1>1, <1>2, <2>4, LayersCounted
    <3>2. /\ e.spaceStats[input.spaceID]["static"] = counts["static"]
               - (IF replaced = "static" THEN 1 ELSE 0)
               + (IF input.kind = "static" THEN 1 ELSE 0)
          /\ e.spaceStats[input.spaceID]["derived"] = counts["derived"]
               - (IF replaced = "derived" THEN 1 ELSE 0)
               + (IF input.kind = "derived" THEN 1 ELSE 0)
          /\ counts["static"] \in Int /\ counts["derived"] \in Int
      BY <1>2, <2>3
    <3>. QED  BY <2>1, <2>4, <3>1, <3>2 DEF NextCount
  <2>5. CASE layer = EpisodicLayer
    <3>1. SizeOf(e, input.spaceID, layer) = e.spaceStats[input.spaceID]["episodic"]
      BY <1>1, <1>2, <2>5, LayersCounted
    <3>. QED  BY <1>2, <2>1, <2>3, <2>5, <3>1 DEF NextCount
  <2>. QED  BY <2>4, <2>5
<1>9. ASSUME replaced = input.kind, NEW layer \in {StaticLayer, EpisodicLayer}
      PROVE  SizeOf(e, input.spaceID, layer) = SizeOf(d, input.spaceID, layer)
  <2>1. \A kind \in Kinds : e.spaceStats[input.spaceID][kind] = counts[kind]
    BY <1>2, <1>3, <1>5, <1>9, NilAssumption
  <2>. QED  BY <1>1, <1>2, <2>1, LayersCounted
<1>10. ASSUME replaced # input.kind, NEW layer \in {StaticLayer, EpisodicLayer}
       PROVE  SizeOf(e, input.spaceID, layer) <= LimitIn(d, input.spaceID, layer)
  <2>1. ~(NextCount(counts, layer, input.kind, replaced)
            > LimitIn(d, input.spaceID, layer))
    <3>1. StaticLayer # EpisodicLayer
      <4>1. "static" \in StaticLayer /\ "static" \notin EpisodicLayer
        BY DEF StaticLayer, EpisodicLayer
      <4>. QED  BY <4>1
    <3>. QED  BY <1>4, <1>10, <3>1 DEF WouldExceedCorpusLimit, LimitIn
  <2>2. LimitIn(d, input.spaceID, layer) \in Int
    BY <1>2, <1>4, LimitType
  <2>3. SizeOf(e, input.spaceID, layer) \in Nat
    BY <1>2, <1>6
  <2>. QED  BY <1>8, <2>1, <2>2, <2>3
<1>11. WithinLimits(d, e)
  BY <1>2, <1>6, <1>7, <1>9, <1>10 DEF WithinLimits
<1>. QED  BY <1>11 DEF e

\* The size of a layer is a number.
LEMMA SizeType ==
  ASSUME NEW d, NEW space, NEW layer
  PROVE  SizeOf(d, space, layer) \in Nat
<1>. DEFINE S == UNION {Current(d, space, kind) : kind \in layer}
<1>1. S \in SUBSET MemoryIDs
  BY DEF Current, Stored
<1>2. IsFiniteSet(S)
  BY <1>1, IDsAssumption, FS_Subset
<1>3. Cardinality(S) \in Nat
  BY <1>2, FS_CardinalityType
<1>. QED  BY <1>3 DEF SizeOf

\* Where no memory comes, no layer grows.
LEMMA NoneComesWithin ==
  ASSUME NEW d \in DB, NEW e \in DB, KeepsHistory(d, e), Stored(e) = Stored(d)
  PROVE  WithinLimits(d, e)
<1>1. ASSUME NEW space \in Spaces, NEW layer \in {StaticLayer, EpisodicLayer}
      PROVE  ~(SizeOf(e, space, layer) > SizeOf(d, space, layer))
  <2>. DEFINE S(f) == UNION {Current(f, space, kind) : kind \in layer}
  <2>1. \A m \in Stored(d) :
          /\ e.memories[m].spaceID = d.memories[m].spaceID
          /\ e.memories[m].kind = d.memories[m].kind
          /\ e.memories[m].isLatest => d.memories[m].isLatest
    BY DEF KeepsHistory, Kept, Frozen
  <2>2. \A kind : Current(e, space, kind) \subseteq Current(d, space, kind)
    BY <2>1 DEF Current
  <2>3. S(e) \subseteq S(d)
    BY <2>2
  <2>4. S(d) \in SUBSET MemoryIDs
    BY DEF Current, Stored
  <2>. HIDE DEF S
  <2>5. IsFiniteSet(S(d))
    BY <2>4, IDsAssumption, FS_Subset
  <2>6. Cardinality(S(e)) <= Cardinality(S(d))
    BY <2>3, <2>5, FS_Subset
  <2>7. SizeOf(e, space, layer) <= SizeOf(d, space, layer)
    BY <2>6 DEF SizeOf, S
  <2>. QED  BY <2>7, SizeType
<1>. QED  BY <1>1 DEF WithinLimits

\* The items of a batch add up, as the limits do not change meanwhile.
LEMMA WithinTransitive ==
  ASSUME NEW d \in DB, NEW e \in DB, NEW f, WithinLimits(d, e), WithinLimits(e, f),
         e.spacesConfig = d.spacesConfig, SpacesConfigured(e)
  PROVE  WithinLimits(d, f)
<1>. SUFFICES ASSUME NEW space \in Spaces, NEW layer \in {StaticLayer, EpisodicLayer},
                     SizeOf(f, space, layer) > SizeOf(d, space, layer)
     PROVE  SizeOf(f, space, layer) <= LimitIn(d, space, layer)
  BY DEF WithinLimits
<1>1. /\ SizeOf(d, space, layer) \in Nat /\ SizeOf(e, space, layer) \in Nat
      /\ SizeOf(f, space, layer) \in Nat
  BY SizeType
<1>2. LimitIn(e, space, layer) = LimitIn(d, space, layer)
  BY DEF LimitIn
<1>3. CASE SizeOf(f, space, layer) > SizeOf(e, space, layer)
  BY <1>2, <1>3 DEF WithinLimits
<1>4. CASE ~(SizeOf(f, space, layer) > SizeOf(e, space, layer))
  <2>1. /\ SizeOf(e, space, layer) > SizeOf(d, space, layer)
        /\ SizeOf(e, space, layer) <= LimitIn(d, space, layer)
    BY <1>1, <1>4 DEF WithinLimits
  <2>2. d.spacesConfig[space] # Nil
    <3>1. CASE d.spacesConfig[space] = Nil
      <4>. DEFINE S == UNION {Current(e, space, kind) : kind \in layer}
      <4>1. S = {}
        BY <3>1 DEF Current, SpacesConfigured
      <4>2. Cardinality(S) = 0
        BY <4>1, FS_EmptySet
      <4>. QED  BY <1>1, <2>1, <4>2 DEF SizeOf
    <3>. QED  BY <3>1
  <2>3. LimitIn(d, space, layer) \in Int
    BY <2>2, LimitType
  <2>. QED  BY <1>1, <1>4, <2>1, <2>3
<1>. QED  BY <1>3, <1>4

\* A Revive writes an entry that was not there.
LEMMA ReviveIsLogged ==
  ASSUME NEW d \in DB, NEW e, Revives(d, e), Logged(d)
  PROVE  \E entry \in e.auditLog \ d.auditLog : entry.operation = "revive"
<1>1. PICK root \in Stored(d), last \in Stored(d), id \in MemoryIDs \ Stored(d) :
        e = ReviveLineage(d, root, last, d.memories[root].kind, id)
  BY DEF Revives
<1>. DEFINE entry == Audited("revive", d.memories[root].spaceID, <<last, id>>)
<1>2. entry \in e.auditLog
  BY <1>1 DEF ReviveLineage, DB
<1>3. entry.operation = "revive" /\ entry.memoryIDs = <<last, id>>
  BY DEF Audited
<1>4. Introduces(entry, id)
  <2>1. Introduces(Audited("revive", d.memories[root].spaceID, <<last, id>>), id)
    BY DEF Introduces, Audited
  <2>. QED  BY <2>1
<1>. HIDE DEF entry
<1>5. entry \notin d.auditLog
  BY <1>4 DEF Logged, OnlyStoredIntroduced
<1>. QED  BY <1>2, <1>3, <1>5

\* Of the operations only a Revive takes a layer past its limit.
LEMMA OperationWithin ==
  ASSUME NEW d \in DB, NEW known \in SUBSET MemoryIDs, NEW e,
         Operates(known, d, e), IndexAgrees(d)
  PROVE  Revives(d, e) \/ WithinLimits(d, e)
<1>1. e \in DB /\ KeepsHistory(d, e)
  BY OperationKeeps
<1>2. CASE Remembers(known, d, e)
  BY <1>2, RememberWithin DEF Remembers
<1>3. CASE Forgets(d, e)
  <2>1. Stored(e) = Stored(d)
    BY <1>3, ForgetEffect DEF Forgets, ForgetInTx
  <2>. QED  BY <1>1, <2>1, NoneComesWithin
<1>4. CASE Configures(d, e) \/ EndsMigration(d, e)
  <2>1. Stored(e) = Stored(d)
    BY <1>4, ConfigEffect, MigrateEffect DEF EndsMigration
  <2>. QED  BY <1>1, <2>1, NoneComesWithin
<1>. QED  BY <1>2, <1>3, <1>4 DEF Operates

-------------------------------------------------------------------------------
(* The lock of a migrating space. *)

\* What e holds in the space, d held.
NothingNewIn(d, e, space) ==
  \A m \in Stored(e) :
    e.memories[m].spaceID = space =>
      m \in Stored(d) /\ e.memories[m] = d.memories[m]

\* A space to whose memories nothing was done has the same.
LEMMA SpaceKept ==
  ASSUME NEW d, NEW e, NEW space, KeepsHistory(d, e), NothingNewIn(d, e, space)
  PROVE  MemoriesOf(e, space) = MemoriesOf(d, space)
<1>0. \A m \in Stored(d) :
        m \in Stored(e) /\ e.memories[m].spaceID = d.memories[m].spaceID
  BY FrozenFields
<1>1. {i \in Stored(e) : e.memories[i].spaceID = space}
        = {i \in Stored(d) : d.memories[i].spaceID = space}
  BY <1>0 DEF NothingNewIn
<1>2. \A i \in {j \in Stored(d) : d.memories[j].spaceID = space} :
        e.memories[i] = d.memories[i]
  BY <1>0 DEF NothingNewIn
<1>. QED  BY <1>1, <1>2 DEF MemoriesOf

\* A Forget leaves the memories of other spaces.
LEMMA ForgetElsewhere ==
  ASSUME NEW d \in DB, NEW id \in Stored(d), NEW m \in Stored(d),
         d.memories[m].spaceID # d.memories[id].spaceID
  PROVE  ForgetInTx(d, id).memories[m] = d.memories[m]
<1>. DEFINE v == ForgetVersion(d, id)
<1>0. id \in MemoryIDs /\ m \in MemoryIDs /\ m # id /\ v \in DB
  BY StoredType, ForgetVersionType
<1>1. m \notin OrphanedBy(d, id)
  BY DEF OrphanedBy, LiveIn
<1>2. v.memories[m] = d.memories[m]
  BY <1>0, <1>1 DEF ForgetVersion, MarkOrphaned, MarkForgotten, DB
<1>3. DeactivateLineage(v, d.memories[id], id, RootOf(d, id)).memories = v.memories
  BY <1>0 DEF DeactivateLineage, DB
<1>. QED  BY <1>2, <1>3 DEF ForgetInTx

\* A Remember, a Forget or a Revive leaves the memories of a locked space.
LEMMA WritesKeepLocked ==
  ASSUME NEW d \in DB, NEW known \in SUBSET MemoryIDs, NEW e,
         Remembers(known, d, e) \/ Forgets(d, e) \/ Revives(d, e)
  PROVE  LockedKept(d, e)
<1>. SUFFICES ASSUME NEW space \in Spaces, MigratingIn(d, space)
     PROVE  MemoriesOf(e, space) = MemoriesOf(d, space)
  BY DEF LockedKept
<1>1. KeepsHistory(d, e)
  BY OperationKeeps DEF Operates
<1>2. /\ Stored(d) \subseteq Stored(e)
      /\ \A m \in Stored(d) : e.memories[m].spaceID = d.memories[m].spaceID
  BY <1>1, FrozenFields
<1>3. ~SpaceWritable(d, space)
  BY DEF MigratingIn, SpaceWritable
<1>4. CASE Remembers(known, d, e)
  <2>1. PICK id \in MemoryIDs \ Stored(d), input \in Inputs(known) :
        \E embedding \in Models :
          /\ RememberAllowed(d, input)
          /\ e = RememberPreparedInTx(d, input, id, embedding)
    BY <1>4 DEF Remembers
  <2>2. PICK embedding \in Models :
          /\ RememberAllowed(d, input)
          /\ e = RememberPreparedInTx(d, input, id, embedding)
    BY <2>1
  <2>3. input.spaceID # space
    BY <1>3, <2>2 DEF RememberAllowed
  <2>4. /\ Stored(e) = Stored(d) \cup {id}
        /\ input.updates # Nil => d.memories[input.updates].spaceID = input.spaceID
    BY <2>2, RememberEffect
  <2>7. \A m \in Stored(d) :
          e.memories[m] = IF m = input.updates
                          THEN [d.memories[m] EXCEPT !.isLatest = FALSE]
                          ELSE d.memories[m]
    BY <2>2, RememberEffect
  <2>5. \A m \in Stored(d) : m # Nil
    BY NilAssumption DEF Stored
  <2>6. e.memories[id].spaceID = input.spaceID
    <3>1. PICK version \in Nat, from \in MemoryIDs \cup {Nil} :
            e.memories[id] = NewMemory(input, version, input.updates, from, embedding)
      BY <2>2, RememberEffect
    <3>. QED  BY <3>1 DEF NewMemory
  <2>8. NothingNewIn(d, e, space)
    BY <1>2, <2>3, <2>4, <2>5, <2>6, <2>7 DEF NothingNewIn
  <2>. QED  BY <1>1, <2>8, SpaceKept
<1>5. CASE Forgets(d, e)
  <2>1. PICK id \in Stored(d) : ForgetAllowed(d, id) /\ e = ForgetInTx(d, id)
    BY <1>5 DEF Forgets
  <2>2. d.memories[id].spaceID # space
    BY <1>3, <2>1 DEF ForgetAllowed
  <2>3. \A m \in Stored(d) :
          d.memories[m].spaceID = space => e.memories[m] = d.memories[m]
    BY <2>1, <2>2, ForgetElsewhere
  <2>4. Stored(e) = Stored(d)
    BY <2>1, ForgetEffect DEF ForgetInTx
  <2>5. NothingNewIn(d, e, space)
    BY <1>2, <2>3, <2>4 DEF NothingNewIn
  <2>. QED  BY <1>1, <2>5, SpaceKept
<1>6. CASE Revives(d, e)
  <2>1. PICK root \in Stored(d), last \in Stored(d), id \in MemoryIDs \ Stored(d) :
          /\ SpaceWritable(d, d.memories[root].spaceID)
          /\ e = ReviveLineage(d, root, last, d.memories[root].kind, id)
    BY <1>6 DEF Revives
  <2>2. d.memories[root].spaceID # space /\ d.memories[root].kind \in Kinds
    BY <1>3, <2>1, StoredType DEF Memory
  <2>3. /\ Stored(e) = Stored(d) \cup {id}
        /\ e.memories[id] = RevivedMemory(d, root, last, d.memories[root].kind)
        /\ \A m \in Stored(d) : e.memories[m] = d.memories[m]
    BY <2>1, <2>2, ReviveEffect
  <2>4. e.memories[id].spaceID # space
    BY <2>2, <2>3 DEF RevivedMemory
  <2>5. NothingNewIn(d, e, space)
    BY <2>3, <2>4 DEF NothingNewIn
  <2>. QED  BY <1>1, <2>5, SpaceKept
<1>. QED  BY <1>4, <1>5, <1>6

\* Only the end of its migration changes the memories of a locked space.
LEMMA OperationKeepsLocked ==
  ASSUME NEW d \in DB, NEW known \in SUBSET MemoryIDs, NEW e,
         Operates(known, d, e), NEW space \in Spaces,
         MigratingIn(d, space), MigratingIn(e, space)
  PROVE  MemoriesOf(e, space) = MemoriesOf(d, space)
<1>1. CASE Remembers(known, d, e) \/ Forgets(d, e) \/ Revives(d, e)
  BY <1>1, WritesKeepLocked DEF LockedKept
<1>2. CASE Configures(d, e)
  BY <1>2, ConfigEffect DEF MemoriesOf
<1>3. CASE EndsMigration(d, e)
  <2>1. PICK s \in Spaces : \E model \in Models :
          d.spacesConfig[s] # Nil /\ e = MigrateInTx(d, s, model)
    BY <1>3 DEF EndsMigration
  <2>2. PICK model \in Models : e = MigrateInTx(d, s, model)
    BY <2>1
  <2>3. s # space
    <3>1. e.spacesConfig[s] = [d.spacesConfig[s] EXCEPT
                                 !.model = model, !.migrating = FALSE, !.target = Nil]
      BY <2>2 DEF MigrateInTx, DB
    <3>2. d.spacesConfig[s] \in SpaceConfig
      BY <2>1 DEF DB
    <3>3. ~e.spacesConfig[s].migrating
      BY <3>1, <3>2 DEF SpaceConfig
    <3>. QED  BY <3>3 DEF MigratingIn
  <2>4. /\ Stored(e) = Stored(d)
        /\ \A m \in Stored(d) :
             e.memories[m] = IF d.memories[m].spaceID = s
                             THEN [d.memories[m] EXCEPT !.embedding = model]
                             ELSE d.memories[m]
    BY <2>2, MigrateEffect
  <2>5. KeepsHistory(d, e)
    BY OperationKeeps
  <2>6. \A m \in Stored(d) : e.memories[m].spaceID = d.memories[m].spaceID
    BY <2>5, FrozenFields
  <2>7. NothingNewIn(d, e, space)
    BY <2>3, <2>4, <2>6 DEF NothingNewIn
  <2>. QED  BY <2>5, <2>7, SpaceKept
<1>. QED  BY <1>1, <1>2, <1>3 DEF Operates

\* Only the end of its migration unlocks a space, and by then every version of
\* it has a vector of the target model in both places.
LEMMA UnlockedIsUnified ==
  ASSUME NEW d \in DB, NEW known \in SUBSET MemoryIDs, NEW e,
         Operates(known, d, e), NEW space \in Spaces,
         MigratingIn(d, space), ~MigratingIn(e, space),
         NEW m \in MemoriesOf(e, space)
  PROVE  /\ m[2].embedding = e.spacesConfig[space].model
         /\ e.embeddings[m[1]] = m[2].embedding
<1>0. d.spacesConfig[space] \in SpaceConfig /\ d.spacesConfig[space].migrating
  BY DEF DB, MigratingIn
<1>1. CASE Remembers(known, d, e) \/ Forgets(d, e) \/ Revives(d, e)
  BY <1>1, WritesKeepConfigs DEF MigratingIn
<1>2. CASE Configures(d, e)
  <2>1. e.spacesConfig[space] # Nil
    BY <1>0, <1>2, ConfigsStay, NilAssumption
  <2>2. PICK s \in Spaces :
          \/ \E model \in Models, policy \in Policies :
               e = EnsureSpaceInTx(d, s, model, policy)
          \/ \E policy \in Policies : e = ApplyConfigInTx(d, s, policy)
          \/ \E model \in Models : e = BeginMigrationInTx(d, s, model)
    BY <1>2 DEF Configures
  <2>3. CASE \E model \in Models, policy \in Policies :
               e = EnsureSpaceInTx(d, s, model, policy)
    <3>1. e.spacesConfig[space] = d.spacesConfig[space]
      BY <1>0, <2>3, NilAssumption DEF EnsureSpaceInTx, DB
    <3>. QED  BY <3>1 DEF MigratingIn
  <2>4. CASE \E policy \in Policies : e = ApplyConfigInTx(d, s, policy)
    <3>1. PICK policy \in Policies : e = ApplyConfigInTx(d, s, policy)
      BY <2>4
    <3>2. e.spacesConfig[space] \in
            {d.spacesConfig[space], [d.spacesConfig[space] EXCEPT !.writePolicy = policy]}
      BY <3>1 DEF ApplyConfigInTx, UpdateSpaceConfigInTx, DB
    <3>3. e.spacesConfig[space].migrating
      BY <1>0, <3>2 DEF SpaceConfig
    <3>. QED  BY <2>1, <3>3 DEF MigratingIn
  <2>5. CASE \E model \in Models : e = BeginMigrationInTx(d, s, model)
    <3>1. PICK model \in Models : e = BeginMigrationInTx(d, s, model)
      BY <2>5
    <3>2. e.spacesConfig[space] \in
            {d.spacesConfig[space],
             [d.spacesConfig[space] EXCEPT !.migrating = TRUE, !.target = model]}
      BY <3>1 DEF BeginMigrationInTx, DB
    <3>3. e.spacesConfig[space].migrating
      BY <1>0, <3>2 DEF SpaceConfig
    <3>. QED  BY <2>1, <3>3 DEF MigratingIn
  <2>. QED  BY <2>2, <2>3, <2>4, <2>5
<1>3. CASE EndsMigration(d, e)
  <2>1. PICK s \in Spaces : \E model \in Models : e = MigrateInTx(d, s, model)
    BY <1>3 DEF EndsMigration
  <2>2. PICK model \in Models : e = MigrateInTx(d, s, model)
    BY <2>1
  <2>3. s = space
    <3>1. s # space => e.spacesConfig[space] = d.spacesConfig[space]
      BY <2>2 DEF MigrateInTx, DB
    <3>. QED  BY <3>1 DEF MigratingIn
  <2>4. e.spacesConfig[space].model = model
    <3>1. e.spacesConfig[space] = [d.spacesConfig[space] EXCEPT
            !.model = model, !.migrating = FALSE, !.target = Nil]
      BY <2>2, <2>3 DEF MigrateInTx, DB
    <3>. QED  BY <1>0, <3>1 DEF SpaceConfig
  <2>5. PICK id \in Stored(e) : m = <<id, e.memories[id]>> /\ e.memories[id].spaceID = space
    BY DEF MemoriesOf
  <2>6. /\ Stored(e) = Stored(d)
        /\ e.memories[id] = IF d.memories[id].spaceID = space
                            THEN [d.memories[id] EXCEPT !.embedding = model]
                            ELSE d.memories[id]
    BY <2>2, <2>3, <2>5, MigrateEffect
  <2>7. d.memories[id] \in Memory
    BY <2>5, <2>6, StoredType
  <2>8. d.memories[id].spaceID = space
    BY <2>5, <2>6
  <2>9. e.memories[id].embedding = model
    BY <2>6, <2>7, <2>8 DEF Memory
  <2>10. e.embeddings[id] = model
    BY <2>2, <2>3, <2>5, <2>6, <2>8 DEF MigrateInTx, Embedded, Stored, DB
  <2>. QED  BY <2>4, <2>5, <2>9, <2>10
<1>. QED  BY <1>1, <1>2, <1>3 DEF Operates

-------------------------------------------------------------------------------
(* Every step. *)

\* What holds of a database and a copy of it before the first item.
LEMMA CopyKeepsSpaces ==
  ASSUME NEW d
  PROVE  WithinLimits(d, d) /\ LockedKept(d, d)
BY SizeType DEF WithinLimits, LockedKept

\* Another item keeps what the items before it left locked.
LEMMA LockedTransitive ==
  ASSUME NEW d, NEW e, NEW f, LockedKept(d, e), LockedKept(e, f),
         e.spacesConfig = d.spacesConfig
  PROVE  LockedKept(d, f)
BY DEF LockedKept, MigratingIn

\* The copy of a batch keeps the limits, the locks and the configurations of the
\* committed database.
LEMMA NextWorkKeepsSpaces ==
  ASSUME SpaceInv, [Next]_vars
  PROVE  WorkKeepsSpaces'
<1>. SUFFICES ASSUME InBatch'
     PROVE  /\ tx'.work.spacesConfig = db'.spacesConfig
            /\ WithinLimits(db', tx'.work)
            /\ LockedKept(db', tx'.work)
  BY DEF WorkKeepsSpaces
<1>0. HInv /\ TypeOK /\ WorkKeepsSpaces
  BY DEF SpaceInv, LogInv, ChainInv, HInv, IInv
<1>1. /\ db' = db
      /\ \/ tx'.work = db
         \/ InBatch /\ tx'.work = tx.work
         \/ /\ InBatch
            /\ Remembers(Stored(db), tx.work, tx'.work) \/ Forgets(tx.work, tx'.work)
  BY <1>0, StepOfWork DEF InBatch
<1>2. CASE tx'.work = db
  BY <1>1, <1>2, CopyKeepsSpaces
<1>3. CASE InBatch /\ tx'.work = tx.work
  BY <1>0, <1>1, <1>3 DEF WorkKeepsSpaces
<1>4. CASE /\ InBatch
           /\ Remembers(Stored(db), tx.work, tx'.work) \/ Forgets(tx.work, tx'.work)
  <2>1. /\ db \in DB /\ tx.work \in DB /\ Stored(db) \in SUBSET MemoryIDs
        /\ IndexAgrees(tx.work) /\ SpacesConfigured(tx.work)
        /\ tx.work.spacesConfig = db.spacesConfig
        /\ WithinLimits(db, tx.work) /\ LockedKept(db, tx.work)
    BY <1>0, <1>4, RunningType DEF SpaceInv, TypeOK, InBatch, Stored, WorkKeepsSpaces
  <2>2. Operates(Stored(db), tx.work, tx'.work)
    BY <1>4 DEF Operates
  <2>3. tx'.work.spacesConfig = tx.work.spacesConfig
    BY <1>4, <2>1, WritesKeepConfigs
  <2>4. LockedKept(tx.work, tx'.work)
    BY <1>4, <2>1, WritesKeepLocked
  <2>5. WithinLimits(tx.work, tx'.work)
    <3>1. CASE Remembers(Stored(db), tx.work, tx'.work)
      BY <2>1, <3>1, RememberWithin DEF Remembers
    <3>2. CASE Forgets(tx.work, tx'.work)
      <4>1. Stored(tx'.work) = Stored(tx.work)
        <5>1. PICK id \in Stored(tx.work) : tx'.work = ForgetInTx(tx.work, id)
          BY <3>2 DEF Forgets
        <5>2. CASE tx.work.memories[id].isForgotten
          BY <5>1, <5>2 DEF ForgetInTx
        <5>3. CASE ~tx.work.memories[id].isForgotten
          BY <2>1, <5>1, <5>3, ForgetEffect
        <5>. QED  BY <5>2, <5>3
      <4>2. tx'.work \in DB /\ KeepsHistory(tx.work, tx'.work)
        BY <2>1, <2>2, OperationKeeps
      <4>. QED  BY <2>1, <4>1, <4>2, NoneComesWithin
    <3>. QED  BY <1>4, <3>1, <3>2
  <2>6. WithinLimits(db, tx'.work)
    BY <2>1, <2>5, WithinTransitive
  <2>7. LockedKept(db, tx'.work)
    BY <2>1, <2>4, LockedTransitive
  <2>. QED  BY <1>1, <2>1, <2>3, <2>6, <2>7
<1>. QED  BY <1>1, <1>2, <1>3, <1>4

\* A forget adds the id to what is forgotten.
LEMMA ForgetAdds ==
  ASSUME NEW d \in DB, NEW id \in Stored(d)
  PROVE  ForgottenIn(ForgetInTx(d, id)) = ForgottenIn(d) \cup {id}
<1>1. CASE d.memories[id].isForgotten
  BY <1>1 DEF ForgetInTx, ForgottenIn
<1>2. CASE ~d.memories[id].isForgotten
  BY <1>2, ForgetEffect DEF ForgottenIn
<1>. QED  BY <1>1, <1>2

\* Each item of a batch stores a memory or forgets the id it is about.
LEMMA NextWorkAsAsked ==
  ASSUME HInv, WorkAsAsked, [Next]_vars
  PROVE  WorkAsAsked'
<1>. DEFINE Extra(d, e) == Stored(e) \ Stored(d)
<1>0. TypeOK
  BY DEF HInv, IInv
<1>1. \A d, e : IsFiniteSet(Extra(d, e)) /\ Cardinality(Extra(d, e)) \in Nat
  <2>1. \A d, e : Extra(d, e) \in SUBSET MemoryIDs
    BY DEF Stored
  <2>2. \A d, e : IsFiniteSet(Extra(d, e))
    BY <2>1, IDsAssumption, FS_Subset
  <2>. QED  BY <2>2, FS_CardinalityType
<1>2. CASE RememberBatchBegin
  <2>1. PICK n \in 2 .. MaxBatch :
          tx' = [op |-> "remember", work |-> db, size |-> n, left |-> n]
    BY <1>2 DEF RememberBatchBegin
  <2>2. /\ db' = db /\ tx'.work = db /\ tx'.left = n /\ tx'.size = n
        /\ tx'.op = "remember"
    BY <1>2, <2>1 DEF RememberBatchBegin
  <2>3. Cardinality(Stored(db) \ Stored(db)) = 0
    BY FS_EmptySet
  <2>4. Cardinality(Stored(tx'.work) \ Stored(db')) + tx'.left = tx'.size
    BY <2>2, <2>3
  <2>. QED  BY <2>2, <2>4 DEF WorkAsAsked, Running
<1>3. CASE RememberBatchItem
  <2>1. /\ tx \in [op: {"remember"}, work: DB, size: Nat, left: Nat] /\ db' = db
        /\ Cardinality(Extra(db, tx.work)) + tx.left = tx.size
        /\ Stored(db) \subseteq Stored(tx.work)
    BY <1>0, <1>3, RunningType
       DEF RememberBatchItem, WorkAsAsked, HInv, WorkKeepsHistory, KeepsHistory
  <2>2. PICK id \in MemoryIDs \ Stored(tx.work), input \in Inputs(Stored(db)) :
        \E embedding \in Models :
          /\ RememberAllowed(tx.work, input)
          /\ tx' = [tx EXCEPT
               !.work = RememberPreparedInTx(tx.work, input, id, embedding),
               !.left = @ - 1]
    BY <1>3 DEF RememberBatchItem
  <2>3. PICK embedding \in Models :
          /\ RememberAllowed(tx.work, input)
          /\ tx' = [tx EXCEPT
               !.work = RememberPreparedInTx(tx.work, input, id, embedding),
               !.left = @ - 1]
    BY <2>2
  <2>4. /\ tx'.work = RememberPreparedInTx(tx.work, input, id, embedding)
        /\ tx'.left = tx.left - 1 /\ tx'.size = tx.size /\ tx'.op = "remember"
    BY <2>1, <2>3
  <2>5. Stored(tx'.work) = Stored(tx.work) \cup {id}
    <3>1. Stored(db) \in SUBSET MemoryIDs /\ tx.work \in DB
      BY <2>1 DEF Stored
    <3>. QED  BY <2>3, <2>4, <3>1, RememberEffect
  <2>6. Cardinality(Extra(db', tx'.work)) = Cardinality(Extra(db, tx.work)) + 1
    <3>1. /\ Extra(db', tx'.work) = Extra(db, tx.work) \cup {id}
          /\ id \notin Extra(db, tx.work)
      BY <2>1, <2>5
    <3>. HIDE DEF Extra
    <3>. QED  BY <1>1, <3>1, FS_AddElement
  <2>7. Cardinality(Extra(db', tx'.work)) + tx'.left = tx'.size
    <3>1. /\ tx.left \in Nat /\ tx.size \in Nat
          /\ Cardinality(Extra(db, tx.work)) \in Nat
      BY <1>1, <2>1
    <3>. HIDE DEF Extra
    <3>. QED  BY <2>1, <2>4, <2>6, <3>1
  <2>. QED  BY <2>4, <2>7 DEF WorkAsAsked, Running
<1>4. CASE UNCHANGED vars
  BY <1>4 DEF vars, WorkAsAsked, Running, Idle, ForgottenIn
<1>5. CASE \/ Remember \/ Forget \/ EnsureSpace \/ UpdateSpaceConfig
           \/ BeginEmbeddingMigration \/ MigrateEmbeddings
           \/ RememberBatchFail \/ RememberBatchCommit
           \/ ForgetBatchFail \/ ForgetBatchCommit
           \/ ReviveCommit \/ ReviveMiss \/ Crash
  <2>1. tx' = Nil
    BY <1>5 DEF Remember, Forget, EnsureSpace, UpdateSpaceConfig,
                BeginEmbeddingMigration, MigrateEmbeddings, Idle,
                RememberBatchFail, RememberBatchCommit, ForgetBatchFail,
                ForgetBatchCommit, ReviveCommit, ReviveMiss, Crash,
                Commit, Rollback
  <2>. QED  BY <2>1 DEF WorkAsAsked, Running, Idle
<1>6. CASE ForgetBatchBegin
  <2>1. PICK ids : tx' = [op |-> "forget", work |-> db, asked |-> ids, ids |-> ids]
    BY <1>6 DEF ForgetBatchBegin
  <2>2. /\ db' = db /\ tx'.work = db /\ tx'.asked = tx'.ids
        /\ tx'.op = "forget"
    BY <1>6, <2>1 DEF ForgetBatchBegin
  <2>3. ForgottenIn(tx'.work) = ForgottenIn(db') \cup (tx'.asked \ tx'.ids)
    BY <2>2
  <2>. QED  BY <2>2, <2>3 DEF WorkAsAsked, Running
<1>7. CASE ForgetBatchItem
  <2>1. /\ tx \in [op: {"forget"}, work: DB, asked: SUBSET MemoryIDs,
                   ids: SUBSET MemoryIDs]
        /\ db' = db
        /\ NextForgotten \in Stored(tx.work)
        /\ tx.ids # {}
        /\ ForgottenIn(tx.work) = ForgottenIn(db) \cup (tx.asked \ tx.ids)
        /\ tx.ids \subseteq tx.asked
    BY <1>0, <1>7, RunningType DEF ForgetBatchItem, ForgetAllowed, WorkAsAsked
  <2>2. /\ tx'.work = ForgetInTx(tx.work, NextForgotten) /\ tx'.op = "forget"
        /\ tx'.ids = tx.ids \ {NextForgotten} /\ tx'.asked = tx.asked
    BY <1>7, <2>1 DEF ForgetBatchItem
  <2>3. NextForgotten \in tx.ids
    <3>1. tx.ids \subseteq Nat
      BY <2>1, IDsAssumption
    <3>. QED  BY <2>1, <3>1, LeastKey DEF NextForgotten
  <2>4. ForgottenIn(tx'.work) = ForgottenIn(tx.work) \cup {NextForgotten}
    BY <2>1, <2>2, ForgetAdds
  <2>5. ForgottenIn(tx'.work) = ForgottenIn(db') \cup (tx'.asked \ tx'.ids)
    <3>1. ForgottenIn(db') = ForgottenIn(db)
      BY <2>1
    <3>. QED  BY <2>1, <2>2, <2>3, <2>4, <3>1
  <2>. QED  BY <2>1, <2>2, <2>5 DEF WorkAsAsked, Running
<1>8. CASE ReviveBegin \/ ReviveSkip \/ ReviveSuperseded
  <2>1. CASE ReviveBegin
    BY <2>1 DEF ReviveBegin, WorkAsAsked, Running
  <2>2. CASE ReviveSkip \/ ReviveSuperseded
    <3>1. tx \in ReviveTx
      BY <1>0, <2>2, RunningType DEF ReviveSkip, ReviveSuperseded
    <3>2. tx'.op = "revive"
      BY <2>2, <3>1 DEF ReviveSkip, ReviveSuperseded, ReviveTx
    <3>. QED  BY <3>2 DEF WorkAsAsked, Running
  <2>. QED  BY <1>8, <2>1, <2>2
<1>. QED
  BY <1>2, <1>3, <1>4, <1>5, <1>6, <1>7, <1>8 DEF Next, TxStep

\* A database nothing was written to has empty spaces.
LEMMA InitSpaceInv == Init => SpaceInv
<1>. SUFFICES ASSUME Init
     PROVE  SpaceInv
  OBVIOUS
<1>1. ~InBatch /\ ~Running("remember") /\ ~Running("forget")
  BY DEF Init, InBatch, Running, Idle
<1>2. Stored(db) = {}
  BY DEF Init, EmptyDB, Stored
<1>3. \A space, kind : Current(db, space, kind) = {}
  BY <1>2 DEF Current
<1>4. Cardinality({}) = 0
  BY FS_EmptySet
<1>5. /\ db.spaces = {}
      /\ \A space \in Spaces, kind \in Kinds : db.spaceStats[space][kind] = 0
  BY DEF Init, EmptyDB
<1>6. IndexAgrees(db)
  BY <1>2, <1>3, <1>4, <1>5 DEF IndexAgrees
<1>. QED  BY <1>1, <1>2, <1>6, InitLogInv
       DEF SpaceInv, SpacesConfigured, WorkKeepsSpaces, WorkAsAsked

\* Every step keeps the invariant.
LEMMA NextSpaceInv == SpaceInv /\ [Next]_vars => SpaceInv'
<1>. SUFFICES ASSUME SpaceInv, [Next]_vars
     PROVE  SpaceInv'
  OBVIOUS
<1>0. /\ LogInv /\ HInv /\ db \in DB /\ Stored(db) \in SUBSET MemoryIDs
      /\ IndexAgrees(db) /\ SpacesConfigured(db)
      /\ InBatch => /\ tx.work \in DB
                    /\ IndexAgrees(tx.work) /\ SpacesConfigured(tx.work)
  BY RunningType DEF SpaceInv, LogInv, ChainInv, HInv, IInv, TypeOK, InBatch, Stored
<1>1. LogInv'
  BY <1>0, NextLogInv
<1>2. IndexAgrees(db') /\ SpacesConfigured(db')
  BY <1>0, StepOfDB, OperationIndex, OperationConfigured
<1>3. ASSUME InBatch' PROVE IndexAgrees(tx'.work) /\ SpacesConfigured(tx'.work)
  BY <1>0, <1>3, StepOfWork, OperationIndex, OperationConfigured DEF Operates, InBatch
<1>4. WorkKeepsSpaces'
  BY NextWorkKeepsSpaces
<1>5. WorkAsAsked'
  BY <1>0, NextWorkAsAsked DEF SpaceInv
<1>. QED  BY <1>1, <1>2, <1>3, <1>4, <1>5 DEF SpaceInv

-------------------------------------------------------------------------------
(* The properties. *)

\* The membership keys of a space are its live memories and the persisted
\* counters their numbers by kind, after any mix of updates, promotions,
\* forgets, revives and batches (incrementLiveKindCount, addSpaceMemoryID).
THEOREM LiveIndexIsExact == Spec => []LiveIndexAgrees
<1>1. SpaceInv => LiveIndexAgrees
  <2>. SUFFICES ASSUME SpaceInv
       PROVE  LiveIndexAgrees
    OBVIOUS
  <2>1. {i \in MemoryIDs : Live(i)} = {i \in Stored(db) : db.memories[i].isLatest}
    BY DEF Live, Stored
  <2>2. \A space, kind : LiveOf(space, kind) = Current(db, space, kind)
    BY DEF LiveOf, Live, Current, Stored
  <2>. QED  BY <2>1, <2>2 DEF SpaceInv, IndexAgrees, LiveIndexAgrees
<1>. QED  BY <1>1, InitSpaceInv, NextSpaceInv, PTL DEF Spec

\* What a commit does, or one operation.
LEMMA StepOfSpaces ==
  ASSUME SpaceInv, [Next]_vars
  PROVE  \/ db' = db
         \/ Operates(Stored(db), db, db')
         \/ /\ InBatch /\ db' = tx.work
            /\ WorkKeepsSpaces
BY StepOfDB DEF SpaceInv, LogInv, ChainInv

\* A layer that grows ends within its limit, unless it grew by a Revive: over
\* the items of a batch, and over a promotion, which moves a memory between the
\* layers (wouldExceedCorpusLimit, which reads only the counters).
THEOREM LimitsAreRespected == Spec => RememberRespectsLimits
<1>. DEFINE Step == ~Revived =>
         \A space \in Spaces, layer \in {StaticLayer, EpisodicLayer} :
           LayerSize(space, layer)' > LayerSize(space, layer) =>
             LayerSize(space, layer)' <= LimitOf(space, layer)
<1>1. SpaceInv /\ [Next]_vars => [Step]_vars
  <2>. SUFFICES ASSUME SpaceInv, [Next]_vars, ~Revived
       PROVE  \A space \in Spaces, layer \in {StaticLayer, EpisodicLayer} :
                LayerSize(space, layer)' > LayerSize(space, layer) =>
                  LayerSize(space, layer)' <= LimitOf(space, layer)
    OBVIOUS
  <2>1. WithinLimits(db, db')
    <3>1. db \in DB /\ Stored(db) \in SUBSET MemoryIDs /\ IndexAgrees(db) /\ Logged(db)
      BY DEF SpaceInv, LogInv, ChainInv, HInv, IInv, TypeOK, Stored
    <3>2. CASE Operates(Stored(db), db, db')
      <4>1. ~Revives(db, db')
        BY <3>1, ReviveIsLogged DEF Revived
      <4>. QED  BY <3>1, <3>2, <4>1, OperationWithin
    <3>3. CASE InBatch /\ db' = tx.work /\ WorkKeepsSpaces
      BY <3>3 DEF WorkKeepsSpaces
    <3>. QED  BY <3>2, <3>3, StepOfSpaces, CopyKeepsSpaces
  <2>2. \A space, kind : /\ LiveOf(space, kind) = Current(db, space, kind)
                         /\ LiveOf(space, kind)' = Current(db', space, kind)
    BY DEF LiveOf, Live, Current, Stored
  <2>3. \A space, layer : /\ LayerSize(space, layer) = SizeOf(db, space, layer)
                          /\ LayerSize(space, layer)' = SizeOf(db', space, layer)
    BY <2>2 DEF LayerSize, SizeOf
  <2>4. \A space, layer : LimitOf(space, layer) = LimitIn(db, space, layer)
    BY DEF LimitOf, LimitIn
  <2>. QED  BY <2>1, <2>3, <2>4 DEF WithinLimits
<1>. QED  BY <1>1, InitSpaceInv, NextSpaceInv, PTL DEF Spec, RememberRespectsLimits

\* A batch reaches the readers whole or not at all: with a memory for each item
\* it was asked to remember, or with every id forgotten that it was asked to
\* forget (RememberBatch, ForgetBatch).
THEOREM BatchesAreAtomic == Spec => BatchAtomic
<1>1. ASSUME SpaceInv, [Next]_vars, db' # db
      PROVE  /\ Running("remember") =>
                  Cardinality(Stored(db') \ Stored(db)) = tx.size
             /\ Running("forget") =>
                  ForgottenIn(db') = ForgottenIn(db) \cup tx.asked
  <2>0. TypeOK
    BY <1>1 DEF SpaceInv, LogInv, ChainInv, HInv, IInv
  <2>1. ASSUME Running("remember")
        PROVE  Cardinality(Stored(db') \ Stored(db)) = tx.size
    <3>1. RememberBatchCommit
      BY <1>1, <2>1 DEF Next, TxStep, Remember, Forget, EnsureSpace,
           UpdateSpaceConfig, BeginEmbeddingMigration, MigrateEmbeddings,
           RememberBatchBegin, ForgetBatchBegin, ReviveBegin, RememberBatchItem,
           RememberBatchFail, ForgetBatchItem, ForgetBatchFail, ForgetBatchCommit,
           ReviveSkip, ReviveSuperseded, ReviveCommit, ReviveMiss, Crash, Rollback,
           Running, vars
    <3>2. db' = tx.work /\ tx.left = 0
      BY <3>1 DEF RememberBatchCommit, Commit
    <3>3. Cardinality(Stored(db') \ Stored(db)) + 0 = tx.size
      BY <1>1, <2>1, <3>2 DEF SpaceInv, WorkAsAsked
    <3>4. Cardinality(Stored(db') \ Stored(db)) \in Nat
      <4>1. Stored(db') \ Stored(db) \in SUBSET MemoryIDs
        BY DEF Stored
      <4>2. IsFiniteSet(Stored(db') \ Stored(db))
        BY <4>1, IDsAssumption, FS_Subset
      <4>. QED  BY <4>2, FS_CardinalityType
    <3>. QED  BY <3>3, <3>4
  <2>2. ASSUME Running("forget")
        PROVE  ForgottenIn(db') = ForgottenIn(db) \cup tx.asked
    <3>1. ForgetBatchCommit
      BY <1>1, <2>2 DEF Next, TxStep, Remember, Forget, EnsureSpace,
           UpdateSpaceConfig, BeginEmbeddingMigration, MigrateEmbeddings,
           RememberBatchBegin, ForgetBatchBegin, ReviveBegin, RememberBatchItem,
           RememberBatchFail, RememberBatchCommit, ForgetBatchItem, ForgetBatchFail,
           ReviveSkip, ReviveSuperseded, ReviveCommit, ReviveMiss, Crash, Rollback,
           Running, vars
    <3>2. db' = tx.work /\ tx.ids = {}
      BY <3>1 DEF ForgetBatchCommit, Commit
    <3>3. ForgottenIn(tx.work) = ForgottenIn(db) \cup (tx.asked \ tx.ids)
      BY <1>1, <2>2 DEF SpaceInv, WorkAsAsked
    <3>. QED  BY <3>2, <3>3
  <2>. QED  BY <2>1, <2>2
<1>2. SpaceInv /\ [Next]_vars =>
        [db' # db =>
           /\ Running("remember") =>
                Cardinality(Stored(db') \ Stored(db)) = tx.size
           /\ Running("forget") =>
                ForgottenIn(db') = ForgottenIn(db) \cup tx.asked]_vars
  BY <1>1
<1>. QED  BY <1>2, InitSpaceInv, NextSpaceInv, PTL DEF Spec, BatchAtomic

\* Nothing is written to a space between the two transactions of a migration
\* (ensureSpaceWritable in every write).
THEOREM MigrationsLock == Spec => MigrationLocksSpace
<1>1. SpaceInv /\ [Next]_vars =>
        [\A space \in Spaces :
           MigratingIn(db, space) /\ MigratingIn(db', space) =>
             MemoriesOf(db', space) = MemoriesOf(db, space)]_vars
  <2>. SUFFICES ASSUME SpaceInv, [Next]_vars, NEW space \in Spaces,
                       MigratingIn(db, space), MigratingIn(db', space)
       PROVE  MemoriesOf(db', space) = MemoriesOf(db, space)
    OBVIOUS
  <2>1. db \in DB /\ Stored(db) \in SUBSET MemoryIDs
    BY DEF SpaceInv, LogInv, ChainInv, HInv, IInv, TypeOK, Stored
  <2>2. CASE Operates(Stored(db), db, db')
    BY <2>1, <2>2, OperationKeepsLocked
  <2>3. CASE InBatch /\ db' = tx.work /\ WorkKeepsSpaces
    BY <2>3 DEF WorkKeepsSpaces, LockedKept
  <2>4. CASE db' = db
    BY <2>4
  <2>. QED  BY <2>2, <2>3, <2>4, StepOfSpaces
<1>. QED  BY <1>1, InitSpaceInv, NextSpaceInv, PTL DEF Spec, MigrationLocksSpace

\* A migration leaves every version of the space, live or not, with a vector
\* of the new model in both places that hold one (MigrateEmbeddings).
THEOREM MigrationsUnify == Spec => MigrationUnifiesVectors
<1>1. SpaceInv /\ [Next]_vars =>
        [\A space \in Spaces :
           MigratingIn(db, space) /\ ~MigratingIn(db', space) =>
             \A m \in MemoriesOf(db', space) :
               /\ m[2].embedding = db'.spacesConfig[space].model
               /\ db'.embeddings[m[1]] = m[2].embedding]_vars
  <2>. SUFFICES ASSUME SpaceInv, [Next]_vars, NEW space \in Spaces,
                       MigratingIn(db, space), ~MigratingIn(db', space),
                       NEW m \in MemoriesOf(db', space)
       PROVE  /\ m[2].embedding = db'.spacesConfig[space].model
              /\ db'.embeddings[m[1]] = m[2].embedding
    OBVIOUS
  <2>1. db \in DB /\ Stored(db) \in SUBSET MemoryIDs
    BY DEF SpaceInv, LogInv, ChainInv, HInv, IInv, TypeOK, Stored
  <2>2. CASE Operates(Stored(db), db, db')
    BY <2>1, <2>2, UnlockedIsUnified
  <2>3. CASE InBatch /\ db' = tx.work /\ WorkKeepsSpaces
    BY <2>3 DEF WorkKeepsSpaces, MigratingIn
  <2>4. CASE db' = db
    BY <2>4
  <2>. QED  BY <2>2, <2>3, <2>4, StepOfSpaces
<1>. QED  BY <1>1, InitSpaceInv, NextSpaceInv, PTL DEF Spec, MigrationUnifiesVectors

-------------------------------------------------------------------------------
(* The index as the file has it. *)

\* The ids the index of a space holds, in either form.
Members(ix) == ix.keys \cup (IF ix.list = Nil THEN {} ELSE ix.list)

\* The index ix of a space whose live memories are live; operation is the one
\* that first asked for the counters.
AgreesWith(ix, live, operation) ==
  /\ ix \in Index
  /\ ix.list # Nil => ix.keys = {} /\ ix.counts = Nil
  /\ Members(ix) = live
  /\ ix.counts # Nil =>
       Total(ix.counts) = Cardinality(live) + Drift(operation)

\* The older program saves no keys and no counters, and lists no memory of a
\* space that has no configuration.
SavedByProgram(space) ==
  /\ program = "old" => index[space].keys = {} /\ index[space].counts = Nil
  /\ db.spacesConfig[space] = Nil => index[space].list = Nil

IndexesAgree ==
  /\ program \in {"old", "new"}
  /\ index \in [Spaces -> Index]
  /\ DOMAIN touched = Spaces
  /\ \A space \in Spaces :
       /\ AgreesWith(index[space], LiveIn(db, space), touched[space])
       /\ SavedByProgram(space)

IndexInv == SpaceInv /\ IndexesAgree

-------------------------------------------------------------------------------
(* Reading the index. *)

\* The memories of a set have kinds in d.
KindsKnown(d, S) == \A id \in S : d.memories[id].kind \in Kinds

\* Every reader takes the form that is there.
LEMMA LoadIsMembers ==
  ASSUME NEW ix \in Index, ix.list # Nil => ix.keys = {} /\ ix.counts = Nil
  PROVE  LoadSpaceMemoryIDs(ix) = Members(ix)
BY DEF LoadSpaceMemoryIDs, Members

\* Two sets that have nothing in common.
LEMMA DisjointAddUp ==
  ASSUME NEW S, NEW T, IsFiniteSet(S), IsFiniteSet(T), S \cap T = {}
  PROVE  /\ IsFiniteSet(S \cup T)
         /\ Cardinality(S \cup T) = Cardinality(S) + Cardinality(T)
<1>1. /\ IsFiniteSet(S \cup T)
      /\ Cardinality(S \cup T)
           = Cardinality(S) + Cardinality(T) - Cardinality(S \cap T)
  BY FS_Union
<1>2. Cardinality(S \cap T) = 0
  BY FS_EmptySet
<1>3. Cardinality(S) \in Nat /\ Cardinality(T) \in Nat
  BY FS_CardinalityType
<1>. QED  BY <1>1, <1>2, <1>3

\* What a scan counts by kind adds up to what it went over.
LEMMA ScanAddsUp ==
  ASSUME NEW d, NEW ix \in Index, LoadSpaceMemoryIDs(ix) \in SUBSET MemoryIDs,
         KindsKnown(d, LoadSpaceMemoryIDs(ix))
  PROVE  /\ CountLiveKindsByScan(d, ix) \in [Kinds -> Int]
         /\ Total(CountLiveKindsByScan(d, ix))
              = Cardinality(LoadSpaceMemoryIDs(ix))
<1>. DEFINE L == LoadSpaceMemoryIDs(ix)
            Of(kind) == {id \in L : d.memories[id].kind = kind}
<1>1. \A kind : IsFiniteSet(Of(kind)) /\ Cardinality(Of(kind)) \in Nat
  <2>1. \A kind : Of(kind) \in SUBSET MemoryIDs
    OBVIOUS
  <2>2. \A kind : IsFiniteSet(Of(kind))
    BY <2>1, IDsAssumption, FS_Subset
  <2>. QED  BY <2>2, FS_CardinalityType
<1>2. L = (Of("static") \cup Of("derived")) \cup Of("episodic")
  BY DEF Kinds, KindsKnown
<1>3. /\ Of("static") \cap Of("derived") = {}
      /\ (Of("static") \cup Of("derived")) \cap Of("episodic") = {}
  OBVIOUS
<1>4. \A kind \in Kinds : CountLiveKindsByScan(d, ix)[kind] = Cardinality(Of(kind))
  BY DEF CountLiveKindsByScan
<1>5. CountLiveKindsByScan(d, ix) = [kind \in Kinds |-> Cardinality(Of(kind))]
  BY DEF CountLiveKindsByScan
<1>. HIDE DEF Of, L
<1>6. /\ IsFiniteSet(Of("static") \cup Of("derived"))
      /\ Cardinality(Of("static") \cup Of("derived"))
           = Cardinality(Of("static")) + Cardinality(Of("derived"))
  BY <1>1, <1>3, DisjointAddUp
<1>7. Cardinality(L) = Cardinality(Of("static")) + Cardinality(Of("derived"))
                         + Cardinality(Of("episodic"))
  BY <1>1, <1>2, <1>3, <1>6, DisjointAddUp
<1>8. Total(CountLiveKindsByScan(d, ix))
        = Cardinality(Of("static")) + Cardinality(Of("derived"))
            + Cardinality(Of("episodic"))
  BY <1>4 DEF Total, Kinds
<1>9. CountLiveKindsByScan(d, ix) \in [Kinds -> Int]
  BY <1>1, <1>5
<1>. QED  BY <1>7, <1>8, <1>9 DEF L

\* Loading the counters saves them, exact when they had to be scanned, and
\* leaves the ids where they are.
LEMMA WithCountsAdds ==
  ASSUME NEW d, NEW ix \in Index, LoadSpaceMemoryIDs(ix) \in SUBSET MemoryIDs,
         KindsKnown(d, LoadSpaceMemoryIDs(ix))
  PROVE  LET counted == WithCounts(d, ix)
         IN  /\ counted \in Index /\ counted.counts \in [Kinds -> Int]
             /\ counted.counts # Nil
             /\ counted.keys = ix.keys /\ counted.list = ix.list
             /\ Total(counted.counts) =
                  IF ix.counts = Nil THEN Cardinality(LoadSpaceMemoryIDs(ix))
                                     ELSE Total(ix.counts)
<1>1. CountLiveKindsByScan(d, ix) \in [Kinds -> Int]
  BY ScanAddsUp
<1>2. LoadLiveKindCounts(d, ix) \in [Kinds -> Int]
  BY <1>1 DEF LoadLiveKindCounts, Index
<1>3. /\ WithCounts(d, ix).counts = LoadLiveKindCounts(d, ix)
      /\ WithCounts(d, ix).keys = ix.keys /\ WithCounts(d, ix).list = ix.list
      /\ WithCounts(d, ix) \in Index
  BY <1>2 DEF WithCounts, Index
<1>4. Total(LoadLiveKindCounts(d, ix)) =
        IF ix.counts = Nil THEN Cardinality(LoadSpaceMemoryIDs(ix))
                           ELSE Total(ix.counts)
  BY ScanAddsUp DEF LoadLiveKindCounts
<1>5. LoadLiveKindCounts(d, ix) # Nil
  BY <1>2, IndexAssumption
<1>. QED  BY <1>2, <1>3, <1>4, <1>5

\* A counter that is incremented is loaded first.
LEMMA IncrementAdds ==
  ASSUME NEW d, NEW ix \in Index, LoadSpaceMemoryIDs(ix) \in SUBSET MemoryIDs,
         KindsKnown(d, LoadSpaceMemoryIDs(ix)),
         NEW kind \in Kinds, NEW delta \in Int
  PROVE  LET more == IncrementLiveKindCount(d, ix, kind, delta)
         IN  /\ more \in Index /\ more.counts # Nil
             /\ more.keys = ix.keys /\ more.list = ix.list
             /\ Total(more.counts) = delta +
                  IF ix.counts = Nil THEN Cardinality(LoadSpaceMemoryIDs(ix))
                                     ELSE Total(ix.counts)
<1>. DEFINE counted == WithCounts(d, ix)
            more == IncrementLiveKindCount(d, ix, kind, delta)
            counts == [counted.counts EXCEPT ![kind] = @ + delta]
<1>1. /\ counted \in Index /\ counted.counts \in [Kinds -> Int]
      /\ counted.keys = ix.keys /\ counted.list = ix.list
      /\ Total(counted.counts) =
           IF ix.counts = Nil THEN Cardinality(LoadSpaceMemoryIDs(ix))
                              ELSE Total(ix.counts)
  BY WithCountsAdds
<1>2. more = [counted EXCEPT !.counts = counts]
  BY DEF IncrementLiveKindCount
<1>. HIDE DEF counted, more
<1>3. counts \in [Kinds -> Int]
  BY <1>1
<1>4. Total(counts) = Total(counted.counts) + delta
  BY <1>1 DEF Total, Kinds
<1>5. Total(counted.counts) \in Int
  BY <1>1 DEF Total, Kinds
<1>6. counts # Nil
  BY <1>3, IndexAssumption
<1>. HIDE DEF counts
<1>7. /\ more \in Index /\ more.counts = counts
      /\ more.keys = ix.keys /\ more.list = ix.list
  BY <1>1, <1>2, <1>3 DEF Index
<1>8. Total(more.counts) = delta + Total(counted.counts)
  BY <1>4, <1>5, <1>7
<1>. QED  BY <1>1, <1>6, <1>7, <1>8 DEF more

\* Writing a member turns the list into keys.
LEMMA ListMoves ==
  ASSUME NEW ix \in Index
  PROVE  /\ MigrateLegacySpaceMemoryIDs(ix) \in Index
         /\ MigrateLegacySpaceMemoryIDs(ix).list = Nil
         /\ MigrateLegacySpaceMemoryIDs(ix).counts = ix.counts
         /\ MigrateLegacySpaceMemoryIDs(ix).keys = Members(ix)
BY DEF MigrateLegacySpaceMemoryIDs, Members, Index

\* A member that comes.
LEMMA AddMoves ==
  ASSUME NEW ix \in Index, NEW id \in MemoryIDs
  PROVE  /\ AddSpaceMemoryID(ix, id) \in Index
         /\ AddSpaceMemoryID(ix, id).list = Nil
         /\ AddSpaceMemoryID(ix, id).counts = ix.counts
         /\ AddSpaceMemoryID(ix, id).keys = Members(ix) \cup {id}
BY ListMoves DEF AddSpaceMemoryID, Index

\* A member that goes.
LEMMA RemoveMoves ==
  ASSUME NEW ix \in Index, NEW id \in MemoryIDs
  PROVE  /\ RemoveSpaceMemoryID(ix, id) \in Index
         /\ RemoveSpaceMemoryID(ix, id).list = Nil
         /\ RemoveSpaceMemoryID(ix, id).counts = ix.counts
         /\ RemoveSpaceMemoryID(ix, id).keys = Members(ix) \ {id}
BY ListMoves DEF RemoveSpaceMemoryID, Index

\* An index that is all keys.
LEMMA KeysAreMembers ==
  ASSUME NEW ix, ix.list = Nil
  PROVE  LoadSpaceMemoryIDs(ix) = ix.keys /\ Members(ix) = ix.keys
BY DEF LoadSpaceMemoryIDs, Members

-------------------------------------------------------------------------------
(* Writing the index. *)

\* An index that is all keys stays so when a counter is incremented.
LEMMA IncrementKeys ==
  ASSUME NEW d, NEW ix \in Index, ix.list = Nil, ix.keys \in SUBSET MemoryIDs,
         KindsKnown(d, ix.keys), NEW kind \in Kinds, NEW delta \in Int,
         NEW more, more = IncrementLiveKindCount(d, ix, kind, delta)
  PROVE  /\ more \in Index /\ more.list = Nil /\ more.keys = ix.keys
         /\ more.counts # Nil
         /\ ix.counts = Nil => Total(more.counts) = delta + Cardinality(ix.keys)
         /\ ix.counts # Nil => Total(more.counts) = delta + Total(ix.counts)
<1>1. LoadSpaceMemoryIDs(ix) = ix.keys
  BY KeysAreMembers
<1>2. /\ LoadSpaceMemoryIDs(ix) \in SUBSET MemoryIDs
      /\ KindsKnown(d, LoadSpaceMemoryIDs(ix))
  BY <1>1
<1>. QED  BY <1>1, <1>2, IncrementAdds

\* The drift of an operation is a number, and a Remember has none.
LEMMA DriftValues ==
  ASSUME NEW operation
  PROVE  /\ Drift(operation) \in Int
         /\ Drift("remember") = 0 /\ Drift("init") = 0
         /\ Drift("forget") = -1 /\ Drift("revive") = 1
BY DEF Drift

\* An index that is all keys and has counters agrees if its counters do.
LEMMA KeysAgree ==
  ASSUME NEW ix \in Index, NEW live, NEW operation, ix.list = Nil,
         ix.keys = live, Total(ix.counts) = Cardinality(live) + Drift(operation)
  PROVE  AgreesWith(ix, live, operation)
BY DEF AgreesWith, Members

\* What is loaded from an index that agrees.
LEMMA AgreedIsLoaded ==
  ASSUME NEW ix, NEW live \in SUBSET MemoryIDs, NEW operation,
         AgreesWith(ix, live, operation)
  PROVE  /\ ix \in Index /\ LoadSpaceMemoryIDs(ix) = live /\ Members(ix) = live
         /\ Cardinality(live) \in Nat
         /\ ix.counts # Nil =>
              Total(ix.counts) = Cardinality(live) + Drift(operation)
<1>1. IsFiniteSet(live)
  BY IDsAssumption, FS_Subset
<1>2. Cardinality(live) \in Nat
  BY <1>1, FS_CardinalityType
<1>3. LoadSpaceMemoryIDs(ix) = Members(ix)
  BY LoadIsMembers DEF AgreesWith
<1>. QED  BY <1>2, <1>3 DEF AgreesWith

\* How many memories are live when one comes or goes.
LEMMA LiveCounted ==
  ASSUME NEW live \in SUBSET MemoryIDs
  PROVE  /\ Cardinality(live) \in Nat
         /\ \A id \in MemoryIDs \ live :
              Cardinality(live \cup {id}) = Cardinality(live) + 1
         /\ \A id \in live : Cardinality(live \ {id}) = Cardinality(live) - 1
<1>1. IsFiniteSet(live)
  BY IDsAssumption, FS_Subset
<1>. QED  BY <1>1, FS_CardinalityType, FS_AddElement, FS_RemoveElement

\* A Remember loads the counters before it moves the members, so a scan finds
\* the members as the counters are to have them.
LEMMA RememberAgrees ==
  ASSUME NEW d, NEW e, NEW ix, NEW live \in SUBSET MemoryIDs, NEW operation,
         AgreesWith(ix, live, operation), NEW id \in MemoryIDs \ live,
         KindsKnown(d, live), KindsKnown(e, live \cup {id}),
         e.memories[id].parentID \in live \cup {Nil}
  PROVE  AgreesWith(RememberIndex(d, e, ix, id),
                    (live \ {e.memories[id].parentID}) \cup {id},
                    IF ix.counts = Nil THEN "remember" ELSE operation)
<1>. DEFINE parent == e.memories[id].parentID
            kind == e.memories[id].kind
            counted == WithCounts(d, ix)
            first == IF ix.counts = Nil THEN "remember" ELSE operation
<1>0. kind \in Kinds /\ Nil \notin live /\ Nil \notin MemoryIDs
  BY NilAssumption DEF KindsKnown
<1>1. /\ ix \in Index /\ LoadSpaceMemoryIDs(ix) = live /\ Members(ix) = live
      /\ Cardinality(live) \in Nat
      /\ ix.counts # Nil =>
           Total(ix.counts) = Cardinality(live) + Drift(operation)
  BY AgreedIsLoaded
<1>2. /\ counted \in Index /\ counted.counts # Nil
      /\ counted.keys = ix.keys /\ counted.list = ix.list
      /\ Total(counted.counts) =
           IF ix.counts = Nil THEN Cardinality(live) ELSE Total(ix.counts)
  BY <1>1, WithCountsAdds
<1>. HIDE DEF counted
<1>3. Members(counted) = live
  BY <1>1, <1>2 DEF Members
<1>4. Total(counted.counts) = Cardinality(live) + Drift(first)
  BY <1>1, <1>2, DriftValues
<1>5. Drift(first) \in Int
  BY DriftValues
<1>. HIDE DEF first
<1>6. CASE parent = Nil
  <2>. DEFINE added == AddSpaceMemoryID(counted, id)
              more == IncrementLiveKindCount(e, added, kind, 1)
  <2>1. /\ added \in Index /\ added.list = Nil /\ added.counts = counted.counts
        /\ added.keys = live \cup {id}
    BY <1>2, <1>3, AddMoves
  <2>. HIDE DEF added
  <2>2. added.keys \in SUBSET MemoryIDs /\ KindsKnown(e, added.keys)
    BY <2>1
  <2>3. /\ more \in Index /\ more.list = Nil /\ more.keys = live \cup {id}
        /\ Total(more.counts) = 1 + Total(counted.counts)
    BY <1>0, <1>2, <2>1, <2>2, IncrementKeys
  <2>. HIDE DEF more
  <2>4. Cardinality(live \cup {id}) = Cardinality(live) + 1
    BY LiveCounted
  <2>5. Total(more.counts) = Cardinality(live \cup {id}) + Drift(first)
    BY <1>1, <1>4, <1>5, <2>3, <2>4
  <2>6. AgreesWith(more, live \cup {id}, first)
    BY <2>3, <2>5, KeysAgree
  <2>7. RememberIndex(d, e, ix, id) = more /\ live \ {parent} = live
    BY <1>0, <1>6 DEF RememberIndex, more, added, counted
  <2>. QED  BY <2>6, <2>7 DEF first
<1>7. CASE parent # Nil
  <2>. DEFINE removed == RemoveSpaceMemoryID(counted, parent)
              added == AddSpaceMemoryID(removed, id)
              old == d.memories[parent].kind
              less == IncrementLiveKindCount(e, added, old, -1)
              more == IncrementLiveKindCount(e, less, kind, 1)
              next == (live \ {parent}) \cup {id}
  <2>0. parent \in live /\ parent \in MemoryIDs /\ old \in Kinds /\ id # parent
    BY <1>7 DEF KindsKnown
  <2>1. /\ removed \in Index /\ removed.list = Nil
        /\ removed.counts = counted.counts /\ removed.keys = live \ {parent}
    BY <1>2, <1>3, <2>0, RemoveMoves
  <2>. HIDE DEF removed
  <2>2. /\ added \in Index /\ added.list = Nil /\ added.counts = counted.counts
        /\ added.keys = next
    <3>1. Members(removed) = live \ {parent}
      BY <2>1, KeysAreMembers
    <3>2. /\ added \in Index /\ added.list = Nil /\ added.counts = removed.counts
          /\ added.keys = (live \ {parent}) \cup {id}
      BY <2>1, <3>1, AddMoves
    <3>. HIDE DEF added, parent
    <3>. QED  BY <2>1, <3>2
  <2>. HIDE DEF added
  <2>4. next \in SUBSET MemoryIDs /\ KindsKnown(e, next)
    BY DEF KindsKnown
  <2>. HIDE DEF next, old
  <2>5. /\ less \in Index /\ less.list = Nil /\ less.keys = next
        /\ less.counts # Nil
        /\ Total(less.counts) = -1 + Total(counted.counts)
    BY <1>2, <2>0, <2>2, <2>4, IncrementKeys
  <2>. HIDE DEF less
  <2>7. /\ more \in Index /\ more.list = Nil /\ more.keys = next
        /\ Total(more.counts) = 1 + Total(less.counts)
    BY <1>0, <2>4, <2>5, IncrementKeys
  <2>. HIDE DEF more
  <2>8. Cardinality(next) = Cardinality(live)
    <3>1. /\ live \ {parent} \in SUBSET MemoryIDs
          /\ id \in MemoryIDs \ (live \ {parent})
      OBVIOUS
    <3>2. Cardinality(next) = Cardinality(live \ {parent}) + 1
      BY <3>1, LiveCounted DEF next
    <3>3. Cardinality(live \ {parent}) = Cardinality(live) - 1
      BY <2>0, LiveCounted
    <3>. QED  BY <1>1, <3>2, <3>3
  <2>9. Total(more.counts) = Cardinality(next) + Drift(first)
    BY <1>1, <1>4, <1>5, <2>5, <2>7, <2>8
  <2>10. AgreesWith(more, next, first)
    BY <2>7, <2>9, KeysAgree
  <2>11. RememberIndex(d, e, ix, id) = more
    BY <1>7 DEF RememberIndex, more, less, added, removed, counted, old
  <2>. QED  BY <2>10, <2>11 DEF first, next
<1>. QED  BY <1>6, <1>7

\* A Forget takes the member out and then counts it out: a scan in between has
\* counted it out already.
LEMMA ForgetAgrees ==
  ASSUME NEW d, NEW e, NEW ix, NEW live \in SUBSET MemoryIDs, NEW operation,
         AgreesWith(ix, live, operation), NEW id \in live,
         KindsKnown(d, live), KindsKnown(e, live)
  PROVE  AgreesWith(ForgetIndex(d, e, ix, id), live \ {id},
                    IF ix.counts = Nil THEN "forget" ELSE operation)
<1>. DEFINE removed == RemoveSpaceMemoryID(ix, id)
            kind == d.memories[id].kind
            less == IncrementLiveKindCount(e, removed, kind, -1)
            first == IF ix.counts = Nil THEN "forget" ELSE operation
            next == live \ {id}
<1>1. /\ ix \in Index /\ Members(ix) = live /\ Cardinality(live) \in Nat
      /\ ix.counts # Nil =>
           Total(ix.counts) = Cardinality(live) + Drift(operation)
  BY AgreedIsLoaded
<1>2. /\ removed \in Index /\ removed.list = Nil /\ removed.counts = ix.counts
      /\ removed.keys = next
  BY <1>1, RemoveMoves
<1>. HIDE DEF removed
<1>4. /\ next \in SUBSET MemoryIDs /\ KindsKnown(e, next)
      /\ kind \in Kinds
  BY DEF KindsKnown
<1>5. Cardinality(next) = Cardinality(live) - 1
  BY LiveCounted
<1>. HIDE DEF next, kind
<1>6. /\ less \in Index /\ less.list = Nil /\ less.keys = next
      /\ Total(less.counts) = -1 +
           IF ix.counts = Nil THEN Cardinality(next) ELSE Total(ix.counts)
  BY <1>2, <1>4, IncrementKeys
<1>. HIDE DEF less
<1>7. Total(less.counts) = Cardinality(next) + Drift(first)
  <2>1. Cardinality(next) \in Int
    BY <1>1, <1>5
  <2>2. CASE ix.counts = Nil
    BY <1>6, <2>1, <2>2, DriftValues
  <2>3. CASE ix.counts # Nil
    <3>1. first = operation /\ Drift(operation) \in Int
      BY <2>3, DriftValues
    <3>2. Total(less.counts) = -1 + (Cardinality(live) + Drift(operation))
      BY <1>1, <1>6, <2>3
    <3>. HIDE DEF first
    <3>. QED  BY <1>1, <1>5, <3>1, <3>2
  <2>. QED  BY <2>2, <2>3
<1>. HIDE DEF first
<1>8. AgreesWith(less, next, first)
  BY <1>6, <1>7, KeysAgree
<1>. QED  BY <1>8 DEF less, removed, kind, first, next, ForgetIndex

\* A Revive puts the member in and then counts it in: a scan in between has
\* counted it in already.
LEMMA ReviveAgrees ==
  ASSUME NEW d, NEW e, NEW ix, NEW live \in SUBSET MemoryIDs, NEW operation,
         AgreesWith(ix, live, operation), NEW id \in MemoryIDs \ live,
         KindsKnown(e, live \cup {id})
  PROVE  AgreesWith(ReviveIndex(d, e, ix, id), live \cup {id},
                    IF ix.counts = Nil THEN "revive" ELSE operation)
<1>. DEFINE added == AddSpaceMemoryID(ix, id)
            kind == e.memories[id].kind
            more == IncrementLiveKindCount(e, added, kind, 1)
            first == IF ix.counts = Nil THEN "revive" ELSE operation
            next == live \cup {id}
<1>1. /\ ix \in Index /\ Members(ix) = live /\ Cardinality(live) \in Nat
      /\ ix.counts # Nil =>
           Total(ix.counts) = Cardinality(live) + Drift(operation)
  BY AgreedIsLoaded
<1>2. /\ added \in Index /\ added.list = Nil /\ added.counts = ix.counts
      /\ added.keys = next
  BY <1>1, AddMoves
<1>. HIDE DEF added
<1>4. /\ next \in SUBSET MemoryIDs /\ KindsKnown(e, next)
      /\ kind \in Kinds
  BY DEF KindsKnown
<1>5. Cardinality(next) = Cardinality(live) + 1
  BY LiveCounted
<1>. HIDE DEF next, kind
<1>6. /\ more \in Index /\ more.list = Nil /\ more.keys = next
      /\ Total(more.counts) = 1 +
           IF ix.counts = Nil THEN Cardinality(next) ELSE Total(ix.counts)
  BY <1>2, <1>4, IncrementKeys
<1>. HIDE DEF more
<1>7. Total(more.counts) = Cardinality(next) + Drift(first)
  <2>1. Cardinality(next) \in Int
    BY <1>1, <1>5
  <2>2. CASE ix.counts = Nil
    BY <1>6, <2>1, <2>2, DriftValues
  <2>3. CASE ix.counts # Nil
    <3>1. first = operation /\ Drift(operation) \in Int
      BY <2>3, DriftValues
    <3>2. Total(more.counts) = 1 + (Cardinality(live) + Drift(operation))
      BY <1>1, <1>6, <2>3
    <3>. HIDE DEF first
    <3>. QED  BY <1>1, <1>5, <3>1, <3>2
  <2>. QED  BY <2>2, <2>3
<1>. HIDE DEF first
<1>8. AgreesWith(more, next, first)
  BY <1>6, <1>7, KeysAgree
<1>. QED  BY <1>8 DEF more, added, kind, first, next, ReviveIndex

-------------------------------------------------------------------------------
(* What the operations do to the live memories of a space. *)

\* Live memories are memories of the space, and have kinds.
LEMMA LiveTypes ==
  ASSUME NEW d \in DB, NEW space
  PROVE  /\ LiveIn(d, space) \in SUBSET MemoryIDs
         /\ LiveIn(d, space) \subseteq Stored(d)
         /\ KindsKnown(d, Stored(d)) /\ KindsKnown(d, LiveIn(d, space))
<1>1. \A id \in Stored(d) : d.memories[id].kind \in Kinds
  BY StoredType DEF Memory
<1>. QED  BY <1>1 DEF LiveIn, Stored, KindsKnown

\* What stays stored keeps its kind.
LEMMA KindsStay ==
  ASSUME NEW d \in DB, NEW e, KeepsHistory(d, e), NEW space
  PROVE  KindsKnown(e, LiveIn(d, space))
<1>1. \A m \in Stored(d) : e.memories[m].kind = d.memories[m].kind
  BY FrozenFields
<1>. QED  BY <1>1, LiveTypes DEF KindsKnown, LiveIn

\* e is d with the live memory out gone, none when out is Nil, and the live
\* memory in come to the space where.
LiveMoves(d, e, where, out, in) ==
  /\ where \in Spaces
  /\ in \in MemoryIDs \ Stored(d) /\ in \in Stored(e)
  /\ e.memories[in].spaceID = where /\ e.memories[in].kind \in Kinds
  /\ out \in LiveIn(d, where) \cup {Nil}
  /\ LiveIn(e, where) = (LiveIn(d, where) \ {out}) \cup {in}
  /\ \A space \in Spaces \ {where} : LiveIn(e, space) = LiveIn(d, space)

\* A Remember brings the memory it adds, for the one it updates.
LEMMA RememberBrings ==
  ASSUME NEW d \in DB, NEW known \in SUBSET MemoryIDs, NEW e,
         Remembers(known, d, e), NEW id \in Stored(e) \ Stored(d)
  PROVE  LiveMoves(d, e, e.memories[id].spaceID, e.memories[id].parentID, id)
<1>1. PICK a \in MemoryIDs \ Stored(d), input \in Inputs(known) :
      \E embedding \in Models :
        /\ RememberAllowed(d, input)
        /\ e = RememberPreparedInTx(d, input, a, embedding)
  BY DEF Remembers
<1>2. PICK embedding \in Models :
        /\ RememberAllowed(d, input)
        /\ e = RememberPreparedInTx(d, input, a, embedding)
  BY <1>1
<1>3. /\ Stored(e) = Stored(d) \cup {a}
      /\ input.updates # Nil =>
           /\ input.updates \in Stored(d)
           /\ d.memories[input.updates].spaceID = input.spaceID
           /\ d.memories[input.updates].isLatest
           /\ ~d.memories[input.updates].isForgotten
  BY <1>2, RememberEffect
<1>4. a = id
  BY <1>3
<1>5. PICK version \in Nat, root \in MemoryIDs \cup {Nil} :
        e.memories[a] = NewMemory(input, version, input.updates, root, embedding)
  BY <1>2, RememberEffect
<1>6. /\ e.memories[id].isLatest /\ ~e.memories[id].isForgotten
      /\ e.memories[id].spaceID = input.spaceID
      /\ e.memories[id].parentID = input.updates
      /\ e.memories[id].kind = input.kind
  BY <1>4, <1>5 DEF NewMemory
<1>7. input.spaceID \in Spaces /\ input.kind \in Kinds
  BY InputType
<1>8. \A m \in Stored(d) :
        /\ e.memories[m].isLatest <=> m # input.updates /\ d.memories[m].isLatest
        /\ e.memories[m].isForgotten <=> d.memories[m].isForgotten
  BY <1>2, RememberFlags
<1>9. \A m \in Stored(d) : e.memories[m].spaceID = d.memories[m].spaceID
  <2>1. KeepsHistory(d, e)
    BY <1>2, RememberKeeps
  <2>. QED  BY <2>1, FrozenFields
<1>10. input.updates \in LiveIn(d, input.spaceID) \cup {Nil}
  BY <1>3 DEF LiveIn
<1>11. LiveIn(e, input.spaceID)
         = (LiveIn(d, input.spaceID) \ {input.updates}) \cup {id}
  BY <1>3, <1>4, <1>6, <1>8, <1>9 DEF LiveIn
<1>12. ASSUME NEW space \in Spaces \ {input.spaceID}
       PROVE  LiveIn(e, space) = LiveIn(d, space)
  <2>1. input.updates \notin LiveIn(d, space)
    <3>1. Nil \notin Stored(d)
      BY NilAssumption DEF Stored
    <3>. QED  BY <1>3, <3>1 DEF LiveIn
  <2>2. \A m \in Stored(d) : m \in LiveIn(e, space) <=> m \in LiveIn(d, space)
    BY <1>3, <1>8, <1>9, <2>1 DEF LiveIn
  <2>3. id \notin LiveIn(e, space)
    BY <1>6 DEF LiveIn
  <2>. QED  BY <1>3, <1>4, <2>2, <2>3 DEF LiveIn
<1>. QED  BY <1>3, <1>4, <1>6, <1>7, <1>10, <1>11, <1>12 DEF LiveMoves

\* A Revive brings the memory it adds, for none.
LEMMA ReviveBrings ==
  ASSUME NEW d \in DB, NEW e, Revives(d, e), NEW id \in Stored(e) \ Stored(d)
  PROVE  LiveMoves(d, e, e.memories[id].spaceID, Nil, id)
<1>1. PICK root \in Stored(d), last \in Stored(d), a \in MemoryIDs \ Stored(d) :
        e = ReviveLineage(d, root, last, d.memories[root].kind, a)
  BY DEF Revives
<1>2. d.memories[root].kind \in Kinds /\ d.memories[root].spaceID \in Spaces
  BY StoredType DEF Memory
<1>3. /\ Stored(e) = Stored(d) \cup {a}
      /\ e.memories[a] = RevivedMemory(d, root, last, d.memories[root].kind)
      /\ \A m \in Stored(d) : e.memories[m] = d.memories[m]
  BY <1>1, <1>2, ReviveEffect
<1>4. a = id
  BY <1>3
<1>5. /\ e.memories[id].isLatest /\ ~e.memories[id].isForgotten
      /\ e.memories[id].spaceID = d.memories[root].spaceID
      /\ e.memories[id].kind = d.memories[root].kind
  BY <1>3, <1>4 DEF RevivedMemory
<1>6. Nil \notin Stored(d)
  BY NilAssumption DEF Stored
<1>7. \A space : \A m \in Stored(d) :
        m \in LiveIn(e, space) <=> m \in LiveIn(d, space)
  BY <1>3 DEF LiveIn
<1>8. \A space : id \in LiveIn(e, space) <=> space = d.memories[root].spaceID
  BY <1>3, <1>4, <1>5 DEF LiveIn
<1>9. \A space : LiveIn(e, space) \subseteq Stored(d) \cup {id}
                 /\ LiveIn(d, space) \subseteq Stored(d)
  BY <1>3, <1>4 DEF LiveIn
<1>10. \A space \in Spaces \ {d.memories[root].spaceID} :
         LiveIn(e, space) = LiveIn(d, space)
  BY <1>7, <1>8, <1>9
<1>11. LET where == d.memories[root].spaceID
       IN  LiveIn(e, where) = (LiveIn(d, where) \ {Nil}) \cup {id}
  BY <1>6, <1>7, <1>8, <1>9
<1>. QED  BY <1>2, <1>3, <1>4, <1>5, <1>10, <1>11 DEF LiveMoves

\* A Forget takes the memory away if it was live, and that is what its record
\* in the forget log shows.
LEMMA ForgetTakes ==
  ASSUME NEW d \in DB, Chains(d), Logged(d), NEW id \in Stored(d), NEW e,
         e = ForgetInTx(d, id)
  PROVE  /\ {m \in Stored(d) : d.memories[m].isLatest /\ m \in e.forgetLog}
              = IF d.memories[id].isLatest THEN {id} ELSE {}
         /\ \A space : LiveIn(e, space) = LiveIn(d, space) \ {id}
         /\ d.memories[id].isLatest => id \in LiveIn(d, d.memories[id].spaceID)
         /\ \A space : id \in LiveIn(d, space) => space = d.memories[id].spaceID
         /\ e.memories[id].spaceID = d.memories[id].spaceID
         /\ id \in Stored(e) /\ KeepsHistory(d, e)
<1>1. KeepsHistory(d, e)
  BY ForgetKeeps
<1>2. \A m \in Stored(d) : e.memories[m].spaceID = d.memories[m].spaceID
  BY <1>1, FrozenFields
<1>3. \A m \in Stored(d) : d.memories[m].isLatest => ~d.memories[m].isForgotten
  BY LiveIsRemembered
<1>4. \A m \in Stored(d) : m \in d.forgetLog <=> d.memories[m].isForgotten
  BY DEF Logged, ForgetsLogged
<1>5. CASE d.memories[id].isForgotten
  <2>1. e = d
    BY <1>5 DEF ForgetInTx
  <2>. QED  BY <1>1, <1>3, <1>4, <1>5, <2>1 DEF LiveIn
<1>6. CASE ~d.memories[id].isForgotten
  <2>1. /\ Stored(e) = Stored(d)
        /\ \A m \in Stored(d) :
             /\ e.memories[m].isForgotten <=> m = id \/ d.memories[m].isForgotten
             /\ e.memories[m].isLatest <=> m # id /\ d.memories[m].isLatest
    BY <1>6, ForgetEffect
  <2>2. e.forgetLog = d.forgetLog \cup {id}
    BY <1>6, ForgetLogs
  <2>3. {m \in Stored(d) : d.memories[m].isLatest /\ m \in e.forgetLog}
          = IF d.memories[id].isLatest THEN {id} ELSE {}
    BY <1>3, <1>4, <2>2
  <2>4. \A space : LiveIn(e, space) = LiveIn(d, space) \ {id}
    BY <1>2, <2>1 DEF LiveIn
  <2>5. d.memories[id].isLatest => id \in LiveIn(d, d.memories[id].spaceID)
    BY <1>6 DEF LiveIn
  <2>. QED  BY <1>1, <1>2, <2>1, <2>3, <2>4, <2>5 DEF LiveIn
<1>. QED  BY <1>5, <1>6

\* Where no memory changes, none comes or goes.
LEMMA SameLive ==
  ASSUME NEW d, NEW e, e.memories = d.memories, NEW space
  PROVE  LiveIn(e, space) = LiveIn(d, space)
BY DEF LiveIn, Stored

\* A space that has no configuration had none.
LEMMA ConfigsPersist ==
  ASSUME SpaceInv, [Next]_vars, NEW space \in Spaces,
         db'.spacesConfig[space] = Nil
  PROVE  db.spacesConfig[space] = Nil
<1>0. db \in DB /\ Stored(db) \in SUBSET MemoryIDs
  BY DEF SpaceInv, LogInv, ChainInv, HInv, IInv, TypeOK, Stored
<1>1. CASE Operates(Stored(db), db, db')
  BY <1>0, <1>1, WritesKeepConfigs, ConfigsStay DEF Operates
<1>2. CASE InBatch /\ db' = tx.work /\ WorkKeepsSpaces
  BY <1>2 DEF WorkKeepsSpaces
<1>. QED  BY <1>1, <1>2, StepOfSpaces

-------------------------------------------------------------------------------
(* Its invariant is inductive. *)

\* Every step of the index goes with a step of the store.
LEMMA IndexedSteps == [IndexNext]_<<vars, indexVars>> => [Next]_vars
BY DEF IndexNext, NewProgramStep, IndexedRemember, IndexedForget, IndexedRevive,
       IndexedEnsureSpace, Unindexed, OldProgramStep, Upgrade, Next, TxStep,
       vars, indexVars

\* What SpaceInv says of the database and its successor.
LEMMA StepDatabases ==
  ASSUME SpaceInv, [Next]_vars
  PROVE  /\ db \in DB /\ Stored(db) \in SUBSET MemoryIDs
         /\ Chains(db) /\ Logged(db) /\ SpacesConfigured(db)
         /\ db' \in DB /\ Chains(db') /\ Logged(db') /\ SpacesConfigured(db')
<1>1. SpaceInv'
  BY NextSpaceInv
<1>2. /\ db \in DB /\ Stored(db) \in SUBSET MemoryIDs
      /\ Chains(db) /\ Logged(db) /\ SpacesConfigured(db)
  BY DEF SpaceInv, LogInv, ChainInv, HInv, IInv, TypeOK, Stored
<1>3. db' \in DB /\ Chains(db') /\ Logged(db') /\ SpacesConfigured(db')
  BY <1>1 DEF SpaceInv, LogInv, ChainInv, HInv, IInv, TypeOK
<1>. QED  BY <1>2, <1>3

\* A step of the present program that changes the index of one space to one
\* that agrees, and no live memory of another space.
LEMMA OneSpaceBecomes ==
  ASSUME IndexInv, [Next]_vars, NEW where \in Spaces, NEW ix, NEW operation,
         Becomes(where, ix, operation), program = "new", program' = program,
         AgreesWith(ix, LiveIn(db', where),
                    IF index[where].counts = Nil THEN operation
                                                 ELSE touched[where]),
         db'.spacesConfig[where] # Nil,
         \A space \in Spaces \ {where} : LiveIn(db', space) = LiveIn(db, space)
  PROVE  IndexesAgree'
<1>1. /\ index' = [index EXCEPT ![where] = ix]
      /\ touched' = [touched EXCEPT ![where] =
                       IF index[where].counts = Nil THEN operation ELSE @]
  BY DEF Becomes, Touch
<1>2. /\ index \in [Spaces -> Index] /\ DOMAIN touched = Spaces
      /\ \A space \in Spaces :
           /\ AgreesWith(index[space], LiveIn(db, space), touched[space])
           /\ SavedByProgram(space)
  BY DEF IndexInv, IndexesAgree
<1>3. index' \in [Spaces -> Index] /\ DOMAIN touched' = Spaces
  BY <1>1, <1>2 DEF AgreesWith
<1>4. program' \in {"old", "new"} /\ program' # "old"
  OBVIOUS
<1>5. ASSUME NEW space \in Spaces
      PROVE  /\ AgreesWith(index'[space], LiveIn(db', space), touched'[space])
             /\ db'.spacesConfig[space] = Nil => index'[space].list = Nil
  <2>1. CASE space = where
    <3>1. /\ index'[space] = ix
          /\ touched'[space] = IF index[where].counts = Nil THEN operation
                                                            ELSE touched[where]
      BY <1>1, <1>2, <2>1
    <3>. QED  BY <2>1, <3>1
  <2>2. CASE space # where
    <3>1. /\ index'[space] = index[space] /\ touched'[space] = touched[space]
          /\ LiveIn(db', space) = LiveIn(db, space)
      BY <1>1, <1>2, <2>2
    <3>2. db'.spacesConfig[space] = Nil => db.spacesConfig[space] = Nil
      BY ConfigsPersist DEF IndexInv
    <3>. QED  BY <1>2, <3>1, <3>2 DEF SavedByProgram
  <2>. QED  BY <2>1, <2>2
<1>. QED  BY <1>3, <1>4, <1>5 DEF IndexesAgree, SavedByProgram

\* What the index of a space agrees with before a step.
LEMMA AgreedBefore ==
  ASSUME IndexInv, NEW space \in Spaces
  PROVE  AgreesWith(index[space], LiveIn(db, space), touched[space])
BY DEF IndexInv, IndexesAgree

\* A Remember.
LEMMA IndexedRememberAgrees ==
  ASSUME IndexInv, [Next]_vars, IndexedRemember, program = "new",
         program' = program
  PROVE  IndexesAgree'
<1>0. /\ db \in DB /\ db' \in DB /\ Stored(db) \in SUBSET MemoryIDs
      /\ SpacesConfigured(db')
  BY StepDatabases DEF IndexInv
<1>1. Remembers(Stored(db), db, db')
  BY DEF IndexedRemember, Remember, Remembers
<1>2. PICK id \in Added :
        Becomes(SpaceOfWritten(id),
                RememberIndex(db, db', index[SpaceOfWritten(id)], id), "remember")
  BY DEF IndexedRemember
<1>. DEFINE where == db'.memories[id].spaceID
            parent == db'.memories[id].parentID
            ix == RememberIndex(db, db', index[where], id)
<1>3. id \in Stored(db') \ Stored(db)
  BY DEF Added
<1>4. LiveMoves(db, db', where, parent, id)
  BY <1>0, <1>1, <1>3, RememberBrings
<1>5. Becomes(where, ix, "remember")
  BY <1>2 DEF SpaceOfWritten
<1>6. /\ where \in Spaces /\ id \in MemoryIDs \ LiveIn(db, where)
      /\ LiveIn(db, where) \in SUBSET MemoryIDs
      /\ KindsKnown(db, LiveIn(db, where))
      /\ parent \in LiveIn(db, where) \cup {Nil}
  BY <1>0, <1>4, LiveTypes DEF LiveMoves
<1>7. KindsKnown(db', LiveIn(db, where) \cup {id})
  <2>1. KeepsHistory(db, db')
    BY <1>0, <1>1, OperationKeeps DEF Operates
  <2>2. KindsKnown(db', LiveIn(db, where))
    BY <1>0, <2>1, KindsStay
  <2>. QED  BY <1>4, <2>2 DEF KindsKnown, LiveMoves
<1>8. AgreesWith(index[where], LiveIn(db, where), touched[where])
  BY <1>6, AgreedBefore
<1>9. AgreesWith(ix, (LiveIn(db, where) \ {parent}) \cup {id},
                 IF index[where].counts = Nil THEN "remember" ELSE touched[where])
  BY <1>6, <1>7, <1>8, RememberAgrees
<1>10. db'.spacesConfig[where] # Nil
  BY <1>0, <1>3 DEF SpacesConfigured
<1>. HIDE DEF where, parent, ix
<1>11. /\ LiveIn(db', where) = (LiveIn(db, where) \ {parent}) \cup {id}
       /\ \A space \in Spaces \ {where} : LiveIn(db', space) = LiveIn(db, space)
  BY <1>4 DEF LiveMoves
<1>. QED  BY <1>5, <1>6, <1>9, <1>10, <1>11, OneSpaceBecomes

\* A Revive.
LEMMA IndexedReviveAgrees ==
  ASSUME IndexInv, [Next]_vars, IndexedRevive, program = "new",
         program' = program
  PROVE  IndexesAgree'
<1>0. /\ db \in DB /\ db' \in DB /\ Stored(db) \in SUBSET MemoryIDs
      /\ SpacesConfigured(db')
  BY StepDatabases DEF IndexInv
<1>1. Revives(db, db')
  <2>1. ReviveCommit /\ HInv
    BY DEF IndexedRevive, IndexInv, SpaceInv, LogInv, ChainInv
  <2>. QED  BY <2>1, CommitRevives
<1>2. PICK id \in Added :
        Becomes(SpaceOfWritten(id),
                ReviveIndex(db, db', index[SpaceOfWritten(id)], id), "revive")
  BY DEF IndexedRevive
<1>. DEFINE where == db'.memories[id].spaceID
            ix == ReviveIndex(db, db', index[where], id)
<1>3. id \in Stored(db') \ Stored(db)
  BY DEF Added
<1>4. LiveMoves(db, db', where, Nil, id)
  BY <1>0, <1>1, <1>3, ReviveBrings
<1>5. Becomes(where, ix, "revive")
  BY <1>2 DEF SpaceOfWritten
<1>6. /\ where \in Spaces /\ id \in MemoryIDs \ LiveIn(db, where)
      /\ LiveIn(db, where) \in SUBSET MemoryIDs
  BY <1>0, <1>4, LiveTypes DEF LiveMoves
<1>7. KindsKnown(db', LiveIn(db, where) \cup {id})
  <2>1. KeepsHistory(db, db')
    BY <1>0, <1>1, OperationKeeps DEF Operates
  <2>2. KindsKnown(db', LiveIn(db, where))
    BY <1>0, <2>1, KindsStay
  <2>. QED  BY <1>4, <2>2 DEF KindsKnown, LiveMoves
<1>8. AgreesWith(index[where], LiveIn(db, where), touched[where])
  BY <1>6, AgreedBefore
<1>9. AgreesWith(ix, LiveIn(db, where) \cup {id},
                 IF index[where].counts = Nil THEN "revive" ELSE touched[where])
  BY <1>6, <1>7, <1>8, ReviveAgrees
<1>10. db'.spacesConfig[where] # Nil
  BY <1>0, <1>3 DEF SpacesConfigured
<1>. HIDE DEF where, ix
<1>11. /\ LiveIn(db', where) = LiveIn(db, where) \cup {id}
       /\ \A space \in Spaces \ {where} : LiveIn(db', space) = LiveIn(db, space)
  <2>1. Nil \notin LiveIn(db, where)
    BY NilAssumption DEF LiveIn, Stored
  <2>. QED  BY <1>4, <2>1 DEF LiveMoves
<1>. QED  BY <1>5, <1>6, <1>9, <1>10, <1>11, OneSpaceBecomes

\* A step that leaves the index and the live memories alone.
LEMMA IndexStays ==
  ASSUME IndexInv, [Next]_vars, UNCHANGED <<index, touched>>,
         program' \in {program, "new"},
         \A space \in Spaces : LiveIn(db', space) = LiveIn(db, space)
  PROVE  IndexesAgree'
<1>1. /\ program \in {"old", "new"} /\ index \in [Spaces -> Index]
      /\ DOMAIN touched = Spaces
      /\ \A space \in Spaces :
           /\ AgreesWith(index[space], LiveIn(db, space), touched[space])
           /\ SavedByProgram(space)
  BY DEF IndexInv, IndexesAgree
<1>2. \A space \in Spaces :
        db'.spacesConfig[space] = Nil => db.spacesConfig[space] = Nil
  BY ConfigsPersist DEF IndexInv
<1>. QED  BY <1>1, <1>2 DEF IndexesAgree, SavedByProgram

\* A Forget, of a live memory or of one that was superseded.
LEMMA IndexedForgetAgrees ==
  ASSUME IndexInv, [Next]_vars, IndexedForget, program = "new",
         program' = program
  PROVE  IndexesAgree'
<1>0. /\ db \in DB /\ db' \in DB /\ Chains(db) /\ Logged(db)
      /\ SpacesConfigured(db')
  BY StepDatabases DEF IndexInv
<1>1. PICK id \in Stored(db) : db' = ForgetInTx(db, id)
  BY DEF IndexedForget, Forget
<1>. DEFINE where == db.memories[id].spaceID
            ix == ForgetIndex(db, db', index[where], id)
<1>2. /\ Ended = IF db.memories[id].isLatest THEN {id} ELSE {}
      /\ \A space : LiveIn(db', space) = LiveIn(db, space) \ {id}
      /\ db.memories[id].isLatest => id \in LiveIn(db, where)
      /\ \A space : id \in LiveIn(db, space) => space = where
      /\ db'.memories[id].spaceID = where /\ id \in Stored(db')
      /\ KeepsHistory(db, db')
  BY <1>0, <1>1, ForgetTakes DEF Ended
<1>3. CASE db.memories[id].isLatest
  <2>1. Becomes(where, ix, "forget")
    <3>1. PICK m \in Ended :
            Becomes(SpaceOfWritten(m),
                    ForgetIndex(db, db', index[SpaceOfWritten(m)], m), "forget")
      BY <1>2, <1>3 DEF IndexedForget
    <3>2. m = id /\ SpaceOfWritten(m) = where
      BY <1>2, <1>3 DEF SpaceOfWritten
    <3>. QED  BY <3>1, <3>2
  <2>2. /\ where \in Spaces /\ id \in LiveIn(db, where)
        /\ LiveIn(db, where) \in SUBSET MemoryIDs
        /\ KindsKnown(db, LiveIn(db, where))
        /\ KindsKnown(db', LiveIn(db, where))
    BY <1>0, <1>2, <1>3, StoredType, LiveTypes, KindsStay DEF Memory
  <2>3. AgreesWith(index[where], LiveIn(db, where), touched[where])
    BY <2>2, AgreedBefore
  <2>4. AgreesWith(ix, LiveIn(db, where) \ {id},
                   IF index[where].counts = Nil THEN "forget" ELSE touched[where])
    BY <2>2, <2>3, ForgetAgrees
  <2>5. db'.spacesConfig[where] # Nil
    BY <1>0, <1>2 DEF SpacesConfigured
  <2>6. \A space \in Spaces \ {where} : LiveIn(db', space) = LiveIn(db, space)
    BY <1>2
  <2>7. LiveIn(db', where) = LiveIn(db, where) \ {id}
    BY <1>2
  <2>. HIDE DEF where, ix
  <2>. QED  BY <2>1, <2>2, <2>4, <2>5, <2>6, <2>7, OneSpaceBecomes
<1>4. CASE ~db.memories[id].isLatest
  <2>1. \A space \in Spaces : LiveIn(db', space) = LiveIn(db, space)
    BY <1>2, <1>4 DEF LiveIn
  <2>2. UNCHANGED <<index, touched>>
    BY <1>2, <1>4 DEF IndexedForget
  <2>. QED  BY <2>1, <2>2, IndexStays
<1>. QED  BY <1>3, <1>4

\* The first EnsureSpace of a space saves counters of the nothing there is.
LEMMA IndexedEnsureSpaceAgrees ==
  ASSUME IndexInv, [Next]_vars, IndexedEnsureSpace, program = "new",
         program' = program
  PROVE  IndexesAgree'
<1>0. /\ db \in DB /\ SpacesConfigured(db)
      /\ program \in {"old", "new"} /\ index \in [Spaces -> Index]
      /\ \A space \in Spaces :
           /\ AgreesWith(index[space], LiveIn(db, space), touched[space])
           /\ SavedByProgram(space)
  BY StepDatabases DEF IndexInv, IndexesAgree
<1>1. PICK where \in Spaces, model \in Models, policy \in Policies :
        db' = EnsureSpaceInTx(db, where, model, policy)
  BY DEF IndexedEnsureSpace, EnsureSpace
<1>2. \A space \in Spaces : LiveIn(db', space) = LiveIn(db, space)
  <2>1. db'.memories = db.memories
    BY <1>0, <1>1 DEF EnsureSpaceInTx, DB
  <2>. QED  BY <2>1, SameLive
<1>3. \A space \in Spaces :
        db'.spacesConfig[space] # db.spacesConfig[space]
          => db.spacesConfig[space] = Nil
  BY <1>0, <1>1 DEF EnsureSpaceInTx, DB
<1>. DEFINE created(space) == db'.spacesConfig[space] # db.spacesConfig[space]
            zero(space) == [index[space] EXCEPT !.counts = ZeroCounts]
<1>4. /\ index' = [space \in Spaces |->
                     IF created(space) THEN zero(space) ELSE index[space]]
      /\ touched' = [space \in Spaces |->
                       IF created(space) THEN "init" ELSE touched[space]]
  BY DEF IndexedEnsureSpace
<1>5. ASSUME NEW space \in Spaces, created(space)
      PROVE  AgreesWith(zero(space), LiveIn(db', space), "init")
  <2>1. index[space] \in Index /\ index[space].list = Nil
    BY <1>0, <1>3, <1>5 DEF SavedByProgram
  <2>2. LiveIn(db, space) = {}
    BY <1>0, <1>3, <1>5 DEF SpacesConfigured, LiveIn
  <2>3. index[space].keys = {}
    BY <1>0, <2>1, <2>2 DEF AgreesWith, Members
  <2>4. ZeroCounts \in [Kinds -> Int] /\ Total(ZeroCounts) = 0
    BY DEF ZeroCounts, Total, Kinds
  <2>5. /\ zero(space) \in Index /\ zero(space).list = Nil
        /\ zero(space).keys = {} /\ zero(space).counts = ZeroCounts
    BY <2>1, <2>3, <2>4 DEF Index
  <2>6. LiveIn(db', space) = {} /\ Cardinality(LiveIn(db', space)) = 0
    BY <1>2, <2>2, FS_EmptySet
  <2>7. Total(zero(space).counts) = Cardinality(LiveIn(db', space)) + Drift("init")
    BY <2>4, <2>5, <2>6, DriftValues
  <2>. HIDE DEF zero
  <2>. QED  BY <2>5, <2>6, <2>7, KeysAgree
<1>6. ASSUME NEW space \in Spaces
      PROVE  /\ index'[space] \in Index
             /\ AgreesWith(index'[space], LiveIn(db', space), touched'[space])
             /\ db'.spacesConfig[space] = Nil => index'[space].list = Nil
  <2>1. CASE created(space)
    <3>1. index'[space] = zero(space) /\ touched'[space] = "init"
      BY <1>4, <2>1
    <3>2. AgreesWith(zero(space), LiveIn(db', space), "init")
      BY <1>5, <2>1
    <3>3. db'.spacesConfig[space] # Nil
      BY <1>3, <2>1
    <3>. HIDE DEF zero, created
    <3>. QED  BY <3>1, <3>2, <3>3 DEF AgreesWith
  <2>2. CASE ~created(space)
    <3>1. /\ index'[space] = index[space] /\ touched'[space] = touched[space]
          /\ db'.spacesConfig[space] = db.spacesConfig[space]
      BY <1>4, <2>2
    <3>. QED  BY <1>0, <1>2, <3>1 DEF SavedByProgram
  <2>. QED  BY <2>1, <2>2
<1>7. index' \in [Spaces -> Index] /\ DOMAIN touched' = Spaces
  BY <1>4, <1>6
<1>. QED  BY <1>0, <1>6, <1>7 DEF IndexesAgree, SavedByProgram

\* The older program lists what is live.
LEMMA OldProgramAgrees ==
  ASSUME IndexInv, [Next]_vars, OldProgramStep
  PROVE  IndexesAgree'
<1>0. /\ db' \in DB /\ SpacesConfigured(db')
      /\ DOMAIN touched = Spaces
      /\ \A space \in Spaces : SavedByProgram(space)
  BY StepDatabases DEF IndexInv, IndexesAgree
<1>. DEFINE list(space) ==
              IF index[space].list = Nil /\ LiveIn(db', space) = {} THEN Nil
              ELSE LiveIn(db', space)
<1>1. /\ index' = [space \in Spaces |-> [NoIndex EXCEPT !.list = list(space)]]
      /\ touched' = touched /\ program' = "old"
  BY DEF OldProgramStep
<1>2. ASSUME NEW space \in Spaces
      PROVE  /\ index'[space] \in Index
             /\ index'[space].keys = {} /\ index'[space].counts = Nil
             /\ index'[space].list = list(space)
             /\ AgreesWith(index'[space], LiveIn(db', space), touched'[space])
             /\ db'.spacesConfig[space] = Nil => index'[space].list = Nil
  <2>1. LiveIn(db', space) \in SUBSET MemoryIDs
    BY <1>0, LiveTypes
  <2>2. LiveIn(db', space) # Nil
    BY <2>1, IndexAssumption
  <2>3. index'[space] = [keys |-> {}, list |-> list(space), counts |-> Nil]
    BY <1>1 DEF NoIndex
  <2>4. list(space) \in (SUBSET MemoryIDs) \cup {Nil}
    BY <2>1
  <2>5. index'[space] \in Index
    BY <2>3, <2>4 DEF Index
  <2>6. Members(index'[space]) = LiveIn(db', space)
    BY <2>2, <2>3 DEF Members
  <2>7. ASSUME db'.spacesConfig[space] = Nil
        PROVE  list(space) = Nil
    <3>1. index[space].list = Nil
      BY <1>0, <2>7, ConfigsPersist DEF IndexInv, SavedByProgram
    <3>2. LiveIn(db', space) = {}
      BY <1>0, <2>7 DEF SpacesConfigured, LiveIn
    <3>. QED  BY <3>1, <3>2
  <2>. HIDE DEF list
  <2>. QED  BY <2>3, <2>5, <2>6, <2>7 DEF AgreesWith
<1>3. index' \in [Spaces -> Index]
  BY <1>1, <1>2
<1>. QED  BY <1>0, <1>1, <1>2, <1>3 DEF IndexesAgree, SavedByProgram

\* An empty file has an empty index, whichever program opens it first.
LEMMA InitIndexInv == IndexInit => IndexInv
<1>. SUFFICES ASSUME IndexInit
     PROVE  IndexInv
  OBVIOUS
<1>1. SpaceInv
  BY InitSpaceInv DEF IndexInit
<1>2. \A space : LiveIn(db, space) = {}
  BY DEF IndexInit, Init, EmptyDB, LiveIn, Stored
<1>3. NoIndex \in Index /\ Members(NoIndex) = {}
  BY DEF NoIndex, Index, Members
<1>. QED  BY <1>1, <1>2, <1>3
       DEF IndexInit, IndexInv, IndexesAgree, AgreesWith, SavedByProgram, NoIndex

\* Every step keeps the invariant.
LEMMA NextIndexInv == IndexInv /\ [IndexNext]_<<vars, indexVars>> => IndexInv'
<1>. SUFFICES ASSUME IndexInv, [IndexNext]_<<vars, indexVars>>
     PROVE  IndexInv'
  OBVIOUS
<1>0. [Next]_vars
  BY IndexedSteps
<1>1. SpaceInv'
  BY <1>0, NextSpaceInv DEF IndexInv
<1>2. CASE NewProgramStep
  <2>1. program = "new" /\ program' = program
    BY <1>2 DEF NewProgramStep
  <2>2. CASE Unindexed
    <3>1. db'.memories = db.memories
      <4>1. CASE UpdateSpaceConfig
        <5>1. db \in DB
          BY <1>0, StepDatabases DEF IndexInv
        <5>. QED  BY <4>1, <5>1 DEF UpdateSpaceConfig, ApplyConfigInTx, UpdateSpaceConfigInTx, DB
      <4>2. CASE \/ ReviveBegin \/ ReviveSkip \/ ReviveSuperseded \/ ReviveMiss
                 \/ Crash
        BY <4>2 DEF ReviveBegin, ReviveSkip, ReviveSuperseded, ReviveMiss,
                    Crash, Rollback
      <4>. QED  BY <2>2, <4>1, <4>2 DEF Unindexed
    <3>2. UNCHANGED <<index, touched>>
      BY <2>2 DEF Unindexed
    <3>3. IndexesAgree'
      BY <1>0, <2>1, <3>1, <3>2, SameLive, IndexStays
    <3>. QED  BY <1>1, <3>3 DEF IndexInv
  <2>. QED  BY <1>0, <1>1, <1>2, <2>1, <2>2, IndexedRememberAgrees,
               IndexedForgetAgrees, IndexedReviveAgrees, IndexedEnsureSpaceAgrees
            DEF NewProgramStep, IndexInv
<1>3. CASE OldProgramStep
  BY <1>0, <1>1, <1>3, OldProgramAgrees DEF IndexInv
<1>4. CASE Upgrade \/ UNCHANGED <<vars, indexVars>>
  <2>1. /\ db' = db /\ UNCHANGED <<index, touched>>
        /\ program' \in {program, "new"}
    BY <1>4 DEF Upgrade, vars, indexVars
  <2>2. IndexesAgree'
    BY <1>0, <2>1, IndexStays
  <2>. QED  BY <1>1, <2>2 DEF IndexInv
<1>. QED  BY <1>2, <1>3, <1>4 DEF IndexNext

-------------------------------------------------------------------------------
(* The properties. *)

\* Listings, exports and recalls see exactly the live memories of a space,
\* whichever program wrote its index and however much of it has been converted
\* (loadSpaceMemoryIDs, migrateLegacySpaceMemoryIDs).
THEOREM ListingsAreExact == IndexSpec => []ListingIsExact
<1>1. IndexInv => ListingIsExact
  BY LoadIsMembers DEF IndexInv, IndexesAgree, AgreesWith, ListingIsExact
<1>. QED  BY <1>1, InitIndexInv, NextIndexInv, PTL DEF IndexSpec

\* The counters the corpus limits are compared with are those of the live
\* memories, or off by the one that the first Forget or Revive in an older file
\* counts twice, for ever and never by more (loadLiveKindCounts,
\* incrementLiveKindCount).
THEOREM CountersDriftByOne == IndexSpec => []CountsDriftOnlyByFirstTouch
<1>1. IndexInv => CountsDriftOnlyByFirstTouch
  BY DEF IndexInv, IndexesAgree, AgreesWith, CountsDriftOnlyByFirstTouch
<1>. QED  BY <1>1, InitIndexInv, NextIndexInv, PTL DEF IndexSpec

===============================================================================
