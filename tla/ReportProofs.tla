----------------------------- MODULE ReportProofs -----------------------------
(***************************************************************************)
(* The reports, for every value of the constants.                          *)
(*                                                                         *)
(* A plan is applied by one transaction that forgets its ids one after the *)
(* other, which is a fold.  The choices of the fold make the ids a chain   *)
(* of smaller and smaller sets, so that what holds before a forget and is  *)
(* kept by it holds after all of them: the database is sound, the index    *)
(* agrees with it, and nothing but the ids stopped being live.             *)
(*                                                                         *)
(* The rest is about what a report has read and what the store has become  *)
(* since.  The plan names what its first listing found, and ranks it by an *)
(* order that no commit changes, so that keeping and forgetting never go   *)
(* round.  The profile reads two layers: as a later version always has a   *)
(* larger id, a lineage that the first reading saw ends, at the second, in *)
(* a version that is listed, was promoted, was forgotten or has expired.   *)
(*                                                                         *)
(* Groups of pairs are the parts a walk along the pairs connects: as each  *)
(* step of the walk adds an id or none, the walk ends, and two parts that  *)
(* share an id are the same.  The groups a report keeps are the first in   *)
(* an order; the number of groups ahead of one tells them apart, so there  *)
(* are as many as asked for, and the largest.                              *)
(***************************************************************************)
EXTENDS SpaceProofs, Reports

-------------------------------------------------------------------------------
(* Going through a set one element after the other.                          *)

\* The element a fold takes first.
FirstOf(s) == CHOOSE x \in s : TRUE

\* What holds of no elements, and of a set when it does without some element of
\* it, holds of every set of ids: take away one after the other.
LEMMA OneByOne ==
  ASSUME NEW S \in SUBSET MemoryIDs, NEW Good, {} \in Good,
         \A s \in SUBSET S :
           s # {} => \E x \in s : (s \ {x} \in Good => s \in Good)
  PROVE  \A s \in SUBSET S : s \in Good
<1>. DEFINE Missing == {n \in Nat : \E s \in SUBSET S :
                          Cardinality(s) = n /\ s \notin Good}
<1>1. \A s \in SUBSET S : IsFiniteSet(s) /\ Cardinality(s) \in Nat
  BY IDsAssumption, FS_Subset, FS_CardinalityType
<1>2. 0 \notin Missing
  BY <1>1, FS_EmptySet
<1>3. ASSUME NEW n \in Nat, n \notin Missing
      PROVE  n + 1 \notin Missing
  <2>. SUFFICES ASSUME NEW s \in SUBSET S, Cardinality(s) = n + 1
                PROVE  s \in Good
    OBVIOUS
  <2>1. s # {}
    BY FS_EmptySet
  <2>2. PICK x \in s : s \ {x} \in Good => s \in Good
    BY <2>1
  <2>3. Cardinality(s \ {x}) = n
    <3>1. Cardinality(s \ {x}) = Cardinality(s) - 1
      BY <1>1, FS_RemoveElement
    <3>. QED  BY <3>1
  <2>4. s \ {x} \in Good
    BY <1>3, <2>3
  <2>. QED  BY <2>2, <2>4
<1>4. Missing = {}
  <2>. HIDE DEF Missing
  <2>1. Missing \in SUBSET Nat
    BY DEF Missing
  <2>. QED  BY <1>2, <1>3, <2>1, NoLeast
<1>. QED  BY <1>1, <1>4

\* The results of a fold on the subsets of S with at most n elements.
Small(S, n) == {s \in SUBSET S : Cardinality(s) <= n}

FoldStep(F, base, g, s) ==
  IF s = {} THEN base ELSE F[<<FirstOf(s), g[s \ {FirstOf(s)}]>>]

IsFold(F, base, D, g) == g = [s \in D |-> FoldStep(F, base, g, s)]

\* A fold has results on every subset.
LEMMA FoldExists ==
  ASSUME NEW S \in SUBSET MemoryIDs, NEW base, NEW F
  PROVE  \E g : IsFold(F, base, SUBSET S, g)
<1>. DEFINE Missing == {n \in Nat : ~ \E g : IsFold(F, base, Small(S, n), g)}
<1>1. /\ \A s \in SUBSET S : IsFiniteSet(s) /\ Cardinality(s) \in Nat
      /\ \A s \in SUBSET S : Cardinality(s) <= Cardinality(S)
  BY IDsAssumption, FS_Subset, FS_CardinalityType
<1>2. \A s \in SUBSET S :
        s # {} => /\ FirstOf(s) \in s
                  /\ Cardinality(s \ {FirstOf(s)}) = Cardinality(s) - 1
  BY <1>1, FS_RemoveElement DEF FirstOf
<1>3. 0 \notin Missing
  <2>. DEFINE g == [s \in Small(S, 0) |-> base]
  <2>1. \A s \in Small(S, 0) : s = {}
    BY <1>1, FS_EmptySet DEF Small
  <2>2. \A s \in Small(S, 0) : FoldStep(F, base, g, s) = base
    BY <2>1 DEF FoldStep
  <2>3. IsFold(F, base, Small(S, 0), g)
    BY <2>2 DEF IsFold
  <2>. QED  BY <2>3
<1>4. ASSUME NEW n \in Nat, n \notin Missing
      PROVE  n + 1 \notin Missing
  <2>1. PICK g : IsFold(F, base, Small(S, n), g)
    BY <1>4
  <2>. DEFINE more == [s \in Small(S, n + 1) |-> FoldStep(F, base, g, s)]
  <2>2. \A s \in Small(S, n) : g[s] = FoldStep(F, base, g, s)
    BY <2>1 DEF IsFold
  <2>3. ASSUME NEW s \in Small(S, n + 1)
        PROVE  FoldStep(F, base, more, s) = FoldStep(F, base, g, s)
    <3>1. CASE s = {}
      BY <3>1 DEF FoldStep
    <3>2. CASE s # {}
      <4>1. s \ {FirstOf(s)} \in Small(S, n) \cap Small(S, n + 1)
        <5>1. s \in SUBSET S /\ Cardinality(s) <= n + 1
          BY DEF Small
        <5>2. Cardinality(s \ {FirstOf(s)}) <= n
          BY <1>1, <1>2, <3>2, <5>1
        <5>3. s \ {FirstOf(s)} \in SUBSET S
          BY <5>1
        <5>. QED  BY <1>1, <5>2, <5>3 DEF Small
      <4>2. more[s \ {FirstOf(s)}] = g[s \ {FirstOf(s)}]
        BY <2>2, <4>1
      <4>. HIDE DEF more
      <4>. QED  BY <3>2, <4>2 DEF FoldStep
    <3>. QED  BY <3>1, <3>2
  <2>4. IsFold(F, base, Small(S, n + 1), more)
    BY <2>3 DEF IsFold
  <2>. QED  BY <2>4
<1>5. Missing = {}
  <2>. HIDE DEF Missing
  <2>1. Missing \in SUBSET Nat
    BY DEF Missing
  <2>. QED  BY <1>3, <1>4, <2>1, NoLeast
<1>6. Cardinality(S) \in Nat /\ Small(S, Cardinality(S)) = SUBSET S
  BY <1>1 DEF Small
<1>7. \E g : IsFold(F, base, Small(S, Cardinality(S)), g)
  BY <1>5, <1>6
<1>. QED  BY <1>6, <1>7

-------------------------------------------------------------------------------
(* The forgets of a plan, one after the other.                               *)

\* The databases between them, by the ids already forgotten.
ForgetStep(d, it, s) ==
  IF s = {} THEN d ELSE ForgetInTx(it[s \ {FirstOf(s)}], FirstOf(s))

ForgetsBy(d, ids, it) == it = [s \in SUBSET ids |-> ForgetStep(d, it, s)]

\* There are such databases.
LEMMA ForgetsExist ==
  ASSUME NEW d \in DB, NEW ids \in SUBSET Stored(d)
  PROVE  \E it : ForgetsBy(d, ids, it)
<1>0. ids \in SUBSET MemoryIDs
  BY DEF Stored
<1>. PICK F : F = [p \in MemoryIDs \X DB |-> ForgetInTx(p[2], p[1])]
  OBVIOUS
<1>1. PICK g : IsFold(F, d, SUBSET ids, g)
  BY <1>0, FoldExists
<1>2. \A c \in DB, x \in MemoryIDs : F[<<x, c>>] = ForgetInTx(c, x)
  OBVIOUS
<1>3. /\ g[{}] = d
      /\ \A s \in SUBSET ids :
           s # {} => /\ FirstOf(s) \in s
                     /\ g[s] = F[<<FirstOf(s), g[s \ {FirstOf(s)}]>>]
  <2>1. \A s \in SUBSET ids : g[s] = FoldStep(F, d, g, s)
    BY <1>1 DEF IsFold
  <2>2. \A s \in SUBSET ids : s # {} => FirstOf(s) \in s
    BY DEF FirstOf
  <2>. QED  BY <2>1, <2>2 DEF FoldStep
<1>. DEFINE Good == {s \in SUBSET ids : g[s] \in DB /\ KeepsHistory(d, g[s])}
<1>4. {} \in Good
  <2>1. KeepsHistory(d, d)
    BY KeepsReflexive
  <2>. QED  BY <1>3, <2>1
<1>5. ASSUME NEW s \in SUBSET ids, s # {}, s \ {FirstOf(s)} \in Good
      PROVE  s \in Good /\ g[s] = ForgetInTx(g[s \ {FirstOf(s)}], FirstOf(s))
  <2>1. PICK c : c = g[s \ {FirstOf(s)}]
    OBVIOUS
  <2>2. c \in DB /\ KeepsHistory(d, c)
    BY <1>5, <2>1
  <2>3. PICK x \in Stored(c) : x = FirstOf(s)
    BY <1>3, <1>5, <2>2 DEF KeepsHistory
  <2>4. g[s] = ForgetInTx(c, x)
    BY <1>2, <1>3, <1>5, <2>1, <2>2, <2>3 DEF Stored
  <2>5. g[s] \in DB /\ KeepsHistory(c, g[s])
    BY <2>2, <2>4, ForgetType, ForgetKeeps
  <2>6. KeepsHistory(d, g[s])
    BY <2>2, <2>5, KeepsTransitive
  <2>. QED  BY <2>1, <2>3, <2>4, <2>5, <2>6
<1>6. \A s \in SUBSET ids : s \in Good
  <2>. HIDE DEF Good
  <2>1. \A s \in SUBSET ids :
          s # {} => \E x \in s : (s \ {x} \in Good => s \in Good)
    BY <1>3, <1>5
  <2>. QED  BY <1>0, <1>4, <2>1, OneByOne
<1>7. \A s \in SUBSET ids : g[s] = ForgetStep(d, g, s)
  BY <1>3, <1>5, <1>6 DEF ForgetStep
<1>8. g = [s \in SUBSET ids |-> g[s]]
  BY <1>1 DEF IsFold
<1>9. ForgetsBy(d, ids, g)
  BY <1>7, <1>8 DEF ForgetsBy
<1>. QED  BY <1>9

\* They begin with d, and each follows from the one before.
OneAfterOther(d, ids, it) ==
  /\ it[{}] = d
  /\ \A s \in SUBSET ids :
       s # {} => /\ FirstOf(s) \in s
                 /\ s \ {FirstOf(s)} \in SUBSET ids
                 /\ it[s] = ForgetInTx(it[s \ {FirstOf(s)}], FirstOf(s))

\* The plan takes the last of them.
LEMMA ForgetAllTakesLast ==
  ASSUME NEW d \in DB, NEW ids \in SUBSET Stored(d)
  PROVE  \E it : it[ids] = ForgetAll(d, ids) /\ OneAfterOther(d, ids, it)
<1>. DEFINE it == CHOOSE g : ForgetsBy(d, ids, g)
<1>1. ForgetsBy(d, ids, it)
  BY ForgetsExist
<1>2. ForgetAll(d, ids) = it[ids]
  BY DEF ForgetAll, FoldSet, MapThenFoldSet, ForgetsBy, ForgetStep, FirstOf
<1>. HIDE DEF it
<1>3. \A s \in SUBSET ids : it[s] = ForgetStep(d, it, s)
  BY <1>1 DEF ForgetsBy
<1>4. \A s \in SUBSET ids : s # {} => FirstOf(s) \in s
  BY DEF FirstOf
<1>5. it[{}] = d
  BY <1>3 DEF ForgetStep
<1>6. \A s \in SUBSET ids :
        s # {} => it[s] = ForgetInTx(it[s \ {FirstOf(s)}], FirstOf(s))
  BY <1>3 DEF ForgetStep
<1>7. OneAfterOther(d, ids, it)
  BY <1>4, <1>5, <1>6 DEF OneAfterOther
<1>. QED  BY <1>2, <1>7

\* A database as every commit leaves it.
Sound(d) ==
  /\ d \in DB
  /\ HeadsAgree(d) /\ Chains(d)
  /\ Logged(d) /\ Linked(d)
  /\ IndexAgrees(d) /\ SpacesConfigured(d)

\* What the forgets of ids do to a database.
Forgotten(d, e, ids) ==
  /\ Sound(e)
  /\ KeepsHistory(d, e)
  /\ Stored(e) = Stored(d)
  /\ e.spacesConfig = d.spacesConfig
  /\ \A space : LiveIn(e, space) = LiveIn(d, space) \ ids

\* A forget leaves a database as a commit does.
LEMMA ForgetIsSound ==
  ASSUME NEW d, Sound(d), NEW id \in Stored(d), ForgetAllowed(d, id), NEW e,
         e = ForgetInTx(d, id)
  PROVE  Forgotten(d, e, {id})
<1>0. /\ d \in DB /\ HeadsAgree(d) /\ Chains(d)
      /\ Logged(d) /\ Linked(d) /\ IndexAgrees(d) /\ SpacesConfigured(d)
  BY DEF Sound
<1>1. e \in DB /\ HeadsAgree(e) /\ Chains(e)
  BY <1>0, ForgetType, ForgetHeads, ForgetChains
<1>2. Logged(e) /\ Linked(e) /\ IndexAgrees(e)
  BY <1>0, ForgetLogged, ForgetLinked, ForgetIndexes
<1>3. Forgets(d, e)
  BY DEF Forgets
<1>4. SpacesConfigured(e) /\ e.spacesConfig = d.spacesConfig
  <2>1. Stored(d) \in SUBSET MemoryIDs
    BY DEF Stored
  <2>2. Operates(Stored(d), d, e)
    BY <1>3 DEF Operates
  <2>. QED  BY <1>0, <1>3, <2>1, <2>2, OperationConfigured, WritesKeepConfigs
<1>5. Stored(e) = Stored(d)
  <2>1. CASE d.memories[id].isForgotten
    BY <2>1 DEF ForgetInTx
  <2>2. CASE ~d.memories[id].isForgotten
    BY <1>0, <2>2, ForgetEffect
  <2>. QED  BY <2>1, <2>2
<1>6. KeepsHistory(d, e) /\ \A space : LiveIn(e, space) = LiveIn(d, space) \ {id}
  BY <1>0, ForgetTakes
<1>. QED  BY <1>1, <1>2, <1>4, <1>5, <1>6 DEF Forgotten, Sound

\* So do the forgets of a plan.
LEMMA ForgetAllIsSound ==
  ASSUME NEW d, Sound(d), NEW ids \in SUBSET Stored(d),
         \A id \in ids : ForgetAllowed(d, id), NEW e, e = ForgetAll(d, ids)
  PROVE  Forgotten(d, e, ids)
<1>0. d \in DB /\ ids \in SUBSET MemoryIDs
  BY DEF Sound, Stored
<1>9. PICK it : it[ids] = e /\ OneAfterOther(d, ids, it)
  BY <1>0, ForgetAllTakesLast
<1>1. /\ it[ids] = e
      /\ it[{}] = d
      /\ \A s \in SUBSET ids :
           s # {} => /\ FirstOf(s) \in s
                     /\ s \ {FirstOf(s)} \in SUBSET ids
                     /\ it[s] = ForgetInTx(it[s \ {FirstOf(s)}], FirstOf(s))
  BY <1>9 DEF OneAfterOther
<1>. DEFINE Good == {s \in SUBSET ids : Forgotten(d, it[s], s)}
<1>2. {} \in Good
  <2>1. KeepsHistory(d, d)
    BY KeepsReflexive
  <2>. QED  BY <1>1, <2>1 DEF Forgotten
<1>3. ASSUME NEW s \in SUBSET ids, s # {}, s \ {FirstOf(s)} \in Good
      PROVE  s \in Good
  <2>1. PICK c, f : c = it[s \ {FirstOf(s)}] /\ f = it[s]
    OBVIOUS
  <2>2. Forgotten(d, c, s \ {FirstOf(s)})
    BY <1>3, <2>1
  <2>3. PICK x \in Stored(c) : x = FirstOf(s)
    BY <1>1, <1>3, <2>2 DEF Forgotten
  <2>4. f = ForgetInTx(c, x) /\ x \in ids /\ x \in s
    BY <1>1, <1>3, <2>1, <2>3
  <2>5. ForgetAllowed(c, x)
    <3>1. ForgetAllowed(d, x)
      BY <2>4
    <3>2. x \in Stored(d) /\ KeepsHistory(d, c) /\ c.spacesConfig = d.spacesConfig
      BY <2>2, <2>3 DEF Forgotten
    <3>3. c.memories[x].spaceID = d.memories[x].spaceID
      BY <3>2, FrozenFields
    <3>. QED  BY <3>1, <3>2, <3>3 DEF ForgetAllowed, SpaceWritable
  <2>6. Sound(c)
    BY <2>2 DEF Forgotten
  <2>7. Forgotten(c, f, {x})
    BY <2>4, <2>5, <2>6, ForgetIsSound
  <2>8. KeepsHistory(d, f)
    BY <2>2, <2>7, KeepsTransitive DEF Forgotten
  <2>9. \A space : LiveIn(f, space) = LiveIn(d, space) \ s
    <3>1. \A space : /\ LiveIn(f, space) = LiveIn(c, space) \ {x}
                     /\ LiveIn(c, space) = LiveIn(d, space) \ (s \ {x})
      BY <2>2, <2>3, <2>7 DEF Forgotten
    <3>. QED  BY <2>4, <3>1
  <2>10. Forgotten(d, f, s)
    BY <2>2, <2>7, <2>8, <2>9 DEF Forgotten
  <2>. QED  BY <2>1, <2>10
<1>4. \A s \in SUBSET ids : s \in Good
  <2>. HIDE DEF Good
  <2>1. \A s \in SUBSET ids :
          s # {} => \E x \in s : (s \ {x} \in Good => s \in Good)
    BY <1>1, <1>3
  <2>. QED  BY <1>0, <1>2, <2>1, OneByOne
<1>. QED  BY <1>1, <1>4

-------------------------------------------------------------------------------
(* The index after the forgets of a plan.                                    *)

IndexStep(d, e, ix, it, s) ==
  IF s = {} THEN ix ELSE ForgetIndex(d, e, it[s \ {FirstOf(s)}], FirstOf(s))

IndexesBy(d, e, ix, ids, it) ==
  it = [s \in SUBSET ids |-> IndexStep(d, e, ix, it, s)]

\* The operation that first asked for the counters, once ids are forgotten.
TouchedBy(ix, ids, operation) ==
  IF ids # {} /\ ix.counts = Nil THEN "forget" ELSE operation

\* What the index is once ids of the live memories are forgotten.
Unlists(new, ix, live, ids, operation) ==
  /\ AgreesWith(new, live \ ids, TouchedBy(ix, ids, operation))
  /\ ids # {} => new.counts # Nil
  /\ ids = {} => new = ix

\* A forget leaves counters.
LEMMA ForgetIndexCounts ==
  ASSUME NEW d, NEW e, NEW ix, NEW live \in SUBSET MemoryIDs, NEW operation,
         AgreesWith(ix, live, operation), NEW id \in live,
         KindsKnown(d, live), KindsKnown(e, live)
  PROVE  ForgetIndex(d, e, ix, id).counts # Nil
<1>1. ix \in Index /\ Members(ix) = live
  BY AgreedIsLoaded
<1>. DEFINE removed == RemoveSpaceMemoryID(ix, id)
            next == live \ {id}
            kind == d.memories[id].kind
            more == IncrementLiveKindCount(e, removed, kind, -1)
<1>2. /\ removed \in Index /\ removed.list = Nil
      /\ removed.keys = next
  BY <1>1, RemoveMoves
<1>. HIDE DEF removed
<1>3. /\ next \in SUBSET MemoryIDs /\ KindsKnown(e, next)
      /\ kind \in Kinds
  BY DEF KindsKnown
<1>. HIDE DEF next, kind
<1>4. more.counts # Nil
  BY <1>2, <1>3, IncrementKeys
<1>. HIDE DEF more
<1>. QED  BY <1>4 DEF ForgetIndex, more, removed, kind

\* One more forget.
LEMMA OneMoreUnlisted ==
  ASSUME NEW d, NEW e, NEW ix, NEW live \in SUBSET MemoryIDs, NEW operation,
         KindsKnown(d, live), KindsKnown(e, live),
         NEW s \in SUBSET live, NEW x \in s, NEW before,
         Unlists(before, ix, live, s \ {x}, operation)
  PROVE  Unlists(ForgetIndex(d, e, before, x), ix, live, s, operation)
<1>1. PICK rest \in SUBSET MemoryIDs : rest = live \ (s \ {x})
  OBVIOUS
<1>2. PICK asked : asked = TouchedBy(ix, s \ {x}, operation)
  OBVIOUS
<1>3. PICK after : after = ForgetIndex(d, e, before, x)
  OBVIOUS
<1>4. /\ AgreesWith(before, rest, asked) /\ x \in rest
      /\ KindsKnown(d, rest) /\ KindsKnown(e, rest)
      /\ rest \ {x} = live \ s
  BY <1>1, <1>2 DEF Unlists, KindsKnown
<1>5. AgreesWith(after, live \ s, IF before.counts = Nil THEN "forget" ELSE asked)
  BY <1>3, <1>4, ForgetAgrees
<1>6. after.counts # Nil
  BY <1>3, <1>4, ForgetIndexCounts
<1>7. (IF before.counts = Nil THEN "forget" ELSE asked)
        = TouchedBy(ix, s, operation)
  BY <1>2 DEF Unlists, TouchedBy
<1>. QED  BY <1>3, <1>5, <1>6, <1>7 DEF Unlists

\* There are such indexes.
LEMMA IndexesExist ==
  ASSUME NEW d, NEW e, NEW ix, NEW live \in SUBSET MemoryIDs, NEW operation,
         AgreesWith(ix, live, operation),
         KindsKnown(d, live), KindsKnown(e, live), NEW ids \in SUBSET live
  PROVE  \E it : IndexesBy(d, e, ix, ids, it)
<1>. PICK F : F = [p \in MemoryIDs \X Index |-> ForgetIndex(d, e, p[2], p[1])]
  OBVIOUS
<1>1. PICK g : IsFold(F, ix, SUBSET ids, g)
  BY FoldExists
<1>2. \A c \in Index, x \in MemoryIDs : F[<<x, c>>] = ForgetIndex(d, e, c, x)
  OBVIOUS
<1>3. /\ g[{}] = ix
      /\ \A s \in SUBSET ids :
           s # {} => /\ FirstOf(s) \in s
                     /\ g[s] = F[<<FirstOf(s), g[s \ {FirstOf(s)}]>>]
  <2>1. \A s \in SUBSET ids : g[s] = FoldStep(F, ix, g, s)
    BY <1>1 DEF IsFold
  <2>2. \A s \in SUBSET ids : s # {} => FirstOf(s) \in s
    BY DEF FirstOf
  <2>. QED  BY <2>1, <2>2 DEF FoldStep
<1>. DEFINE Good == {s \in SUBSET ids : Unlists(g[s], ix, live, s, operation)}
<1>4. {} \in Good
  BY <1>3 DEF Unlists, TouchedBy
<1>5. ASSUME NEW s \in SUBSET ids, s # {}, s \ {FirstOf(s)} \in Good
      PROVE  /\ s \in Good
             /\ g[s] = ForgetIndex(d, e, g[s \ {FirstOf(s)}], FirstOf(s))
  <2>1. PICK c, x : c = g[s \ {FirstOf(s)}] /\ x = FirstOf(s)
    OBVIOUS
  <2>2. Unlists(c, ix, live, s \ {x}, operation) /\ x \in s /\ s \in SUBSET live
    BY <1>3, <1>5, <2>1
  <2>3. c \in Index /\ x \in MemoryIDs
    BY <2>2 DEF Unlists, AgreesWith
  <2>4. g[s] = ForgetIndex(d, e, c, x)
    BY <1>2, <1>3, <1>5, <2>1, <2>3
  <2>5. Unlists(ForgetIndex(d, e, c, x), ix, live, s, operation)
    BY <2>2, OneMoreUnlisted
  <2>. QED  BY <2>1, <2>4, <2>5
<1>6. \A s \in SUBSET ids : s \in Good
  <2>. HIDE DEF Good
  <2>1. \A s \in SUBSET ids :
          s # {} => \E x \in s : (s \ {x} \in Good => s \in Good)
    BY <1>3, <1>5
  <2>2. ids \in SUBSET MemoryIDs
    OBVIOUS
  <2>. QED  BY <1>4, <2>1, <2>2, OneByOne
<1>7. \A s \in SUBSET ids : g[s] = IndexStep(d, e, ix, g, s)
  BY <1>3, <1>5, <1>6 DEF IndexStep
<1>8. g = [s \in SUBSET ids |-> g[s]]
  BY <1>1 DEF IsFold
<1>9. IndexesBy(d, e, ix, ids, g)
  BY <1>7, <1>8 DEF IndexesBy
<1>. QED  BY <1>9

\* Whatever form the index is in, it lists the live memories that are left, and
\* the counters differ by what the first of the forgets brought in.
LEMMA ForgetAllAgrees ==
  ASSUME NEW d, NEW e, NEW ix, NEW live \in SUBSET MemoryIDs, NEW operation,
         AgreesWith(ix, live, operation),
         KindsKnown(d, live), KindsKnown(e, live), NEW ids \in SUBSET live
  PROVE  Unlists(ForgetAllIndex(d, e, ix, ids), ix, live, ids, operation)
<1>. DEFINE it == CHOOSE g : IndexesBy(d, e, ix, ids, g)
<1>1. IndexesBy(d, e, ix, ids, it)
  BY IndexesExist
<1>2. ForgetAllIndex(d, e, ix, ids) = it[ids]
  BY DEF ForgetAllIndex, FoldSet, MapThenFoldSet, IndexesBy, IndexStep, FirstOf
<1>. HIDE DEF it
<1>3. \A s \in SUBSET ids : it[s] = IndexStep(d, e, ix, it, s)
  BY <1>1 DEF IndexesBy
<1>. DEFINE Good == {s \in SUBSET ids : Unlists(it[s], ix, live, s, operation)}
<1>4. {} \in Good
  BY <1>3 DEF Unlists, TouchedBy, IndexStep
<1>5. ASSUME NEW s \in SUBSET ids, s # {}
      PROVE  FirstOf(s) \in s /\ (s \ {FirstOf(s)} \in Good => s \in Good)
  <2>1. PICK x \in s : x = FirstOf(s)
    BY <1>5 DEF FirstOf
  <2>2. it[s] = ForgetIndex(d, e, it[s \ {x}], x)
    BY <1>3, <1>5, <2>1 DEF IndexStep
  <2>3. ASSUME s \ {x} \in Good
        PROVE  Unlists(it[s], ix, live, s, operation)
    <3>1. PICK c : c = it[s \ {x}]
      OBVIOUS
    <3>2. Unlists(c, ix, live, s \ {x}, operation) /\ s \in SUBSET live
      BY <2>3, <3>1
    <3>3. Unlists(ForgetIndex(d, e, c, x), ix, live, s, operation)
      BY <3>2, OneMoreUnlisted
    <3>. QED  BY <2>2, <3>1, <3>3
  <2>. QED  BY <2>1, <2>3
<1>6. \A s \in SUBSET ids : s \in Good
  <2>. HIDE DEF Good
  <2>1. \A s \in SUBSET ids :
          s # {} => \E x \in s : (s \ {x} \in Good => s \in Good)
    BY <1>5
  <2>2. ids \in SUBSET MemoryIDs
    OBVIOUS
  <2>. QED  BY <1>4, <2>1, <2>2, OneByOne
<1>. QED  BY <1>2, <1>6

-------------------------------------------------------------------------------
(* The plan that is applied leaves the store and its index as a commit does. *)

\* The committed database.
LEMMA CommittedIsSound ==
  ASSUME IndexInv
  PROVE  Sound(db)
BY DEF IndexInv, SpaceInv, LogInv, ChainInv, HInv, IInv, TypeOK, Sound

\* The invariant of the store, where no transaction is in progress.
LEMMA IdleIsSound ==
  ASSUME NEW d, Sound(d), db' = d, tx' = Nil
  PROVE  SpaceInv'
<1>1. ~Running("remember")' /\ ~Running("forget")' /\ ~Running("revive")' /\ ~InBatch'
  BY DEF Running, Idle, InBatch
<1>2. TypeOK' /\ ReviveChecked' /\ BatchAgrees'
  BY <1>1 DEF Sound, TypeOK, ReviveChecked, BatchAgrees
<1>3. WorkKeepsHistory' /\ WorkKeepsSpaces' /\ WorkAsAsked'
  BY <1>1 DEF WorkKeepsHistory, WorkKeepsSpaces, WorkAsAsked, InBatch
<1>. QED
  BY <1>1, <1>2, <1>3 DEF Sound, SpaceInv, LogInv, ChainInv, HInv, IInv

\* Applying a plan keeps the invariant of the index.
LEMMA ApplyPlanKeepsIndex ==
  ASSUME IndexInv, ApplyPlan
  PROVE  IndexInv'
<1>. PICK plan \in plans :
       LET ids == SuggestedForgetBatch(plan)
           forgotten == ForgetAll(db, ids)
       IN  /\ \A id \in ids : ForgetAllowed(db, id)
           /\ db' = forgotten
           /\ index' = [space \in Spaces |->
                ForgetAllIndex(db, forgotten, index[space],
                               ids \cap LiveIn(db, space))]
           /\ touched' = [space \in Spaces |->
                IF index[space].counts = Nil /\ ids \cap LiveIn(db, space) # {}
                THEN "forget" ELSE touched[space]]
  BY DEF ApplyPlan
<1>0. PICK ids, e : ids = SuggestedForgetBatch(plan) /\ e = ForgetAll(db, ids)
  OBVIOUS
<1>1. /\ \A id \in ids : ForgetAllowed(db, id)
      /\ db' = e
      /\ index' = [space \in Spaces |->
           ForgetAllIndex(db, e, index[space], ids \cap LiveIn(db, space))]
      /\ touched' = [space \in Spaces |->
           IF index[space].counts = Nil /\ ids \cap LiveIn(db, space) # {}
           THEN "forget" ELSE touched[space]]
  BY <1>0
<1>2. tx = Nil /\ tx' = Nil /\ program = "new" /\ program' = "new"
  BY DEF ApplyPlan, Idle
<1>3. Sound(db) /\ ids \in SUBSET Stored(db)
  BY <1>1, CommittedIsSound DEF ForgetAllowed
<1>4. Forgotten(db, e, ids)
  BY <1>0, <1>1, <1>3, ForgetAllIsSound
<1>5. SpaceInv'
  BY <1>1, <1>2, <1>4, IdleIsSound DEF Forgotten
<1>6. ASSUME NEW space \in Spaces
      PROVE  /\ AgreesWith(index'[space], LiveIn(e, space), touched'[space])
             /\ e.spacesConfig[space] = Nil => index'[space].list = Nil
  <2>0. PICK live \in SUBSET MemoryIDs : live = LiveIn(db, space)
    <3>1. LiveIn(db, space) \in SUBSET MemoryIDs
      BY <1>3, LiveTypes DEF Sound
    <3>. QED  BY <3>1
  <2>. DEFINE ix == index[space]
              operation == touched[space]
              some == ids \cap live
  <2>1. some \in SUBSET live
    OBVIOUS
  <2>2. AgreesWith(ix, live, operation)
    BY <2>0, AgreedBefore
  <2>3. KindsKnown(db, live) /\ KindsKnown(e, live)
    BY <1>3, <1>4, <2>0, LiveTypes, KindsStay DEF Sound, Forgotten
  <2>4. Unlists(index'[space], ix, live, some, operation)
    <3>1. index'[space] = ForgetAllIndex(db, e, ix, some)
      BY <1>1, <2>0
    <3>. QED  BY <2>1, <2>2, <2>3, <3>1, ForgetAllAgrees
  <2>5. touched'[space] = TouchedBy(ix, some, operation)
    BY <1>1, <2>0 DEF TouchedBy
  <2>6. LiveIn(e, space) = live \ some
    BY <1>4, <2>0 DEF Forgotten
  <2>7. ASSUME e.spacesConfig[space] = Nil
        PROVE  index'[space].list = Nil
    <3>1. db.spacesConfig[space] = Nil
      BY <1>4, <2>7 DEF Forgotten
    <3>2. live = {}
      BY <1>3, <2>0, <3>1 DEF Sound, SpacesConfigured, LiveIn
    <3>3. index'[space] = ix
      BY <2>4, <3>2 DEF Unlists
    <3>4. ix.list = Nil
      BY <3>1 DEF IndexInv, IndexesAgree, SavedByProgram
    <3>. QED  BY <3>3, <3>4
  <2>. QED  BY <2>4, <2>5, <2>6, <2>7 DEF Unlists
<1>7. index' \in [Spaces -> Index] /\ DOMAIN touched' = Spaces
  <2>1. \A space \in Spaces : index'[space] \in Index
    BY <1>6 DEF AgreesWith
  <2>. QED  BY <1>1, <2>1
<1>8. IndexesAgree'
  BY <1>1, <1>2, <1>6, <1>7 DEF IndexesAgree, SavedByProgram
<1>. QED  BY <1>5, <1>8 DEF IndexInv

-------------------------------------------------------------------------------
(* What a cleanup plan names.                                                *)

\* Of two memories exactly one outranks the other, and no chain of memories that
\* outrank each other closes.
LEMMA RankOrders ==
  ASSUME attrs \in Attributes
  PROVE  /\ \A a, b \in MemoryIDs : a # b => Outranks(a, b) \/ Outranks(b, a)
         /\ \A a, b \in MemoryIDs : ~(Outranks(a, b) /\ Outranks(b, a))
         /\ \A a, b, c \in MemoryIDs :
              Outranks(a, b) /\ Outranks(b, c) => Outranks(a, c)
<1>1. \A id \in MemoryIDs : id \in Int /\ attrs[id].confidence \in Int
  <2>1. \A id \in MemoryIDs : id \in Int
    BY IDsAssumption
  <2>2. \A id \in MemoryIDs : attrs[id].confidence \in Int
    BY AttributesAssumption
  <2>. QED  BY <2>1, <2>2
<1>. QED  BY <1>1 DEF Outranks

\* So of some memories one outranks the others.
LEMMA BestExists ==
  ASSUME attrs \in Attributes, NEW ids \in SUBSET MemoryIDs, ids # {}
  PROVE  \E a \in ids : \A b \in ids \ {a} : Outranks(a, b)
<1>. DEFINE HasBest(s) == \E a \in s : \A b \in s \ {a} : Outranks(a, b)
            Good == {s \in SUBSET ids : s # {} => HasBest(s)}
<1>1. {} \in Good
  OBVIOUS
<1>2. ASSUME NEW s \in SUBSET ids, NEW x \in s, s \ {x} \in Good
      PROVE  HasBest(s)
  <2>1. CASE s \ {x} = {}
    BY <2>1
  <2>2. CASE s \ {x} # {}
    <3>1. PICK a \in s \ {x} : \A b \in (s \ {x}) \ {a} : Outranks(a, b)
      BY <1>2, <2>2
    <3>2. CASE Outranks(a, x)
      BY <3>1, <3>2
    <3>3. CASE Outranks(x, a)
      <4>1. \A b \in s \ {x} : Outranks(x, b)
        BY <3>1, <3>3, RankOrders
      <4>. QED  BY <4>1
    <3>. QED  BY <3>2, <3>3, RankOrders
  <2>. QED  BY <2>1, <2>2
<1>3. \A s \in SUBSET ids : s \in Good
  <2>. HIDE DEF HasBest
  <2>1. \A s \in SUBSET ids :
          s # {} => \E x \in s : (s \ {x} \in Good => s \in Good)
    BY <1>2
  <2>. HIDE DEF Good
  <2>. QED  BY <1>1, <2>1, OneByOne
<1>. QED  BY <1>3

\* A suggestion keeps the best of the memories it speaks of, all known to the
\* plan.
Suggests(s, known) ==
  /\ s.keep \in known
  /\ s.forget \subseteq known
  /\ \A id \in s.forget : Outranks(s.keep, id)

\* What a plan suggests.
LEMMA PlanSuggests ==
  ASSUME attrs \in Attributes, NEW known \in SUBSET MemoryIDs, NEW pairs,
         NEW s \in QualityCleanupPlan(known, pairs)
  PROVE  Suggests(s, known)
<1>1. PICK ids : s \in SelectCleanupTargets(ids, known)
  BY DEF QualityCleanupPlan
<1>2. PICK items \in SUBSET known : items = ids \cap known
  OBVIOUS
<1>3. /\ ~(Cardinality(items) < 2)
      /\ s = [keep |-> BestOf(items), forget |-> items \ {BestOf(items)}]
  BY <1>1, <1>2 DEF SelectCleanupTargets
<1>4. items # {}
  BY <1>3, FS_EmptySet
<1>5. /\ BestOf(items) \in items
      /\ \A b \in items \ {BestOf(items)} : Outranks(BestOf(items), b)
  BY <1>4, BestExists DEF BestOf
<1>. QED  BY <1>3, <1>5 DEF Suggests

-------------------------------------------------------------------------------
(* The inductive invariant.                                                  *)

Options == {"includeSuperseded", "includeForgotten", "excludeOrphanedDerives"}

Report ==
  [op: {"plan", "curation", "profile"}, options: SUBSET Options, space: Spaces,
   pc: {"second", "lookups", "both"},
   known: SUBSET MemoryIDs, listed: SUBSET MemoryIDs, todo: SUBSET MemoryIDs,
   pairs: SUBSET SUBSET MemoryIDs, live: SUBSET MemoryIDs, meanwhile: Nat]

\* A plan knows only what was live when it began.
ReportTyped ==
  report # Nil =>
    /\ report \in Report
    /\ report.op = "plan" => report.known \subseteq report.live

\* Whatever happened since they were made, plans keep better memories than those
\* they forget.
PlansSuggest == \A plan \in plans : \A s \in plan : Suggests(s, MemoryIDs)

\* So what a plan kept for a memory it forgot outranks it.
KeepersOutrank ==
  \A id \in MemoryIDs :
    \A keeper \in keepers[id] : keeper \in MemoryIDs /\ Outranks(keeper, id)

ReportsInv ==
  /\ IndexInv
  /\ attrs \in Attributes
  /\ ReportTyped
  /\ PlansSuggest
  /\ KeepersOutrank

-------------------------------------------------------------------------------
(* The steps of the reports.                                                 *)

\* What a curation report lists.
CurationOf(space, options) ==
  FindCurationMemories(space, "includeSuperseded" \in options,
                       "includeForgotten" \in options)

\* What one read transaction lists is live then, whatever form the index is in.
LEMMA ListedIsLive ==
  ASSUME IndexInv, NEW space \in Spaces, NEW kinds, NEW exclude \in BOOLEAN
  PROVE  /\ ListMemories(space, kinds, exclude) =
              {id \in LiveNow(space) : /\ KindOf(id) \in kinds
                                      /\ ~(exclude /\ LostSource(id))}
         /\ LiveNow(space) \in SUBSET MemoryIDs
<1>1. LiveIn(db, space) \in SUBSET MemoryIDs
  BY CommittedIsSound, LiveTypes DEF Sound
<1>2. AgreesWith(index[space], LiveIn(db, space), touched[space])
  BY AgreedBefore
<1>3. LoadSpaceMemoryIDs(index[space]) = LiveIn(db, space)
  BY <1>1, <1>2, AgreedIsLoaded
<1>. QED
  BY <1>1, <1>3 DEF ListMemories, IsRecallEligible, LiveNow, LiveIn

\* Without the option nothing is left out.
LEMMA AllListed ==
  ASSUME IndexInv, NEW space \in Spaces, NEW kinds
  PROVE  /\ ListMemories(space, kinds, FALSE) =
              {id \in LiveNow(space) : KindOf(id) \in kinds}
         /\ LiveNow(space) \in SUBSET MemoryIDs
         /\ ListMemories(space, kinds, FALSE) \in SUBSET MemoryIDs
<1>1. /\ ListMemories(space, kinds, FALSE) =
           {id \in LiveNow(space) : KindOf(id) \in kinds /\ ~(FALSE /\ LostSource(id))}
      /\ LiveNow(space) \in SUBSET MemoryIDs
  BY ListedIsLive
<1>. QED  BY <1>1

\* What one read of a profile collects.
LEMMA CollectedIsLive ==
  ASSUME IndexInv, NEW space \in Spaces, NEW kinds, NEW options \in SUBSET Options
  PROVE  /\ CollectScoredMemories(space, kinds, Excludes(options)) =
              {id \in LiveNow(space) : /\ KindOf(id) \in kinds
                                      /\ ~(Excludes(options) /\ LostSource(id))}
         /\ LiveNow(space) \in SUBSET MemoryIDs
<1>0. Excludes(options) \in BOOLEAN
  BY DEF Excludes
<1>1. PICK exclude \in BOOLEAN : exclude = Excludes(options)
  BY <1>0
<1>2. /\ ListMemories(space, kinds, exclude) =
           {id \in LiveNow(space) : /\ KindOf(id) \in kinds
                                   /\ ~(exclude /\ LostSource(id))}
      /\ LiveNow(space) \in SUBSET MemoryIDs
  BY <1>1, ListedIsLive
<1>. QED  BY <1>1, <1>2 DEF CollectScoredMemories

\* What a lookup adds are pairs of memories.
LEMMA PairsType ==
  ASSUME NEW space, NEW id \in MemoryIDs, NEW kind, NEW minScore
  PROVE  PairsFrom(space, id, kind, minScore) \in SUBSET SUBSET MemoryIDs
<1>1. FindCandidates(space, attrs[id].content, TopK + 1) \subseteq MemoryIDs
  BY DEF FindCandidates, Best, Leading, StoredIn, Stored
<1>. QED  BY <1>1 DEF PairsFrom

\* A lookup leaves what was listed.
LEMMA LookUpType ==
  ASSUME ReportTyped, report # Nil, NEW kind, NEW minScore,
         LookUpNext(kind, minScore)
  PROVE  ReportTyped'
<1>1. /\ report \in Report
      /\ report.op = "plan" => report.known \subseteq report.live
  BY DEF ReportTyped
<1>2. report.todo \in SUBSET MemoryIDs /\ report.pairs \in SUBSET SUBSET MemoryIDs
  BY <1>1 DEF Report
<1>3. PICK id \in MemoryIDs : id = Min(report.todo)
  <2>1. report.todo \subseteq Nat /\ report.todo # {}
    BY <1>2, IDsAssumption DEF LookUpNext
  <2>2. Min(report.todo) \in report.todo
    BY <2>1, LeastKey
  <2>. QED  BY <1>2, <2>2
<1>4. PICK more \in SUBSET SUBSET MemoryIDs :
        more = PairsFrom(report.space, id, kind, minScore)
  BY PairsType
<1>5. report' = [report EXCEPT !.todo = @ \ {id}, !.pairs = @ \cup more]
  BY <1>3, <1>4 DEF LookUpNext
<1>6. /\ report' \in Report
      /\ report'.op = report.op /\ report'.known = report.known
      /\ report'.live = report.live
  BY <1>1, <1>2, <1>5 DEF Report
<1>. QED  BY <1>1, <1>6 DEF ReportTyped

\* Every step leaves a report of this kind, or none.
LEMMA ReportStaysTyped ==
  ASSUME ReportsInv, [ReportsNext]_allVars
  PROVE  ReportTyped'
<1>0. ReportTyped /\ IndexInv
  BY DEF ReportsInv
<1>1. CASE report' = report
  BY <1>0, <1>1 DEF ReportTyped
<1>2. CASE report' = Nil
  BY <1>2 DEF ReportTyped
<1>3. CASE report # Nil /\ report' = [report EXCEPT !.meanwhile = @ + 1]
  <2>1. /\ report' \in Report
        /\ report'.op = report.op /\ report'.known = report.known
        /\ report'.live = report.live
    BY <1>0, <1>3 DEF ReportTyped, Report
  <2>. QED  BY <1>0, <1>3, <2>1 DEF ReportTyped
<1>4. ASSUME PlanListing
      PROVE  ReportTyped'
  <2>1. PICK space \in Spaces :
          report' = NewReport("plan", {}, space, ListMemories(space, {"static"}, FALSE))
    BY <1>4 DEF PlanListing, Configured
  <2>2. PICK known \in SUBSET MemoryIDs :
          known = ListMemories(space, {"static"}, FALSE) /\ known \subseteq LiveNow(space)
    BY <1>0, AllListed
  <2>3. PICK new : new = NewReport("plan", {}, space, known)
    OBVIOUS
  <2>4. new \in Report /\ new.known = known /\ new.live = LiveNow(space)
    BY <1>0, <2>3, AllListed DEF NewReport, Report, Options
  <2>. QED  BY <2>1, <2>2, <2>3, <2>4 DEF ReportTyped
<1>5. ASSUME DiagnosticsListing
      PROVE  ReportTyped'
  <2>1. report # Nil /\ report \in Report
    BY <1>0, <1>5 DEF ReportTyped, DiagnosticsListing, Reads
  <2>2. PICK listed : /\ listed = ListMemories(report.space, {"static"}, FALSE)
                      /\ report' = [report EXCEPT !.pc = "lookups",
                                      !.listed = listed, !.todo = listed]
    BY <1>5 DEF DiagnosticsListing
  <2>3. listed \in SUBSET MemoryIDs
    <3>1. report.space \in Spaces
      BY <2>1 DEF Report
    <3>2. ListMemories(report.space, {"static"}, FALSE) \in SUBSET MemoryIDs
      BY <1>0, <3>1, AllListed
    <3>. QED  BY <2>2, <3>2
  <2>4. /\ report' \in Report
        /\ report'.op = report.op /\ report'.known = report.known
        /\ report'.live = report.live
    BY <2>1, <2>2, <2>3 DEF Report
  <2>. QED  BY <1>0, <2>1, <2>4 DEF ReportTyped
<1>6. ASSUME DiagnosticsLookup \/ CurationLookup
      PROVE  ReportTyped'
  BY <1>0, <1>6, LookUpType DEF DiagnosticsLookup, CurationLookup, Reads
<1>7. ASSUME CurationListing
      PROVE  ReportTyped'
  <2>1. PICK space \in Spaces, options \in SUBSET Options :
          LET listed == CurationOf(space, options)
          IN  report' = [NewReport("curation", options, space, listed) EXCEPT
                           !.pc = "lookups", !.todo = listed]
    BY <1>7 DEF CurationListing, CurationOf, Configured, Options
  <2>2. PICK listed \in SUBSET MemoryIDs :
          listed = CurationOf(space, options)
    <3>1. ListMemories(space, {"episodic"}, FALSE) \in SUBSET MemoryIDs
      BY <1>0, AllListed
    <3>2. CurationOf(space, options) \in SUBSET MemoryIDs
      BY <3>1 DEF CurationOf, FindCurationMemories, StoredIn, Stored
    <3>. QED  BY <3>2
  <2>3. PICK new : new = NewReport("curation", options, space, listed)
    OBVIOUS
  <2>4. new \in Report /\ new.op = "curation"
    BY <1>0, <2>3, AllListed DEF NewReport, Report, Options
  <2>5. report' = [new EXCEPT !.pc = "lookups", !.todo = listed]
    BY <2>1, <2>2, <2>3
  <2>6. report' \in Report /\ report'.op = "curation"
    BY <2>4, <2>5 DEF Report
  <2>. QED  BY <2>6 DEF ReportTyped
<1>8. ASSUME ProfileStatic
      PROVE  ReportTyped'
  <2>1. PICK space \in Spaces, options \in SUBSET Options :
          report' = NewReport("profile", options, space,
                      CollectScoredMemories(space, StaticLayer, Excludes(options)))
    BY <1>8 DEF ProfileStatic, Configured, Options
  <2>2. PICK known \in SUBSET MemoryIDs :
          known = CollectScoredMemories(space, StaticLayer, Excludes(options))
    BY <1>0, CollectedIsLive
  <2>3. PICK new : new = NewReport("profile", options, space, known)
    OBVIOUS
  <2>4. new \in Report /\ new.op = "profile"
    BY <1>0, <2>3, AllListed DEF NewReport, Report, Options
  <2>. QED  BY <2>1, <2>2, <2>3, <2>4 DEF ReportTyped
<1>9. ASSUME ProfileEpisodic
      PROVE  ReportTyped'
  <2>1. report # Nil /\ report \in Report
    BY <1>0, <1>9 DEF ReportTyped, ProfileEpisodic, Reads
  <2>2. PICK listed \in SUBSET MemoryIDs :
          listed = CollectScoredMemories(report.space, EpisodicLayer,
                                         Excludes(report.options))
    BY <1>0, <2>1, CollectedIsLive DEF Report
  <2>3. report' = [report EXCEPT !.pc = "both", !.listed = listed]
    BY <1>9, <2>2 DEF ProfileEpisodic
  <2>4. /\ report' \in Report
        /\ report'.op = report.op /\ report'.known = report.known
        /\ report'.live = report.live
    BY <2>1, <2>3 DEF Report
  <2>. QED  BY <1>0, <2>1, <2>4 DEF ReportTyped
<1>10. CASE StoreStep \/ Expire \/ ApplyPlan
  BY <1>1, <1>2, <1>3, <1>10 DEF StoreStep, Expire, ApplyPlan, Meanwhile
<1>11. CASE PlanDone \/ CurationDone \/ ProfileDone
  BY <1>2, <1>11 DEF PlanDone, CurationDone, ProfileDone
<1>12. CASE UNCHANGED allVars
  BY <1>1, <1>12 DEF allVars, reportVars
<1>. QED
  BY <1>4, <1>5, <1>6, <1>7, <1>8, <1>9, <1>10, <1>11, <1>12 DEF ReportsNext

\* Nobody changes what a caller wrote.
LEMMA AttributesStay ==
  ASSUME [ReportsNext]_allVars
  PROVE  attrs' = attrs
BY DEF ReportsNext, allVars, reportVars, StoreStep, Expire, PlanListing,
       DiagnosticsListing, DiagnosticsLookup, PlanDone, CurationListing,
       CurationLookup, CurationDone, ProfileStatic, ProfileEpisodic, ProfileDone,
       ApplyPlan, BeginReport, Reads, ReadOnly

\* A plan handed out suggests what it should, and so it does ever after.
LEMMA PlansStay ==
  ASSUME ReportsInv, [ReportsNext]_allVars
  PROVE  PlansSuggest'
<1>0. attrs' = attrs /\ PlansSuggest /\ attrs \in Attributes /\ ReportTyped
  BY AttributesStay DEF ReportsInv
<1>1. plans' \subseteq plans => PlansSuggest'
  BY <1>0 DEF PlansSuggest, Suggests, Outranks
<1>2. CASE PlanDone
  <2>0. PICK known \in SUBSET MemoryIDs : known = report.known
    BY <1>0, <1>2 DEF PlanDone, Complete, ReportTyped, Report
  <2>1. PICK made : /\ made = QualityCleanupPlan(known, report.pairs)
                    /\ plans' \subseteq plans \cup {made}
    BY <1>2, <2>0 DEF PlanDone
  <2>2. \A s \in made : Suggests(s, MemoryIDs)
    BY <1>0, <2>1, PlanSuggests DEF Suggests
  <2>. QED  BY <1>0, <2>1, <2>2 DEF PlansSuggest, Suggests, Outranks
<1>3. CASE ApplyPlan
  BY <1>1, <1>3 DEF ApplyPlan
<1>4. plans' = plans \/ PlanDone \/ ApplyPlan
  BY DEF ReportsNext, allVars, reportVars, StoreStep, Expire, PlanListing,
         DiagnosticsListing, DiagnosticsLookup, CurationListing,
         CurationLookup, CurationDone, ProfileStatic, ProfileEpisodic, ProfileDone,
         BeginReport, Reads, ReadOnly
<1>. QED  BY <1>1, <1>2, <1>3, <1>4

\* What a plan keeps for what it forgets outranks it.
LEMMA KeepersStay ==
  ASSUME ReportsInv, [ReportsNext]_allVars
  PROVE  KeepersOutrank'
<1>0. attrs' = attrs /\ PlansSuggest /\ KeepersOutrank
  BY AttributesStay DEF ReportsInv
<1>1. keepers' = keepers => KeepersOutrank'
  BY <1>0 DEF KeepersOutrank, Outranks
<1>2. CASE ApplyPlan
  <2>1. PICK plan \in plans :
          keepers' = [id \in MemoryIDs |->
            {suggestion.keep : suggestion \in
               {s \in plan : id \in s.forget /\ id \notin db.forgetLog}}
            \cup keepers[id]]
    BY <1>2 DEF ApplyPlan
  <2>2. ASSUME NEW id \in MemoryIDs, NEW keeper \in keepers'[id]
        PROVE  keeper \in MemoryIDs /\ Outranks(keeper, id)
    <3>1. CASE keeper \in keepers[id]
      BY <1>0, <3>1 DEF KeepersOutrank
    <3>2. CASE \E s \in plan : id \in s.forget /\ keeper = s.keep
      BY <1>0, <3>2 DEF PlansSuggest, Suggests
    <3>. QED  BY <2>1, <2>2, <3>1, <3>2
  <2>. QED  BY <1>0, <2>2 DEF KeepersOutrank, Outranks
<1>3. keepers' = keepers \/ ApplyPlan
  BY DEF ReportsNext, allVars, reportVars, StoreStep, Expire, PlanListing,
         DiagnosticsListing, DiagnosticsLookup, PlanDone, CurationListing,
         CurationLookup, CurationDone, ProfileStatic, ProfileEpisodic, ProfileDone,
         BeginReport, Reads, ReadOnly
<1>. QED  BY <1>1, <1>2, <1>3

\* Reading leaves the store and its index alone.
LEMMA ReportsKeepIndex ==
  ASSUME ReportsInv, [ReportsNext]_allVars
  PROVE  IndexInv'
<1>1. IndexInv
  BY DEF ReportsInv
<1>2. [IndexNext]_<<vars, indexVars>> \/ ApplyPlan
  BY DEF ReportsNext, allVars, reportVars, StoreStep, Expire, PlanListing,
         DiagnosticsListing, DiagnosticsLookup, PlanDone, CurationListing,
         CurationLookup, CurationDone, ProfileStatic, ProfileEpisodic, ProfileDone,
         BeginReport, Reads, ReadOnly
<1>. QED  BY <1>1, <1>2, NextIndexInv, ApplyPlanKeepsIndex

\* The first state.
LEMMA InitReportsInv == ReportsInit => ReportsInv
<1>. SUFFICES ASSUME ReportsInit
              PROVE  ReportsInv
  OBVIOUS
<1>1. IndexInv
  BY InitIndexInv DEF ReportsInit
<1>. QED
  BY <1>1 DEF ReportsInit, ReportsInv, ReportTyped, PlansSuggest, KeepersOutrank

\* Every step.
LEMMA NextReportsInv == ReportsInv /\ [ReportsNext]_allVars => ReportsInv'
<1>. SUFFICES ASSUME ReportsInv, [ReportsNext]_allVars
              PROVE  ReportsInv'
  OBVIOUS
<1>1. IndexInv' /\ ReportTyped' /\ PlansSuggest' /\ KeepersOutrank'
  BY ReportsKeepIndex, ReportStaysTyped, PlansStay, KeepersStay
<1>2. attrs' \in Attributes
  BY AttributesStay DEF ReportsInv
<1>. QED  BY <1>1, <1>2 DEF ReportsInv

-------------------------------------------------------------------------------
(* The theorems. *)

\* While reports are made, and plans applied, every listing stays exact
\* (loadSpaceMemoryIDs, ForgetBatch).
THEOREM ListingsStayExact == ReportsSpec => []ListingIsExact
<1>1. ReportsInv => ListingIsExact
  <2>. SUFFICES ASSUME ReportsInv, NEW space \in Spaces
                PROVE  LoadSpaceMemoryIDs(index[space]) = LiveIn(db, space)
    BY DEF ListingIsExact
  <2>1. LiveIn(db, space) \in SUBSET MemoryIDs
    BY CommittedIsSound, LiveTypes DEF Sound, ReportsInv
  <2>2. AgreesWith(index[space], LiveIn(db, space), touched[space])
    BY AgreedBefore DEF ReportsInv
  <2>. QED  BY <2>1, <2>2, AgreedIsLoaded
<1>. QED  BY <1>1, InitReportsInv, NextReportsInv, PTL DEF ReportsSpec

\* A plan forgets many memories at once, and still the counters are wrong by at
\* most the one of the first Forget (incrementLiveKindCount).
THEOREM CountersStillDriftByOne == ReportsSpec => []CountsDriftOnlyByFirstTouch
<1>1. ReportsInv => CountsDriftOnlyByFirstTouch
  <2>. SUFFICES ASSUME ReportsInv, NEW space \in Spaces, index[space].counts # Nil
                PROVE  Total(index[space].counts)
                         = Cardinality(LiveIn(db, space)) + Drift(touched[space])
    BY DEF CountsDriftOnlyByFirstTouch
  <2>1. LiveIn(db, space) \in SUBSET MemoryIDs
    BY CommittedIsSound, LiveTypes DEF Sound, ReportsInv
  <2>2. AgreesWith(index[space], LiveIn(db, space), touched[space])
    BY AgreedBefore DEF ReportsInv
  <2>. QED  BY <2>1, <2>2, AgreedIsLoaded
<1>. QED  BY <1>1, InitReportsInv, NextReportsInv, PTL DEF ReportsSpec

\* However many commits come between the listings and the lookups of a cleanup
\* plan, it names only memories that were all live when it began
\* (BuildQualityCleanupPlan, selectCleanupTargets).
THEOREM PlansAlwaysNameLiveTogether == ReportsSpec => []PlansNameLiveTogether
<1>1. ReportsInv => PlansNameLiveTogether
  <2>. SUFFICES ASSUME ReportsInv, PlanComplete, NEW s \in Plan
                PROVE  {s.keep} \cup s.forget \subseteq report.live
    BY DEF PlansNameLiveTogether
  <2>1. /\ report.known \in SUBSET MemoryIDs
        /\ report.known \subseteq report.live /\ attrs \in Attributes
    BY DEF PlanComplete, Complete, ReportsInv, ReportTyped, Report
  <2>2. Suggests(s, report.known)
    BY <2>1, PlanSuggests DEF Plan
  <2>. QED  BY <2>1, <2>2 DEF Suggests
<1>. QED  BY <1>1, InitReportsInv, NextReportsInv, PTL DEF ReportsSpec

\* Whatever plans are made and applied, and in whatever order, what they forget
\* rests in the end on a memory no plan forgot: of any memories that plans
\* forgot, the best one was forgotten for a better one still.
THEOREM FactsAlwaysSurvive == ReportsSpec => []FactsSurvivePlans
<1>1. ReportsInv => FactsSurvivePlans
  <2>. SUFFICES ASSUME ReportsInv,
                       NEW swept \in SUBSET {id \in MemoryIDs : keepers[id] # {}},
                       swept # {}
                PROVE  \E id \in swept : ~(keepers[id] \subseteq swept)
    BY DEF FactsSurvivePlans
  <2>1. attrs \in Attributes /\ swept \in SUBSET MemoryIDs /\ KeepersOutrank
    BY DEF ReportsInv
  <2>2. PICK id \in swept : \A other \in swept \ {id} : Outranks(id, other)
    BY <2>1, BestExists
  <2>3. PICK keeper \in keepers[id] : TRUE
    OBVIOUS
  <2>4. keeper \in MemoryIDs /\ id \in MemoryIDs /\ Outranks(keeper, id)
    BY <2>1 DEF KeepersOutrank
  <2>5. keeper \notin swept
    BY <2>1, <2>2, <2>4, RankOrders
  <2>. QED  BY <2>5
<1>. QED  BY <1>1, InitReportsInv, NextReportsInv, PTL DEF ReportsSpec

-------------------------------------------------------------------------------
(* Lint.                                                                     *)

\* The order of the candidates.
Precedes(content, a, b) ==
  \/ Score(content, a) > Score(content, b)
  \/ Score(content, a) = Score(content, b) /\ a > b

\* Scores are hundredths, and a text and its own vector score all of them.
LEMMA ScoreType ==
  ASSUME attrs \in Attributes, NEW content \in Contents, NEW id \in MemoryIDs
  PROVE  /\ Score(content, id) \in 0 .. 100
         /\ /\ attrs[id].content = content
            /\ db.memories[id].embedding # Nil
            => Score(content, id) = 100
<1>1. attrs[id].content \in Contents
  BY AttributesAssumption
<1>2. /\ Similarity[<<content, attrs[id].content>>] \in 0 .. 100
      /\ Similarity[<<content, content>>] = 100
  BY <1>1, SimilarityAssumption
<1>. QED  BY <1>2 DEF Score

\* Of two candidates exactly one comes first.
LEMMA CandidatesOrdered ==
  ASSUME attrs \in Attributes, NEW content \in Contents
  PROVE  /\ \A a, b \in MemoryIDs :
              a # b => Precedes(content, a, b) \/ Precedes(content, b, a)
         /\ \A a, b \in MemoryIDs :
              ~(Precedes(content, a, b) /\ Precedes(content, b, a))
         /\ \A a, b, c \in MemoryIDs :
              Precedes(content, a, b) /\ Precedes(content, b, c)
                => Precedes(content, a, c)
<1>1. \A id \in MemoryIDs : id \in Int /\ Score(content, id) \in Int
  <2>1. \A id \in MemoryIDs : id \in Int
    BY IDsAssumption
  <2>2. \A id \in MemoryIDs : Score(content, id) \in Int
    BY ScoreType
  <2>. QED  BY <2>1, <2>2
<1>. QED  BY <1>1 DEF Precedes

\* The one candidate asked for is the one nothing comes before.
LEMMA BestIsFirst ==
  ASSUME NEW content, NEW ids \in SUBSET MemoryIDs, NEW a
  PROVE  a \in Best(content, ids, 1) <=>
           a \in ids /\ \A b \in ids : ~Precedes(content, b, a)
<1>. DEFINE before == {b \in ids : Precedes(content, b, a)}
<1>1. before \in SUBSET MemoryIDs
  OBVIOUS
<1>2. IsFiniteSet(before) /\ Cardinality(before) \in Nat
  BY <1>1, IDsAssumption, FS_Subset, FS_CardinalityType
<1>3. Cardinality(before) < 1 <=> before = {}
  BY <1>2, FS_EmptySet
<1>4. a \in Best(content, ids, 1) <=> a \in ids /\ Cardinality(before) < 1
  BY DEF Best, Leading, Precedes
<1>. QED  BY <1>3, <1>4

\* There is one, unless there are no candidates.
LEMMA FirstExists ==
  ASSUME attrs \in Attributes, NEW content \in Contents,
         NEW ids \in SUBSET MemoryIDs, ids # {}
  PROVE  \E a \in ids : \A b \in ids : ~Precedes(content, b, a)
<1>. DEFINE HasFirst(s) == \E a \in s : \A b \in s : ~Precedes(content, b, a)
            Good == {s \in SUBSET ids : s # {} => HasFirst(s)}
<1>1. {} \in Good
  OBVIOUS
<1>2. ASSUME NEW s \in SUBSET ids, NEW x \in s, s \ {x} \in Good
      PROVE  HasFirst(s)
  <2>0. ~Precedes(content, x, x)
    BY CandidatesOrdered
  <2>1. CASE s \ {x} = {}
    <3>1. \A b \in s : b = x
      BY <2>1
    <3>. QED  BY <2>0, <3>1
  <2>2. CASE s \ {x} # {}
    <3>1. PICK a \in s \ {x} : \A b \in s \ {x} : ~Precedes(content, b, a)
      BY <1>2, <2>2
    <3>2. CASE ~Precedes(content, x, a)
      BY <3>1, <3>2
    <3>3. CASE Precedes(content, x, a)
      <4>1. ASSUME NEW b \in s \ {x}
            PROVE  ~Precedes(content, b, x)
        <5>1. Precedes(content, b, x) => Precedes(content, b, a)
          BY <3>3, CandidatesOrdered
        <5>. QED  BY <3>1, <5>1
      <4>. QED  BY <2>0, <4>1
    <3>. QED  BY <3>2, <3>3
  <2>. QED  BY <2>1, <2>2
<1>3. \A s \in SUBSET ids : s \in Good
  <2>. HIDE DEF HasFirst
  <2>1. \A s \in SUBSET ids :
          s # {} => \E x \in s : (s \ {x} \in Good => s \in Good)
    BY <1>2
  <2>. HIDE DEF Good
  <2>. QED  BY <1>1, <2>1, OneByOne
<1>. QED  BY <1>3

\* The first candidate is live and nothing live comes before it.
LEMMA FirstCandidate ==
  ASSUME ReportsInv, NEW space, NEW content \in Contents, LiveNow(space) # {}
  PROVE  \E a \in FindCandidates(space, content, 1) :
           /\ a \in LiveNow(space)
           /\ \A id \in LiveNow(space) : ~Precedes(content, id, a)
<1>0. attrs \in Attributes
  BY DEF ReportsInv
<1>1. PICK ids \in SUBSET MemoryIDs :
        /\ ids = LiveNow(space)
        /\ FindCandidates(space, content, 1) = Best(content, ids, 1)
  <2>1. {id \in StoredIn(space) : IsCandidateEligible(id, FALSE, FALSE)}
          = LiveNow(space)
    BY DEF StoredIn, IsCandidateEligible, LiveNow, LiveIn
  <2>2. LiveNow(space) \in SUBSET MemoryIDs
    BY DEF LiveNow, LiveIn, Stored
  <2>. QED  BY <2>1, <2>2 DEF FindCandidates
<1>2. \A a : a \in Best(content, ids, 1) <=>
               a \in ids /\ \A b \in ids : ~Precedes(content, b, a)
  BY BestIsFirst
<1>3. \E a \in ids : \A b \in ids : ~Precedes(content, b, a)
  BY <1>0, <1>1, FirstExists
<1>. QED  BY <1>1, <1>2, <1>3

\* Of the memories with the vector of the text about to be remembered the newest
\* is the one candidate that is looked at, so a static one is missed only when
\* one of another kind is newer (detectPossibleDuplicate, FindCandidates).
THEOREM LintAlwaysSeesDuplicates == ReportsSpec => []LintSeesDuplicates
<1>1. ASSUME ReportsInv, NEW space \in Configured, NEW content \in Contents,
             NEW id \in LiveNow(space), Score(content, id) = 100,
             KindOf(id) = "static"
      PROVE  \E first \in LiveNow(space) :
               /\ Score(content, first) = 100 /\ first >= id
               /\ \/ first \in LintRemember(space, content, {}).duplicate
                  \/ KindOf(first) # "static"
  <2>1. PICK first \in FindCandidates(space, content, 1) :
          first \in LiveNow(space) /\ ~Precedes(content, id, first)
    BY <1>1, FirstCandidate
  <2>2. /\ first \in MemoryIDs /\ id \in MemoryIDs /\ attrs \in Attributes
        /\ MemoryIDs \subseteq Int
    BY <1>1, <2>1, IDsAssumption DEF LiveNow, LiveIn, Stored, ReportsInv
  <2>3. Score(content, first) \in 0 .. 100
    BY <2>2, ScoreType
  <2>4. Score(content, first) = 100 /\ first >= id
    BY <1>1, <2>1, <2>2, <2>3 DEF Precedes
  <2>5. ASSUME KindOf(first) = "static"
        PROVE  first \in LintRemember(space, content, {}).duplicate
    <3>1. first \in DetectPossibleDuplicate(space, content)
      BY <2>1, <2>4, <2>5 DEF DetectPossibleDuplicate, TopCandidate,
                              duplicateScoreThreshold
    <3>. QED  BY <3>1 DEF LintRemember
  <2>. QED  BY <2>1, <2>4, <2>5
<1>2. ReportsInv => LintSeesDuplicates
  BY <1>1, Zenon DEF LintSeesDuplicates
<1>. QED  BY <1>2, InitReportsInv, NextReportsInv, PTL DEF ReportsSpec

-------------------------------------------------------------------------------
(* The profile: the two layers are read apart.                               *)

\* A later version of a lineage has a larger id.
OrderedByAge(d) ==
  \A a, b \in Stored(d) :
    /\ RootOf(d, a) = RootOf(d, b)
    /\ d.memories[a].version < d.memories[b].version
    => a < b

\* No key was passed over.
InSequence(d) == \A id \in Stored(d), m \in MemoryIDs : m < id => m \in Stored(d)

\* A lineage is all derived or not at all.
DerivedApart(d) ==
  \A id \in Stored(d) :
    d.memories[id].kind = "derived" <=> d.memories[RootOf(d, id)].kind = "derived"

Aged(d) == OrderedByAge(d) /\ InSequence(d) /\ DerivedApart(d)

\* A version of what its root was follows a promoted one.
DemotedIn(d, root) ==
  \E id \in Stored(d) :
    /\ RootOf(d, id) = root
    /\ d.memories[id].kind = "episodic"
    /\ d.memories[id].parentID # Nil
    /\ d.memories[d.memories[id].parentID].kind = "static"

LayersApart(d, r) ==
  \A a \in r.known, b \in r.listed :
    RootOf(d, a) = RootOf(d, b) => DemotedIn(d, RootOf(d, a))

\* Why an episodic memory that was live is in no layer.
LeftOut(d, gone, id) ==
  /\ d.memories[id].kind = "episodic"
  /\ \E later \in Versions(d, RootOf(d, id)) :
       /\ later >= id
       /\ \/ d.memories[later].kind = "static"
          \/ later \in d.forgetLog \cup gone

NoneLost(d, gone, r) ==
  \A id \in r.live :
    \/ \E shown \in r.known \cup r.listed : RootOf(d, shown) = RootOf(d, id)
    \/ LeftOut(d, gone, id)

\* The profile r, half read or read, of a database d in which gone have expired.
ProfileHolds(d, gone, r) ==
  /\ r.known \subseteq Stored(d)
  /\ r.listed \subseteq Stored(d)
  /\ r.live \subseteq Stored(d)
  /\ \A id \in r.known : d.memories[id].kind \in StaticLayer
  /\ \A id \in r.live :
       /\ d.memories[id].spaceID = r.space
       /\ d.memories[id].kind \in StaticLayer => id \in r.known
  /\ r.pc = "both" => LayersApart(d, r) /\ NoneLost(d, gone, r)

ProfileInv ==
  /\ ~InBatch
  /\ Aged(db)
  /\ report # Nil /\ report.op = "profile" => ProfileHolds(db, expired, report)

-------------------------------------------------------------------------------
(* Lineages grow older.                                                      *)

\* The reports begin no batch.
LEMMA NoBatchBegins ==
  ASSUME IndexInv, ~InBatch, [ReportsNext]_allVars
  PROVE  ~InBatch'
<1>1. CASE tx' = Nil \/ tx' = tx
  BY <1>1 DEF InBatch, Running, Idle
<1>2. CASE ReviveBegin
  BY <1>2 DEF ReviveBegin, InBatch, Running
<1>3. CASE ReviveSkip \/ ReviveSuperseded
  <2>1. TypeOK
    BY DEF IndexInv, SpaceInv, LogInv, ChainInv, HInv, IInv
  <2>2. tx \in ReviveTx
    BY <1>3, <2>1, RunningType DEF ReviveSkip, ReviveSuperseded
  <2>3. tx'.op = "revive"
    BY <1>3, <2>2 DEF ReviveSkip, ReviveSuperseded, ReviveTx
  <2>. QED  BY <2>3 DEF InBatch, Running
<1>4. \/ tx' = Nil \/ tx' = tx
      \/ ReviveBegin \/ ReviveSkip \/ ReviveSuperseded
  <2>1. CASE IndexNext
    <3>1. \/ Remember \/ Forget \/ EnsureSpace \/ UpdateSpaceConfig
          \/ ReviveBegin \/ TxStep \/ Crash \/ tx' = tx
      BY <2>1 DEF IndexNext, NewProgramStep, IndexedRemember, IndexedForget,
         IndexedRevive, IndexedEnsureSpace, Unindexed, OldProgramStep, Upgrade,
         TxStep, vars
    <3>2. CASE Remember \/ Forget \/ EnsureSpace \/ UpdateSpaceConfig \/ Crash
      BY <3>2 DEF Remember, Forget, EnsureSpace, UpdateSpaceConfig, Crash, Rollback
    <3>3. CASE TxStep
      BY <3>3 DEF TxStep, RememberBatchItem, RememberBatchFail, RememberBatchCommit,
         ForgetBatchItem, ForgetBatchFail, ForgetBatchCommit, ReviveCommit,
         ReviveMiss, Rollback, InBatch
    <3>. QED  BY <3>1, <3>2, <3>3
  <2>2. CASE ApplyPlan
    BY <2>2 DEF ApplyPlan
  <2>3. IndexNext \/ ApplyPlan \/ tx' = tx
    BY DEF ReportsNext, allVars, reportVars, StoreStep, Expire, PlanListing,
         DiagnosticsListing, DiagnosticsLookup, PlanDone, CurationListing,
         CurationLookup, CurationDone, ProfileStatic, ProfileEpisodic, ProfileDone,
         BeginReport, Reads, ReadOnly, vars
  <2>. QED  BY <2>1, <2>2, <2>3
<1>. QED  BY <1>1, <1>2, <1>3, <1>4

\* e has what d has and the memory id, which is derived when its lineage is.
GrowsBy(d, e, id) ==
  /\ Stored(e) = Stored(d) \cup {id}
  /\ e.memories[id].kind = "derived"
       <=> e.memories[RootOf(e, id)].kind = "derived"

\* No operation adds two memories, and only an episodic lineage changes its kind.
LEMMA OperationGrows ==
  ASSUME NEW d \in DB, HeadsAgree(d), DerivedApart(d), NEW e,
         NEW known \in SUBSET MemoryIDs, Operates(known, d, e)
  PROVE  \/ Stored(e) = Stored(d)
         \/ \E id \in MemoryIDs \ Stored(d) : GrowsBy(d, e, id)
<1>0. KeepsHistory(d, e)
  BY OperationKeeps
<1>1. CASE Remembers(known, d, e)
  <2>1. PICK input \in Inputs(known), id \in MemoryIDs \ Stored(d),
             embedding \in Models :
          /\ RememberAllowed(d, input)
          /\ e = RememberPreparedInTx(d, input, id, embedding)
    BY <1>1 DEF Remembers
  <2>2. /\ Stored(e) = Stored(d) \cup {id}
        /\ \E version \in Nat, root \in MemoryIDs \cup {Nil} :
             /\ e.memories[id] =
                  NewMemory(input, version, input.updates, root, embedding)
             /\ IF input.updates = Nil THEN root = Nil
                ELSE root = RootOf(d, input.updates)
        /\ input.updates # Nil => input.updates \in Stored(d)
    BY <2>1, RememberEffect
  <2>3. PICK root \in MemoryIDs \cup {Nil} :
          /\ e.memories[id].kind = input.kind /\ e.memories[id].rootID = root
          /\ IF input.updates = Nil THEN root = Nil
             ELSE root = RootOf(d, input.updates)
    BY <2>2 DEF NewMemory
  <2>4. CASE input.updates = Nil
    BY <2>2, <2>3, <2>4 DEF GrowsBy, RootOf
  <2>5. CASE input.updates # Nil
    <3>1. PICK target \in Stored(d) : target = input.updates
      BY <2>2, <2>5
    <3>2. root = RootOf(d, target) /\ root \in Stored(d)
      BY <2>3, <2>5, <3>1 DEF HeadsAgree, RootsAreRoots
    <3>3. RootOf(e, id) = root
      BY <2>3, <3>2, NilAssumption DEF RootOf, Stored
    <3>4. e.memories[root].kind = d.memories[root].kind
      BY <1>0, <3>2, FrozenFields
    <3>5. d.memories[target].kind = "derived" <=> d.memories[root].kind = "derived"
      BY <3>2 DEF DerivedApart
    <3>6. d.memories[target].kind # input.kind =>
            d.memories[target].kind = "episodic" /\ input.kind = "static"
      BY <2>1, <2>5, <3>1 DEF RememberAllowed, ValidUpdateTarget, ValidPromotion
    <3>. QED  BY <2>2, <2>3, <3>3, <3>4, <3>5, <3>6 DEF GrowsBy
  <2>. QED  BY <2>4, <2>5
<1>2. CASE Revives(d, e)
  <2>1. PICK root \in Stored(d), last \in Stored(d), id \in MemoryIDs \ Stored(d) :
          e = ReviveLineage(d, root, last, d.memories[root].kind, id)
    BY <1>2 DEF Revives
  <2>2. d.memories[root].kind \in Kinds
    BY StoredType DEF Memory
  <2>3. /\ Stored(e) = Stored(d) \cup {id}
        /\ e.memories[id] = RevivedMemory(d, root, last, d.memories[root].kind)
    BY <2>1, <2>2, ReviveEffect
  <2>4. /\ e.memories[id].kind = d.memories[root].kind
        /\ e.memories[id].rootID = root
    BY <2>3 DEF RevivedMemory
  <2>5. RootOf(e, id) = root
    BY <2>4, NilAssumption DEF RootOf, Stored
  <2>6. e.memories[root].kind = d.memories[root].kind
    BY <1>0, FrozenFields
  <2>. QED  BY <2>3, <2>4, <2>5, <2>6 DEF GrowsBy
<1>3. CASE Forgets(d, e)
  BY <1>3, ForgetEffect DEF Forgets, ForgetInTx
<1>4. CASE Configures(d, e) \/ EndsMigration(d, e)
  BY <1>4, ConfigEffect, MigrateEffect DEF EndsMigration
<1>. QED  BY <1>1, <1>2, <1>3, <1>4 DEF Operates

\* A database that keeps the memories keeps their order.
LEMMA SameAges ==
  ASSUME NEW d, NEW e, KeepsHistory(d, e), Stored(e) = Stored(d), HeadsAgree(d),
         Aged(d)
  PROVE  Aged(e)
<1>1. \A m \in Stored(d) :
        /\ e.memories[m].kind = d.memories[m].kind
        /\ e.memories[m].version = d.memories[m].version
        /\ RootOf(e, m) = RootOf(d, m)
  BY FrozenFields
<1>2. \A m \in Stored(d) : RootOf(d, m) \in Stored(d)
  BY DEF HeadsAgree, RootsAreRoots
<1>3. OrderedByAge(e)
  BY <1>1 DEF Aged, OrderedByAge
<1>4. InSequence(e)
  BY DEF Aged, InSequence
<1>5. DerivedApart(e)
  BY <1>1, <1>2 DEF Aged, DerivedApart
<1>. QED  BY <1>3, <1>4, <1>5 DEF Aged

\* The memory that comes has the largest id, and the largest number of its
\* lineage.
LEMMA OlderByOne ==
  ASSUME NEW d \in DB, NEW e \in DB, KeepsHistory(d, e), HeadsAgree(d), Chains(d),
         Chains(e), Aged(d), NEW id \in MemoryIDs \ Stored(d), GrowsBy(d, e, id),
         \A m \in MemoryIDs : m < id => m \in Stored(e)
  PROVE  Aged(e)
<1>0. Stored(e) = Stored(d) \cup {id} /\ Stored(d) \in SUBSET MemoryIDs
  BY DEF GrowsBy, Stored
<1>1. \A m \in Stored(d) :
        /\ e.memories[m].kind = d.memories[m].kind
        /\ e.memories[m].version = d.memories[m].version
        /\ RootOf(e, m) = RootOf(d, m)
  BY FrozenFields
<1>2. \A m \in Stored(d) : RootOf(d, m) \in Stored(d)
  BY DEF HeadsAgree, RootsAreRoots
<1>3. \A m \in MemoryIDs : m \in Nat
  BY IDsAssumption
<1>4. \A m \in Stored(d) : m < id
  <2>. SUFFICES ASSUME NEW m \in Stored(d), ~(m < id)
                PROVE  FALSE
    OBVIOUS
  <2>1. m # id /\ m \in Nat /\ id \in Nat
    BY <1>0, <1>3
  <2>2. id < m
    BY <2>1
  <2>. QED  BY <2>2 DEF Aged, InSequence
<1>5. ASSUME NEW b \in Stored(d), RootOf(e, id) = RootOf(e, b)
      PROVE  ~(e.memories[id].version < e.memories[b].version)
  <2>1. PICK root \in MemoryIDs : root = RootOf(d, b)
    BY <1>0, <1>2
  <2>. DEFINE V == Versions(d, root)
              W == Versions(e, root)
              n == Cardinality(V)
  <2>2. W = V \cup {id} /\ id \notin V
    BY <1>0, <1>1, <1>5, <2>1 DEF Versions
  <2>3. Cardinality(W) = n + 1 /\ n \in Nat
    BY <2>2, VersionsFinite, FS_AddElement
  <2>4. /\ \A a \in W : e.memories[a].version \in 1 .. (n + 1)
        /\ \A a, c \in W : e.memories[a].version = e.memories[c].version => a = c
    <3>1. /\ {e.memories[a].version : a \in W} = 1 .. Cardinality(W)
          /\ \A a, c \in W : e.memories[a].version = e.memories[c].version => a = c
      BY DEF Chains, Numbered
    <3>. HIDE DEF W, n
    <3>. QED  BY <2>3, <3>1
  <2>5. {d.memories[a].version : a \in V} = 1 .. n
    BY DEF Chains, Numbered
  <2>6. ASSUME NEW k \in 1 .. n
        PROVE  e.memories[id].version # k
    <3>1. PICK a \in V : d.memories[a].version = k
      BY <2>5
    <3>2. a \in W /\ id \in W /\ a # id /\ e.memories[a].version = k
      BY <1>0, <1>1, <2>2, <3>1 DEF Versions
    <3>. QED  BY <2>4, <3>2
  <2>7. b \in W /\ id \in W
    BY <2>1, <2>2 DEF Versions
  <2>8. e.memories[b].version \in 1 .. (n + 1) /\ e.memories[id].version \in 1 .. (n + 1)
    BY <2>4, <2>7
  <2>. HIDE DEF V, W, n
  <2>. QED  BY <2>3, <2>6, <2>8
<1>6. OrderedByAge(e)
  <2>. SUFFICES ASSUME NEW a \in Stored(e), NEW b \in Stored(e),
                       RootOf(e, a) = RootOf(e, b),
                       e.memories[a].version < e.memories[b].version
                PROVE  a < b
    BY DEF OrderedByAge
  <2>1. CASE a \in Stored(d) /\ b \in Stored(d)
    BY <1>1, <2>1 DEF Aged, OrderedByAge
  <2>2. CASE a \in Stored(d) /\ b = id
    BY <1>4, <2>2
  <2>3. CASE a = id /\ b \in Stored(d)
    BY <1>5, <2>3
  <2>4. CASE a = id /\ b = id
    <3>1. e.memories[id].version \in Nat
      BY <1>0, StoredType DEF Memory
    <3>. QED  BY <2>4, <3>1
  <2>. QED  BY <1>0, <2>1, <2>2, <2>3, <2>4
<1>7. InSequence(e)
  <2>1. \A m \in Stored(d), k \in MemoryIDs : k < m => k \in Stored(e)
    BY <1>0 DEF Aged, InSequence
  <2>. QED  BY <1>0, <2>1 DEF InSequence
<1>8. DerivedApart(e)
  <2>1. \A m \in Stored(d) :
          e.memories[m].kind = "derived" <=> e.memories[RootOf(e, m)].kind = "derived"
    BY <1>1, <1>2 DEF Aged, DerivedApart
  <2>. QED  BY <1>0, <2>1 DEF GrowsBy, DerivedApart
<1>. QED  BY <1>6, <1>7, <1>8 DEF Aged

\* e comes after d: it keeps its memories and what its forget log says.
Follows(d, e) == KeepsHistory(d, e) /\ d.forgetLog \subseteq e.forgetLog

\* Forgotten memories stay forgotten, and the log names them.
LEMMA KeptFollows ==
  ASSUME NEW d, NEW e, Sound(d), Sound(e), KeepsHistory(d, e)
  PROVE  Follows(d, e)
<1>1. /\ d.forgetLog = {id \in Stored(d) : d.memories[id].isForgotten}
      /\ e.forgetLog = {id \in Stored(e) : e.memories[id].isForgotten}
  BY DEF Sound, Logged, ForgetsLogged
<1>2. \A id \in Stored(d) :
        id \in Stored(e) /\ (d.memories[id].isForgotten => e.memories[id].isForgotten)
  BY DEF KeepsHistory, Kept
<1>. QED  BY <1>1, <1>2 DEF Follows

\* Every step leaves a database that comes after the one before.
LEMMA DatabaseFollows ==
  ASSUME IndexInv, ~InBatch, Aged(db), [ReportsNext]_allVars
  PROVE  Aged(db') /\ Follows(db, db')
<1>0. /\ Sound(db) /\ db \in DB /\ HeadsAgree(db) /\ Chains(db)
      /\ DerivedApart(db) /\ Stored(db) \in SUBSET MemoryIDs
  BY CommittedIsSound DEF Sound, Aged, Stored
<1>1. CASE db' = db
  <2>1. KeepsHistory(db, db)
    BY KeepsReflexive
  <2>. QED  BY <1>1, <2>1 DEF Follows
<1>2. CASE StoreStep
  <2>1. [IndexNext]_<<vars, indexVars>> /\ [Next]_vars
    BY <1>2, IndexedSteps DEF StoreStep
  <2>2. IndexInv'
    BY <2>1, NextIndexInv
  <2>3. PICK e : e = db'
    OBVIOUS
  <2>4. Sound(e)
    BY <2>2, <2>3 DEF IndexInv, SpaceInv, LogInv, ChainInv, HInv, IInv, TypeOK, Sound
  <2>5. HInv
    BY DEF IndexInv, SpaceInv, LogInv, ChainInv
  <2>6. KeepsHistory(db, e)
    BY <2>1, <2>3, <2>5, NextKeepsHistory
  <2>7. e = db \/ Operates(Stored(db), db, e)
    BY <2>1, <2>3, <2>5, StepOfDB
  <2>8. \/ Stored(e) = Stored(db)
        \/ \E id \in MemoryIDs \ Stored(db) : GrowsBy(db, e, id)
    BY <1>0, <2>7, OperationGrows
  <2>9. Aged(e)
    <3>1. CASE Stored(e) = Stored(db)
      BY <1>0, <2>6, <3>1, SameAges
    <3>2. CASE \E id \in MemoryIDs \ Stored(db) : GrowsBy(db, e, id)
      <4>1. PICK id \in MemoryIDs \ Stored(db) : GrowsBy(db, e, id)
        BY <3>2
      <4>2. \A m \in MemoryIDs : m < id => m \in Stored(e)
        <5>1. id \in Added
          BY <2>3, <4>1 DEF GrowsBy, Added
        <5>. QED  BY <1>2, <2>3, <5>1 DEF StoreStep, InOrder
      <4>3. e \in DB /\ Chains(e)
        BY <2>4 DEF Sound
      <4>. QED  BY <1>0, <2>6, <4>1, <4>2, <4>3, OlderByOne
    <3>. QED  BY <2>8, <3>1, <3>2
  <2>10. Follows(db, e)
    BY <1>0, <2>4, <2>6, KeptFollows
  <2>. QED  BY <2>3, <2>9, <2>10
<1>3. CASE ApplyPlan
  <2>1. PICK plan \in plans :
          /\ \A id \in SuggestedForgetBatch(plan) : ForgetAllowed(db, id)
          /\ db' = ForgetAll(db, SuggestedForgetBatch(plan))
    BY <1>3 DEF ApplyPlan
  <2>2. PICK ids, e : /\ ids = SuggestedForgetBatch(plan)
                      /\ e = ForgetAll(db, ids) /\ db' = e
    BY <2>1
  <2>3. ids \in SUBSET Stored(db) /\ \A id \in ids : ForgetAllowed(db, id)
    BY <2>1, <2>2 DEF ForgetAllowed
  <2>4. Forgotten(db, e, ids)
    BY <1>0, <2>2, <2>3, ForgetAllIsSound
  <2>5. Sound(e) /\ KeepsHistory(db, e) /\ Stored(e) = Stored(db)
    BY <2>4 DEF Forgotten
  <2>6. Aged(e) /\ Follows(db, e)
    BY <1>0, <2>5, SameAges, KeptFollows
  <2>. QED  BY <2>2, <2>6
<1>. QED
  BY <1>1, <1>2, <1>3 DEF ReportsNext, allVars, reportVars, vars, Expire, PlanListing,
     DiagnosticsListing, DiagnosticsLookup, PlanDone, CurationListing,
     CurationLookup, CurationDone, ProfileStatic, ProfileEpisodic, ProfileDone,
     BeginReport, Reads, ReadOnly

-------------------------------------------------------------------------------
(* What a profile has read stays true of it.                                 *)

\* Two reports that have read the same.
SameReading(q, r) ==
  /\ q.pc = r.pc /\ q.space = r.space
  /\ q.known = r.known /\ q.listed = r.listed /\ q.live = r.live

\* What holds of a reading holds of it ever after.
LEMMA ProfileStays ==
  ASSUME NEW d, NEW e, Sound(d), Follows(d, e), NEW gone, NEW more,
         gone \subseteq more, NEW r, NEW q, SameReading(q, r),
         ProfileHolds(d, gone, r)
  PROVE  ProfileHolds(e, more, q)
<1>0. /\ r.known \subseteq Stored(d) /\ r.listed \subseteq Stored(d)
      /\ r.live \subseteq Stored(d) /\ KeepsHistory(d, e)
      /\ d.forgetLog \subseteq e.forgetLog
      /\ q.pc = r.pc /\ q.space = r.space
      /\ q.known = r.known /\ q.listed = r.listed /\ q.live = r.live
  BY DEF ProfileHolds, Follows, SameReading
<1>1. \A m \in Stored(d) :
        /\ m \in Stored(e)
        /\ e.memories[m].spaceID = d.memories[m].spaceID
        /\ e.memories[m].kind = d.memories[m].kind
        /\ e.memories[m].parentID = d.memories[m].parentID
        /\ RootOf(e, m) = RootOf(d, m)
  BY <1>0, FrozenFields
<1>2. \A m \in Stored(d) :
        d.memories[m].parentID # Nil => d.memories[m].parentID \in Stored(d)
  BY DEF Sound, Chains, ParentsAgree
<1>3. \A root : DemotedIn(d, root) => DemotedIn(e, root)
  BY <1>1, <1>2 DEF DemotedIn
<1>4. LayersApart(d, r) => LayersApart(e, q)
  <2>. SUFFICES ASSUME LayersApart(d, r), NEW a \in q.known, NEW b \in q.listed,
                       RootOf(e, a) = RootOf(e, b)
                PROVE  DemotedIn(e, RootOf(e, a))
    BY DEF LayersApart
  <2>1. a \in r.known /\ b \in r.listed /\ a \in Stored(d) /\ b \in Stored(d)
    BY <1>0
  <2>2. RootOf(d, a) = RootOf(d, b) /\ RootOf(e, a) = RootOf(d, a)
    BY <1>1, <2>1
  <2>. QED  BY <1>3, <2>1, <2>2 DEF LayersApart
<1>5. \A id \in Stored(d) : LeftOut(d, gone, id) => LeftOut(e, more, id)
  <2>. SUFFICES ASSUME NEW id \in Stored(d), LeftOut(d, gone, id)
                PROVE  LeftOut(e, more, id)
    OBVIOUS
  <2>1. PICK later \in Versions(d, RootOf(d, id)) :
          /\ later >= id
          /\ \/ d.memories[later].kind = "static"
             \/ later \in d.forgetLog \cup gone
    BY DEF LeftOut
  <2>2. later \in Stored(d) /\ RootOf(d, later) = RootOf(d, id)
    BY DEF Versions
  <2>3. later \in Versions(e, RootOf(e, id))
    BY <1>1, <2>2 DEF Versions
  <2>4. \/ e.memories[later].kind = "static"
        \/ later \in e.forgetLog \cup more
    BY <1>0, <1>1, <2>1, <2>2
  <2>5. e.memories[id].kind = "episodic"
    BY <1>1 DEF LeftOut
  <2>. QED  BY <2>1, <2>3, <2>4, <2>5 DEF LeftOut
<1>6. NoneLost(d, gone, r) => NoneLost(e, more, q)
  <2>. SUFFICES ASSUME NoneLost(d, gone, r), NEW id \in r.live
                PROVE  \/ \E shown \in r.known \cup r.listed :
                            RootOf(e, shown) = RootOf(e, id)
                       \/ LeftOut(e, more, id)
    BY <1>0 DEF NoneLost
  <2>1. id \in Stored(d)
    BY <1>0
  <2>2. CASE LeftOut(d, gone, id)
    BY <1>5, <2>1, <2>2
  <2>3. CASE \E shown \in r.known \cup r.listed : RootOf(d, shown) = RootOf(d, id)
    <3>1. PICK shown \in r.known \cup r.listed : RootOf(d, shown) = RootOf(d, id)
      BY <2>3
    <3>2. shown \in Stored(d)
      BY <1>0
    <3>. QED  BY <1>1, <2>1, <3>1, <3>2
  <2>. QED  BY <2>2, <2>3 DEF NoneLost
<1>7. \A id \in r.known : e.memories[id].kind \in StaticLayer
  BY <1>0, <1>1 DEF ProfileHolds
<1>8. \A id \in r.live :
        /\ e.memories[id].spaceID = r.space
        /\ e.memories[id].kind \in StaticLayer => id \in r.known
  BY <1>0, <1>1 DEF ProfileHolds
<1>9. r.known \subseteq Stored(e) /\ r.listed \subseteq Stored(e) /\ r.live \subseteq Stored(e)
  BY <1>0, <1>1
<1>10. r.pc = "both" => LayersApart(e, q) /\ NoneLost(e, more, q)
  BY <1>4, <1>6 DEF ProfileHolds
<1>. QED  BY <1>0, <1>7, <1>8, <1>9, <1>10 DEF ProfileHolds

-------------------------------------------------------------------------------
(* The second reading.                                                       *)

\* Every lineage ends in a version with no successor, older than none.
LEMMA LineageEnds ==
  ASSUME NEW d, Sound(d), Aged(d), NEW id \in Stored(d)
  PROVE  \E last \in Versions(d, RootOf(d, id)) :
           /\ last >= id
           /\ d.memories[last].isLatest \/ d.memories[last].isForgotten
<1>0. d \in DB /\ HeadsAgree(d) /\ Chains(d)
  BY DEF Sound
<1>1. PICK root \in MemoryIDs : root = RootOf(d, id)
  BY <1>0, StoredType
<1>. DEFINE V == Versions(d, root)
            n == Cardinality(V)
<1>2. /\ n \in Nat
      /\ {d.memories[m].version : m \in V} = 1 .. n
      /\ \A a, b \in V : d.memories[a].version = d.memories[b].version => a = b
  BY <1>0, VersionsFinite DEF Chains, Numbered
<1>3. id \in V /\ V \subseteq Stored(d)
  BY <1>1 DEF Versions
<1>4. \A m \in V : d.memories[m].version \in 1 .. n
  BY <1>2
<1>5. PICK last \in V : d.memories[last].version = n
  <2>1. n \in 1 .. n
    BY <1>2, <1>3, <1>4
  <2>. QED  BY <1>2, <2>1
<1>6. last \in Stored(d) /\ last # Nil
  BY <1>3, NilAssumption DEF Stored
<1>7. Successors(d, last) = {}
  <2>. SUFFICES ASSUME NEW s \in Successors(d, last)
                PROVE  FALSE
    OBVIOUS
  <2>1. s \in Stored(d) /\ d.memories[s].parentID = last
    BY DEF Successors
  <2>2. /\ d.memories[s].rootID = RootOf(d, last)
        /\ d.memories[s].version = n + 1
    BY <1>0, <1>5, <1>6, <2>1 DEF Chains, ParentsAgree
  <2>3. RootOf(d, last) = root /\ root # Nil
    BY <1>1, <1>5, NilAssumption DEF Versions
  <2>4. RootOf(d, s) = root
    BY <2>2, <2>3 DEF RootOf
  <2>5. s \in V
    BY <2>1, <2>4 DEF Versions
  <2>. HIDE DEF V, n
  <2>. QED  BY <1>2, <1>4, <2>2, <2>5
<1>8. d.memories[last].isLatest \/ d.memories[last].isForgotten
  BY <1>0, <1>6, <1>7 DEF Chains, EndsLive
<1>9. last >= id
  <2>1. id \in Nat /\ last \in Nat
    BY <1>3, <1>6, IDsAssumption DEF Stored
  <2>2. CASE d.memories[id].version = n
    <3>1. id = last
      BY <1>2, <1>3, <1>5, <2>2
    <3>. QED  BY <2>1, <3>1
  <2>3. CASE d.memories[id].version # n
    <3>1. d.memories[id].version < d.memories[last].version
      <4>. HIDE DEF V, n
      <4>. QED  BY <1>2, <1>3, <1>4, <1>5, <2>3
    <3>2. RootOf(d, id) = RootOf(d, last)
      BY <1>1, <1>5 DEF Versions
    <3>3. id < last
      BY <1>6, <3>1, <3>2 DEF Aged, OrderedByAge
    <3>. QED  BY <2>1, <3>3
  <2>. QED  BY <2>2, <2>3
<1>. QED  BY <1>1, <1>5, <1>8, <1>9

\* A promoted lineage with a live version that is not promoted was demoted.
LEMMA LiveIsDemoted ==
  ASSUME NEW d, Sound(d), Aged(d), NEW a \in Stored(d), NEW b \in Stored(d),
         RootOf(d, a) = RootOf(d, b), d.memories[a].kind \in StaticLayer,
         d.memories[b].kind = "episodic", d.memories[b].isLatest
  PROVE  DemotedIn(d, RootOf(d, a))
<1>0. d \in DB /\ HeadsAgree(d) /\ Chains(d) /\ DerivedApart(d)
  BY DEF Sound, Aged
<1>1. PICK root \in MemoryIDs : root = RootOf(d, a) /\ root = RootOf(d, b)
  BY <1>0, StoredType
<1>2. \A m \in Versions(d, root) : m \in Stored(d) /\ RootOf(d, m) = root
  BY DEF Versions
<1>3. d.memories[root].kind # "derived"
  BY <1>0, <1>1 DEF DerivedApart
<1>4. \A m \in Versions(d, root) : d.memories[m].kind \in {"episodic", "static"}
  <2>1. \A m \in Versions(d, root) : d.memories[m].kind # "derived"
    BY <1>0, <1>2, <1>3 DEF DerivedApart
  <2>2. \A m \in Versions(d, root) : d.memories[m].kind \in Kinds
    BY <1>0, <1>2, StoredType DEF Memory
  <2>. QED  BY <2>1, <2>2 DEF Kinds
<1>5. a \in Versions(d, root) /\ b \in Versions(d, root)
  BY <1>1 DEF Versions
<1>6. d.memories[a].kind = "static"
  BY <1>4, <1>5 DEF StaticLayer
<1>. DEFINE V == Versions(d, root)
            n == Cardinality(V)
            number(m) == d.memories[m].version
<1>7. /\ n \in Nat
      /\ {number(m) : m \in V} = 1 .. n
      /\ \A x, y \in V : number(x) = number(y) => x = y
  BY <1>0, VersionsFinite DEF Chains, Numbered
<1>8. \A m \in V : number(m) \in 1 .. n
  BY <1>7
<1>9. number(b) = n
  <2>1. Successors(d, b) = {}
    BY <1>0 DEF Chains, EndsLive
  <2>. QED  BY <1>0, <1>1, <2>1, EndIsLast
<1>10. number(a) < number(b)
  <2>1. number(a) # number(b)
    BY <1>5, <1>6, <1>7
  <2>2. number(a) \in 1 .. n
    BY <1>5, <1>8
  <2>. HIDE DEF V, n, number
  <2>. QED  BY <1>7, <1>9, <2>1, <2>2
<1>. DEFINE Back == {k \in Nat : /\ k > number(a)
                                 /\ \E m \in V : /\ number(m) = k
                                                 /\ d.memories[m].kind = "episodic"}
<1>11. PICK k \in Back : \A j \in Back : k <= j
  <2>1. number(b) \in Back
    BY <1>5, <1>7, <1>8, <1>10
  <2>2. Back \subseteq Nat /\ Back # {}
    BY <2>1
  <2>. HIDE DEF Back
  <2>. QED  BY <2>2, LeastKey
<1>12. PICK c \in V : number(c) = k /\ d.memories[c].kind = "episodic"
  BY <1>11
<1>13. k > number(a) /\ k \in Nat /\ number(a) \in 1 .. n
  BY <1>5, <1>8, <1>11
<1>14. PICK p : p = d.memories[c].parentID
  OBVIOUS
<1>15. p # Nil /\ p \in Stored(d) /\ d.memories[c].rootID = RootOf(d, p)
       /\ number(c) = number(p) + 1
  <2>1. c \in Stored(d)
    BY <1>2
  <2>2. p = Nil => number(c) = 1
    BY <1>0, <1>14, <2>1 DEF Chains, ParentsAgree
  <2>3. k # 1
    <3>. HIDE DEF V, n, number, Back
    <3>. QED  BY <1>13, <1>7
  <2>. QED  BY <1>0, <1>12, <1>14, <2>1, <2>2, <2>3 DEF Chains, ParentsAgree
<1>16. p \in V
  <2>1. RootOf(d, p) # Nil
    BY <1>0, <1>15, StoredType, NilAssumption
  <2>2. RootOf(d, p) = root
    BY <1>2, <1>15, <2>1 DEF RootOf
  <2>. QED  BY <1>15, <2>2 DEF Versions
<1>17. d.memories[p].kind = "static"
  <2>1. number(p) \in 1 .. n /\ number(p) + 1 = k
    BY <1>8, <1>12, <1>15, <1>16
  <2>2. CASE number(p) = number(a)
    BY <1>5, <1>6, <1>7, <1>16, <2>2
  <2>3. CASE number(p) # number(a)
    <3>1. number(p) > number(a) /\ number(p) \in Nat /\ ~(k <= number(p))
      <4>. HIDE DEF V, n, number, Back
      <4>. QED  BY <1>7, <1>13, <2>1, <2>3
    <3>2. number(p) \notin Back
      BY <1>11, <3>1
    <3>3. d.memories[p].kind # "episodic"
      BY <1>16, <3>1, <3>2
    <3>. QED  BY <1>4, <1>16, <3>3
  <2>. QED  BY <2>2, <2>3
<1>18. c \in Stored(d) /\ RootOf(d, c) = root
  BY <1>2
<1>. QED  BY <1>1, <1>12, <1>14, <1>15, <1>17, <1>18 DEF DemotedIn

\* The second reading finds every lineage again that the first one saw, and
\* none twice.
LEMMA ReadingsMeet ==
  ASSUME IndexInv, Aged(db), NEW r, r.space \in Spaces,
         ProfileHolds(db, expired, r), NEW q,
         q.known = r.known, q.live = r.live, q.space = r.space,
         q.listed = {id \in LiveNow(r.space) : KindOf(id) \in EpisodicLayer}
  PROVE  ProfileHolds(db, expired, q)
<1>0. Sound(db) /\ DerivedApart(db) /\ db \in DB /\ HeadsAgree(db) /\ Chains(db)
  BY CommittedIsSound DEF Sound, Aged
<1>1. /\ r.known \subseteq Stored(db) /\ r.live \subseteq Stored(db)
      /\ \A id \in r.known : db.memories[id].kind \in StaticLayer
      /\ \A id \in r.live :
           /\ db.memories[id].spaceID = r.space
           /\ db.memories[id].kind \in StaticLayer => id \in r.known
  BY DEF ProfileHolds
<1>2. \A id \in q.listed : /\ id \in Stored(db) /\ db.memories[id].isLatest
                           /\ db.memories[id].kind = "episodic"
  BY DEF LiveNow, LiveIn, KindOf, EpisodicLayer
<1>3. LayersApart(db, q)
  BY <1>0, <1>1, <1>2, LiveIsDemoted DEF LayersApart
<1>4. NoneLost(db, expired, q)
  <2>. SUFFICES ASSUME NEW id \in r.live, id \notin r.known
                PROVE  \/ \E shown \in q.known \cup q.listed :
                            RootOf(db, shown) = RootOf(db, id)
                       \/ LeftOut(db, expired, id)
    BY DEF NoneLost
  <2>1. /\ id \in Stored(db) /\ db.memories[id].spaceID = r.space
        /\ db.memories[id].kind = "episodic"
    <3>1. id \in Stored(db) /\ db.memories[id].kind \notin StaticLayer
      BY <1>1
    <3>2. db.memories[id].kind \in Kinds
      BY <1>0, <3>1, StoredType DEF Memory
    <3>. QED  BY <1>1, <3>1, <3>2 DEF Kinds, StaticLayer
  <2>2. PICK last \in Versions(db, RootOf(db, id)) :
          /\ last >= id
          /\ db.memories[last].isLatest \/ db.memories[last].isForgotten
    BY <1>0, <2>1, LineageEnds
  <2>3. last \in Stored(db) /\ RootOf(db, last) = RootOf(db, id)
    BY DEF Versions
  <2>4. CASE db.memories[last].isForgotten
    <3>1. last \in db.forgetLog
      BY <1>0, <2>3, <2>4 DEF Sound, Logged, ForgetsLogged
    <3>. QED  BY <2>1, <2>2, <3>1 DEF LeftOut
  <2>5. CASE last \in expired
    BY <2>1, <2>2, <2>5 DEF LeftOut
  <2>6. CASE ~db.memories[last].isForgotten /\ last \notin expired
    <3>1. db.memories[last].spaceID = r.space
      BY <1>0, <2>1, <2>3 DEF Chains, OneSpace
    <3>2. last \in LiveNow(r.space)
      BY <2>2, <2>3, <2>6, <3>1 DEF LiveNow, LiveIn
    <3>3. db.memories[last].kind \in {"episodic", "static"}
      <4>1. db.memories[last].kind # "derived"
        BY <1>0, <2>1, <2>3 DEF DerivedApart
      <4>2. db.memories[last].kind \in Kinds
        BY <1>0, <2>3, StoredType DEF Memory
      <4>. QED  BY <4>1, <4>2 DEF Kinds
    <3>4. CASE db.memories[last].kind = "static"
      BY <2>1, <2>2, <3>4 DEF LeftOut
    <3>5. CASE db.memories[last].kind = "episodic"
      <4>1. last \in q.listed
        BY <3>2, <3>5 DEF KindOf, EpisodicLayer
      <4>. QED  BY <2>3, <4>1
    <3>. QED  BY <3>3, <3>4, <3>5
  <2>. QED  BY <2>4, <2>5, <2>6
<1>. QED  BY <1>1, <1>2, <1>3, <1>4 DEF ProfileHolds

\* What the first reading takes.
LEMMA FirstReading ==
  ASSUME IndexInv, NEW space \in Spaces, NEW r, r.pc = "second", r.space = space,
         r.live \subseteq LiveNow(space), r.listed = {},
         r.known = {id \in r.live : KindOf(id) \in StaticLayer}
  PROVE  ProfileHolds(db, expired, r)
BY DEF ProfileHolds, LiveNow, LiveIn, KindOf

-------------------------------------------------------------------------------
(* The invariant of the profile.                                             *)

\* The report after a step that is neither reading.
LEMMA OtherSteps ==
  ASSUME ReportTyped, [ReportsNext]_allVars, ~ProfileStatic, ~ProfileEpisodic
  PROVE  \/ report' = Nil
         \/ report' # Nil /\ report'.op # "profile"
         \/ report # Nil /\ report'.op = report.op /\ SameReading(report', report)
<1>0. report = Nil \/ report \in Report
  BY DEF ReportTyped
<1>1. CASE report' = report
  BY <1>1 DEF SameReading
<1>2. CASE report # Nil /\ report' = [report EXCEPT !.meanwhile = @ + 1]
  <2>1. report'.op = report.op /\ SameReading(report', report)
    BY <1>0, <1>2 DEF Report, SameReading
  <2>. QED  BY <1>2, <2>1
<1>3. CASE PlanListing
  <2>1. PICK space, known : report' = NewReport("plan", {}, space, known)
    BY <1>3 DEF PlanListing
  <2>. QED  BY <2>1 DEF NewReport
<1>4. CASE CurationListing
  <2>1. PICK space, options, listed :
          report' = [NewReport("curation", options, space, listed) EXCEPT
                       !.pc = "lookups", !.todo = listed]
    BY <1>4 DEF CurationListing
  <2>. QED  BY <2>1 DEF NewReport
<1>5. CASE DiagnosticsListing
  <2>1. report # Nil /\ report.op = "plan"
    BY <1>5 DEF DiagnosticsListing, Reads
  <2>2. PICK listed : report' = [report EXCEPT !.pc = "lookups",
                                  !.listed = listed, !.todo = listed]
    BY <1>5 DEF DiagnosticsListing
  <2>3. report'.op = "plan"
    BY <1>0, <2>1, <2>2 DEF Report
  <2>. QED  BY <2>3
<1>6. CASE DiagnosticsLookup \/ CurationLookup
  <2>1. report # Nil /\ report.op \in {"plan", "curation"}
    BY <1>6 DEF DiagnosticsLookup, CurationLookup, Reads
  <2>2. PICK todo, pairs : report' = [report EXCEPT !.todo = todo, !.pairs = pairs]
    <3>1. PICK kind, minScore : LookUpNext(kind, minScore)
      BY <1>6 DEF DiagnosticsLookup, CurationLookup
    <3>2. PICK id, more :
            report' = [report EXCEPT !.todo = @ \ {id}, !.pairs = @ \cup more]
      BY <3>1 DEF LookUpNext
    <3>3. report' = [report EXCEPT !.todo = report.todo \ {id},
                                   !.pairs = report.pairs \cup more]
      BY <1>0, <2>1, <3>2 DEF Report
    <3>. QED  BY <3>3
  <2>3. report'.op = report.op
    BY <1>0, <2>1, <2>2 DEF Report
  <2>. QED  BY <2>1, <2>3
<1>7. CASE StoreStep \/ Expire \/ ApplyPlan
  BY <1>1, <1>2, <1>7 DEF StoreStep, Expire, ApplyPlan, Meanwhile
<1>8. CASE PlanDone \/ CurationDone \/ ProfileDone
  BY <1>8 DEF PlanDone, CurationDone, ProfileDone
<1>9. CASE UNCHANGED allVars
  BY <1>1, <1>9 DEF allVars, reportVars
<1>. QED
  BY <1>3, <1>4, <1>5, <1>6, <1>7, <1>8, <1>9 DEF ReportsNext

\* What expired stays expired.
LEMMA ExpiryStays ==
  ASSUME [ReportsNext]_allVars
  PROVE  expired \subseteq expired'
BY DEF ReportsNext, allVars, reportVars, StoreStep, Expire, PlanListing,
       DiagnosticsListing, DiagnosticsLookup, PlanDone, CurationListing,
       CurationLookup, CurationDone, ProfileStatic, ProfileEpisodic, ProfileDone,
       ApplyPlan, BeginReport, Reads, ReadOnly

\* The first state.
LEMMA InitProfileInv == ReportsInit => ProfileInv
<1>. SUFFICES ASSUME ReportsInit
              PROVE  ProfileInv
  OBVIOUS
<1>1. Stored(db) = {}
  BY DEF ReportsInit, IndexInit, Init, EmptyDB, Stored
<1>2. ~InBatch
  BY DEF ReportsInit, IndexInit, Init, InBatch, Running, Idle
<1>. QED
  BY <1>1, <1>2 DEF ReportsInit, ProfileInv, Aged, OrderedByAge, InSequence,
                    DerivedApart

\* Every step.
LEMMA NextProfileInv ==
  ReportsInv /\ ProfileInv /\ [ReportsNext]_allVars => ProfileInv'
<1>. SUFFICES ASSUME ReportsInv, ProfileInv, [ReportsNext]_allVars
              PROVE  ProfileInv'
  OBVIOUS
<1>0. /\ IndexInv /\ ReportTyped /\ ~InBatch /\ Aged(db) /\ Sound(db)
      /\ report # Nil /\ report.op = "profile" => ProfileHolds(db, expired, report)
  BY CommittedIsSound DEF ReportsInv, ProfileInv
<1>1. ~InBatch'
  BY <1>0, NoBatchBegins
<1>2. Aged(db') /\ Follows(db, db')
  BY <1>0, DatabaseFollows
<1>3. ASSUME report' # Nil, report'.op = "profile"
      PROVE  ProfileHolds(db', expired', report')
  <2>1. CASE ProfileStatic
    <3>1. PICK space \in Spaces, options \in SUBSET Options :
            report' = NewReport("profile", options, space,
                        CollectScoredMemories(space, StaticLayer, Excludes(options)))
      BY <2>1 DEF ProfileStatic, Configured, Options
    <3>2. db' = db /\ expired' = expired
      BY <2>1 DEF ProfileStatic, BeginReport, ReadOnly, vars
    <3>3. PICK r : r = report'
      OBVIOUS
    <3>4. /\ r.pc = "second" /\ r.space = space /\ r.listed = {}
          /\ r.live = {id \in LiveNow(space) : ~(Excludes(options) /\ LostSource(id))}
          /\ r.known = CollectScoredMemories(space, StaticLayer, Excludes(options))
      BY <3>1, <3>3 DEF NewReport, Excludes
    <3>5. /\ r.known = {id \in r.live : KindOf(id) \in StaticLayer}
          /\ r.live \subseteq LiveNow(space)
      BY <1>0, <3>4, CollectedIsLive
    <3>6. ProfileHolds(db, expired, r)
      BY <1>0, <3>4, <3>5, FirstReading
    <3>. QED  BY <3>2, <3>3, <3>6
  <2>2. CASE ProfileEpisodic
    <3>1. report # Nil /\ report \in Report /\ report.op = "profile"
      BY <1>0, <2>2 DEF ProfileEpisodic, Reads, ReportTyped
    <3>2. db' = db /\ expired' = expired
      BY <2>2 DEF ProfileEpisodic, Reads, ReadOnly, vars
    <3>3. PICK q : q = report'
      OBVIOUS
    <3>4. q = [report EXCEPT !.pc = "both",
                 !.listed = CollectScoredMemories(report.space, EpisodicLayer,
                                                  Excludes(report.options))]
      BY <2>2, <3>3 DEF ProfileEpisodic
    <3>5. /\ q.known = report.known /\ q.live = report.live /\ q.space = report.space
          /\ q.listed = CollectScoredMemories(report.space, EpisodicLayer,
                                              Excludes(report.options))
          /\ report.space \in Spaces
      BY <3>1, <3>4 DEF Report
    <3>6. q.listed = {id \in LiveNow(report.space) : KindOf(id) \in EpisodicLayer}
      <4>1. PICK options \in SUBSET Options : options = report.options
        BY <3>1 DEF Report
      <4>2. CollectScoredMemories(report.space, EpisodicLayer, Excludes(options))
              = {id \in LiveNow(report.space) :
                   /\ KindOf(id) \in EpisodicLayer
                   /\ ~(Excludes(options) /\ LostSource(id))}
        BY <1>0, <3>5, CollectedIsLive
      <4>3. \A id : KindOf(id) \in EpisodicLayer => ~LostSource(id)
        BY DEF EpisodicLayer, LostSource, KindOf
      <4>. QED  BY <3>5, <4>1, <4>2, <4>3
    <3>7. ProfileHolds(db, expired, q)
      BY <1>0, <3>1, <3>5, <3>6, ReadingsMeet
    <3>. QED  BY <3>2, <3>3, <3>7
  <2>3. CASE ~ProfileStatic /\ ~ProfileEpisodic
    <3>1. report # Nil /\ report.op = "profile" /\ SameReading(report', report)
      BY <1>0, <1>3, <2>3, OtherSteps
    <3>2. PICK e, more, q : e = db' /\ more = expired' /\ q = report'
      OBVIOUS
    <3>3. Follows(db, e) /\ expired \subseteq more /\ SameReading(q, report)
      BY <1>2, <3>1, <3>2, ExpiryStays
    <3>4. ProfileHolds(e, more, q)
      BY <1>0, <3>1, <3>3, ProfileStays
    <3>. QED  BY <3>2, <3>4
  <2>. QED  BY <2>1, <2>2, <2>3
<1>. QED  BY <1>1, <1>2, <1>3 DEF ProfileInv

\* A profile reads its two layers apart, in two transactions.  However many
\* commits come between, no lineage is in both, unless it was demoted by a
\* revive, and none that was live is lost, unless it was promoted, ended or
\* expired meanwhile (GetProfile, collectScoredMemories).
THEOREM ProfilesShowLineagesOnce == ReportsSpec => []ProfileShowsLineagesOnce
<1>1. ReportsInv /\ ProfileInv => ProfileShowsLineagesOnce
  <2>. SUFFICES ASSUME ProfileInv, ProfileRead
                PROVE  ProfileShowsLineagesOnce
    BY DEF ProfileShowsLineagesOnce
  <2>1. LayersApart(db, report) /\ NoneLost(db, expired, report)
    BY DEF ProfileInv, ProfileRead, ProfileHolds
  <2>2. \A a \in report.known, b \in report.listed :
          RootOf(db, a) = RootOf(db, b) => Demoted(RootOf(db, a))
    BY <2>1 DEF LayersApart, DemotedIn, Demoted, KindOf
  <2>3. \A id \in report.live :
          \/ \E shown \in report.known \cup report.listed :
               RootOf(db, shown) = RootOf(db, id)
          \/ /\ KindOf(id) = "episodic"
             /\ \E later \in Versions(db, RootOf(db, id)) :
                  /\ later >= id
                  /\ \/ KindOf(later) = "static"
                     \/ later \in db.forgetLog \cup expired
    BY <2>1 DEF NoneLost, LeftOut, KindOf
  <2>. QED  BY <2>2, <2>3 DEF ProfileShowsLineagesOnce
<1>. QED
  BY <1>1, InitReportsInv, NextReportsInv, InitProfileInv, NextProfileInv, PTL
  DEF ReportsSpec

-------------------------------------------------------------------------------
(* Groups of pairs.                                                          *)

\* One step along the pairs.
Spread(pairs, ids) == ids \cup UNION {pair \in pairs : pair \cap ids # {}}

\* The ids a chain of so many pairs connects with id.
IsReach(pairs, id, depth, reach) ==
  reach = [n \in 0 .. depth |->
             IF n = 0 THEN {id} ELSE Spread(pairs, reach[n - 1])]

\* There are such ids, along chains of any length.
LEMMA ReachExists ==
  ASSUME NEW pairs, NEW id, NEW depth \in Nat
  PROVE  \E reach : IsReach(pairs, id, depth, reach)
<1>. DEFINE Missing == {n \in Nat : ~ \E reach : IsReach(pairs, id, n, reach)}
<1>1. 0 \notin Missing
  <2>. DEFINE reach == [n \in 0 .. 0 |-> {id}]
  <2>1. IsReach(pairs, id, 0, reach)
    BY DEF IsReach
  <2>. QED  BY <2>1
<1>2. ASSUME NEW n \in Nat, n \notin Missing
      PROVE  n + 1 \notin Missing
  <2>1. PICK reach : IsReach(pairs, id, n, reach)
    BY <1>2
  <2>. DEFINE more == [m \in 0 .. n + 1 |->
                         IF m = n + 1 THEN Spread(pairs, reach[n]) ELSE reach[m]]
  <2>2. \A m \in 0 .. n :
          reach[m] = IF m = 0 THEN {id} ELSE Spread(pairs, reach[m - 1])
    BY <2>1 DEF IsReach
  <2>3. ASSUME NEW m \in 0 .. n + 1
        PROVE  more[m] = IF m = 0 THEN {id} ELSE Spread(pairs, more[m - 1])
    <3>1. CASE m = n + 1
      <4>1. more[m - 1] = reach[n] /\ m # 0
        BY <3>1
      <4>. QED  BY <3>1, <4>1
    <3>2. CASE m \in 0 .. n
      <4>1. more[m] = reach[m]
        BY <3>2
      <4>2. m # 0 => more[m - 1] = reach[m - 1]
        BY <3>2
      <4>. QED  BY <2>2, <3>2, <4>1, <4>2
    <3>. QED  BY <3>1, <3>2
  <2>4. IsReach(pairs, id, n + 1, more)
    BY <2>3 DEF IsReach
  <2>. QED  BY <2>4
<1>3. Missing = {}
  <2>. HIDE DEF Missing
  <2>1. Missing \in SUBSET Nat
    BY DEF Missing
  <2>. QED  BY <1>1, <1>2, <2>1, NoLeast
<1>. QED  BY <1>3

\* No pair leads out of ids.
Closed(pairs, ids) == \A pair \in pairs : pair \cap ids # {} => pair \subseteq ids

\* What a component is the end of.
LEMMA ComponentReached ==
  ASSUME NEW pairs, NEW id, Cardinality(UNION pairs) \in Nat
  PROVE  \E reach :
           /\ IsReach(pairs, id, Cardinality(UNION pairs), reach)
           /\ Component(pairs, id) = reach[Cardinality(UNION pairs)]
<1>. DEFINE depth == Cardinality(UNION pairs)
            reach == CHOOSE r : IsReach(pairs, id, depth, r)
<1>1. IsReach(pairs, id, depth, reach)
  <2>. HIDE DEF depth
  <2>1. \E r : IsReach(pairs, id, depth, r)
    BY ReachExists DEF depth
  <2>. QED  BY <2>1
<1>2. Component(pairs, id) = reach[depth]
  BY DEF Component, IsReach, Spread
<1>. QED  BY <1>1, <1>2

\* A component is the smallest set with its id that no pair leads out of.
LEMMA ComponentIsClosure ==
  ASSUME NEW pairs \in SUBSET SUBSET MemoryIDs, NEW id \in UNION pairs
  PROVE  /\ id \in Component(pairs, id)
         /\ Component(pairs, id) \subseteq UNION pairs
         /\ Closed(pairs, Component(pairs, id))
         /\ \A ids : id \in ids /\ Closed(pairs, ids)
                       => Component(pairs, id) \subseteq ids
<1>. DEFINE nodes == UNION pairs
            depth == Cardinality(nodes)
<1>1. /\ depth \in Nat
      /\ \A ids \in SUBSET nodes :
           IsFiniteSet(ids) /\ Cardinality(ids) \in Nat /\ Cardinality(ids) <= depth
  <2>1. nodes \in SUBSET MemoryIDs
    OBVIOUS
  <2>2. IsFiniteSet(nodes)
    BY <2>1, IDsAssumption, FS_Subset
  <2>. HIDE DEF nodes
  <2>. QED  BY <2>2, FS_Subset, FS_CardinalityType
<1>2. PICK reach : IsReach(pairs, id, depth, reach)
                   /\ Component(pairs, id) = reach[depth]
  BY <1>1, ComponentReached
<1>. HIDE DEF depth
<1>3. /\ reach[0] = {id}
      /\ \A n \in Nat : n + 1 \in 0 .. depth => reach[n + 1] = Spread(pairs, reach[n])
  <2>1. \A n \in 0 .. depth :
          reach[n] = IF n = 0 THEN {id} ELSE Spread(pairs, reach[n - 1])
    BY <1>2 DEF IsReach
  <2>2. ASSUME NEW n \in Nat, n + 1 \in 0 .. depth
        PROVE  reach[n + 1] = Spread(pairs, reach[n])
    <3>1. n + 1 # 0 /\ (n + 1) - 1 = n
      OBVIOUS
    <3>. QED  BY <2>1, <2>2, <3>1
  <2>3. 0 \in 0 .. depth
    BY <1>1
  <2>. QED  BY <2>1, <2>2, <2>3
<1>4. \A ids \in SUBSET nodes :
        /\ ids \subseteq Spread(pairs, ids) /\ Spread(pairs, ids) \subseteq nodes
        /\ Closed(pairs, ids) <=> Spread(pairs, ids) = ids
  BY DEF Spread, Closed
<1>. DEFINE Spreads(n) == /\ id \in reach[n] /\ reach[n] \subseteq nodes
                          /\ Closed(pairs, reach[n]) \/ Cardinality(reach[n]) > n
                          /\ \A ids : id \in ids /\ Closed(pairs, ids)
                                        => reach[n] \subseteq ids
            Missing == {n \in Nat : n <= depth /\ ~Spreads(n)}
<1>5. 0 \notin Missing
  <2>1. Cardinality({id}) = 1
    BY FS_Singleton
  <2>2. Spreads(0)
    BY <1>3, <2>1
  <2>. QED  BY <2>2
<1>6. ASSUME NEW n \in Nat, n \notin Missing
      PROVE  n + 1 \notin Missing
  <2>. SUFFICES ASSUME n + 1 <= depth
                PROVE  Spreads(n + 1)
    OBVIOUS
  <2>1. Spreads(n)
    BY <1>1, <1>6
  <2>. DEFINE before == reach[n]
              after == reach[n + 1]
  <2>2. after = Spread(pairs, before)
    BY <1>1, <1>3
  <2>3. id \in after /\ before \subseteq after /\ after \subseteq nodes
    BY <1>4, <2>1, <2>2
  <2>4. \A ids : id \in ids /\ Closed(pairs, ids) => after \subseteq ids
    <3>1. ASSUME NEW ids, id \in ids, Closed(pairs, ids)
          PROVE  after \subseteq ids
      <4>1. before \subseteq ids
        BY <2>1, <3>1
      <4>. HIDE DEF before, after
      <4>. QED  BY <2>2, <3>1, <4>1 DEF Spread, Closed
    <3>. QED  BY <3>1
  <2>5. Closed(pairs, after) \/ Cardinality(after) > n + 1
    <3>1. CASE after = before
      <4>1. Closed(pairs, before)
        BY <1>4, <2>1, <2>2, <3>1
      <4>. QED  BY <3>1, <4>1
    <3>2. CASE after # before /\ Closed(pairs, before)
      BY <1>4, <2>1, <2>2, <3>2
    <3>3. CASE after # before /\ Cardinality(before) > n
      <4>1. before \in SUBSET after /\ after \in SUBSET nodes /\ before \in SUBSET nodes
        BY <2>3
      <4>. HIDE DEF before, after
      <4>2. /\ Cardinality(before) <= Cardinality(after)
            /\ Cardinality(before) # Cardinality(after)
        BY <1>1, <3>3, <4>1, FS_Subset
      <4>3. Cardinality(before) \in Nat /\ Cardinality(after) \in Nat
        BY <1>1, <4>1
      <4>. QED  BY <3>3, <4>2, <4>3
    <3>. QED  BY <2>1, <3>1, <3>2, <3>3
  <2>. QED  BY <2>3, <2>4, <2>5
<1>7. Missing = {}
  <2>. HIDE DEF Missing
  <2>1. Missing \in SUBSET Nat
    BY DEF Missing
  <2>. QED  BY <1>5, <1>6, <2>1, NoLeast
<1>8. Spreads(depth)
  BY <1>1, <1>7
<1>9. Closed(pairs, reach[depth])
  <2>1. reach[depth] \in SUBSET nodes
    BY <1>8
  <2>2. Cardinality(reach[depth]) \in Nat /\ Cardinality(reach[depth]) <= depth
    BY <1>1, <2>1
  <2>. QED  BY <1>1, <1>8, <2>2
<1>. QED  BY <1>2, <1>8, <1>9

\* No two components share an id.
LEMMA ComponentsApart ==
  ASSUME NEW pairs \in SUBSET SUBSET MemoryIDs,
         NEW g \in Components(pairs), NEW h \in Components(pairs)
  PROVE  g \subseteq UNION pairs /\ (g = h \/ g \cap h = {})
<1>1. PICK a \in UNION pairs : g = Component(pairs, a)
  BY DEF Components
<1>2. PICK b \in UNION pairs : h = Component(pairs, b)
  BY DEF Components
<1>3. /\ a \in g /\ g \subseteq UNION pairs /\ Closed(pairs, g)
      /\ \A ids : a \in ids /\ Closed(pairs, ids) => g \subseteq ids
  BY <1>1, ComponentIsClosure
<1>4. /\ b \in h /\ h \subseteq UNION pairs /\ Closed(pairs, h)
      /\ \A ids : b \in ids /\ Closed(pairs, ids) => h \subseteq ids
  BY <1>2, ComponentIsClosure
<1>5. Closed(pairs, (UNION pairs) \ g) /\ Closed(pairs, (UNION pairs) \ h)
  BY <1>3, <1>4 DEF Closed
<1>6. CASE a \in h /\ b \in g
  BY <1>3, <1>4, <1>6
<1>7. CASE a \notin h
  <2>1. g \subseteq (UNION pairs) \ h
    BY <1>3, <1>5, <1>7
  <2>. QED  BY <1>3, <2>1
<1>8. CASE b \notin g
  <2>1. h \subseteq (UNION pairs) \ g
    BY <1>4, <1>5, <1>8
  <2>. QED  BY <1>3, <2>1
<1>. QED  BY <1>6, <1>7, <1>8

-------------------------------------------------------------------------------
(* What a curation report has listed stays apart.                            *)

\* Without the superseded versions, a report knows one version of a lineage, and
\* while nobody wrote it knows only live episodic memories; those that expired
\* only if it asks for the forgotten ones.
CurationHolds(d, gone, r) ==
  "includeSuperseded" \notin r.options =>
    /\ r.known \subseteq Stored(d)
    /\ \A a, b \in r.known : a # b => RootOf(d, a) # RootOf(d, b)
    /\ r.meanwhile = 0 =>
         \A id \in r.known : /\ id \in LiveIn(d, r.space)
                             /\ d.memories[id].kind = "episodic"
                             /\ id \in gone => "includeForgotten" \in r.options

CurationInv ==
  report # Nil /\ report.op = "curation" => CurationHolds(db, expired, report)

\* Two reports that listed the same; q counts no commit that r does not.
SameListing(q, r) ==
  /\ q.options = r.options /\ q.space = r.space /\ q.known = r.known
  /\ q.meanwhile = 0 => r.meanwhile = 0

\* What holds of a listing holds of it ever after.
LEMMA CurationStays ==
  ASSUME NEW d, NEW e, KeepsHistory(d, e), NEW gone, NEW more, NEW r, NEW q,
         SameListing(q, r), q.meanwhile = 0 => e = d /\ more = gone,
         CurationHolds(d, gone, r)
  PROVE  CurationHolds(e, more, q)
<1>. SUFFICES ASSUME "includeSuperseded" \notin q.options
              PROVE  /\ q.known \subseteq Stored(e)
                     /\ \A a, b \in q.known : a # b => RootOf(e, a) # RootOf(e, b)
                     /\ q.meanwhile = 0 =>
                          \A id \in q.known :
                            /\ id \in LiveIn(e, q.space)
                            /\ e.memories[id].kind = "episodic"
                            /\ id \in more => "includeForgotten" \in q.options
  BY DEF CurationHolds
<1>1. /\ r.known \subseteq Stored(d)
      /\ \A a, b \in r.known : a # b => RootOf(d, a) # RootOf(d, b)
      /\ r.meanwhile = 0 =>
           \A id \in r.known : /\ id \in LiveIn(d, r.space)
                               /\ d.memories[id].kind = "episodic"
                               /\ id \in gone => "includeForgotten" \in r.options
  BY DEF CurationHolds, SameListing
<1>2. /\ q.known = r.known /\ q.space = r.space /\ q.options = r.options
      /\ q.meanwhile = 0 => r.meanwhile = 0
  BY DEF SameListing
<1>3. \A id \in Stored(d) : id \in Stored(e) /\ RootOf(e, id) = RootOf(d, id)
  BY DEF KeepsHistory, Kept, Frozen, RootOf
<1>4. q.known \subseteq Stored(e)
  BY <1>1, <1>2, <1>3
<1>5. \A a, b \in q.known : a # b => RootOf(e, a) # RootOf(e, b)
  BY <1>1, <1>2, <1>3
<1>6. q.meanwhile = 0 =>
        \A id \in q.known : /\ id \in LiveIn(e, q.space)
                            /\ e.memories[id].kind = "episodic"
                            /\ id \in more => "includeForgotten" \in q.options
  BY <1>1, <1>2
<1>. QED  BY <1>4, <1>5, <1>6

\* What is live is one version of its lineage.
LEMMA LiveApart ==
  ASSUME NEW d, HeadsAgree(d), NEW space, NEW a \in LiveIn(d, space),
         NEW b \in LiveIn(d, space), RootOf(d, a) = RootOf(d, b)
  PROVE  a = b
<1>1. /\ a \in Stored(d) /\ d.memories[a].isLatest
      /\ b \in Stored(d) /\ d.memories[b].isLatest
  BY DEF LiveIn
<1>2. d.latest[RootOf(d, a)] = a /\ d.latest[RootOf(d, b)] = b
  BY <1>1 DEF HeadsAgree, LiveMeansLatest
<1>. QED  BY <1>2

\* The listing itself.
LEMMA CurationBegins ==
  ASSUME IndexInv, NEW space \in Spaces, NEW options, NEW r,
         r.options = options, r.space = space, r.known = CurationOf(space, options)
  PROVE  CurationHolds(db, expired, r)
<1>. SUFFICES ASSUME "includeSuperseded" \notin options
              PROVE  CurationHolds(db, expired, r)
  BY DEF CurationHolds
<1>1. HeadsAgree(db) /\ EndsLive(db)
  BY CommittedIsSound DEF Sound, Chains
<1>2. ASSUME NEW id \in r.known
      PROVE  /\ id \in LiveIn(db, r.space)
             /\ db.memories[id].kind = "episodic"
             /\ id \in expired => "includeForgotten" \in r.options
  <2>1. CASE "includeForgotten" \notin options
    <3>1. r.known = ListMemories(space, {"episodic"}, FALSE)
      BY <2>1 DEF CurationOf, FindCurationMemories
    <3>2. id \in LiveNow(space) /\ KindOf(id) \in {"episodic"}
      <4>1. ListMemories(space, {"episodic"}, FALSE)
              = {m \in LiveNow(space) : KindOf(m) \in {"episodic"}}
        BY AllListed
      <4>. QED  BY <1>2, <3>1, <4>1
    <3>. QED  BY <3>2 DEF LiveNow, KindOf
  <2>2. CASE "includeForgotten" \in options
    <3>1. /\ id \in StoredIn(space) /\ KindOf(id) = "episodic"
          /\ db.memories[id].isLatest
      BY <1>2, <2>2 DEF CurationOf, FindCurationMemories, IsCandidateEligible
    <3>2. id \in Stored(db) /\ db.memories[id].spaceID = space
      BY <3>1 DEF StoredIn
    <3>3. ~db.memories[id].isForgotten
      BY <1>1, <3>1, <3>2 DEF EndsLive
    <3>. QED  BY <2>2, <3>1, <3>2, <3>3 DEF LiveIn, KindOf
  <2>. QED  BY <2>1, <2>2
<1>3. r.known \subseteq Stored(db)
  BY <1>2 DEF LiveIn
<1>4. \A a, b \in r.known : a # b => RootOf(db, a) # RootOf(db, b)
  BY <1>1, <1>2, LiveApart
<1>. QED  BY <1>2, <1>3, <1>4 DEF CurationHolds

\* The report after a step that is no such listing.
LEMMA OtherListings ==
  ASSUME ReportTyped, [ReportsNext]_allVars, ~CurationListing
  PROVE  \/ report' = Nil
         \/ report' # Nil /\ report'.op # "curation"
         \/ /\ report # Nil /\ report'.op = report.op
            /\ SameListing(report', report)
            /\ report'.meanwhile = 0 => db' = db /\ expired' = expired
<1>0. report = Nil \/ report \in Report
  BY DEF ReportTyped
<1>1. CASE report # Nil /\ report' = report /\ db' = db /\ expired' = expired
  BY <1>1 DEF SameListing
<1>2. CASE report # Nil /\ report' = [report EXCEPT !.meanwhile = @ + 1]
  <2>1. /\ report'.op = report.op /\ report'.options = report.options
        /\ report'.space = report.space /\ report'.known = report.known
        /\ report'.meanwhile = report.meanwhile + 1 /\ report.meanwhile \in Nat
    BY <1>0, <1>2 DEF Report
  <2>2. report'.meanwhile # 0
    BY <2>1
  <2>. QED  BY <1>2, <2>1, <2>2 DEF SameListing
<1>3. CASE PlanListing \/ ProfileStatic
  <2>1. PICK op \in {"plan", "profile"}, space \in Spaces :
          \E options, known : report' = NewReport(op, options, space, known)
    BY <1>3 DEF PlanListing, ProfileStatic, Configured
  <2>. QED  BY <2>1 DEF NewReport
<1>4. CASE DiagnosticsListing \/ DiagnosticsLookup
  <2>1. report # Nil /\ report.op = "plan"
    BY <1>4 DEF DiagnosticsListing, DiagnosticsLookup, Reads
  <2>2. report'.op = "plan"
    <3>1. CASE DiagnosticsListing
      <4>1. PICK listed : report' = [report EXCEPT !.pc = "lookups",
                                      !.listed = listed, !.todo = listed]
        BY <3>1 DEF DiagnosticsListing
      <4>. QED  BY <1>0, <2>1, <4>1 DEF Report
    <3>2. CASE DiagnosticsLookup
      <4>1. PICK id, more :
              report' = [report EXCEPT !.todo = @ \ {id}, !.pairs = @ \cup more]
        BY <3>2 DEF DiagnosticsLookup, LookUpNext
      <4>. QED  BY <1>0, <2>1, <4>1 DEF Report
    <3>. QED  BY <1>4, <3>1, <3>2
  <2>. QED  BY <2>1, <2>2
<1>5. CASE CurationLookup
  <2>1. report # Nil /\ db' = db /\ expired' = expired
    BY <1>5 DEF CurationLookup, Reads, ReadOnly, vars
  <2>2. PICK id, more :
          report' = [report EXCEPT !.todo = @ \ {id}, !.pairs = @ \cup more]
    BY <1>5 DEF CurationLookup, LookUpNext
  <2>3. /\ report'.op = report.op /\ report'.options = report.options
        /\ report'.space = report.space /\ report'.known = report.known
        /\ report'.meanwhile = report.meanwhile
    BY <1>0, <2>1, <2>2 DEF Report
  <2>. QED  BY <2>1, <2>3 DEF SameListing
<1>6. CASE ProfileEpisodic
  <2>1. report # Nil /\ report.op = "profile"
    BY <1>6 DEF ProfileEpisodic, Reads
  <2>2. PICK listed : report' = [report EXCEPT !.pc = "both", !.listed = listed]
    BY <1>6 DEF ProfileEpisodic
  <2>3. report'.op = "profile"
    BY <1>0, <2>1, <2>2 DEF Report
  <2>. QED  BY <2>1, <2>3
<1>7. CASE StoreStep \/ ApplyPlan
  <2>1. expired' = expired /\ Meanwhile
    BY <1>7 DEF StoreStep, ApplyPlan
  <2>2. CASE report = Nil
    BY <2>1, <2>2 DEF Meanwhile
  <2>3. CASE report # Nil /\ db' = db
    BY <1>1, <2>1, <2>3 DEF Meanwhile
  <2>4. CASE report # Nil /\ db' # db
    BY <1>2, <2>1, <2>4 DEF Meanwhile
  <2>. QED  BY <2>2, <2>3, <2>4
<1>8. CASE Expire
  <2>1. CASE report = Nil
    BY <1>8, <2>1 DEF Expire
  <2>2. CASE report # Nil
    BY <1>2, <1>8, <2>2 DEF Expire
  <2>. QED  BY <2>1, <2>2
<1>9. CASE PlanDone \/ CurationDone \/ ProfileDone
  BY <1>9 DEF PlanDone, CurationDone, ProfileDone
<1>10. CASE UNCHANGED allVars
  BY <1>1, <1>10 DEF allVars, reportVars, vars
<1>. QED
  BY <1>3, <1>4, <1>5, <1>6, <1>7, <1>8, <1>9, <1>10 DEF ReportsNext

\* Every step.
LEMMA NextCurationInv ==
  ReportsInv /\ ProfileInv /\ CurationInv /\ [ReportsNext]_allVars => CurationInv'
<1>. SUFFICES ASSUME ReportsInv, ProfileInv, CurationInv, [ReportsNext]_allVars,
                     report' # Nil, report'.op = "curation"
              PROVE  CurationHolds(db', expired', report')
  BY DEF CurationInv
<1>0. /\ IndexInv /\ ReportTyped /\ ~InBatch /\ Aged(db)
      /\ report # Nil /\ report.op = "curation" => CurationHolds(db, expired, report)
  BY DEF ReportsInv, ProfileInv, CurationInv
<1>1. CASE CurationListing
  <2>1. PICK space \in Spaces, options \in SUBSET Options :
          report' = [NewReport("curation", options, space,
                               CurationOf(space, options)) EXCEPT
                       !.pc = "lookups", !.todo = CurationOf(space, options)]
    BY <1>1 DEF CurationListing, CurationOf, Configured, Options
  <2>2. db' = db /\ expired' = expired
    BY <1>1 DEF CurationListing, BeginReport, ReadOnly, vars
  <2>3. PICK r : r = report'
    OBVIOUS
  <2>4. /\ r.options = options /\ r.space = space
        /\ r.known = CurationOf(space, options)
    BY <2>1, <2>3 DEF NewReport
  <2>5. CurationHolds(db, expired, r)
    BY <1>0, <2>4, CurationBegins
  <2>. QED  BY <2>2, <2>3, <2>5
<1>2. CASE ~CurationListing
  <2>1. PICK e, more, q : e = db' /\ more = expired' /\ q = report'
    OBVIOUS
  <2>2. /\ report # Nil /\ q.op = report.op /\ SameListing(q, report)
        /\ q.meanwhile = 0 => e = db /\ more = expired
    BY <1>0, <1>2, <2>1, OtherListings
  <2>3. KeepsHistory(db, e)
    BY <1>0, <2>1, DatabaseFollows DEF Follows
  <2>4. CurationHolds(db, expired, report)
    BY <1>0, <2>1, <2>2
  <2>5. CurationHolds(e, more, q)
    BY <2>2, <2>3, <2>4, CurationStays
  <2>. QED  BY <2>1, <2>5
<1>. QED  BY <1>1, <1>2

\* What is suggested and found are groups of memories that were listed.
LEMMA GroupsOfListed ==
  ASSUME NEW known, NEW pairs \in SUBSET SUBSET MemoryIDs, NEW minSize,
         NEW g \in BuildSimilarityGroups(known, pairs, minSize)
  PROVE  /\ g \subseteq known /\ g \subseteq MemoryIDs /\ g # {}
         /\ \A h \in BuildSimilarityGroups(known, pairs, minSize) :
              g = h \/ g \cap h = {}
<1>. DEFINE near == {pair \in pairs : pair \subseteq known}
<1>1. near \in SUBSET SUBSET MemoryIDs /\ UNION near \subseteq known
      /\ UNION near \subseteq MemoryIDs
  OBVIOUS
<1>2. \A h \in BuildSimilarityGroups(known, pairs, minSize) : h \in Components(near)
  BY DEF BuildSimilarityGroups
<1>3. g \in Components(near)
  BY <1>2
<1>. HIDE DEF near
<1>4. g # {}
  <2>1. PICK id \in UNION near : g = Component(near, id)
    BY <1>3 DEF Components
  <2>2. id \in g
    BY <1>1, <2>1, ComponentIsClosure
  <2>. QED  BY <2>2
<1>5. g \subseteq UNION near /\ \A h \in Components(near) : g = h \/ g \cap h = {}
  BY <1>1, <1>3, ComponentsApart
<1>. QED  BY <1>1, <1>2, <1>4, <1>5

\* A curation report reads a listing and then looks up each memory it names, in
\* transactions of their own.  However many commits come between, no memory is
\* in two groups, no two versions of one lineage are in one, and when there was
\* none the memory suggested is live (GetSynthesisCandidates,
\* GetPromotionSuggestions, summarizeSimilarityGroup).
THEOREM ObservationsAlwaysCountOnce == ReportsSpec => []ObservationsCountOnce
<1>1. ReportsInv /\ CurationInv => ObservationsCountOnce
  <2>. SUFFICES ASSUME ReportsInv, CurationInv, CurationComplete
                PROVE  ObservationsCountOnce
    BY DEF ObservationsCountOnce
  <2>. DEFINE known == report.known
              pairs == report.pairs
              suggested == PromotionSuggestions(known, pairs)
              found == SynthesisCandidates(known, pairs)
  <2>1. /\ report \in Report /\ attrs \in Attributes
        /\ CurationHolds(db, expired, report)
    BY DEF ReportsInv, ReportTyped, CurationInv, CurationComplete, Complete
  <2>2. pairs \in SUBSET SUBSET MemoryIDs
    BY <2>1 DEF Report
  <2>. HIDE DEF known, pairs
  <2>3. \A s \in suggested :
          /\ s.support \in BuildSimilarityGroups(known, pairs, MinObservations)
          /\ s = [memoryID |-> BestOf(s.support), support |-> s.support,
                  action |-> PromotionAction(pairs, s.support)]
    <3>. SUFFICES ASSUME NEW s \in suggested
                  PROVE
          /\ s.support \in BuildSimilarityGroups(known, pairs, MinObservations)
          /\ s = [memoryID |-> BestOf(s.support), support |-> s.support,
                  action |-> PromotionAction(pairs, s.support)]
      OBVIOUS
    <3>1. PICK claim \in BuildSimilarityGroups(known, pairs, MinObservations) :
            s = [memoryID |-> BestOf(claim), support |-> claim,
                 action |-> PromotionAction(pairs, claim)]
      BY Zenon DEF PromotionSuggestions, Leading
    <3>2. s.support = claim
      BY <3>1
    <3>. QED  BY <3>1, <3>2
  <2>4. \A s \in found :
          /\ s.members \in BuildSimilarityGroups(known, pairs, 2)
          /\ s = [members |-> s.members,
                  action |-> IF IsNoisy(s.members) THEN "review_only"
                                                   ELSE "review_for_derived"]
    <3>. SUFFICES ASSUME NEW s \in found
                  PROVE
          /\ s.members \in BuildSimilarityGroups(known, pairs, 2)
          /\ s = [members |-> s.members,
                  action |-> IF IsNoisy(s.members) THEN "review_only"
                                                   ELSE "review_for_derived"]
      OBVIOUS
    <3>1. PICK group \in BuildSimilarityGroups(known, pairs, 2) :
            s = [members |-> group,
                 action |-> IF IsNoisy(group) THEN "review_only"
                                              ELSE "review_for_derived"]
      BY Zenon DEF SynthesisCandidates, Leading
    <3>2. s.members = group
      BY <3>1
    <3>. QED  BY <3>1, <3>2
  <2>. HIDE DEF suggested, found
  <2>5. \A s, t \in suggested : s = t \/ s.support \cap t.support = {}
    <3>. SUFFICES ASSUME NEW s \in suggested, NEW t \in suggested
                  PROVE  s = t \/ s.support \cap t.support = {}
      OBVIOUS
    <3>1. s.support = t.support \/ s.support \cap t.support = {}
      BY <2>2, <2>3, GroupsOfListed
    <3>. QED  BY <2>3, <3>1
  <2>6. \A s, t \in found : s = t \/ s.members \cap t.members = {}
    <3>. SUFFICES ASSUME NEW s \in found, NEW t \in found
                  PROVE  s = t \/ s.members \cap t.members = {}
      OBVIOUS
    <3>1. s.members = t.members \/ s.members \cap t.members = {}
      BY <2>2, <2>4, GroupsOfListed
    <3>. QED  BY <2>4, <3>1
  <2>7. /\ \A s \in suggested : s.support \subseteq known
        /\ \A s \in found : s.members \subseteq known
    BY <2>2, <2>3, <2>4, GroupsOfListed
  <2>8. ASSUME "includeSuperseded" \notin report.options,
               NEW ids \in {s.support : s \in suggested}
                           \cup {s.members : s \in found},
               NEW a \in ids, NEW b \in ids, a # b
        PROVE  RootOf(db, a) # RootOf(db, b)
    <3>1. ids \subseteq known
      BY <2>7
    <3>. QED  BY <2>1, <2>8, <3>1 DEF CurationHolds, known
  <2>9. ASSUME "includeSuperseded" \notin report.options, report.meanwhile = 0,
               NEW s \in suggested
        PROVE  /\ s.memoryID \in LiveIn(db, report.space)
               /\ KindOf(s.memoryID) = "episodic"
               /\ s.memoryID \in expired => "includeForgotten" \in report.options
    <3>1. /\ s.support \in SUBSET MemoryIDs /\ s.support # {}
          /\ s.support \subseteq known
      BY <2>2, <2>3, GroupsOfListed
    <3>2. BestOf(s.support) \in s.support
      BY <2>1, <3>1, BestExists DEF BestOf
    <3>3. s.memoryID \in known
      <4>1. s.memoryID = BestOf(s.support)
        BY <2>3
      <4>. QED  BY <3>1, <3>2, <4>1
    <3>. QED  BY <2>1, <2>9, <3>3 DEF CurationHolds, KindOf, known
  <2>. QED
    BY <2>5, <2>6, <2>8, <2>9 DEF ObservationsCountOnce, suggested, found, known, pairs
<1>2. ReportsInit => CurationInv
  BY DEF ReportsInit, CurationInv
<1>. QED
  BY <1>1, <1>2, InitReportsInv, NextReportsInv, InitProfileInv, NextProfileInv,
     NextCurationInv, PTL DEF ReportsSpec

-------------------------------------------------------------------------------
(* The first of an order.                                                    *)

StrictlyOrders(R, S) ==
  /\ \A x \in S : <<x, x>> \notin R
  /\ \A x, y \in S : x # y => <<x, y>> \in R \/ <<y, x>> \in R
  /\ \A x, y, z \in S : <<x, y>> \in R /\ <<y, z>> \in R => <<x, z>> \in R

AheadOf(R, S, x) == {y \in S : <<y, x>> \in R}

\* How many are ahead tells the elements apart.
LEMMA AheadGrows ==
  ASSUME NEW R, NEW S, IsFiniteSet(S), StrictlyOrders(R, S)
  PROVE  /\ Cardinality(S) \in Nat
         /\ \A x \in S : Cardinality(AheadOf(R, S, x)) \in 0 .. Cardinality(S) - 1
         /\ \A x, y \in S :
              <<x, y>> \in R =>
                Cardinality(AheadOf(R, S, x)) < Cardinality(AheadOf(R, S, y))
<1>1. Cardinality(S) \in Nat
  BY FS_CardinalityType
<1>2. ASSUME NEW T \in SUBSET S, NEW U \in SUBSET T, NEW x \in T, x \notin U
      PROVE  /\ Cardinality(T) \in Nat /\ Cardinality(U) \in Nat
             /\ Cardinality(U) < Cardinality(T)
  <2>1. IsFiniteSet(T) /\ IsFiniteSet(U)
    BY FS_Subset
  <2>2. Cardinality(T) \in Nat /\ Cardinality(U) \in Nat
    BY <2>1, FS_CardinalityType
  <2>3. Cardinality(U) <= Cardinality(T) /\ Cardinality(U) # Cardinality(T)
    BY <1>2, <2>1, FS_Subset
  <2>. QED  BY <2>2, <2>3
<1>3. ASSUME NEW x \in S
      PROVE  Cardinality(AheadOf(R, S, x)) \in 0 .. Cardinality(S) - 1
  <2>1. AheadOf(R, S, x) \in SUBSET S /\ x \notin AheadOf(R, S, x)
    BY DEF AheadOf, StrictlyOrders
  <2>. QED  BY <1>1, <1>2, <2>1
<1>4. ASSUME NEW x \in S, NEW y \in S, <<x, y>> \in R
      PROVE  Cardinality(AheadOf(R, S, x)) < Cardinality(AheadOf(R, S, y))
  <2>1. /\ AheadOf(R, S, y) \in SUBSET S
        /\ AheadOf(R, S, x) \in SUBSET AheadOf(R, S, y)
        /\ x \in AheadOf(R, S, y) /\ x \notin AheadOf(R, S, x)
    BY <1>4 DEF AheadOf, StrictlyOrders
  <2>. QED  BY <1>2, <2>1
<1>. QED  BY <1>1, <1>3, <1>4

\* As many are among the first n as there are, up to n.
LEMMA FirstAreMany ==
  ASSUME NEW R, NEW S, IsFiniteSet(S), StrictlyOrders(R, S), NEW n \in Nat
  PROVE  Cardinality({x \in S : Cardinality(AheadOf(R, S, x)) < n})
           = IF n < Cardinality(S) THEN n ELSE Cardinality(S)
<1>. DEFINE N == Cardinality(S)
            m == IF n < N THEN n ELSE N
            rank == [x \in S |-> Cardinality(AheadOf(R, S, x))]
            first == {x \in S : Cardinality(AheadOf(R, S, x)) < n}
<1>1. /\ N \in Nat
      /\ \A x \in S : rank[x] \in 0 .. N - 1
      /\ \A x, y \in S : <<x, y>> \in R => rank[x] < rank[y]
  BY AheadGrows
<1>2. first = {x \in S : rank[x] < n}
  OBVIOUS
<1>3. rank \in [S -> 0 .. N - 1]
  BY <1>1
<1>. HIDE DEF rank, first, N
<1>4. \A x, y \in S : rank[x] = rank[y] => x = y
  <2>1. \A x, y \in S : x # y => <<x, y>> \in R \/ <<y, x>> \in R
    BY DEF StrictlyOrders
  <2>. SUFFICES ASSUME NEW x \in S, NEW y \in S, rank[x] = rank[y], x # y
                PROVE  FALSE
    OBVIOUS
  <2>2. rank[x] < rank[y] \/ rank[y] < rank[x]
    BY <1>1, <2>1
  <2>3. rank[x] \in 0 .. N - 1
    BY <1>1
  <2>4. rank[x] \in Int
    BY <1>1, <2>3
  <2>. QED  BY <2>2, <2>4
<1>5. rank \in Injection(S, 0 .. N - 1)
  BY <1>3, <1>4 DEF Injection, IsInjective
<1>6. IsFiniteSet(0 .. N - 1) /\ Cardinality(0 .. N - 1) = N
  <2>1. 0 \in Int /\ N - 1 \in Int
    BY <1>1
  <2>. QED  BY <1>1, <2>1, FS_Interval
<1>7. rank \in Surjection(S, 0 .. N - 1)
  BY <1>5, <1>6, FS_Injection DEF N
<1>8. \A k \in 0 .. N - 1 : \E x \in S : rank[x] = k
  BY <1>7 DEF Surjection
<1>9. m \in Nat /\ m <= N /\ m <= n
  BY <1>1
<1>10. IsFiniteSet(0 .. m - 1) /\ Cardinality(0 .. m - 1) = m
  <2>. HIDE DEF m
  <2>1. 0 \in Int /\ m - 1 \in Int
    BY <1>9
  <2>. QED  BY <1>9, <2>1, FS_Interval
<1>. DEFINE place == [x \in first |-> rank[x]]
<1>11. place \in [first -> 0 .. m - 1]
  <2>1. \A x \in first : rank[x] \in 0 .. N - 1 /\ rank[x] < n
    BY <1>1, <1>2
  <2>2. \A x \in first : rank[x] \in 0 .. m - 1
    BY <1>1, <2>1
  <2>. QED  BY <2>2
<1>12. ASSUME NEW k \in 0 .. m - 1
       PROVE  \E x \in first : place[x] = k
  <2>1. k \in 0 .. N - 1 /\ k < n
    BY <1>1, <1>9
  <2>2. PICK x \in S : rank[x] = k
    BY <1>8, <2>1
  <2>. QED  BY <1>2, <2>1, <2>2
<1>13. \A x, y \in first : place[x] = place[y] => x = y
  BY <1>2, <1>4
<1>14. place \in Bijection(first, 0 .. m - 1)
  <2>. HIDE DEF place, m
  <2>1. place \in Injection(first, 0 .. m - 1)
    BY <1>11, <1>13 DEF Injection, IsInjective
  <2>2. place \in Surjection(first, 0 .. m - 1)
    BY <1>11, <1>12 DEF Surjection
  <2>. QED  BY <2>1, <2>2 DEF Bijection
<1>15. IsFiniteSet(first)
  <2>1. first \in SUBSET S
    BY <1>2
  <2>. QED  BY <2>1, FS_Subset
<1>16. Cardinality(0 .. m - 1) = Cardinality(first)
  <2>. HIDE DEF place, m
  <2>1. ExistsBijection(first, 0 .. m - 1)
    BY <1>14 DEF ExistsBijection
  <2>. QED  BY <1>15, <2>1, FS_Bijection
<1>17. Cardinality(first) = m
  BY <1>10, <1>16
<1>. QED  BY <1>17 DEF first, N

\* One ahead of a first one is first as well, so a first one is ahead of the rest.
LEMMA FirstAreAhead ==
  ASSUME NEW R, NEW S, IsFiniteSet(S), StrictlyOrders(R, S), NEW n \in Nat,
         NEW x \in S, Cardinality(AheadOf(R, S, x)) < n,
         NEW y \in S, ~(Cardinality(AheadOf(R, S, y)) < n)
  PROVE  <<x, y>> \in R
<1>1. /\ Cardinality(AheadOf(R, S, x)) \in Int
      /\ Cardinality(AheadOf(R, S, y)) \in Int
      /\ <<y, x>> \in R =>
           Cardinality(AheadOf(R, S, y)) < Cardinality(AheadOf(R, S, x))
  BY AheadGrows
<1>2. x # y /\ <<y, x>> \notin R
  BY <1>1
<1>. QED  BY <1>2 DEF StrictlyOrders

-------------------------------------------------------------------------------
(* The order of the duplicate groups.                                        *)

\* Some numbers below a bound have a greatest.
LEMMA GreatestKey ==
  ASSUME NEW bound \in Nat, NEW T, T \subseteq 0 .. bound, T # {}
  PROVE  Max(T) \in T /\ \A y \in T : Max(T) >= y
<1>. DEFINE below == {bound - y : y \in T}
<1>1. below \subseteq Nat /\ below # {}
  <2>1. \A y \in T : bound - y \in Nat
    OBVIOUS
  <2>. QED  BY <2>1
<1>2. PICK least \in below : \A y \in below : least <= y
  <2>. HIDE DEF below
  <2>. QED  BY <1>1, LeastKey
<1>3. PICK x \in T : least = bound - x
  BY <1>2
<1>4. \A y \in T : x >= y
  <2>. SUFFICES ASSUME NEW y \in T
                PROVE  x >= y
    OBVIOUS
  <2>1. bound - x <= bound - y
    BY <1>2, <1>3
  <2>2. x \in Int /\ y \in Int
    OBVIOUS
  <2>. QED  BY <2>1, <2>2
<1>. QED  BY <1>4 DEF Max

\* The score of a pair is the one of its texts, whichever comes first.
LEMMA PairScoreIs ==
  ASSUME attrs \in Attributes, NEW a \in MemoryIDs, NEW b \in MemoryIDs
  PROVE  /\ PairScore({a, b}) = Similarity[<<attrs[a].content, attrs[b].content>>]
         /\ PairScore({a, b}) \in 0 .. 100
<1>1. a \in Nat /\ b \in Nat
  BY IDsAssumption
<1>2. PICK bound \in Nat : a <= bound /\ b <= bound
  BY <1>1
<1>3. PICK T : T = {a, b}
  OBVIOUS
<1>4. /\ Min(T) \in T /\ \A y \in T : Min(T) <= y
      /\ Max(T) \in T /\ \A y \in T : Max(T) >= y
  BY <1>1, <1>2, <1>3, LeastKey, GreatestKey
<1>5. \/ Min(T) = a /\ Max(T) = b
      \/ Min(T) = b /\ Max(T) = a
  BY <1>1, <1>3, <1>4
<1>6. attrs[a].content \in Contents /\ attrs[b].content \in Contents
  BY AttributesAssumption
<1>7. PICK x, y : x = attrs[a].content /\ y = attrs[b].content
  OBVIOUS
<1>8. Similarity[<<x, y>>] \in 0 .. 100 /\ Similarity[<<y, x>>] = Similarity[<<x, y>>]
  BY <1>6, <1>7, SimilarityAssumption
<1>9. PairScore(T) = Similarity[<<x, y>>]
  BY <1>5, <1>7, <1>8 DEF PairScore
<1>. QED  BY <1>3, <1>7, <1>8, <1>9

\* Pairs of two memories.
Twos(pairs) ==
  \A pair \in pairs : \E a, b \in MemoryIDs : a # b /\ pair = {a, b}

\* A component holds one of its pairs whole.
LEMMA ComponentHolds ==
  ASSUME attrs \in Attributes, NEW pairs, Twos(pairs), NEW g \in Components(pairs)
  PROVE  /\ g \in SUBSET MemoryIDs
         /\ g \subseteq UNION pairs
         /\ Cardinality(g) \in Nat /\ Cardinality(g) >= 2
         /\ TopScore(pairs, g) \in Int
         /\ Min(g) \in g /\ Min(g) \in Int
<1>1. pairs \in SUBSET SUBSET MemoryIDs
  BY DEF Twos
<1>2. PICK id \in UNION pairs : g = Component(pairs, id)
  BY DEF Components
<1>3. id \in g /\ g \subseteq UNION pairs /\ Closed(pairs, g)
  BY <1>1, <1>2, ComponentIsClosure
<1>4. PICK pair \in pairs : id \in pair
  OBVIOUS
<1>5. pair \subseteq g
  BY <1>3, <1>4 DEF Closed
<1>6. PICK a \in MemoryIDs, b \in MemoryIDs : a # b /\ pair = {a, b}
  BY DEF Twos
<1>7. g \in SUBSET MemoryIDs
  BY <1>1, <1>3
<1>8. IsFiniteSet(g) /\ Cardinality(g) \in Nat
  BY <1>7, IDsAssumption, FS_Subset, FS_CardinalityType
<1>9. Cardinality(g) >= 2
  <2>1. Cardinality({a, b}) = 2
    <3>1. IsFiniteSet({a}) /\ Cardinality({a}) = 1
      BY FS_Singleton
    <3>2. Cardinality({a} \cup {b})
            = IF b \in {a} THEN Cardinality({a}) ELSE Cardinality({a}) + 1
      BY <3>1, FS_AddElement
    <3>3. {a} \cup {b} = {a, b}
      OBVIOUS
    <3>. QED  BY <1>6, <3>1, <3>2, <3>3
  <2>2. {a, b} \in SUBSET g
    BY <1>5, <1>6
  <2>3. Cardinality({a, b}) <= Cardinality(g)
    BY <1>8, <2>2, FS_Subset
  <2>. QED  BY <1>8, <2>1, <2>3
<1>10. TopScore(pairs, g) \in Int
  <2>. DEFINE scores == {PairScore(p) : p \in PairsWithin(pairs, g)}
  <2>1. pair \in PairsWithin(pairs, g)
    BY <1>5 DEF PairsWithin
  <2>2. scores # {}
    BY <2>1
  <2>3. scores \subseteq 0 .. 100
    <3>1. ASSUME NEW p \in pairs
          PROVE  PairScore(p) \in 0 .. 100
      <4>1. PICK x \in MemoryIDs, y \in MemoryIDs : p = {x, y}
        BY DEF Twos
      <4>. QED  BY <4>1, PairScoreIs
    <3>. QED  BY <3>1 DEF PairsWithin
  <2>4. Max(scores) \in 0 .. 100
    <3>. HIDE DEF scores
    <3>1. 100 \in Nat
      OBVIOUS
    <3>2. Max(scores) \in scores
      BY <2>2, <2>3, <3>1, GreatestKey
    <3>. QED  BY <2>3, <3>2
  <2>. QED  BY <2>4 DEF TopScore
<1>11. Min(g) \in g /\ Min(g) \in Int
  <2>1. g \subseteq Nat /\ g # {}
    BY <1>3, <1>7, IDsAssumption
  <2>2. Min(g) \in g
    BY <2>1, LeastKey
  <2>3. Min(g) \in Nat
    BY <2>1, <2>2
  <2>. QED  BY <2>2, <2>3
<1>. QED  BY <1>3, <1>7, <1>8, <1>9, <1>10, <1>11

\* The order they are sorted in.
GroupComes(pairs, g, h) ==
  \/ Cardinality(g) > Cardinality(h)
  \/ /\ Cardinality(g) = Cardinality(h)
     /\ \/ TopScore(pairs, g) > TopScore(pairs, h)
        \/ TopScore(pairs, g) = TopScore(pairs, h) /\ Min(g) < Min(h)

GroupOrder(pairs) ==
  {gh \in Components(pairs) \X Components(pairs) : GroupComes(pairs, gh[1], gh[2])}

\* No two groups have the same place.
LEMMA GroupsOrdered ==
  ASSUME attrs \in Attributes, NEW pairs, Twos(pairs)
  PROVE  /\ IsFiniteSet(Components(pairs))
         /\ StrictlyOrders(GroupOrder(pairs), Components(pairs))
<1>1. pairs \in SUBSET SUBSET MemoryIDs
  BY DEF Twos
<1>2. IsFiniteSet(Components(pairs))
  <2>1. IsFiniteSet(SUBSET MemoryIDs)
    BY IDsAssumption, FS_SUBSET
  <2>2. Components(pairs) \in SUBSET SUBSET MemoryIDs
    BY ComponentHolds
  <2>. QED  BY <2>1, <2>2, FS_Subset
<1>3. \A g \in Components(pairs) :
        /\ Cardinality(g) \in Int /\ TopScore(pairs, g) \in Int
        /\ Min(g) \in g /\ Min(g) \in Int
  BY ComponentHolds
<1>4. \A g, h \in Components(pairs) : g # h => Min(g) # Min(h)
  <2>1. \A g, h \in Components(pairs) : g = h \/ g \cap h = {}
    BY <1>1, ComponentsApart
  <2>. QED  BY <1>3, <2>1
<1>5. \A g, h \in Components(pairs) :
        <<g, h>> \in GroupOrder(pairs) <=> GroupComes(pairs, g, h)
  BY DEF GroupOrder
<1>6. \A g \in Components(pairs) : ~GroupComes(pairs, g, g)
  BY <1>3 DEF GroupComes
<1>7. \A g, h \in Components(pairs) :
        g # h => GroupComes(pairs, g, h) \/ GroupComes(pairs, h, g)
  BY <1>3, <1>4 DEF GroupComes
<1>8. \A f, g, h \in Components(pairs) :
        GroupComes(pairs, f, g) /\ GroupComes(pairs, g, h) => GroupComes(pairs, f, h)
  BY <1>3 DEF GroupComes
<1>. QED  BY <1>2, <1>5, <1>6, <1>7, <1>8 DEF StrictlyOrders

\* The groups reported are as many as there are, up to the limit, and the largest.
LEMMA LargestGroups ==
  ASSUME attrs \in Attributes, NEW pairs, Twos(pairs), NEW n \in Nat
  PROVE  /\ BuildDuplicateGroups(pairs, n) \subseteq Components(pairs)
         /\ Cardinality(BuildDuplicateGroups(pairs, n))
              = Min({n, Cardinality(Components(pairs))})
         /\ \A g \in BuildDuplicateGroups(pairs, n),
               h \in Components(pairs) \ BuildDuplicateGroups(pairs, n) :
              Cardinality(g) >= Cardinality(h)
<1>. DEFINE S == Components(pairs)
            R == GroupOrder(pairs)
            first == {g \in S : Cardinality(AheadOf(R, S, g)) < n}
<1>1. IsFiniteSet(S) /\ StrictlyOrders(R, S)
  BY GroupsOrdered
<1>2. BuildDuplicateGroups(pairs, n) = first
  <2>1. \A g \in S : {h \in S : GroupComes(pairs, h, g)} = AheadOf(R, S, g)
    BY DEF AheadOf, GroupOrder
  <2>2. BuildDuplicateGroups(pairs, n)
          = {g \in S : Cardinality({h \in S : GroupComes(pairs, h, g)}) < n}
    BY DEF BuildDuplicateGroups, Leading, GroupComes
  <2>. HIDE DEF S, R
  <2>. QED  BY <2>1, <2>2
<1>3. Cardinality(first) = IF n < Cardinality(S) THEN n ELSE Cardinality(S)
  <2>. HIDE DEF S, R
  <2>. QED  BY <1>1, FirstAreMany
<1>4. Cardinality(first) = Min({n, Cardinality(S)})
  <2>1. Cardinality(S) \in Nat
    BY <1>1, FS_CardinalityType
  <2>2. PICK k \in Nat : k = Cardinality(S)
    BY <2>1
  <2>3. PICK T : T = {n, k}
    OBVIOUS
  <2>4. Min(T) \in T /\ \A y \in T : Min(T) <= y
    BY <2>3, LeastKey
  <2>5. Min(T) = IF n < k THEN n ELSE k
    BY <2>3, <2>4
  <2>. QED  BY <1>3, <2>2, <2>3, <2>5
<1>5. ASSUME NEW g \in first, NEW h \in S \ first
      PROVE  Cardinality(g) >= Cardinality(h)
  <2>1. <<g, h>> \in R
    <3>. HIDE DEF S, R
    <3>. QED  BY <1>1, FirstAreAhead
  <2>2. GroupComes(pairs, g, h)
    BY <2>1 DEF GroupOrder
  <2>3. Cardinality(g) \in Int /\ Cardinality(h) \in Int
    BY ComponentHolds
  <2>. QED  BY <2>2, <2>3 DEF GroupComes
<1>. QED  BY <1>2, <1>4, <1>5

-------------------------------------------------------------------------------
(* What the lookups of a quiet report find.                                  *)

\* The live static memories of a space.
StaticIn(space) == {id \in LiveNow(space) : KindOf(id) = "static"}

StaticNow == [space \in Spaces |-> StaticIn(space)]

FindsNow ==
  [space \in Spaces |->
     [id \in MemoryIDs |->
        PairsFrom(space, id, "static", updateSuggestionScoreThreshold)]]

Similar(space) == TrulySimilar(space, "static", duplicateScoreThreshold)

\* While nothing is written lookups find the same.
LEMMA QuietFinds ==
  ASSUME db' = db, expired' = expired, attrs' = attrs
  PROVE  StaticNow' = StaticNow /\ FindsNow' = FindsNow
<1>1. StaticNow' = StaticNow
  BY DEF StaticNow, StaticIn, LiveNow, LiveIn, KindOf, Stored
<1>2. FindsNow' = FindsNow
  BY DEF FindsNow, PairsFrom, FindCandidates, Best, Leading, StoredIn, Stored,
         IsCandidateEligible, Score, KindOf
<1>. QED  BY <1>1, <1>2

\* A set has two elements when it is a pair.
LEMMA TwoElements ==
  /\ \A a, b : a # b => Cardinality({a, b}) = 2
  /\ \A T : IsFiniteSet(T) /\ Cardinality(T) = 2
              => \E a, b \in T : a # b /\ T = {a, b}
<1>1. ASSUME NEW a, NEW b, a # b
      PROVE  Cardinality({a, b}) = 2
  <2>1. IsFiniteSet({a}) /\ Cardinality({a}) = 1
    BY FS_Singleton
  <2>2. Cardinality({a} \cup {b})
          = IF b \in {a} THEN Cardinality({a}) ELSE Cardinality({a}) + 1
    BY <2>1, FS_AddElement
  <2>3. {a} \cup {b} = {a, b}
    OBVIOUS
  <2>. QED  BY <1>1, <2>1, <2>2, <2>3
<1>2. ASSUME NEW T, IsFiniteSet(T), Cardinality(T) = 2
      PROVE  \E a, b \in T : a # b /\ T = {a, b}
  <2>1. T # {}
    BY <1>2, FS_EmptySet
  <2>2. PICK a : a \in T
    BY <2>1
  <2>3. IsFiniteSet(T \ {a}) /\ Cardinality(T \ {a}) = 1
    <3>1. /\ IsFiniteSet(T \ {a})
          /\ Cardinality(T \ {a})
               = IF a \in T THEN Cardinality(T) - 1 ELSE Cardinality(T)
      BY <1>2, FS_RemoveElement
    <3>. QED  BY <1>2, <2>2, <3>1
  <2>4. PICK b : T \ {a} = {b}
    BY <2>3, FS_Singleton
  <2>. QED  BY <2>2, <2>4
<1>. QED  BY <1>1, <1>2

\* Candidates are what is live, the best of it.
LEMMA CandidatesAre ==
  ASSUME NEW space, NEW content, NEW k, NEW c
  PROVE  /\ LiveNow(space) \in SUBSET MemoryIDs
         /\ c \in FindCandidates(space, content, k) <=>
              /\ c \in LiveNow(space)
              /\ Cardinality({b \in LiveNow(space) : Precedes(content, b, c)}) < k
<1>1. {id \in StoredIn(space) : IsCandidateEligible(id, FALSE, FALSE)} = LiveNow(space)
  BY DEF StoredIn, IsCandidateEligible, LiveNow, LiveIn
<1>2. LiveNow(space) \in SUBSET MemoryIDs
  BY DEF LiveNow, LiveIn, Stored
<1>3. FindCandidates(space, content, k) = Best(content, LiveNow(space), k)
  BY <1>1 DEF FindCandidates
<1>. HIDE DEF LiveNow
<1>4. c \in Best(content, LiveNow(space), k) <=>
        /\ c \in LiveNow(space)
        /\ Cardinality({b \in LiveNow(space) : Precedes(content, b, c)}) < k
  BY DEF Best, Leading, Precedes
<1>. QED  BY <1>2, <1>3, <1>4

NearPair(a, b) ==
  /\ a # b
  /\ PairScore({a, b}) >= duplicateScoreThreshold
  /\ db.memories[b].embedding # Nil

\* True near duplicates are pairs of live static memories.
LEMMA SimilarAre ==
  ASSUME NEW space, NEW pair
  PROVE  pair \in Similar(space) <=>
           \E a, b \in StaticIn(space) : pair = {a, b} /\ NearPair(a, b)
<1>1. StaticIn(space) \in SUBSET MemoryIDs
  BY DEF StaticIn, LiveNow, LiveIn, Stored
<1>2. pair \in Similar(space) <=>
        /\ pair \in SUBSET StaticIn(space) /\ Cardinality(pair) = 2
        /\ PairScore(pair) >= duplicateScoreThreshold
        /\ \E id \in pair : db.memories[id].embedding # Nil
  BY DEF Similar, TrulySimilar, kSubset, StaticIn
<1>3. ASSUME pair \in Similar(space)
      PROVE  \E a, b \in StaticIn(space) : pair = {a, b} /\ NearPair(a, b)
  <2>1. IsFiniteSet(pair)
    BY <1>1, <1>2, <1>3, IDsAssumption, FS_Subset
  <2>2. PICK a \in pair, b \in pair : a # b /\ pair = {a, b}
    BY <1>2, <1>3, <2>1, TwoElements
  <2>3. {a, b} = {b, a}
    OBVIOUS
  <2>. QED  BY <1>2, <1>3, <2>2, <2>3 DEF NearPair
<1>4. ASSUME NEW a \in StaticIn(space), NEW b \in StaticIn(space),
             pair = {a, b}, NearPair(a, b)
      PROVE  pair \in Similar(space)
  <2>1. Cardinality({a, b}) = 2
    BY <1>4, TwoElements DEF NearPair
  <2>. QED  BY <1>2, <1>4, <2>1 DEF NearPair
<1>. QED  BY <1>3, <1>4

\* One that a lookup adds is a pair of live static memories, one with a vector.
LEMMA FoundAre ==
  ASSUME attrs \in Attributes, NEW space, NEW id \in StaticIn(space), NEW pair
  PROVE  pair \in PairsFrom(space, id, "static", updateSuggestionScoreThreshold)
           <=> \E c \in StaticIn(space) :
                 /\ c # id /\ pair = {id, c}
                 /\ PairScore(pair) >= updateSuggestionScoreThreshold
                 /\ db.memories[c].embedding # Nil
                 /\ c \in FindCandidates(space, attrs[id].content, TopK + 1)
<1>1. id \in MemoryIDs
  BY DEF StaticIn, LiveNow, LiveIn, Stored
<1>2. ASSUME NEW c \in FindCandidates(space, attrs[id].content, TopK + 1),
             KindOf(c) = "static"
      PROVE  /\ c \in StaticIn(space)
             /\ Score(attrs[id].content, c) >= updateSuggestionScoreThreshold <=>
                  /\ PairScore({id, c}) >= updateSuggestionScoreThreshold
                  /\ db.memories[c].embedding # Nil
  <2>1. c \in LiveNow(space) /\ c \in MemoryIDs
    BY CandidatesAre
  <2>2. PairScore({id, c}) = Similarity[<<attrs[id].content, attrs[c].content>>]
    BY <1>1, <2>1, PairScoreIs
  <2>. QED
    BY <1>2, <2>1, <2>2 DEF StaticIn, Score, updateSuggestionScoreThreshold
<1>3. \A c \in StaticIn(space) : KindOf(c) = "static"
  BY DEF StaticIn
<1>4. pair \in PairsFrom(space, id, "static", updateSuggestionScoreThreshold) <=>
        \E c \in FindCandidates(space, attrs[id].content, TopK + 1) :
          /\ c # id /\ KindOf(c) = "static"
          /\ Score(attrs[id].content, c) >= updateSuggestionScoreThreshold
          /\ pair = {id, c}
  BY DEF PairsFrom
<1>. QED  BY <1>2, <1>3, <1>4

\* Not crowded, a lookup finds every near duplicate with a vector.
LEMMA NothingMissed ==
  ASSUME attrs \in Attributes, NEW space, NotCrowded(space),
         NEW a \in StaticIn(space), NEW b \in StaticIn(space), NearPair(a, b)
  PROVE  b \in FindCandidates(space, attrs[a].content, TopK + 1)
<1>. DEFINE content == attrs[a].content
            near == {c \in LiveNow(space) :
                       Score(content, c) >= duplicateScoreThreshold}
            before == {c \in LiveNow(space) : Precedes(content, c, b)}
<1>1. /\ a \in LiveNow(space) /\ b \in LiveNow(space)
      /\ LiveNow(space) \in SUBSET MemoryIDs
  BY CandidatesAre DEF StaticIn
<1>2. content \in Contents /\ TopK \in Nat
  BY <1>1, AttributesAssumption, LimitsAssumption
<1>3. Score(content, b) >= duplicateScoreThreshold
  <2>1. PairScore({a, b}) = Similarity[<<attrs[a].content, attrs[b].content>>]
    BY <1>1, PairScoreIs
  <2>. QED  BY <2>1 DEF Score, NearPair
<1>. HIDE DEF content
<1>4. \A c \in LiveNow(space) : Score(content, c) \in Int
  BY <1>1, <1>2, ScoreType
<1>5. before \in SUBSET near /\ b \in near /\ b \notin before
  <2>1. \A c \in before : Score(content, c) >= Score(content, b)
    BY <1>1, <1>4 DEF Precedes
  <2>2. \A c \in before : c \in near
    BY <1>1, <1>3, <1>4, <2>1 DEF duplicateScoreThreshold
  <2>3. b \in Int
    <3>1. b \in MemoryIDs
      BY <1>1
    <3>. QED  BY <3>1, IDsAssumption
  <2>4. b \notin before
    BY <1>1, <1>4, <2>3 DEF Precedes
  <2>. QED  BY <1>1, <1>3, <2>2, <2>4
<1>6. Cardinality(near) <= TopK + 1
  BY <1>1 DEF NotCrowded, content
<1>7. IsFiniteSet(near) /\ IsFiniteSet(before)
  <2>1. near \in SUBSET MemoryIDs /\ before \in SUBSET MemoryIDs
    BY <1>1
  <2>. HIDE DEF near, before
  <2>. QED  BY <2>1, IDsAssumption, FS_Subset
<1>8. Cardinality(before) < TopK + 1
  <2>. HIDE DEF near, before
  <2>1. Cardinality(near) \in Nat /\ Cardinality(before) \in Nat
    BY <1>7, FS_CardinalityType
  <2>2. Cardinality(before) <= Cardinality(near)
        /\ Cardinality(before) # Cardinality(near)
    BY <1>5, <1>7, FS_Subset
  <2>. QED  BY <1>2, <1>6, <2>1, <2>2
<1>. QED  BY <1>1, <1>8, CandidatesAre DEF content

\* The pairs of all lookups are near duplicates, and all of them unless a memory
\* has too many.
LEMMA LookupsFind ==
  ASSUME attrs \in Attributes, NEW space, NEW pairs,
         pairs = UNION {PairsFrom(space, id, "static", updateSuggestionScoreThreshold) :
                          id \in StaticIn(space)}
  PROVE  /\ Twos(DuplicatePairs(pairs)) /\ Twos(Similar(space))
         /\ UNION DuplicatePairs(pairs) \subseteq StaticIn(space)
         /\ DuplicatePairs(pairs) \subseteq Similar(space)
         /\ NotCrowded(space) => DuplicatePairs(pairs) = Similar(space)
<1>1. StaticIn(space) \in SUBSET MemoryIDs
  BY DEF StaticIn, LiveNow, LiveIn, Stored
<1>2. Twos(Similar(space))
  <2>1. ASSUME NEW pair \in Similar(space)
        PROVE  \E a, b \in MemoryIDs : a # b /\ pair = {a, b}
    <3>1. PICK a \in StaticIn(space), b \in StaticIn(space) :
            pair = {a, b} /\ NearPair(a, b)
      BY SimilarAre
    <3>. QED  BY <1>1, <3>1 DEF NearPair
  <2>. QED  BY <2>1 DEF Twos
<1>3. ASSUME NEW pair \in DuplicatePairs(pairs)
      PROVE  pair \in Similar(space) /\ pair \subseteq StaticIn(space)
  <2>1. PICK id \in StaticIn(space) :
          pair \in PairsFrom(space, id, "static", updateSuggestionScoreThreshold)
    BY <1>3 DEF DuplicatePairs
  <2>2. PICK c \in StaticIn(space) :
          c # id /\ pair = {id, c} /\ db.memories[c].embedding # Nil
    BY <2>1, FoundAre
  <2>3. PairScore(pair) >= duplicateScoreThreshold
    BY <1>3 DEF DuplicatePairs
  <2>4. pair \in Similar(space)
    <3>1. NearPair(id, c)
      BY <2>2, <2>3 DEF NearPair
    <3>. QED  BY <2>2, <3>1, SimilarAre
  <2>. QED  BY <2>2, <2>4
<1>4. ASSUME NotCrowded(space), NEW pair \in Similar(space)
      PROVE  pair \in DuplicatePairs(pairs)
  <2>1. PICK a \in StaticIn(space), b \in StaticIn(space) :
          pair = {a, b} /\ NearPair(a, b)
    BY <1>4, SimilarAre
  <2>2. b \in FindCandidates(space, attrs[a].content, TopK + 1)
    BY <1>4, <2>1, NothingMissed
  <2>3. PairScore({a, b}) >= updateSuggestionScoreThreshold
    <3>1. PairScore({a, b}) \in 0 .. 100
      BY <1>1, PairScoreIs
    <3>. QED
      BY <2>1, <3>1
         DEF NearPair, duplicateScoreThreshold, updateSuggestionScoreThreshold
  <2>4. pair \in PairsFrom(space, a, "static", updateSuggestionScoreThreshold)
    BY <2>1, <2>2, <2>3, FoundAre DEF NearPair
  <2>5. pair \in pairs
    BY <2>4
  <2>. QED  BY <2>1, <2>5 DEF DuplicatePairs, NearPair
<1>5. Twos(DuplicatePairs(pairs))
  BY <1>2, <1>3 DEF Twos
<1>. QED  BY <1>2, <1>3, <1>4, <1>5

\* Fewer pairs connect less.
LEMMA ComponentsWithin ==
  ASSUME NEW pairs \in SUBSET SUBSET MemoryIDs, NEW more \in SUBSET SUBSET MemoryIDs,
         pairs \subseteq more, NEW g \in Components(pairs)
  PROVE  \E c \in Components(more) : g \subseteq c
<1>1. PICK id \in UNION pairs : g = Component(pairs, id)
  BY DEF Components
<1>2. id \in UNION more
  OBVIOUS
<1>3. id \in Component(more, id) /\ Closed(more, Component(more, id))
  BY <1>2, ComponentIsClosure
<1>4. Closed(pairs, Component(more, id))
  BY <1>3 DEF Closed
<1>5. g \subseteq Component(more, id)
  BY <1>1, <1>3, <1>4, ComponentIsClosure
<1>6. Component(more, id) \in Components(more)
  BY <1>2 DEF Components
<1>. QED  BY <1>5, <1>6

\* A plan that knows all memories of the pairs takes the groups whole.
LEMMA PlanTakesGroups ==
  ASSUME attrs \in Attributes, NEW known, NEW pairs, Twos(DuplicatePairs(pairs)),
         UNION DuplicatePairs(pairs) \subseteq known
  PROVE  {{s.keep} \cup s.forget : s \in QualityCleanupPlan(known, pairs)}
           = BuildDuplicateGroups(DuplicatePairs(pairs), MaxGroups)
<1>. DEFINE found == BuildDuplicateGroups(DuplicatePairs(pairs), MaxGroups)
            plan == QualityCleanupPlan(known, pairs)
            Whole(g) == [keep |-> BestOf(g), forget |-> g \ {BestOf(g)}]
<1>1. found \subseteq Components(DuplicatePairs(pairs))
  BY DEF BuildDuplicateGroups, Leading
<1>2. ASSUME NEW g \in found
      PROVE  SelectCleanupTargets(g, known) = {Whole(g)} /\ BestOf(g) \in g
  <2>1. /\ g \in SUBSET MemoryIDs /\ g \subseteq UNION DuplicatePairs(pairs)
        /\ Cardinality(g) \in Nat /\ Cardinality(g) >= 2
    BY <1>1, ComponentHolds
  <2>2. g \cap known = g /\ ~(Cardinality(g) < 2)
    BY <2>1
  <2>3. g # {}
    <3>1. Cardinality({}) = 0
      BY FS_EmptySet
    <3>. QED  BY <2>1, <3>1
  <2>4. BestOf(g) \in g
    BY <2>1, <2>3, BestExists DEF BestOf
  <2>. QED  BY <2>2, <2>4 DEF SelectCleanupTargets
<1>3. plan = UNION {SelectCleanupTargets(g, known) : g \in found}
  BY DEF QualityCleanupPlan
<1>. HIDE DEF found, plan
<1>4. plan = {Whole(g) : g \in found}
  BY <1>2, <1>3
<1>5. \A g \in found : {Whole(g).keep} \cup Whole(g).forget = g
  BY <1>2
<1>6. {{s.keep} \cup s.forget : s \in plan} = found
  <2>1. ASSUME NEW s \in plan
        PROVE  {s.keep} \cup s.forget \in found
    <3>1. PICK g \in found : s = Whole(g)
      BY <1>4
    <3>2. s.keep = Whole(g).keep /\ s.forget = Whole(g).forget
      BY <3>1
    <3>. HIDE DEF Whole
    <3>. QED  BY <1>5, <3>2
  <2>2. ASSUME NEW g \in found
        PROVE  \E s \in plan : {s.keep} \cup s.forget = g
    <3>. HIDE DEF Whole
    <3>1. Whole(g) \in plan
      BY <1>4
    <3>. QED  BY <1>5, <3>1
  <2>. QED  BY <2>1, <2>2
<1>. QED  BY <1>6 DEF found, plan

-------------------------------------------------------------------------------
(* The invariant of the quiet plan.                                          *)

\* While nobody wrote, a plan knows what is static and live, and has found what
\* the lookups it made find now.
QuietHolds(static, finds, r) ==
  r.meanwhile = 0 =>
    /\ r.known = static[r.space]
    /\ r.pc = "second" => r.pairs = {}
    /\ r.pc = "lookups" =>
         /\ r.todo \subseteq static[r.space]
         /\ r.pairs = UNION {finds[r.space][id] : id \in static[r.space] \ r.todo}

QuietInv ==
  report # Nil /\ report.op = "plan" => QuietHolds(StaticNow, FindsNow, report)

\* What a plan lists.
LEMMA StaticListed ==
  ASSUME IndexInv, NEW space \in Spaces
  PROVE  ListMemories(space, {"static"}, FALSE) = StaticNow[space]
<1>1. ListMemories(space, {"static"}, FALSE)
        = {id \in LiveNow(space) : KindOf(id) \in {"static"}}
  BY AllListed
<1>. QED  BY <1>1 DEF StaticNow, StaticIn

\* A lookup finds what it finds.
LEMMA QuietLookup ==
  ASSUME report \in Report, QuietHolds(StaticNow, FindsNow, report),
         report.pc = "lookups", LookUpNext("static", updateSuggestionScoreThreshold)
  PROVE  QuietHolds(StaticNow, FindsNow, report')
<1>. PICK q, static, finds : q = report' /\ static = StaticNow /\ finds = FindsNow
  OBVIOUS
<1>. SUFFICES ASSUME q.meanwhile = 0
              PROVE  QuietHolds(static, finds, q)
  BY DEF QuietHolds
<1>1. /\ report.todo \in SUBSET MemoryIDs /\ report.todo # {}
      /\ report.space \in Spaces
  BY DEF Report, LookUpNext
<1>2. PICK id \in report.todo : id = Min(report.todo)
  <2>1. report.todo \subseteq Nat
    BY <1>1, IDsAssumption
  <2>2. Min(report.todo) \in report.todo
    BY <1>1, <2>1, LeastKey
  <2>. QED  BY <2>2
<1>3. PICK more :
        more = PairsFrom(report.space, id, "static", updateSuggestionScoreThreshold)
  OBVIOUS
<1>4. finds[report.space][id] = more
  BY <1>1, <1>2, <1>3 DEF FindsNow
<1>5. q = [report EXCEPT !.todo = @ \ {id}, !.pairs = @ \cup more]
  BY <1>2, <1>3 DEF LookUpNext
<1>6. /\ q.todo = report.todo \ {id} /\ q.pairs = report.pairs \cup more
      /\ q.space = report.space /\ q.pc = report.pc /\ q.known = report.known
      /\ q.meanwhile = report.meanwhile
  BY <1>5 DEF Report
<1>7. /\ report.known = static[report.space]
      /\ report.todo \subseteq static[report.space]
      /\ report.pairs = UNION {finds[report.space][m] :
                                 m \in static[report.space] \ report.todo}
  BY <1>6 DEF QuietHolds
<1>8. q.pairs = UNION {finds[q.space][m] : m \in static[q.space] \ q.todo}
  <2>1. static[q.space] \ q.todo = (static[report.space] \ report.todo) \cup {id}
    BY <1>2, <1>6, <1>7
  <2>. QED  BY <1>4, <1>6, <1>7, <2>1
<1>. QED  BY <1>6, <1>7, <1>8 DEF QuietHolds

\* The report after a step that makes no plan.
LEMMA OtherPlans ==
  ASSUME ReportTyped, [ReportsNext]_allVars,
         ~PlanListing, ~DiagnosticsListing, ~DiagnosticsLookup
  PROVE  \/ report' = Nil
         \/ report' # Nil /\ report'.op # "plan"
         \/ /\ report # Nil /\ report'.op = report.op
            /\ report'.meanwhile = 0 =>
                 /\ report' = report
                 /\ db' = db /\ expired' = expired
<1>0. report = Nil \/ report \in Report
  BY DEF ReportTyped
<1>1. CASE report # Nil /\ report' = report /\ db' = db /\ expired' = expired
  BY <1>1
<1>2. CASE report # Nil /\ report' = [report EXCEPT !.meanwhile = @ + 1]
  <2>1. /\ report'.op = report.op
        /\ report'.meanwhile = report.meanwhile + 1 /\ report.meanwhile \in Nat
    BY <1>0, <1>2 DEF Report
  <2>2. report'.meanwhile # 0
    BY <2>1
  <2>. QED  BY <1>2, <2>1, <2>2
<1>3. CASE ProfileStatic
  <2>1. PICK space, options, known :
          report' = NewReport("profile", options, space, known)
    BY <1>3 DEF ProfileStatic
  <2>. QED  BY <2>1 DEF NewReport
<1>4. CASE CurationListing
  <2>1. PICK space, options, listed :
          report' = [NewReport("curation", options, space, listed) EXCEPT
                       !.pc = "lookups", !.todo = listed]
    BY <1>4 DEF CurationListing
  <2>. QED  BY <2>1 DEF NewReport
<1>5. CASE CurationLookup
  <2>1. report # Nil /\ report.op = "curation"
    BY <1>5 DEF CurationLookup, Reads
  <2>2. PICK id, more :
          report' = [report EXCEPT !.todo = @ \ {id}, !.pairs = @ \cup more]
    BY <1>5 DEF CurationLookup, LookUpNext
  <2>3. report'.op = "curation"
    BY <1>0, <2>1, <2>2 DEF Report
  <2>. QED  BY <2>1, <2>3
<1>6. CASE ProfileEpisodic
  <2>1. report # Nil /\ report.op = "profile"
    BY <1>6 DEF ProfileEpisodic, Reads
  <2>2. PICK listed : report' = [report EXCEPT !.pc = "both", !.listed = listed]
    BY <1>6 DEF ProfileEpisodic
  <2>3. report'.op = "profile"
    BY <1>0, <2>1, <2>2 DEF Report
  <2>. QED  BY <2>1, <2>3
<1>7. CASE StoreStep \/ ApplyPlan
  <2>1. expired' = expired /\ Meanwhile
    BY <1>7 DEF StoreStep, ApplyPlan
  <2>2. CASE report = Nil
    BY <2>1, <2>2 DEF Meanwhile
  <2>3. CASE report # Nil /\ db' = db
    BY <1>1, <2>1, <2>3 DEF Meanwhile
  <2>4. CASE report # Nil /\ db' # db
    BY <1>2, <2>1, <2>4 DEF Meanwhile
  <2>. QED  BY <2>2, <2>3, <2>4
<1>8. CASE Expire
  <2>1. CASE report = Nil
    BY <1>8, <2>1 DEF Expire
  <2>2. CASE report # Nil
    BY <1>2, <1>8, <2>2 DEF Expire
  <2>. QED  BY <2>1, <2>2
<1>9. CASE PlanDone \/ CurationDone \/ ProfileDone
  BY <1>9 DEF PlanDone, CurationDone, ProfileDone
<1>10. CASE UNCHANGED allVars
  BY <1>1, <1>10 DEF allVars, reportVars, vars
<1>. QED
  BY <1>3, <1>4, <1>5, <1>6, <1>7, <1>8, <1>9, <1>10 DEF ReportsNext

\* Every step.
LEMMA NextQuietInv == ReportsInv /\ QuietInv /\ [ReportsNext]_allVars => QuietInv'
<1>. SUFFICES ASSUME ReportsInv, QuietInv, [ReportsNext]_allVars,
                     report' # Nil, report'.op = "plan"
              PROVE  QuietHolds(StaticNow', FindsNow', report')
  BY DEF QuietInv
<1>0. /\ IndexInv /\ ReportTyped /\ attrs' = attrs
      /\ report # Nil /\ report.op = "plan" =>
           report \in Report /\ QuietHolds(StaticNow, FindsNow, report)
  BY AttributesStay DEF ReportsInv, ReportTyped, QuietInv
<1>1. CASE PlanListing
  <2>1. PICK space \in Spaces :
          report' = NewReport("plan", {}, space, ListMemories(space, {"static"}, FALSE))
    BY <1>1 DEF PlanListing, Configured
  <2>2. db' = db /\ expired' = expired
    BY <1>1 DEF PlanListing, BeginReport, ReadOnly, vars
  <2>3. StaticNow' = StaticNow /\ FindsNow' = FindsNow
    BY <1>0, <2>2, QuietFinds
  <2>4. PICK q : q = report'
    OBVIOUS
  <2>5. q.space = space /\ q.pc = "second" /\ q.pairs = {}
        /\ q.known = ListMemories(space, {"static"}, FALSE)
    BY <2>1, <2>4 DEF NewReport
  <2>6. q.known = StaticNow[q.space]
    BY <1>0, <2>5, StaticListed
  <2>7. QuietHolds(StaticNow, FindsNow, q)
    BY <2>5, <2>6 DEF QuietHolds
  <2>. QED  BY <2>3, <2>4, <2>7
<1>2. CASE DiagnosticsListing
  <2>1. /\ report # Nil /\ report.op = "plan" /\ report.pc = "second"
        /\ db' = db /\ expired' = expired
    BY <1>2 DEF DiagnosticsListing, Reads, ReadOnly, vars
  <2>2. StaticNow' = StaticNow /\ FindsNow' = FindsNow
    BY <1>0, <2>1, QuietFinds
  <2>3. PICK q, listed : q = report' /\ listed = ListMemories(report.space, {"static"}, FALSE)
    OBVIOUS
  <2>4. q = [report EXCEPT !.pc = "lookups", !.listed = listed, !.todo = listed]
    BY <1>2, <2>3 DEF DiagnosticsListing
  <2>5. /\ q.pc = "lookups" /\ q.todo = listed /\ q.pairs = report.pairs
        /\ q.space = report.space /\ q.known = report.known
        /\ q.meanwhile = report.meanwhile /\ report.space \in Spaces
    BY <1>0, <2>1, <2>4 DEF Report
  <2>6. listed = StaticNow[q.space]
    BY <1>0, <2>3, <2>5, StaticListed
  <2>7. q.meanwhile = 0 => q.known = StaticNow[q.space] /\ q.pairs = {}
    BY <1>0, <2>1, <2>5 DEF QuietHolds
  <2>8. QuietHolds(StaticNow, FindsNow, q)
    BY <2>5, <2>6, <2>7 DEF QuietHolds
  <2>. QED  BY <2>2, <2>3, <2>8
<1>3. CASE DiagnosticsLookup
  <2>1. /\ report # Nil /\ report.op = "plan" /\ report.pc = "lookups"
        /\ db' = db /\ expired' = expired
        /\ LookUpNext("static", updateSuggestionScoreThreshold)
    BY <1>3 DEF DiagnosticsLookup, Reads, ReadOnly, vars
  <2>2. StaticNow' = StaticNow /\ FindsNow' = FindsNow
    BY <1>0, <2>1, QuietFinds
  <2>3. QuietHolds(StaticNow, FindsNow, report')
    BY <1>0, <2>1, QuietLookup
  <2>. QED  BY <2>2, <2>3
<1>4. CASE ~PlanListing /\ ~DiagnosticsListing /\ ~DiagnosticsLookup
  <2>1. /\ report # Nil /\ report'.op = report.op
        /\ report'.meanwhile = 0 =>
             report' = report /\ db' = db /\ expired' = expired
    BY <1>0, <1>4, OtherPlans
  <2>2. CASE report'.meanwhile # 0
    BY <2>2 DEF QuietHolds
  <2>3. CASE report'.meanwhile = 0
    <3>1. report' = report /\ StaticNow' = StaticNow /\ FindsNow' = FindsNow
      BY <1>0, <2>1, <2>3, QuietFinds
    <3>. QED  BY <1>0, <2>1, <3>1
  <2>. QED  BY <2>2, <2>3
<1>. QED  BY <1>1, <1>2, <1>3, <1>4

\* A plan is made from two listings and a lookup for each memory listed.  With
\* nobody writing meanwhile it takes groups of true near duplicates, and the
\* largest of them, whole, where no memory has more near duplicates than a
\* lookup returns (BuildQualityCleanupPlan, buildDuplicateGroups).
THEOREM QuietPlansAreAlwaysExact == ReportsSpec => []QuietPlansAreExact
<1>1. ReportsInv /\ QuietInv => QuietPlansAreExact
  <2>. SUFFICES ASSUME ReportsInv, QuietInv, PlanComplete, report.meanwhile = 0
                PROVE
         LET similar == Similar(report.space)
             groups  == {{s.keep} \cup s.forget : s \in Plan}
         IN  /\ \A g \in groups : \E c \in Components(similar) : g \subseteq c
             /\ NotCrowded(report.space) =>
                  /\ groups \subseteq Components(similar)
                  /\ Cardinality(groups) =
                       Min({MaxGroups, Cardinality(Components(similar))})
                  /\ \A g \in groups, c \in Components(similar) \ groups :
                       Cardinality(g) >= Cardinality(c)
    BY DEF QuietPlansAreExact, Similar
  <2>. DEFINE space == report.space
              similar == Similar(space)
              near == DuplicatePairs(report.pairs)
              groups == {{s.keep} \cup s.forget : s \in Plan}
  <2>1. /\ attrs \in Attributes /\ report \in Report
        /\ QuietHolds(StaticNow, FindsNow, report)
        /\ report.pc = "lookups" /\ report.todo = {}
    BY DEF ReportsInv, ReportTyped, QuietInv, PlanComplete, Complete
  <2>2. space \in Spaces
    BY <2>1 DEF Report
  <2>3. /\ report.known = StaticIn(space)
        /\ report.pairs = UNION {FindsNow[space][id] : id \in StaticIn(space)}
    <3>1. StaticNow[space] = StaticIn(space)
      BY <2>2 DEF StaticNow
    <3>. QED  BY <2>1, <3>1 DEF QuietHolds
  <2>4. report.pairs =
          UNION {PairsFrom(space, id, "static", updateSuggestionScoreThreshold) :
                   id \in StaticIn(space)}
    <3>1. StaticIn(space) \in SUBSET MemoryIDs
      BY DEF StaticIn, LiveNow, LiveIn, Stored
    <3>2. \A id \in StaticIn(space) :
            FindsNow[space][id]
              = PairsFrom(space, id, "static", updateSuggestionScoreThreshold)
      BY <2>2, <3>1 DEF FindsNow
    <3>. HIDE DEF space
    <3>. QED  BY <2>3, <3>2
  <2>. HIDE DEF space
  <2>5. /\ Twos(near) /\ Twos(similar) /\ UNION near \subseteq report.known
        /\ near \subseteq similar
        /\ NotCrowded(space) => near = similar
    <3>1. PICK pairs : pairs = report.pairs
      OBVIOUS
    <3>2. /\ Twos(DuplicatePairs(pairs)) /\ Twos(Similar(space))
          /\ UNION DuplicatePairs(pairs) \subseteq StaticIn(space)
          /\ DuplicatePairs(pairs) \subseteq Similar(space)
          /\ NotCrowded(space) => DuplicatePairs(pairs) = Similar(space)
      <4>1. pairs = UNION {PairsFrom(space, id, "static",
                                     updateSuggestionScoreThreshold) :
                             id \in StaticIn(space)}
        BY <2>4, <3>1
      <4>. QED  BY <2>1, <4>1, LookupsFind
    <3>. QED  BY <2>3, <3>1, <3>2
  <2>6. groups = BuildDuplicateGroups(near, MaxGroups)
    BY <2>1, <2>5, PlanTakesGroups DEF Plan
  <2>7. MaxGroups \in Nat
    BY LimitsAssumption
  <2>. HIDE DEF near, similar, groups
  <2>8. \A g \in groups : \E c \in Components(similar) : g \subseteq c
    <3>1. groups \subseteq Components(near)
      BY <2>1, <2>5, <2>6, <2>7, LargestGroups
    <3>2. near \in SUBSET SUBSET MemoryIDs /\ similar \in SUBSET SUBSET MemoryIDs
      BY <2>5 DEF Twos
    <3>. QED  BY <2>5, <3>1, <3>2, ComponentsWithin
  <2>9. NotCrowded(space) =>
          /\ groups \subseteq Components(similar)
          /\ Cardinality(groups) = Min({MaxGroups, Cardinality(Components(similar))})
          /\ \A g \in groups, c \in Components(similar) \ groups :
               Cardinality(g) >= Cardinality(c)
    <3>. SUFFICES ASSUME NotCrowded(space)
                  PROVE
          /\ groups \subseteq Components(similar)
          /\ Cardinality(groups) = Min({MaxGroups, Cardinality(Components(similar))})
          /\ \A g \in groups, c \in Components(similar) \ groups :
               Cardinality(g) >= Cardinality(c)
      OBVIOUS
    <3>1. groups = BuildDuplicateGroups(similar, MaxGroups)
      BY <2>5, <2>6
    <3>. QED  BY <2>1, <2>5, <2>7, <3>1, LargestGroups
  <2>. QED  BY <2>8, <2>9 DEF groups, similar, space
<1>2. ReportsInit => QuietInv
  BY DEF ReportsInit, QuietInv
<1>. QED
  BY <1>1, <1>2, InitReportsInv, NextReportsInv, NextQuietInv, PTL DEF ReportsSpec

===============================================================================
