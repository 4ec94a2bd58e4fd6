------------------------------- MODULE Curation -------------------------------
(***************************************************************************)
(* Candidates, lint, and the reports that look for near duplicates         *)
(* (candidates.go, lint.go, quality.go of internal/store/bolt).            *)
(*                                                                         *)
(* Ids are handed out in the order of creation, so a larger id is a newer  *)
(* memory and two memories are never of the same instant.  What a caller   *)
(* wrote into a memory never changes and is kept apart, in attrs.  A score *)
(* is a number of hundredths, and scores of two contents are what          *)
(* Similarity says; the vector of a memory is the one of its content, but  *)
(* a revived memory has none and scores zero.                              *)
(***************************************************************************)
EXTENDS SpaceIndex, FiniteSetsExt

CONSTANTS
  Contents,    \* texts, told apart by what they are similar to
  Similarity,  \* by pair of texts: the cosine of their vectors
  Noisy,       \* texts that read as a blob, a contradiction or chatter
  Attributes,  \* the attributes memories may have, as functions on the ids
  TopK,        \* candidates asked for per memory, besides itself
  MaxGroups,   \* duplicate groups, candidates and suggestions reported
  MinObservations, MinActors, MinWindows

ASSUME SimilarityAssumption ==
  /\ Similarity \in [Contents \X Contents -> 0 .. 100]
  /\ \A a, b \in Contents : Similarity[<<a, b>>] = Similarity[<<b, a>>]
  /\ \A a \in Contents : Similarity[<<a, a>>] = 100

ASSUME LimitsAssumption ==
  {TopK, MaxGroups, MinObservations, MinActors, MinWindows} \subseteq Nat

\* A confidence is a float in the code and is only compared.
ASSUME AttributesAssumption ==
  \A given \in Attributes, id \in MemoryIDs :
    /\ given[id].content \in Contents
    /\ given[id].confidence \in Int

VARIABLES
  attrs,    \* by id: content, confidence, actor, day and whether it expires
  expired   \* the memories whose ForgetAfter has passed

duplicateScoreThreshold == 97
updateSuggestionScoreThreshold == 82
synthesisCandidateScoreThreshold == 90

-------------------------------------------------------------------------------
(* Listings and candidates: one read transaction each. *)

KindOf(id) == db.memories[id].kind

Score(content, id) ==
  IF db.memories[id].embedding = Nil THEN 0
  ELSE Similarity[<<content, attrs[id].content>>]

LostSource(id) == KindOf(id) = "derived" /\ db.memories[id].hasOrphanedSources

IsRecallEligible(id, kinds, excludeOrphanedDerives) ==
  /\ db.memories[id].isLatest
  /\ ~db.memories[id].isForgotten
  /\ id \notin expired
  /\ KindOf(id) \in kinds
  /\ ~(excludeOrphanedDerives /\ LostSource(id))

\* Listed in order of creation.
ListMemories(space, kinds, excludeOrphanedDerives) ==
  {id \in LoadSpaceMemoryIDs(index[space]) :
     IsRecallEligible(id, kinds, excludeOrphanedDerives)}

IsCandidateEligible(id, includeSuperseded, includeForgotten) ==
  /\ includeSuperseded \/ db.memories[id].isLatest
  /\ includeForgotten \/ ~db.memories[id].isForgotten
  /\ includeForgotten \/ id \notin expired

\* What is left of a list that is sorted and cut after n: the order on it is
\* strict and total.
Leading(S, Before(_, _), n) ==
  {x \in S : Cardinality({y \in S : Before(y, x)}) < n}

Best_olderFirst(content, ids, k) ==
  LET Before(a, b) == \/ Score(content, a) > Score(content, b)
                      \/ Score(content, a) = Score(content, b) /\ a < b
  IN  Leading(ids, Before, k)

\* The k that score highest, the newer one first among equals: memories of all
\* kinds compete.
Best(content, ids, k) ==
  LET Before(a, b) == \/ Score(content, a) > Score(content, b)
                      \/ Score(content, a) = Score(content, b) /\ a > b
  IN  Leading(ids, Before, k)

StoredIn(space) == {id \in Stored(db) : db.memories[id].spaceID = space}

FindCandidates(space, content, k) ==
  Best(content,
       {id \in StoredIn(space) : IsCandidateEligible(id, FALSE, FALSE)}, k)

-------------------------------------------------------------------------------
(* Lint of a static memory about to be remembered, of this content.        *)

\* The warnings look at the first candidate only, and only if it is static.
TopCandidate(space, content) ==
  {id \in FindCandidates(space, content, 1) : KindOf(id) = "static"}

\* A score short of one asks for the same text.
DetectPossibleDuplicate(space, content) ==
  {id \in TopCandidate(space, content) :
     /\ Score(content, id) >= duplicateScoreThreshold
     /\ Score(content, id) = 100 \/ attrs[id].content = content}

DetectPossibleUpdateTarget(space, content) ==
  {id \in TopCandidate(space, content) :
     /\ Score(content, id) >= updateSuggestionScoreThreshold
     /\ Score(content, id) < duplicateScoreThreshold}

\* updates is what the caller means to supersede already.  Each warning comes
\* with one suggestion, to skip the duplicate or to update the target.
LintRemember(space, content, updates) ==
  [duplicate |-> DetectPossibleDuplicate(space, content),
   updateTarget |-> IF updates # {} THEN {}
                    ELSE DetectPossibleUpdateTarget(space, content),
   mixedFactBlob |-> content \in Noisy]

-------------------------------------------------------------------------------
(* Pairs and groups. A pair is a set of two ids, and scores what its texts do. *)

PairsFrom_countsItself(space, id, kind, minScore) ==
  {{id, c} : c \in {c \in FindCandidates(space, attrs[id].content, TopK) :
                      /\ c # id
                      /\ KindOf(c) = kind
                      /\ Score(attrs[id].content, c) >= minScore}}

\* What the lookup of one listed memory adds: candidates of the kind but itself.
PairsFrom(space, id, kind, minScore) ==
  {{id, c} : c \in {c \in FindCandidates(space, attrs[id].content, TopK + 1) :
                      /\ c # id
                      /\ KindOf(c) = kind
                      /\ Score(attrs[id].content, c) >= minScore}}

PairScore(pair) ==
  Similarity[<<attrs[Min(pair)].content, attrs[Max(pair)].content>>]

DuplicatePairs(pairs) ==
  {pair \in pairs : PairScore(pair) >= duplicateScoreThreshold}

\* The ids a chain of pairs connects with id.
Component(pairs, id) ==
  LET nodes == UNION pairs
      reach[n \in 0 .. Cardinality(nodes)] ==
        IF n = 0 THEN {id}
        ELSE reach[n - 1]
               \cup UNION {pair \in pairs : pair \cap reach[n - 1] # {}}
  IN  reach[Cardinality(nodes)]

Components(pairs) == {Component(pairs, id) : id \in UNION pairs}

PairsWithin(pairs, ids) == {pair \in pairs : pair \subseteq ids}

TopScore(pairs, ids) == Max({PairScore(pair) : pair \in PairsWithin(pairs, ids)})

\* Larger groups first, then those with the closer pair, then the older id.
BuildDuplicateGroups(pairs, maxGroups) ==
  LET Before(g, h) ==
        \/ Cardinality(g) > Cardinality(h)
        \/ /\ Cardinality(g) = Cardinality(h)
           /\ \/ TopScore(pairs, g) > TopScore(pairs, h)
              \/ TopScore(pairs, g) = TopScore(pairs, h) /\ Min(g) < Min(h)
  IN  Leading(Components(pairs), Before, maxGroups)

-------------------------------------------------------------------------------
(* The cleanup plan. *)

Outranks(a, b) ==
  \/ attrs[a].confidence > attrs[b].confidence
  \/ attrs[a].confidence = attrs[b].confidence /\ a > b

BestOf(ids) == CHOOSE a \in ids : \A b \in ids \ {a} : Outranks(a, b)

\* known is what the plan itself listed, before the report listed again.
SelectCleanupTargets_anyListing(ids, known) ==
  IF Cardinality(ids) < 2 THEN {}
  ELSE {[keep |-> BestOf(ids), forget |-> ids \ {BestOf(ids)}]}

SelectCleanupTargets_forgetsKept(ids, known) ==
  LET items == ids \cap known
  IN  IF Cardinality(items) < 2 THEN {}
      ELSE {[keep |-> BestOf(items), forget |-> items]}

SelectCleanupTargets(ids, known) ==
  LET items == ids \cap known
  IN  IF Cardinality(items) < 2 THEN {}
      ELSE {[keep |-> BestOf(items), forget |-> items \ {BestOf(items)}]}

QualityCleanupPlan(known, pairs) ==
  UNION {SelectCleanupTargets(group, known) :
           group \in BuildDuplicateGroups(DuplicatePairs(pairs), MaxGroups)}

SuggestedForgetBatch(plan) == UNION {suggestion.forget : suggestion \in plan}

-------------------------------------------------------------------------------
(* Synthesis candidates and promotion suggestions. *)

\* The memories a curation report starts from.  With either option they are read
\* from the memories bucket.
FindCurationMemories(space, includeSuperseded, includeForgotten) ==
  IF ~includeSuperseded /\ ~includeForgotten
  THEN ListMemories(space, {"episodic"}, FALSE)
  ELSE {id \in StoredIn(space) :
          /\ KindOf(id) = "episodic"
          /\ IsCandidateEligible(id, includeSuperseded, includeForgotten)}

BuildSimilarityGroups_anyMemory(memories, pairs, minSize) ==
  {ids \in Components(pairs) : Cardinality(ids) >= minSize}

\* Only pairs of memories that were listed connect.
BuildSimilarityGroups(memories, pairs, minSize) ==
  {ids \in Components({pair \in pairs : pair \subseteq memories}) :
     Cardinality(ids) >= minSize}

\* Hundredths of the mean score of the pairs times the number of memories.
CumulativeScore(pairs, ids) ==
  (Cardinality(ids)
     * MapThenSumSet(PairScore, PairsWithin(pairs, ids)))
  \div Cardinality(PairsWithin(pairs, ids))

GroupBefore(pairs, g, h) ==
  \/ CumulativeScore(pairs, g) > CumulativeScore(pairs, h)
  \/ CumulativeScore(pairs, g) = CumulativeScore(pairs, h) /\ Min(g) < Min(h)

IsNoisy(ids) == \E id \in ids : attrs[id].content \in Noisy

ActorsIn(ids) == {attrs[id].actor : id \in ids}
WindowsIn(ids) == {attrs[id].day : id \in ids}

SynthesisCandidates(memories, pairs) ==
  LET Before(g, h) == GroupBefore(pairs, g, h)
      similar == BuildSimilarityGroups(memories, pairs, 2)
  IN  {[members |-> group,
        action |-> IF IsNoisy(group) THEN "review_only"
                                     ELSE "review_for_derived"]
       : group \in Leading(similar, Before, MaxGroups)}

\* Hundredths: how many different texts support the claim, times how far apart.
ChurnRisk(pairs, ids) ==
  ((Cardinality({attrs[id].content : id \in ids}) - 1)
     * (100 - CumulativeScore(pairs, ids) \div Cardinality(ids)))
  \div Cardinality(ids)

Supported(pairs, ids) ==
  /\ Cardinality(ActorsIn(ids)) >= MinActors
  /\ Cardinality(WindowsIn(ids)) >= MinWindows
  /\ CumulativeScore(pairs, ids)
       >= MinObservations * synthesisCandidateScoreThreshold

PromotionAction(pairs, ids) ==
  IF \/ IsNoisy(ids)
     \/ ChurnRisk(pairs, ids) > 35
     \/ Cardinality(ActorsIn(ids)) < 2 /\ Cardinality(WindowsIn(ids)) < 2
  THEN "review_only" ELSE "review_for_promotion"

\* One suggestion per group: its best memory.  Stronger claims come first, then
\* those seen last.
PromotionSuggestions(memories, pairs) ==
  LET Before(g, h) ==
        \/ CumulativeScore(pairs, g) > CumulativeScore(pairs, h)
        \/ /\ CumulativeScore(pairs, g) = CumulativeScore(pairs, h)
           /\ Max(g) > Max(h)
      claims == {g \in BuildSimilarityGroups(memories, pairs, MinObservations) :
                   Supported(pairs, g)}
  IN  {[memoryID |-> BestOf(claim), support |-> claim,
        action |-> PromotionAction(pairs, claim)]
       : claim \in Leading(claims, Before, MaxGroups)}

-------------------------------------------------------------------------------
(* The profile. *)

\* What a Recall restricted to these kinds collects, in one read transaction.
CollectScoredMemories(space, kinds, excludeOrphanedDerives) ==
  ListMemories(space, kinds, excludeOrphanedDerives)

===============================================================================
