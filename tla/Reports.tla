-------------------------------- MODULE Reports --------------------------------
(***************************************************************************)
(* Reports that read the store in several read transactions while others   *)
(* write to it: the duplicate cleanup plan, the curation reports (synthesis *)
(* candidates and promotion suggestions) and the profile of a space.       *)
(*                                                                         *)
(* report is the reader: what it has read so far.  A cleanup plan waits in *)
(* plans until somebody applies it with one ForgetBatch, perhaps after     *)
(* another plan was made and applied.                                      *)
(***************************************************************************)
EXTENDS Curation

CONSTANTS
  MaxPlans,      \* plans that wait at the same time
  MaxMeanwhile   \* by report: commits that may come while it is made

ASSUME ReportAssumption ==
  /\ MaxPlans \in Nat
  /\ MaxMeanwhile \in [{"plan", "curation", "profile"} -> Nat]

VARIABLES
  report,  \* the report being made, Nil when none is
  plans,   \* cleanup plans not applied yet
  keepers  \* by id: what the plan that forgot it kept instead

reportVars == <<attrs, expired, report, plans, keepers>>
allVars == <<vars, indexVars, reportVars>>

LiveNow(space) == LiveIn(db, space) \ expired

\* options: those of the request that are set; known, listed: the two listings;
\* todo: listed memories still to look up; live, meanwhile: what was live at the
\* first listing and not excluded, and the commits since, neither of which the
\* code records.
NewReport(op, options, space, known) ==
  [op |-> op, options |-> options, space |-> space, pc |-> "second",
   known |-> known, listed |-> {}, todo |-> {}, pairs |-> {},
   live |-> {id \in LiveNow(space) :
               ~("excludeOrphanedDerives" \in options /\ LostSource(id))},
   meanwhile |-> 0]

Configured == {space \in Spaces : db.spacesConfig[space] # Nil}

ReadOnly == UNCHANGED <<vars, indexVars, attrs, expired, plans, keepers>>

\* A reader sees what is committed: while a transaction is half way it would see
\* what it saw before, so it takes its steps when none is.
BeginReport == report = Nil /\ program = "new" /\ Idle /\ ReadOnly

Reads(op, pc) ==
  /\ report # Nil
  /\ Idle
  /\ report.op = op
  /\ report.pc = pc
  /\ ReadOnly

\* A bound: the other reports are made only where no plan has been.
NoPlans == plans = {} /\ \A id \in MemoryIDs : keepers[id] = {}

\* BuildQualityCleanupPlan lists the static memories, to know what a plan may
\* name, and then asks for diagnostics, which list them again.
PlanListing ==
  /\ BeginReport
  /\ \E space \in Configured :
       report' = NewReport("plan", {}, space,
                           ListMemories(space, {"static"}, FALSE))

DiagnosticsListing ==
  /\ Reads("plan", "second")
  /\ LET listed == ListMemories(report.space, {"static"}, FALSE)
     IN  report' = [report EXCEPT !.pc = "lookups", !.listed = listed,
                                  !.todo = listed]

CurationListing ==
  /\ BeginReport
  /\ NoPlans
  /\ \E space \in Configured,
        options \in SUBSET {"includeSuperseded", "includeForgotten"} :
       LET listed == FindCurationMemories(space, "includeSuperseded" \in options,
                                          "includeForgotten" \in options)
       IN  report' = [NewReport("curation", options, space, listed) EXCEPT
                        !.pc = "lookups", !.todo = listed]

LookUpNext(kind, minScore) ==
  LET id == Min(report.todo)
  IN  /\ report.todo # {}
      /\ report' = [report EXCEPT !.todo = @ \ {id},
           !.pairs = @ \cup PairsFrom(report.space, id, kind, minScore)]

\* One read transaction per listed memory, in the order of the list.
DiagnosticsLookup ==
  Reads("plan", "lookups")
    /\ LookUpNext("static", updateSuggestionScoreThreshold)

CurationLookup ==
  Reads("curation", "lookups")
    /\ LookUpNext("episodic", synthesisCandidateScoreThreshold)

Complete == report # Nil /\ report.pc = "lookups" /\ report.todo = {}

\* The plan is handed out: somebody keeps it for later, or nobody does.
PlanDone ==
  /\ Complete
  /\ Idle
  /\ report.op = "plan"
  /\ plans' \in {plans,
                plans \cup ({QualityCleanupPlan(report.known, report.pairs)}
                           \ {{}})}
  /\ Cardinality(plans') <= MaxPlans
  /\ report' = Nil
  /\ UNCHANGED <<vars, indexVars, attrs, expired, keepers>>

CurationDone ==
  /\ Complete
  /\ Reads("curation", "lookups")
  /\ report' = Nil

(***************************************************************************)
(* GetProfile.  The limits, the static and derived layer and the episodic  *)
(* layer are read in this order, in transactions of their own.             *)
(***************************************************************************)
Excludes(options) == "excludeOrphanedDerives" \in options

ProfileStatic_allLayers ==
  /\ BeginReport
  /\ NoPlans
  /\ \E space \in Configured, options \in SUBSET {"excludeOrphanedDerives"} :
       report' = NewReport("profile", options, space,
                   CollectScoredMemories(space, StaticLayer \cup EpisodicLayer,
                                         Excludes(options)))

ProfileStatic ==
  /\ BeginReport
  /\ NoPlans
  /\ \E space \in Configured, options \in SUBSET {"excludeOrphanedDerives"} :
       report' = NewReport("profile", options, space,
                   CollectScoredMemories(space, StaticLayer, Excludes(options)))

ProfileEpisodic ==
  /\ Reads("profile", "second")
  /\ report' = [report EXCEPT !.pc = "both",
       !.listed = CollectScoredMemories(report.space, EpisodicLayer,
                                        Excludes(report.options))]

ProfileDone ==
  /\ Reads("profile", "both")
  /\ report' = Nil

-------------------------------------------------------------------------------
(* The others. *)

\* Ids are handed out in the order of creation.
InOrder == \A id \in Added, m \in MemoryIDs : m < id => m \in Stored(db')

Meanwhile ==
  report' = IF report = Nil \/ db' = db THEN report
            ELSE [report EXCEPT !.meanwhile = @ + 1]

Room == report # Nil => report.meanwhile < MaxMeanwhile[report.op]

StoreStep ==
  /\ IndexNext
  /\ Room \/ db' = db
  /\ InOrder
  /\ Meanwhile
  /\ UNCHANGED <<attrs, expired, plans, keepers>>

\* The ForgetAfter of a memory passes; a revived one has none.
Expire ==
  /\ Room
  /\ \E id \in {m \in Stored(db) \ expired :
                 attrs[m].expires /\ db.memories[m].embedding # Nil} :
       expired' = expired \cup {id}
  /\ report' = IF report = Nil THEN Nil
               ELSE [report EXCEPT !.meanwhile = @ + 1]
  /\ UNCHANGED <<vars, indexVars, attrs, plans, keepers>>

\* The ids are forgotten one after the other; d is the database before.
ForgetAll(d, ids) == FoldSet(LAMBDA id, e : ForgetInTx(e, id), d, ids)

ForgetAllIndex(d, e, ix, ids) ==
  FoldSet(LAMBDA id, before : ForgetIndex(d, e, before, id), ix, ids)

\* omnethdb forget-batch with the ids a plan suggests: one transaction, all or
\* nothing.
ApplyPlan ==
  /\ Room
  /\ Idle
  /\ program = "new"
  /\ \E plan \in plans :
       LET ids == SuggestedForgetBatch(plan)
           forgotten == ForgetAll(db, ids)
       IN  /\ \A id \in ids : ForgetAllowed(db, id)
           /\ db' = forgotten
           /\ index' = [space \in Spaces |->
                ForgetAllIndex(db, forgotten, index[space],
                               ids \cap LiveIn(db, space))]
           /\ touched' = [space \in Spaces |->
                IF index[space].counts = Nil /\ ids \cap LiveIn(db, space) # {}
                THEN "forget" ELSE touched[space]]
           /\ keepers' = [id \in MemoryIDs |->
                {suggestion.keep : suggestion \in
                   {s \in plan : id \in s.forget /\ id \notin db.forgetLog}}
                \cup keepers[id]]
           /\ plans' = plans \ {plan}
  /\ Meanwhile
  /\ UNCHANGED <<tx, program, attrs, expired>>

ReportsInit ==
  /\ IndexInit
  /\ attrs \in Attributes
  /\ expired = {}
  /\ report = Nil
  /\ plans = {}
  /\ keepers = [id \in MemoryIDs |-> {}]

ReportsNext ==
  \/ StoreStep \/ Expire
  \/ PlanListing \/ DiagnosticsListing \/ DiagnosticsLookup \/ PlanDone
  \/ CurationListing \/ CurationLookup \/ CurationDone
  \/ ProfileStatic \/ ProfileEpisodic \/ ProfileDone
  \/ ApplyPlan

ReportsSpec == ReportsInit /\ [][ReportsNext]_allVars

-------------------------------------------------------------------------------
(* Properties. *)

Plan == QualityCleanupPlan(report.known, report.pairs)

PlanComplete == Complete /\ report.op = "plan"
CurationComplete == Complete /\ report.op = "curation"

\* Near duplicates a lookup can see: one of the two has a vector.
TrulySimilar(space, kind, minScore) ==
  {pair \in kSubset(2, {id \in LiveNow(space) : KindOf(id) = kind}) :
     /\ PairScore(pair) >= minScore
     /\ \E id \in pair : db.memories[id].embedding # Nil}

\* No memory has more near duplicates, of any kind, than a lookup returns.
NotCrowded(space) ==
  \A id \in LiveNow(space) :
    Cardinality({c \in LiveNow(space) :
      Score(attrs[id].content, c) >= duplicateScoreThreshold}) <= TopK + 1

\* A cleanup plan names only memories that were all live at one instant, however
\* the store changed between its two listings and its lookups: never two
\* versions of one lineage, nor one that came after the report began.
PlansNameLiveTogether ==
  PlanComplete =>
    \A s \in Plan : {s.keep} \cup s.forget \subseteq report.live

\* With nobody writing meanwhile, the plan takes the largest groups of true near
\* duplicates, whole, and keeps one live memory of each, provided that no text
\* has more near duplicates than a lookup returns: episodic memories count too.
QuietPlansAreExact ==
  PlanComplete /\ report.meanwhile = 0 =>
    LET similar == TrulySimilar(report.space, "static", duplicateScoreThreshold)
        groups  == {{s.keep} \cup s.forget : s \in Plan}
    IN  /\ \A g \in groups : \E c \in Components(similar) : g \subseteq c
        /\ NotCrowded(report.space) =>
             /\ groups \subseteq Components(similar)
             /\ Cardinality(groups) =
                  Min({MaxGroups, Cardinality(Components(similar))})
             /\ \A g \in groups, c \in Components(similar) \ groups :
                  Cardinality(g) >= Cardinality(c)

\* Plans may be made and applied in any order, also long after they were made.
\* No set of memories forgotten by plans rests only on each other: whichever is
\* followed to what was kept for it, and so on, ends at one no plan forgot.
FactsSurvivePlans ==
  \A swept \in SUBSET {id \in MemoryIDs : keepers[id] # {}} :
    swept # {} => \E id \in swept : ~(keepers[id] \subseteq swept)

\* An observation supports one suggestion, and no two versions of one lineage
\* support the same one, unless superseded versions were asked for.  Nor, with
\* nobody writing meanwhile, is then anything but a live episodic memory
\* suggested for promotion: asking for forgotten ones, which are no latest
\* versions, adds those that have expired and nothing else.
ObservationsCountOnce ==
  CurationComplete =>
    LET suggested == PromotionSuggestions(report.known, report.pairs)
        found     == SynthesisCandidates(report.known, report.pairs)
    IN  /\ \A s, t \in suggested : s = t \/ s.support \cap t.support = {}
        /\ \A s, t \in found : s = t \/ s.members \cap t.members = {}
        /\ "includeSuperseded" \notin report.options =>
             \A ids \in {s.support : s \in suggested}
                        \cup {s.members : s \in found} :
               \A a, b \in ids : a # b => RootOf(db, a) # RootOf(db, b)
        /\ "includeSuperseded" \notin report.options /\ report.meanwhile = 0 =>
             \A s \in suggested :
               /\ s.memoryID \in LiveIn(db, report.space)
               /\ KindOf(s.memoryID) = "episodic"
               /\ s.memoryID \in expired => "includeForgotten" \in report.options

ProfileRead == report # Nil /\ report.op = "profile" /\ report.pc = "both"

Demoted(root) ==
  \E id \in Stored(db) :
    /\ RootOf(db, id) = root
    /\ KindOf(id) = "episodic"
    /\ db.memories[id].parentID # Nil
    /\ KindOf(db.memories[id].parentID) = "static"

\* The two layers of a profile are read apart.  No lineage is in both, unless a
\* promoted one was revived as what its root was; one that was live at the first
\* reading, and not a derived one left out because it had lost a source, is in
\* neither only if it was promoted, ended or expired meanwhile.
ProfileShowsLineagesOnce ==
  ProfileRead =>
    /\ \A a \in report.known, b \in report.listed :
         RootOf(db, a) = RootOf(db, b) => Demoted(RootOf(db, a))
    /\ \A id \in report.live :
         \/ \E shown \in report.known \cup report.listed :
              RootOf(db, shown) = RootOf(db, id)
         \/ /\ KindOf(id) = "episodic"
            /\ \E later \in Versions(db, RootOf(db, id)) :
                 /\ later >= id
                 /\ \/ KindOf(later) = "static"
                    \/ later \in db.forgetLog \cup expired

\* A static memory of the same text, or of one with an equal vector, is reported
\* as a duplicate, it or a newer one, unless one of another kind with an equal
\* vector is newer than it: the candidates are not restricted to static ones, and
\* only the first counts, which among equals is the newest.
LintSeesDuplicates ==
  \A space \in Configured, content \in Contents :
    LET duplicate == LintRemember(space, content, {}).duplicate
        equals    == {id \in LiveNow(space) : Score(content, id) = 100}
    IN  \A id \in {m \in equals : KindOf(m) = "static"} :
          \E first \in equals :
            /\ first >= id
            /\ first \in duplicate \/ KindOf(first) # "static"

===============================================================================
