------------------------------- MODULE HttpApi -------------------------------
(***************************************************************************)
(* The handlers of internal/httpapi, one goroutine per request over one    *)
(* open store.  A wrong method, a body that does not decode and a missing  *)
(* space_id are refused first; a query parameter that does not parse is    *)
(* refused after the embedder of the space was registered.                 *)
(***************************************************************************)
EXTENDS Programs

handleHealth    == {Refused}
handleInspector == {Refused}
handleConfig    == {Refused}

handleRemember ==
  {Refused} \cup {EnsureEmbedderForSpace(s) \o Remember(<<s>>) : s \in Spaces}

\* Each space of the batch once, in the order of its first input.
handleRememberBatch ==
  {Refused} \cup {EnsureEmbeddersForSpaces(list) \o Remember(list) :
                    list \in WithoutRepeats}

handleRecall ==
  {Refused} \cup {EnsureEmbeddersForSpaces(list) \o Search(list) :
                    list \in SpaceLists}

handleListMemories == {Refused, Read}

handleProfile ==
  {Refused} \cup {EnsureEmbeddersForSpaces(list) \o Profile(list) :
                    list \in SpaceLists}

handleCandidates ==
  {Refused} \cup {EnsureEmbedderForSpace(s) \o Search(<<s>>) : s \in Spaces}

\* What a report handler does with a parameter that does not parse.
BadQuery == {Refused} \cup {EnsureEmbedderForSpace(s) : s \in Spaces}

handleQualityDiagnostics ==
  BadQuery \cup {EnsureEmbedderForSpace(s) \o Report(s) : s \in Spaces}

handleQualityCleanupPlan ==
  BadQuery \cup {EnsureEmbedderForSpace(s) \o Plan(s) : s \in Spaces}

handleSynthesisCandidates ==
  BadQuery \cup {EnsureEmbedderForSpace(s) \o Report(s) : s \in Spaces}

handlePromotionSuggestions ==
  BadQuery \cup {EnsureEmbedderForSpace(s) \o Report(s) : s \in Spaces}

handleForgetBatch == {Refused, Forget}

handleAudit      == {Refused, Read}
handleExport     == {Refused, Read}
handleExportDiff == {Refused, Read}

\* Two snapshot files are compared; the store is not asked.
handleExportCompare == {Refused}

\* POST .../forget and GET .../related/...
handleMemoryAction == {Refused, Forget, Read}

\* GET the lineage and POST .../revive.
handleLineageAction == {Refused, Read, Revive}

handleSpaceInit   == {Refused} \cup {InitSpace(s) : s \in Spaces}
handleSpaceConfig == {Refused, Read}

handleSpaceMigrate ==
  {Refused} \cup {Migrate(s, asked) : s \in Spaces, asked \in Models \cup {Nil}}

HttpPrograms ==
  UNION {handleHealth, handleInspector, handleConfig, handleRemember,
         handleRememberBatch, handleRecall, handleListMemories, handleProfile,
         handleCandidates, handleQualityDiagnostics, handleQualityCleanupPlan,
         handleSynthesisCandidates, handlePromotionSuggestions,
         handleForgetBatch, handleAudit, handleExport, handleExportDiff,
         handleExportCompare, handleMemoryAction, handleLineageAction,
         handleSpaceInit, handleSpaceConfig, handleSpaceMigrate}

==============================================================================
