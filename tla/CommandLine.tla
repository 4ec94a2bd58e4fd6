----------------------------- MODULE CommandLine -----------------------------
(***************************************************************************)
(* The commands of cmd/omnethdb that open the workspace, do one thing and  *)
(* exit.  Their flags are looked at before the file is opened, except for  *)
(* a time that does not parse.                                             *)
(***************************************************************************)
EXTENDS Programs

runInit == {InitSpace(s) : s \in Spaces}

\* A bad --forget-after is found after the embedder is registered.
runRemember ==
  UNION {{EnsureEmbedderForSpace(s) \o Refused,
          EnsureEmbedderForSpace(s) \o Remember(<<s>>)} : s \in Spaces}

runLintRemember ==
  {EnsureEmbedderForSpace(s) \o Search(<<s>>) : s \in Spaces}

runRecall ==
  {EnsureEmbeddersForSpaces(list) \o Search(list) : list \in SpaceLists}

runProfile ==
  {EnsureEmbeddersForSpaces(list) \o Profile(list) : list \in SpaceLists}

\* Writes that embed nothing register nothing.
runForget      == {Forget}
runForgetBatch == {Forget}
runRevive      == {Revive}

runLineage == {Read}
runRelated == {Read}

runCandidates ==
  {EnsureEmbedderForSpace(s) \o Search(<<s>>) : s \in Spaces}

runQuality     == {EnsureEmbedderForSpace(s) \o Report(s) : s \in Spaces}
runQualityPlan == {EnsureEmbedderForSpace(s) \o Plan(s) : s \in Spaces}

runSynthesisCandidates ==
  {EnsureEmbedderForSpace(s) \o Report(s) : s \in Spaces}

runPromotionSuggestions ==
  {EnsureEmbedderForSpace(s) \o Report(s) : s \in Spaces}

\* The diagnostics first and the plan after them.
runQualityReport ==
  {EnsureEmbedderForSpace(s) \o Report(s) \o Plan(s) : s \in Spaces}

\* A bad --since is found once the file is open.
runAudit == {Refused, Read}

\* An embedder is asked for with both flags or not at all.
runMigrate == {Migrate(s, asked) : s \in Spaces, asked \in Models \cup {Nil}}

\* An unknown --format is found once the file is open.
runExport == {Refused, Read}

runSpace               == {Read}
runSpaceValidateConfig == {Read}
runSpaceDiffConfig     == {Read}
runSpaceApplyConfig    == {ApplyConfig(s) : s \in Spaces}

\* The configuration is printed as it was loaded.
runConfig == {Refused}

CommandLinePrograms ==
  UNION {runInit, runRemember, runLintRemember, runRecall, runProfile,
         runForget, runForgetBatch, runRevive, runLineage, runRelated,
         runCandidates, runQuality, runQualityPlan, runSynthesisCandidates,
         runPromotionSuggestions, runQualityReport, runAudit, runMigrate,
         runExport, runSpace, runSpaceValidateConfig, runSpaceDiffConfig,
         runSpaceApplyConfig, runConfig}

==============================================================================
