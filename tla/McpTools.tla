------------------------------- MODULE McpTools -------------------------------
(***************************************************************************)
(* The tools of internal/mcp.  Each call decodes its arguments, opens the  *)
(* workspace, does one thing and closes it again, one call at a time.      *)
(***************************************************************************)
EXTENDS Programs

spaceInitTool == {InitSpace(s) : s \in Spaces}

memoryLintRememberTool ==
  {EnsureEmbedderForSpace(s) \o Search(<<s>>) : s \in Spaces}

\* Lints what it then remembers, with the file locked throughout.  A bad
\* forget_after is found after the embedder is registered.
memoryRememberTool ==
  UNION {{EnsureEmbedderForSpace(s) \o Refused,
          EnsureEmbedderForSpace(s) \o Search(<<s>>) \o Remember(<<s>>)} :
         s \in Spaces}

memoryForgetTool == {Forget}

memoryRecallTool ==
  {EnsureEmbeddersForSpaces(list) \o Search(list) : list \in SpaceLists}

memoryProfileTool ==
  {EnsureEmbeddersForSpaces(list) \o Profile(list) : list \in SpaceLists}

memoryProfileCompactTool ==
  {EnsureEmbeddersForSpaces(list) \o Profile(list) : list \in SpaceLists}

memorySynthesisCandidatesTool ==
  {EnsureEmbedderForSpace(s) \o Report(s) : s \in Spaces}

memoryPromotionSuggestionsTool ==
  {EnsureEmbedderForSpace(s) \o Report(s) : s \in Spaces}

memoryLineageTool       == {Read}
memoryRelatedTool       == {Read}
memoryExportSummaryTool == {Read}

McpPrograms ==
  UNION {spaceInitTool, memoryLintRememberTool, memoryRememberTool,
         memoryForgetTool, memoryRecallTool, memoryProfileTool,
         memoryProfileCompactTool, memorySynthesisCandidatesTool,
         memoryPromotionSuggestionsTool, memoryLineageTool, memoryRelatedTool,
         memoryExportSummaryTool}

==============================================================================
