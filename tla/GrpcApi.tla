------------------------------- MODULE GrpcApi -------------------------------
(***************************************************************************)
(* The methods of internal/grpcapi, one goroutine per request over one     *)
(* open store.  What a request holds is converted without being checked:   *)
(* the store refuses what it does not know.                                *)
(***************************************************************************)
EXTENDS Programs

GrpcHealth           == {Refused}
GrpcGetRuntimeConfig == {Refused}

GrpcInitSpace      == {InitSpace(s) : s \in Spaces}
GrpcGetSpaceConfig == {Read}

GrpcRemember ==
  {EnsureEmbedderForSpace(s) \o Remember(<<s>>) : s \in Spaces}

GrpcRecall ==
  {EnsureEmbeddersForSpaces(list) \o Search(list) : list \in SpaceLists}

GrpcGetProfile ==
  {EnsureEmbeddersForSpaces(list) \o Profile(list) : list \in SpaceLists}

GrpcFindCandidates ==
  {EnsureEmbedderForSpace(s) \o Search(<<s>>) : s \in Spaces}

GrpcSynthesisCandidates ==
  {EnsureEmbedderForSpace(s) \o Report(s) : s \in Spaces}

GrpcPromotionSuggestions ==
  {EnsureEmbedderForSpace(s) \o Report(s) : s \in Spaces}

GrpcForget == {Forget}
GrpcRevive == {Revive}

GrpcGetLineage  == {Read}
GrpcGetRelated  == {Read}
GrpcGetAuditLog == {Read}

GrpcMigrateEmbeddings ==
  {Migrate(s, asked) : s \in Spaces, asked \in Models \cup {Nil}}

GrpcPrograms ==
  UNION {GrpcHealth, GrpcGetRuntimeConfig, GrpcInitSpace, GrpcGetSpaceConfig,
         GrpcRemember, GrpcRecall, GrpcGetProfile, GrpcFindCandidates,
         GrpcSynthesisCandidates, GrpcPromotionSuggestions, GrpcForget,
         GrpcRevive, GrpcGetLineage, GrpcGetRelated, GrpcGetAuditLog,
         GrpcMigrateEmbeddings}

==============================================================================
