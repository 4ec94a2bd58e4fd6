----------------------------- MODULE SpacePolicy -----------------------------
(***************************************************************************)
(* The write policy of a space (internal/policy/policy.go): who may write  *)
(* which kind of memory, who may promote an episodic memory to a static    *)
(* one, and how the zero values of a configured policy are filled in.      *)
(*                                                                         *)
(* A trust level is a float in [0, 1] in the code and is only compared, so *)
(* it is a number of tenths here.  A policy, a writers rule and an actor   *)
(* are records with the fields of the Go structs.                          *)
(***************************************************************************)
EXTENDS Integers

Kinds == {"episodic", "static", "derived"}

ActorKinds == {"human", "agent", "system"}

FullTrust == 10

\* No rule given: the zero WritersPolicy, which allows nobody.
ZeroWriters ==
  [allowHuman |-> FALSE, allowSystem |-> FALSE, allowAllAgents |-> FALSE,
   allowedAgentIDs |-> {}, minTrustLevel |-> 0]

NoTrustLevels == [id \in {} |-> 0]

ZeroPolicy ==
  [humanTrust |-> 0, systemTrust |-> 0, defaultAgentTrust |-> 0,
   trustLevels |-> NoTrustLevels,
   episodicWriters |-> ZeroWriters, staticWriters |-> ZeroWriters,
   derivedWriters |-> ZeroWriters, promotePolicy |-> ZeroWriters,
   maxStaticMemories |-> 0, maxEpisodicMemories |-> 0,
   profileMaxStatic |-> 0, profileMaxEpisodic |-> 0]

DefaultSpaceWritePolicy ==
  [humanTrust |-> FullTrust, systemTrust |-> FullTrust,
   defaultAgentTrust |-> 7, trustLevels |-> NoTrustLevels,
   episodicWriters |-> [ZeroWriters EXCEPT !.allowHuman = TRUE,
                          !.allowSystem = TRUE, !.allowAllAgents = TRUE],
   staticWriters   |-> [ZeroWriters EXCEPT !.allowHuman = TRUE,
                          !.allowSystem = TRUE],
   derivedWriters  |-> [ZeroWriters EXCEPT !.allowHuman = TRUE,
                          !.allowAllAgents = TRUE],
   promotePolicy   |-> [ZeroWriters EXCEPT !.allowHuman = TRUE],
   maxStaticMemories |-> 500, maxEpisodicMemories |-> 10000,
   profileMaxStatic |-> 50, profileMaxEpisodic |-> 10]

\* Every field that holds its zero value takes the default one.
NormalizeSpaceWritePolicy(policy) ==
  [field \in DOMAIN ZeroPolicy |->
     IF policy[field] = ZeroPolicy[field]
     THEN DefaultSpaceWritePolicy[field] ELSE policy[field]]

KindTrust_agentAsSystem(policy, actorKind) ==
  IF actorKind = "human" THEN policy.humanTrust ELSE policy.systemTrust

(***************************************************************************)
(* The trust of an actor: its own level if the policy names it, the level  *)
(* of its kind otherwise.  The policy is normalised first, so a level of   *)
(* zero configured for a kind reads as the default level.                  *)
(***************************************************************************)
KindTrust(policy, actorKind) ==
  CASE actorKind = "human"  -> policy.humanTrust
    [] actorKind = "system" -> policy.systemTrust
    [] actorKind = "agent"  -> policy.defaultAgentTrust

ResolveActorTrust(policy, actor) ==
  LET normalized == NormalizeSpaceWritePolicy(policy)
  IN  IF actor.id \in DOMAIN policy.trustLevels
      THEN policy.trustLevels[actor.id]
      ELSE KindTrust(normalized, actor.kind)

IsActorAllowed(writers, policy, actor) ==
  /\ ResolveActorTrust(policy, actor) >= writers.minTrustLevel
  /\ \/ actor.id \in writers.allowedAgentIDs
     \/ actor.kind = "human"  /\ writers.allowHuman
     \/ actor.kind = "system" /\ writers.allowSystem
     \/ actor.kind = "agent"  /\ writers.allowAllAgents

WritersOf(policy, kind) ==
  CASE kind = "episodic" -> policy.episodicWriters
    [] kind = "static"   -> policy.staticWriters
    [] kind = "derived"  -> policy.derivedWriters

CanWriteKind(policy, actor, kind) ==
  IsActorAllowed(WritersOf(policy, kind), policy, actor)

CanPromote(policy, actor) ==
  IsActorAllowed(policy.promotePolicy, policy, actor)

==============================================================================
