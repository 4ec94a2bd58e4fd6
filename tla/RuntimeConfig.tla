---------------------------- MODULE RuntimeConfig ----------------------------
(***************************************************************************)
(* The config.toml of a workspace and how it meets the configuration a     *)
(* space has in the file (internal/runtime): the policy a new space is     *)
(* given, the embedder it is served with, and the comparison behind        *)
(* validate-config, diff-config and apply-config.                          *)
(*                                                                         *)
(* A table [spaces.<id>] is a record of what it sets: an embedder, of      *)
(* which either half may be missing, trust levels and limits as a function *)
(* from the fields it names, and for each writers rule the same.  Weights  *)
(* and half-lives are copied like limits and are left out.                 *)
(***************************************************************************)
EXTENDS MemoryDB

CONSTANT DefaultModel  \* the embedder of a space that declares none

ASSUME ModelsAssumption ==
  /\ Models \subseteq [id: STRING, dims: Nat \ {0}]
  /\ DefaultModel \in Models
  /\ Nil \notin Models

\* Field by field: a number, the levels of single actors or a writers rule.
PolicyValues ==
  Int \cup {NoTrustLevels}
    \cup [DOMAIN ZeroWriters -> BOOLEAN \cup Int \cup SUBSET STRING]

\* The configuration of a space whose policy comes from a config.toml.
ConfiguredSpace ==
  [model: Models, migrating: BOOLEAN, target: Models \cup {Nil},
   writePolicy: [DOMAIN ZeroPolicy -> PolicyValues]]

ASSUME NilConfigAssumption == Nil \notin ConfiguredSpace

Rules == {"episodicWriters", "staticWriters", "derivedWriters",
          "promotePolicy"}

Unset == [field \in {} |-> Nil]

NoSettings ==
  [modelID |-> Nil, dimensions |-> 0, scalars |-> Unset,
   writers |-> [rule \in Rules |-> Unset]]

-------------------------------------------------------------------------------
(* Embedders. *)

\* Both halves are there: only then is the declared embedder used.
DeclaresEmbedder(settings) ==
  settings # Nil /\ settings.modelID # Nil /\ settings.dimensions > 0

DeclaredEmbedder(settings) ==
  [id |-> settings.modelID, dims |-> settings.dimensions]

TrustFields == {"humanTrust", "systemTrust", "defaultAgentTrust"}

LimitFields == {"maxStaticMemories", "maxEpisodicMemories",
                "profileMaxStatic", "profileMaxEpisodic"}

WriterTypes ==
  [allowHuman |-> BOOLEAN, allowSystem |-> BOOLEAN, allowAllAgents |-> BOOLEAN,
   allowedAgentIDs |-> SUBSET STRING, minTrustLevel |-> Int]

\* What a table can hold.
IsSettings(settings) ==
  /\ DeclaresEmbedder(settings) => DeclaredEmbedder(settings) \in Models
  /\ DOMAIN settings.scalars \subseteq TrustFields \cup LimitFields
  /\ \A field \in DOMAIN settings.scalars : settings.scalars[field] \in Int
  /\ \A rule \in Rules :
       /\ DOMAIN settings.writers[rule] \subseteq DOMAIN ZeroWriters
       /\ \A field \in DOMAIN settings.writers[rule] :
            settings.writers[rule][field] \in WriterTypes[field]

EmbedderForBootstrap(settings) ==
  IF DeclaresEmbedder(settings) THEN DeclaredEmbedder(settings)
                                ELSE DefaultModel

\* The one asked for, or the declared one, or the one the space has.
EmbedderForMigration(asked, settings, persisted) ==
  IF asked # Nil THEN asked
  ELSE IF DeclaresEmbedder(settings) THEN DeclaredEmbedder(settings)
  ELSE IF persisted # Nil THEN persisted.model
  ELSE DefaultModel

-------------------------------------------------------------------------------
(* Policies. *)

Overridden(base, override) ==
  [field \in DOMAIN base |->
     IF field \in DOMAIN override THEN override[field] ELSE base[field]]

ApplyRuntimeWriters(base, writers) ==
  Overridden(base, [rule \in Rules |-> Overridden(base[rule], writers[rule])])

\* Every zero field takes its default first, and what the table sets, zeros
\* included, goes on top.
SpaceInit(settings, fallback) ==
  IF settings = Nil THEN fallback
  ELSE LET base == NormalizeSpaceWritePolicy(fallback)
       IN  ApplyRuntimeWriters(Overridden(base, settings.scalars),
                               settings.writers)

ValidPolicy(policy) ==
  /\ \A field \in TrustFields : policy[field] \in 0 .. FullTrust
  /\ \A rule \in Rules : policy[rule].minTrustLevel \in 0 .. FullTrust
  /\ \A field \in LimitFields : policy[field] >= 0

-------------------------------------------------------------------------------
(* Reconciliation. *)

Reconcile_overDrift(settings, persisted) ==
  LET desired == [persisted EXCEPT
                    !.writePolicy = SpaceInit(settings, @),
                    !.model = IF DeclaresEmbedder(settings)
                              THEN DeclaredEmbedder(settings) ELSE @]
  IN  [desired |-> desired,
       changes |-> {f \in {"model", "writePolicy"} : persisted[f] # desired[f]},
       applyable |-> ValidPolicy(desired.writePolicy)]

\* A declared embedder the space does not have, or half of one, can only be
\* reported.
Reconcile(settings, persisted) ==
  LET desired == [persisted EXCEPT
                    !.writePolicy = SpaceInit(settings, @),
                    !.model = IF DeclaresEmbedder(settings)
                              THEN DeclaredEmbedder(settings) ELSE @]
      half    == /\ settings # Nil
                 /\ ~DeclaresEmbedder(settings)
                 /\ settings.modelID # Nil \/ settings.dimensions > 0
  IN  [desired |-> desired,
       changes |-> {f \in {"model", "writePolicy"} : persisted[f] # desired[f]},
       applyable |-> \/ settings = Nil
                     \/ /\ ~half
                        /\ desired.model = persisted.model
                        /\ ValidPolicy(desired.writePolicy)]

==============================================================================
