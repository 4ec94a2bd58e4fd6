------------------------------ MODULE Workspace ------------------------------
(***************************************************************************)
(* A workspace and the processes that use it: one file that a process      *)
(* locks while it has it open, a config.toml that it loads when it opens   *)
(* the file, and the map from model ids to embedders that it keeps in      *)
(* memory.  A command runs one program and exits; an HTTP or a gRPC server *)
(* keeps the file open and runs the programs of its requests in goroutines *)
(* that share the map.                                                     *)
(*                                                                         *)
(* An embedding model is its id and its dimension, but the map has one     *)
(* embedder for each id.  A memory is an episodic one with no relation.    *)
(***************************************************************************)
EXTENDS CommandLine, HttpApi, GrpcApi, McpTools, SequencesExt

CONSTANTS
  Threads,      \* the goroutines of a process
  ConfigFiles,  \* what config.toml may hold when a process opens the file
  Apis,         \* the interfaces in use
  MaxOpens,     \* processes that open the file, one after the other
  MaxRequests   \* requests that a server takes

ASSUME ApisAssumption == Apis \subseteq {"cli", "mcp", "http", "grpc"}

ASSUME BoundsAssumption == {MaxOpens, MaxRequests} \subseteq Nat

\* A table for a space, or none.
ASSUME ConfigFilesAssumption ==
  \A config \in ConfigFiles, space \in Spaces :
    config[space] # Nil => IsSettings(config[space])

VARIABLES
  db,        \* the content of the file
  process,   \* the process that holds the lock, Nil when none does
  threads,   \* the program each of its goroutines runs, Nil when it is idle
  opens      \* how often the file was opened

workspaceVars == <<db, process, threads, opens>>

ModelIDs == {m.id : m \in Models}

Programs(api) ==
  CASE api = "cli"  -> CommandLinePrograms
    [] api = "mcp"  -> McpPrograms
    [] api = "http" -> HttpPrograms
    [] api = "grpc" -> GrpcPrograms

IsServer == process # Nil /\ process.api \in {"http", "grpc"}

Settings(space) == process.config[space]

\* A process that has the file open: what it loaded, the embedders it has by
\* their ids and those it ever had, and the requests it will still take.
Process ==
  [api: Apis, config: ConfigFiles, registry: [ModelIDs -> Models \cup {Nil}],
   offered: SUBSET Models, left: Nat]

ASSUME NilProcessAssumption == Nil \notin Process

NoThreads == [t \in Threads |-> Nil]

-------------------------------------------------------------------------------
(* Opening and closing. *)

DeclaredEmbedders(config) ==
  {DeclaredEmbedder(config[s]) : s \in {s \in Spaces : DeclaresEmbedder(config[s])}}

\* Every declared embedder is registered, in the order of a map: of two with
\* one id either may be the last.
RegistriesFor(config) ==
  {registry \in [ModelIDs -> DeclaredEmbedders(config) \cup {Nil}] :
     \A id \in ModelIDs :
       IF registry[id] = Nil
       THEN \A m \in DeclaredEmbedders(config) : m.id # id
       ELSE registry[id].id = id}

Open(api) ==
  /\ process = Nil
  /\ opens < MaxOpens
  /\ \E config \in ConfigFiles :
     \E registry \in RegistriesFor(config) :
       process' = [api |-> api, config |-> config, registry |-> registry,
                   offered |-> DeclaredEmbedders(config), left |-> MaxRequests]
  /\ opens' = opens + 1
  /\ UNCHANGED db

\* A command, or a tool call of the MCP server.
RunCommand ==
  /\ \E api \in Apis \cap {"cli", "mcp"} :
       /\ Open(api)
       /\ \E t \in Threads, program \in Programs(api) :
            threads' = [NoThreads EXCEPT ![t] = [todo |-> program, held |-> Nil]]

Serve ==
  /\ \E api \in Apis \cap {"http", "grpc"} : Open(api)
  /\ UNCHANGED threads

\* The process exits or dies; what it had committed stays.
Close ==
  /\ process # Nil
  /\ process' = Nil
  /\ threads' = NoThreads
  /\ UNCHANGED <<db, opens>>

Accept(t) ==
  /\ IsServer
  /\ process.left > 0
  /\ threads[t] = Nil
  /\ \E program \in Programs(process.api) \ {Refused} :
       threads' = [threads EXCEPT ![t] = [todo |-> program, held |-> Nil]]
  /\ process' = [process EXCEPT !.left = @ - 1]
  /\ UNCHANGED <<db, opens>>

-------------------------------------------------------------------------------
(* The calls of a program. *)

Runs(t, op) ==
  threads[t] # Nil /\ threads[t].todo # <<>> /\ Head(threads[t].todo).op = op

Current(t) == Head(threads[t].todo)

SpaceOf(t) == Current(t).spaces[1]

Holds(t, part) == threads[t].held # Nil /\ part \in DOMAIN threads[t].held

\* The goroutine keeps what it read for its next step.
Hold(t, held) == threads' = [threads EXCEPT ![t].held = held]

\* It goes on with the next call; the process is held to the end.
Advance(t) ==
  threads' = [threads EXCEPT ![t] = [todo |-> Tail(@.todo), held |-> Nil]]

\* A call failed: no later one is made.
Fail(t) == threads' = [threads EXCEPT ![t] = [todo |-> <<>>, held |-> Nil]]

Registered(model) ==
  process' = [process EXCEPT !.registry[model.id] = model,
                             !.offered = @ \cup {model}]

\* The answer was sent: a goroutine is free, a command exits.
Finish(t) ==
  /\ threads[t] # Nil
  /\ threads[t].todo = <<>>
  /\ threads' = [threads EXCEPT ![t] = Nil]
  /\ process' = IF IsServer THEN process ELSE Nil
  /\ UNCHANGED <<db, opens>>

ReadCall(t) ==
  /\ Runs(t, "read")
  /\ Advance(t)
  /\ UNCHANGED <<db, process, opens>>

EnsureDeclared(t) ==
  /\ Runs(t, "ensure")
  /\ DeclaresEmbedder(Settings(SpaceOf(t)))
  /\ Registered(DeclaredEmbedder(Settings(SpaceOf(t))))
  /\ Advance(t)
  /\ UNCHANGED <<db, opens>>

\* A space that does not exist is passed over; its absence shows later.
EnsureRead(t) ==
  /\ Runs(t, "ensure")
  /\ ~DeclaresEmbedder(Settings(SpaceOf(t)))
  /\ ~Holds(t, "found")
  /\ IF db.spacesConfig[SpaceOf(t)] = Nil THEN Advance(t)
     ELSE Hold(t, [found |-> db.spacesConfig[SpaceOf(t)].model])
  /\ UNCHANGED <<db, process, opens>>

RegisterFound_unlessKnown(t) ==
  /\ Runs(t, "ensure")
  /\ Holds(t, "found")
  /\ IF process.registry[threads[t].held.found.id] = Nil
     THEN Registered(threads[t].held.found) ELSE UNCHANGED process
  /\ Advance(t)
  /\ UNCHANGED <<db, opens>>

\* Replaces the embedder with that id, whatever its dimension.
RegisterFound(t) ==
  /\ Runs(t, "ensure")
  /\ Holds(t, "found")
  /\ Registered(threads[t].held.found)
  /\ Advance(t)
  /\ UNCHANGED <<db, opens>>

\* The configurations of the spaces, in a read transaction of its own.  A
\* write also looks at the migration flag.
ReadConfigs(t) ==
  /\ Runs(t, "search") \/ Runs(t, "remember")
  /\ threads[t].held = Nil
  /\ LET spaces == ToSet(Current(t).spaces)
     IN  IF \E s \in spaces : \/ db.spacesConfig[s] = Nil
                              \/ Runs(t, "remember") /\ ~SpaceWritable(db, s)
         THEN Fail(t)
         ELSE Hold(t, [models |->
                         [s \in spaces |-> db.spacesConfig[s].model]])
  /\ UNCHANGED <<db, process, opens>>

Unavailable(t) ==
  \E s \in DOMAIN threads[t].held.models :
    process.registry[threads[t].held.models[s].id] = Nil

\* The embedder is looked up by the id of the model alone.
Embed(t) ==
  /\ Runs(t, "search") \/ Runs(t, "remember")
  /\ Holds(t, "models")
  /\ ~Holds(t, "vectors")
  /\ IF Unavailable(t) THEN Fail(t)
     ELSE Hold(t, [models |-> threads[t].held.models,
                   vectors |-> [s \in DOMAIN threads[t].held.models |->
                      process.registry[threads[t].held.models[s].id]]])
  /\ UNCHANGED <<db, process, opens>>

\* The vectors of the query are compared with those of the spaces.
CompareVectors(t) ==
  /\ Runs(t, "search")
  /\ Holds(t, "vectors")
  /\ Advance(t)
  /\ UNCHANGED <<db, process, opens>>

Observation(space, actor) ==
  [spaceID |-> space, kind |-> "episodic", actor |-> actor, updates |-> Nil,
   ifLatestID |-> Nil, extends |-> {}, derives |-> {}, sourceIDs |-> {}]

FreeID(content) == CHOOSE id \in MemoryIDs \ Stored(content) :
                     \A other \in MemoryIDs \ Stored(content) : id <= other

\* The inputs of a batch are written one after the other.
RememberInputs(content, spaces, actor, vectors) ==
  FoldLeft(LAMBDA c, s :
             RememberPreparedInTx(c, Observation(s, actor), FreeID(c), vectors[s]),
           content, spaces)

\* One transaction for all inputs of a batch.
RememberCall(t) ==
  /\ Runs(t, "remember")
  /\ Holds(t, "vectors")
  /\ Len(Current(t).spaces) <= Cardinality(MemoryIDs \ Stored(db))
  /\ \E actor \in Actors :
       IF \A s \in ToSet(Current(t).spaces) :
            RememberAllowed(db, Observation(s, actor))
       THEN /\ db' = RememberInputs(db, Current(t).spaces, actor,
                                   threads[t].held.vectors)
            /\ Advance(t)
       ELSE Fail(t) /\ UNCHANGED db
  /\ UNCHANGED <<process, opens>>

ForgetCall(t) ==
  /\ Runs(t, "forget")
  /\ \E id \in MemoryIDs :
       IF ForgetAllowed(db, id) THEN db' = ForgetInTx(db, id) /\ Advance(t)
                                ELSE Fail(t) /\ UNCHANGED db
  /\ UNCHANGED <<process, opens>>

ReviveCall(t) ==
  /\ Runs(t, "revive")
  /\ \E root \in MemoryIDs, actor \in Actors :
       IF ReviveAllowed(db, root, actor, "episodic")
       THEN /\ MemoryIDs # Stored(db)
            /\ \E last \in ForgottenVersions(db, root) :
                 /\ Successors(db, last) = {}
                 /\ db' = ReviveLineage(db, root, last, "episodic", FreeID(db))
            /\ Advance(t)
       ELSE Fail(t) /\ UNCHANGED db
  /\ UNCHANGED <<process, opens>>

InitRegister_unregistered(t) ==
  /\ Runs(t, "init")
  /\ threads[t].held = Nil
  /\ IF ValidPolicy(SpaceInit(Settings(SpaceOf(t)), DefaultSpaceWritePolicy))
     THEN Hold(t, [registered |-> EmbedderForBootstrap(Settings(SpaceOf(t)))])
     ELSE Fail(t)
  /\ UNCHANGED <<db, process, opens>>

\* Registers its embedder before it looks at the space, and keeps it when the
\* space has another model.
InitRegister(t) ==
  /\ Runs(t, "init")
  /\ threads[t].held = Nil
  /\ LET embedder == EmbedderForBootstrap(Settings(SpaceOf(t)))
     IN  /\ Registered(embedder)
         /\ IF ValidPolicy(SpaceInit(Settings(SpaceOf(t)),
                                     DefaultSpaceWritePolicy))
            THEN Hold(t, [registered |-> embedder])
            ELSE Fail(t)
  /\ UNCHANGED <<db, opens>>

\* A space is created, or has the model already.
StartSpace(t, policy) ==
  /\ Runs(t, "init")
  /\ Holds(t, "registered")
  /\ LET space    == SpaceOf(t)
         embedder == threads[t].held.registered
     IN  IF db.spacesConfig[space] # Nil =>
              db.spacesConfig[space].model = embedder
         THEN /\ db' = EnsureSpaceInTx(db, space, embedder, policy)
              /\ Advance(t)
         ELSE Fail(t) /\ UNCHANGED db
  /\ UNCHANGED <<process, opens>>

InitCall_defaultPolicy(t) == StartSpace(t, DefaultSpaceWritePolicy)

InitCall(t) ==
  StartSpace(t, SpaceInit(Settings(SpaceOf(t)), DefaultSpaceWritePolicy))

\* Writes the whole record back: what was read, with the policy of the file.
ApplyCall(t) ==
  /\ Runs(t, "apply")
  /\ LET space     == SpaceOf(t)
         persisted == db.spacesConfig[space]
         reconcile == Reconcile(Settings(space), persisted)
     IN  IF persisted # Nil /\ reconcile.applyable
         THEN /\ db' = UpdateSpaceConfigInTx(db, space, reconcile.desired)
              /\ Advance(t)
         ELSE Fail(t) /\ UNCHANGED db
  /\ UNCHANGED <<process, opens>>

\* The target is asked for, declared, or the model the space has.
MigrateRead(t) ==
  /\ Runs(t, "migrate")
  /\ threads[t].held = Nil
  /\ Hold(t, [chosen |-> EmbedderForMigration(Current(t).model,
                           Settings(SpaceOf(t)), db.spacesConfig[SpaceOf(t)])])
  /\ UNCHANGED <<db, process, opens>>

\* Its embedder is registered, also for a migration that is refused then.
MigrateRegister(t) ==
  /\ Runs(t, "migrate")
  /\ Holds(t, "chosen")
  /\ Registered(threads[t].held.chosen)
  /\ Hold(t, [registered |-> threads[t].held.chosen])
  /\ UNCHANGED <<db, opens>>

MigrateBegin(t) ==
  /\ Runs(t, "migrate")
  /\ Holds(t, "registered")
  /\ LET space    == SpaceOf(t)
         embedder == threads[t].held.registered
     IN  IF BeginMigrationAllowed(db, space, embedder)
         THEN /\ db' = BeginMigrationInTx(db, space, embedder)
              /\ Hold(t, [embedder |-> embedder])
         ELSE Fail(t) /\ UNCHANGED db
  /\ UNCHANGED <<process, opens>>

\* Nothing is left to do when the space has the model, or when another
\* goroutine did it.
MigrateComplete(t) ==
  /\ Runs(t, "migrate")
  /\ Holds(t, "embedder")
  /\ LET space  == SpaceOf(t)
         config == db.spacesConfig[space]
     IN  IF ~config.migrating THEN Advance(t) /\ UNCHANGED db
         ELSE IF config.target # threads[t].held.embedder
         THEN Fail(t) /\ UNCHANGED db
         ELSE /\ db' = MigrateInTx(db, space, config.target)
              /\ Advance(t)
  /\ UNCHANGED <<process, opens>>

-------------------------------------------------------------------------------
WorkspaceInit ==
  /\ db = EmptyDB
  /\ process = Nil
  /\ threads = NoThreads
  /\ opens = 0

ThreadStep(t) ==
  \/ ReadCall(t) \/ EnsureDeclared(t) \/ EnsureRead(t) \/ RegisterFound(t)
  \/ ReadConfigs(t) \/ Embed(t) \/ CompareVectors(t) \/ RememberCall(t)
  \/ ForgetCall(t) \/ ReviveCall(t)
  \/ InitRegister(t) \/ InitCall(t) \/ ApplyCall(t)
  \/ MigrateRead(t) \/ MigrateRegister(t) \/ MigrateBegin(t)
  \/ MigrateComplete(t)
  \/ Finish(t)

WorkspaceNext ==
  \/ RunCommand \/ Serve \/ Close
  \/ \E t \in Threads : Accept(t) \/ ThreadStep(t)

WorkspaceSpec == WorkspaceInit /\ [][WorkspaceNext]_workspaceVars

-------------------------------------------------------------------------------
(* Properties. *)

Policy(space) == db.spacesConfig[space].writePolicy

\* The steps that write the policy of a space: its creation and apply-config.
WritesPolicy(space) ==
  /\ db'.spacesConfig[space] # Nil
  /\ \/ db.spacesConfig[space] = Nil
     \/ Policy(space)' # Policy(space)

\* apply-config writes the whole record of a space, its model and its migration
\* included: still, the model of a space that exists only ever changes to the
\* target of a started migration, which ends with it, and no other step ends
\* one (UpdateSpaceConfig).
ModelChangesByMigration ==
  [][\A s \in Spaces :
       LET old == db.spacesConfig[s]
           new == db'.spacesConfig[s]
       IN  old # Nil =>
             /\ new # Nil
             /\ new.model # old.model =>
                  old.migrating /\ new.model = old.target /\ ~new.migrating
             /\ old.migrating /\ ~new.migrating => new.model = old.target]_db

\* A writers rule allows nobody.
Mutes(policy) == \E rule \in Rules : policy[rule] = ZeroWriters

\* Whatever created or changed the policy of a space, comparing it with the
\* same config.toml afterwards finds nothing more to change, unless a zero is
\* involved: one that the file declares and a new space replaces, or a writers
\* rule that allows nobody, in the space or once the file has changed it.  A new
\* space replaces it by the default rule, and so does the next apply-config
\* before it looks at what the file declares (SpaceInit).
ReconcileSettles ==
  [][\A s \in Spaces :
       WritesPolicy(s) =>
         \/ process.config[s] = Nil
         \/ "writePolicy" \notin
              Reconcile(process.config[s], db'.spacesConfig[s]).changes
         \/ \E field \in DOMAIN process.config[s].scalars :
              process.config[s].scalars[field] = 0
         \/ Mutes(Policy(s)') \/ Mutes(SpaceInit(process.config[s], Policy(s)'))]_db

\* A declared trust level is the one an actor of that kind is then judged by,
\* unless it is zero: zero reads as not declared (ResolveActorTrust).
DeclaredTrustCounts ==
  [][\A s \in Spaces, kind \in ActorKinds :
       WritesPolicy(s) /\ process.config[s] # Nil =>
         LET declared == process.config[s].scalars
             level    == [human |-> "humanTrust", system |-> "systemTrust",
                          agent |-> "defaultAgentTrust"][kind]
         IN  level \in DOMAIN declared /\ declared[level] # 0 =>
               ResolveActorTrust(Policy(s)', [id |-> Nil, kind |-> kind])
                 = declared[level]]_db

Drifted(space, model) ==
  /\ DeclaresEmbedder(Settings(space))
  /\ DeclaredEmbedder(Settings(space)) # model

\* Which embedder a vector comes from.  A command that works on one space embeds
\* with the model the space has, even when other spaces declare embedders with
\* the same id; only config.toml declaring another embedder for that very space
\* can mislead it (ensureEmbedderForSpace registers last).  In a server a vector
\* can have a wrong dimension with no declaration of its own space at fault, but
\* only if this process met another embedder with the same id: declared for
\* another space, had by another space, or asked for by a migration, even a
\* refused one (RegisterEmbedder).
MisfitsShareAnID ==
  \A t \in Threads :
    threads[t] # Nil /\ Holds(t, "vectors") =>
      \A s \in DOMAIN threads[t].held.vectors :
        LET model == threads[t].held.models[s]
            used  == threads[t].held.vectors[s]
        IN  /\ ~IsServer /\ ToSet(Current(t).spaces) = {s} =>
                 used = model \/ Drifted(s, model)
            /\ used # model =>
                 used.id = model.id /\ used \in process.offered

\* A request that reached the lookup of its embedder finds one, whatever spaces
\* other goroutines create or migrate meanwhile, unless config.toml declares an
\* embedder with another id for the space (ErrEmbedderUnavailable).
UnavailableOnlyByDrift ==
  \A t \in Threads :
    threads[t] # Nil /\ Holds(t, "models") /\ ~Holds(t, "vectors") =>
      \A s \in DOMAIN threads[t].held.models :
        LET model == threads[t].held.models[s]
        IN  process.registry[model.id] # Nil \/ Drifted(s, model)

==============================================================================
