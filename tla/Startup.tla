------------------------------- MODULE Startup -------------------------------
(***************************************************************************)
(* The process from its start to its end (cmd/harness/main.go): the        *)
(* configuration (internal/config/config.go), the schema (Migrate), then   *)
(* the sessions (Sessions); beside it `harness migrate' in a process of    *)
(* its own.                                                                *)
(*                                                                         *)
(* An environment is a record of what the variables are set to; a number   *)
(* that is not set, or is no number, is Unset.                             *)
(***************************************************************************)
EXTENDS Sessions

CONSTANTS Scripts,
          Environments,  \* the environments the process may be started in
          Unset

ASSUME StartupAssumption ==
    /\ Scripts \in Seq(STRING)
    /\ \A i, j \in DOMAIN Scripts : Scripts[i] = Scripts[j] => i = j

VARIABLES applied, recorded, pc, at,
          config         \* of the process that is under way, or NoConfig

Run == "run"
Cli == "migrate"

M == INSTANCE Migrate WITH Runners <- {Run, Cli}

schemaVars  == <<applied, recorded>>
runnerVars  == <<pc, at>>
startupVars == <<sessVars, schemaVars, runnerVars, config>>

NoConfig == [provider |-> "none"]

-----------------------------------------------------------------------------
Providers == {"openrouter", "anthropic"}

\* Load.
EnvInt(value, default) == IF value = Unset THEN default ELSE value

Provider(env) ==
    IF env.provider # "" THEN env.provider
    ELSE IF env.openRouterKey THEN "openrouter" ELSE "anthropic"

\* Only Anthropic has a default model.
HasModel(env) == env.model \/ Provider(env) = "anthropic"

\* Mutant: the provider is not looked at.
LoadsAnyProvider(env) ==
    /\ env.databaseUrl
    /\ HasModel(env)
    /\ EnvInt(env.attempts, 3) \in 1 .. 3
    /\ EnvInt(env.maxTokens, 8192) >= 1
    /\ EnvInt(env.summarizeAfter, 50) > EnvInt(env.historyTail, 30)

Loads(env) ==
    /\ env.databaseUrl
    /\ HasModel(env)
    /\ \/ Provider(env) = "openrouter" /\ env.openRouterKey
       \/ Provider(env) = "anthropic" /\ env.anthropicKey
    /\ EnvInt(env.attempts, 3) \in 1 .. 3
    /\ EnvInt(env.maxTokens, 8192) >= 1
    /\ EnvInt(env.summarizeAfter, 50) > EnvInt(env.historyTail, 30)

-----------------------------------------------------------------------------
StartupInit == SessionsInit /\ M!MigrateInit /\ config = NoConfig

\* A process that does not load its configuration or reach the database ends
\* as it began.
BeginRun ==
    /\ phase = "off" /\ config = NoConfig /\ boots < MaxBoots
    /\ \E env \in Environments :
          Loads(env) /\ config' = [provider |-> Provider(env)]
    /\ M!BeginMigrate(Run)
    /\ UNCHANGED sessVars

\* migrateOnly.
BeginCli == M!BeginMigrate(Cli) /\ UNCHANGED <<sessVars, config>>

\* A step of Migrate in either process; with it the process may end.
MigrateStep(r) ==
    /\ M!Migrating(r)
    /\ config' = IF r = Run /\ pc'[Run] = "idle" THEN NoConfig ELSE config
    /\ UNCHANGED sessVars

CliEnds == M!Migrated(Cli) /\ UNCHANGED <<sessVars, config>>

\* Mutant: the sessions start beside the migration.
StartManagerEarly ==
    /\ pc[Run] # "idle"
    /\ M!GivesUp(Run) /\ UNCHANGED schemaVars
    /\ Boot
    /\ UNCHANGED config

\* NewManager, buildLLMClient, h.Start, and the sessions start.
StartManager ==
    /\ M!Migrated(Run)
    /\ config.provider \in Providers
    /\ Boot
    /\ UNCHANGED config

\* NewManager fails, for whatsmeow upgrades its own tables, or buildLLMClient
\* does, which knows the providers by itself.
ManagerFails ==
    /\ M!Migrated(Run)
    /\ "db" \in Faults \/ config.provider \notin Providers
    /\ config' = NoConfig
    /\ UNCHANGED sessVars

Killed(r) ==
    /\ M!Killed(r)
    /\ config' = IF r = Run THEN NoConfig ELSE config
    /\ UNCHANGED sessVars

\* A step of the manager; the configuration goes with the process.
ManagerStep ==
    /\ phase # "off"
    /\ SessionsNext
    /\ config' = IF phase' = "off" THEN NoConfig ELSE config
    /\ UNCHANGED <<schemaVars, runnerVars>>

StartupNext ==
    \/ BeginRun \/ StartManager \/ ManagerFails \/ ManagerStep
    \/ BeginCli \/ CliEnds
    \/ \E r \in {Run, Cli} : MigrateStep(r) \/ Killed(r)

\* In the process that serves, statements and connections return, and a QR
\* channel runs out of codes; of `harness migrate' nothing is assumed.
StartupFairness ==
    /\ WF_startupVars(MigrateStep(Run))
    /\ WF_startupVars(StartManager)
    /\ WF_startupVars(Starting /\ ManagerStep)

StartupSpec == StartupInit /\ [][StartupNext]_startupVars /\ StartupFairness

-----------------------------------------------------------------------------
\* Type of the state.
StartupTypeOK ==
    /\ SessionsTypeOK
    /\ M!MigrateTypeOK
    /\ config \in {NoConfig} \cup [provider : Providers]
    /\ config = NoConfig <=> phase = "off" /\ pc[Run] = "idle"

SchemaInOrder == M!SchemaInOrder

\* Sessions, and with them messages, run only on a schema with every script
\* applied and recorded, though the process crashed in the middle of one and
\* another process migrates at the same time.
ServesMigratedSchema ==
    phase # "off" => /\ applied = M!First(Len(Scripts))
                     /\ recorded = applied

\* A process that was started comes to serve or ends: no configuration that
\* Load accepts, no schema it finds and no line hangs it.
StartReturns == config # NoConfig ~> phase \in {"serving", "stopped"} \/ config = NoConfig
==============================================================================
