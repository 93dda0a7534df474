-------------------------------- MODULE Routing --------------------------------
(***************************************************************************)
(* How a client of giskard-llm finds the provider for a model: by a name   *)
(* that was configured or that is known.  A provider is made when it is    *)
(* needed first, from the configuration and the environment at that time,  *)
(* and kept until the name is configured again or the client is reset.     *)
(***************************************************************************)
EXTENDS Naturals

CONSTANTS Names,      \* in front of the slash of a model
          MaxChanges  \* bound on the configurations

ASSUME RoutingAssumption == MaxChanges \in Nat

(* Azure is reached in the way of OpenAI, under names of its own.           *)
Known == [openai |-> "openai", azure |-> "openai", azure_ai |-> "openai",
          google |-> "google", gemini |-> "google", anthropic |-> "anthropic"]

Types == {Known[name] : name \in DOMAIN Known}

(* The protocols that the providers implement.                              *)
Supports(type, operation) == type # "anthropic" \/ operation = "complete"

(* What is configured for a name: the type, merge_system, whether the key    *)
(* is left to the environment, and the number of the call.                 *)
Configs == [type : Types \cup {"unknown"}, merge : BOOLEAN, deferred : BOOLEAN, serial : 1..MaxChanges]

NotConfigured == [type |-> "none", merge |-> FALSE, deferred |-> TRUE, serial |-> 0]

VARIABLES configs,    \* of the names
          providers,  \* those that were made: their type, options and serial
          env,        \* the keys are there that are left to the environment
          changes     \* the number of configurations that may follow

routing == <<configs, providers, env, changes>>

NoProvider == NotConfigured

RoutingInit ==
    /\ configs = [name \in Names |-> NotConfigured]
    /\ providers = [name \in Names |-> NoProvider]
    /\ env \in BOOLEAN

(* Names may be spelled with blanks around them.                            *)
Strip(spelled) == spelled.name

(* Fault: the provider is looked for under the name as it is spelled.       *)
Unstripped(spelled) == IF spelled.padded THEN "none" ELSE spelled.name

Stale(spelled) == Strip(spelled)

Configure ==
    /\ changes > 0
    /\ \E spelled \in [name : Names, padded : BOOLEAN], config \in Configs :
         /\ config.serial = changes /\ ~config.merge
         /\ configs' = [configs EXCEPT ![Strip(spelled)] = config]
         /\ providers' = [name \in Names |->
              IF name = Stale(spelled) THEN NoProvider ELSE providers[name]]
    /\ changes' = changes - 1
    /\ UNCHANGED env

Reset ==
    /\ changes > 0
    /\ configs' = [name \in Names |-> NotConfigured]
    /\ providers' = [name \in Names |-> NoProvider]
    /\ changes' = changes - 1
    /\ UNCHANGED env

SetEnv == changes > 0 /\ env' = ~env /\ UNCHANGED <<configs, providers, changes>>

(* A name that is not configured is that of a type, or unknown.             *)
Config(name) ==
    IF configs[name] # NotConfigured THEN configs[name]
    ELSE [NotConfigured EXCEPT !.type = IF name \in DOMAIN Known THEN Known[name] ELSE "unknown"]

(* A provider is not made for an unknown type; without a key the SDK may    *)
(* refuse, or find one of its own.                                          *)
CannotMake(config) == config.type = "unknown" \/ (config.deferred /\ ~env)
CanMake(config) == config.type # "unknown"

Provider(name) == IF providers[name] # NoProvider THEN providers[name] ELSE Config(name)

(* When the names that are not known were configured, and all were needed.  *)
(* Only Anthropic has instructions to merge.                                *)
RoutingMade ==
    /\ configs \in [Names -> {NotConfigured} \cup
         {config \in Configs : /\ config.merge => config.type = "anthropic"
                               /\ config.type # "unknown" /\ ~config.deferred
                               /\ config.serial = MaxChanges}]
    /\ \A name \in Names : configs[name] = NotConfigured <=> name \in DOMAIN Known
    /\ providers = [name \in Names |-> Config(name)]
    /\ env = TRUE

(* _get_provider: what could not be made is not kept.                       *)
Fails(name) == providers[name] = NoProvider /\ CannotMake(Config(name))
Finds(name) == providers[name] # NoProvider \/ CanMake(Config(name))

KeepProvider(name) == providers' = [providers EXCEPT ![name] = Provider(name)]
=============================================================================
