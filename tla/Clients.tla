-------------------------------- MODULE Clients --------------------------------
(***************************************************************************)
(* The edges of the system.  What a generator of giskard-agents stands on: *)
(* a client of giskard-llm, and the registry of its rate limiters; and the *)
(* bridges that make a target a client's model for the scanners of others. *)
(* They share nothing, so one of them is at work in a behaviour.           *)
(***************************************************************************)
EXTENDS LLMClient, RateLimiterRegistry, TargetBridge

allVars == <<clientVars, registryVars, bridgeVars>>

(* Nobody registers a limiter. *)
NoRegistry ==
    /\ life = [l \in Limiters |-> "gone"]
    /\ fields \in [Limiters -> {CHOOSE field \in Fields : TRUE}]
    /\ home = [l \in Limiters |-> Nobody] /\ throttle = home
    /\ current = Nobody /\ tolerant = FALSE /\ swept = {}

(* Nobody calls a model. *)
Off == Outcome("none", "none", "off")

NoClient ==
    /\ RoutingInit /\ env = FALSE /\ changes = 0
    /\ chat = <<>> /\ room = 0 /\ request = NoRequest /\ outcome = Off

(* Nobody scans a target. *)
NoBridge ==
    /\ tool = "off" /\ talks = <<>> /\ inFlight = <<>> /\ traces = <<>>
    /\ byCallId = {} /\ minted = 0 /\ answered = <<>> /\ reports = <<>>

ClientsInit ==
    \/ ClientInit /\ NoRegistry /\ NoBridge
    \/ NoClient /\ RegistryInit /\ NoBridge
    \/ NoClient /\ NoRegistry /\ BridgeInit

AtClient == outcome # Off /\ ClientNext /\ UNCHANGED <<registryVars, bridgeVars>>

AtRegistry == outcome = Off /\ tool = "off" /\ RegistryNext /\ UNCHANGED <<clientVars, bridgeVars>>

AtBridge == tool # "off" /\ BridgeNext /\ UNCHANGED <<clientVars, registryVars>>

ClientsNext == AtClient \/ AtRegistry \/ AtBridge

ClientsSpec == ClientsInit /\ [][ClientsNext]_allVars
=============================================================================
