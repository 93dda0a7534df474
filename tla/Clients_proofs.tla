---------------------------- MODULE Clients_proofs ----------------------------
(***************************************************************************)
(* Proofs about the edges of the system: the registry of rate limiters,    *)
(* for any number of limiters and fields; the client of giskard-llm, for   *)
(* any names, chats and bounds; the id that the processes of a user share, *)
(* for any number of processes; and the bridges to the scanners of others, *)
(* for any number of talks and turns.                                      *)
(*                                                                         *)
(* A new limiter may only take its state from a limiter of its own map, so *)
(* what is promised of limiters rests on where they are: each is in the    *)
(* map of the id, or in one that was dropped while it was entered.         *)
(***************************************************************************)
EXTENDS LLMClient, RateLimiterRegistry, AnonymousId, TargetBridge, FiniteSetTheorems, SequenceTheorems,
        WellFoundedInduction, TLAPS

Living == {l \in Limiters : life[l] \in {"held", "garbage"}}

OneAtATime == \A k, l \in BeingEntered : k = l

(* Where limiters are.  That one is being entered keeps others from making  *)
(* a map, so that the one that it finds gone stays gone.                   *)
Placed ==
    /\ \A l \in Living \cup BeingEntered :
         home[l] # Nobody /\ (home[l] = current \/ home[l] \in swept)
    /\ \A l \in BeingEntered : home[l] = current \/ current = Nobody

SharedInMap ==
    \A k, l \in Living :
        home[k] = home[l] /\ fields[k] = fields[l] => throttle[k] = throttle[l]

MapInUse == current # Nobody /\ BeingEntered = {} => Members(current) # {}

IInv == RegistryTypeOK /\ OneAtATime /\ Placed /\ SharedInMap /\ MapInUse

-----------------------------------------------------------------------------
LEMMA InitHolds == RegistryInit => IInv
  BY DEF RegistryInit, IInv, RegistryTypeOK, OneAtATime, Placed, SharedInMap, MapInUse,
         Living, BeingEntered, Members, Lives

LEMMA LookKeeps ==
  ASSUME IInv, NEW l \in Limiters, Look(l)
  PROVE  IInv'
  <1>1. RegistryTypeOK'
    BY DEF IInv, RegistryTypeOK, Look, Lives
  <1>2. /\ BeingEntered' = {l} /\ Living' = Living
        /\ \A k \in Limiters \ {l} : home'[k] = home[k]
        /\ home'[l] = current' /\ current' # Nobody
        /\ UNCHANGED <<fields, throttle, swept>>
    BY NobodyAssumption DEF IInv, RegistryTypeOK, Look, BeingEntered, Living, Lives
  <1>3. l \notin Living
    BY DEF Look, Living
  <1>4. OneAtATime'
    BY <1>2 DEF OneAtATime
  <1>5. Placed'
    <2>1. ASSUME NEW k \in Living
          PROVE  home'[k] # Nobody /\ (home'[k] = current' \/ home'[k] \in swept')
      <3>1. home'[k] = home[k]
        BY <1>2, <1>3 DEF Living
      <3>2. home[k] # Nobody /\ (home[k] = current \/ home[k] \in swept)
        BY DEF IInv, Placed
      <3>3. home[k] = current => current' = current
        BY <3>2 DEF Look
      <3> QED BY <1>2, <3>1, <3>2, <3>3
    <2> QED BY <1>2, <2>1 DEF Placed
  <1>6. SharedInMap'
    <2>1. \A k \in Living : home'[k] = home[k]
      BY <1>2, <1>3 DEF Living
    <2> QED BY <1>2, <2>1 DEF IInv, SharedInMap
  <1>7. MapInUse'
    BY <1>2 DEF MapInUse
  <1> QED BY <1>1, <1>4, <1>5, <1>6, <1>7 DEF IInv

(* The limiter takes the state of its equals in the map, who agree on it.   *)
LEMMA EnterKeeps ==
  ASSUME IInv, NEW l \in Limiters, Enter(l)
  PROVE  IInv'
  <1>1. RegistryTypeOK'
    BY DEF IInv, RegistryTypeOK, Enter, InitializeState, Equal, Members, Lives
  <1>2. /\ l \in BeingEntered /\ l \notin Living
        /\ BeingEntered' = {} /\ Living' = Living \cup {l}
        /\ UNCHANGED <<fields, home, current, swept>>
    BY DEF IInv, RegistryTypeOK, OneAtATime, Enter, BeingEntered, Living, Lives
  <1>3. OneAtATime'
    BY <1>2 DEF OneAtATime
  <1>4. Placed'
    BY <1>2 DEF IInv, Placed
  <1>5. SharedInMap'
    <2>1. \A k \in Living : throttle'[k] = throttle[k]
      BY <1>2 DEF IInv, RegistryTypeOK, Enter, InitializeState, Living
    <2>2. ASSUME NEW k \in Living, home[k] = home[l], fields[k] = fields[l]
          PROVE  throttle'[l] = throttle[k]
      <3>1. k \in Equal(l)
        BY <2>2 DEF Equal, Members, Living
      <3>2. PICK e \in Equal(l) : throttle' = [throttle EXCEPT ![l] = throttle[e]]
        BY <3>1 DEF Enter, InitializeState
      <3>3. e \in Living /\ home[e] = home[k] /\ fields[e] = fields[k]
        BY <2>2 DEF Equal, Members, Living
      <3>4. throttle[e] = throttle[k]
        BY <3>3 DEF IInv, SharedInMap
      <3> QED BY <3>2, <3>4 DEF IInv, RegistryTypeOK
    <2> QED BY <1>2, <2>1, <2>2 DEF IInv, SharedInMap
  <1>6. MapInUse'
    <2> SUFFICES ASSUME current # Nobody PROVE l \in Members(current)'
      BY <1>2 DEF MapInUse
    <2>1. home[l] = current
      BY <1>2 DEF IInv, Placed
    <2> QED BY <1>2, <2>1 DEF Members, Enter, IInv, RegistryTypeOK
  <1> QED BY <1>1, <1>3, <1>4, <1>5, <1>6 DEF IInv

LEMMA RefuseKeeps ==
  ASSUME IInv, NEW l \in Limiters, Refuse(l)
  PROVE  IInv'
  <1>1. RegistryTypeOK'
    BY DEF IInv, RegistryTypeOK, Refuse, Lives
  <1>2. /\ l \in BeingEntered /\ BeingEntered' = {} /\ Living' = Living
        /\ UNCHANGED <<fields, home, throttle, current, swept>>
    BY DEF IInv, RegistryTypeOK, OneAtATime, Refuse, BeingEntered, Living, Lives
  <1>3. OneAtATime' /\ Placed' /\ SharedInMap'
    BY <1>2 DEF IInv, OneAtATime, Placed, SharedInMap
  <1>4. MapInUse'
    <2> SUFFICES ASSUME current # Nobody PROVE Members(current)' # {}
      BY <1>2 DEF MapInUse
    <2>1. home[l] = current
      BY <1>2 DEF IInv, Placed
    <2>2. Members(current)' = Members(home[l])
      BY <1>2, <2>1 DEF Members, Refuse, IInv, RegistryTypeOK
    <2> QED BY <2>2 DEF Refuse
  <1> QED BY <1>1, <1>3, <1>4 DEF IInv

LEMMA DropKeeps ==
  ASSUME IInv, NEW l \in Limiters, Drop(l)
  PROVE  IInv'
  <1>1. RegistryTypeOK'
    BY DEF IInv, RegistryTypeOK, Drop, Lives
  <1>2. /\ BeingEntered' = BeingEntered /\ Living' = Living
        /\ UNCHANGED <<fields, home, throttle, current, swept>>
    BY DEF IInv, RegistryTypeOK, Drop, BeingEntered, Living, Lives
  <1>3. Members(current)' = Members(current)
    BY <1>2 DEF Members, Living
  <1>4. OneAtATime' /\ Placed' /\ SharedInMap' /\ MapInUse'
    BY <1>2, <1>3 DEF IInv, OneAtATime, Placed, SharedInMap, MapInUse
  <1> QED BY <1>1, <1>4 DEF IInv

(* Only a map that nothing is in is dropped, unless one is being entered.   *)
LEMMA CollectKeeps ==
  ASSUME IInv, NEW l \in Limiters, Collect(l)
  PROVE  IInv'
  <1>1. RegistryTypeOK'
    BY DEF IInv, RegistryTypeOK, Collect, Emptied, Lives
  <1>2. /\ BeingEntered' = BeingEntered /\ Living' = Living \ {l}
        /\ UNCHANGED <<fields, home, throttle>>
    BY DEF IInv, RegistryTypeOK, Collect, BeingEntered, Living, Lives
  <1>3. OneAtATime' /\ SharedInMap'
    BY <1>2 DEF IInv, OneAtATime, SharedInMap
  <1>4. CASE Emptied(l)
    <2>1. current' = Nobody /\ current # Nobody
      BY <1>4 DEF Collect, Emptied
    <2>2. \A k \in Living' : home[k] # current
      BY <1>2, <1>4 DEF Emptied, Members, Living
    <2>3. BeingEntered # {} => swept' = swept \cup {current}
      BY <1>4 DEF Collect
    <2>4. swept \subseteq swept'
      BY <1>4 DEF Collect
    <2>5. Placed'
      BY <1>2, <2>1, <2>2, <2>3, <2>4 DEF IInv, Placed
    <2>6. MapInUse'
      BY <2>1 DEF MapInUse
    <2> QED BY <1>1, <1>3, <2>5, <2>6 DEF IInv
  <1>5. CASE ~Emptied(l)
    <2>1. UNCHANGED <<current, swept>>
      BY <1>5 DEF Collect
    <2>2. Placed'
      BY <1>2, <2>1 DEF IInv, Placed
    <2>3. Members(current)' = Members(current) \ {l}
      BY <1>2, <2>1 DEF Members, Living
    <2>4. MapInUse'
      BY <1>5, <2>1, <2>3 DEF Emptied, MapInUse
    <2> QED BY <1>1, <1>3, <2>2, <2>4 DEF IInv
  <1> QED BY <1>4, <1>5

LEMMA GetInstanceKeeps ==
  ASSUME IInv, GetInstance
  PROVE  IInv'
  <1>1. PICK l \in Members(current) : life' = [life EXCEPT ![l] = "held"]
    BY DEF GetInstance
  <1>2. RegistryTypeOK'
    BY <1>1 DEF IInv, RegistryTypeOK, GetInstance, Lives
  <1>3. /\ BeingEntered' = BeingEntered /\ Living' = Living
        /\ UNCHANGED <<fields, home, throttle, current, swept>>
    BY <1>1 DEF IInv, RegistryTypeOK, GetInstance, BeingEntered, Living, Members, Lives
  <1>4. Members(current)' = Members(current)
    BY <1>3 DEF Members, Living
  <1>5. OneAtATime' /\ Placed' /\ SharedInMap' /\ MapInUse'
    BY <1>3, <1>4 DEF IInv, OneAtATime, Placed, SharedInMap, MapInUse
  <1> QED BY <1>2, <1>5 DEF IInv

LEMMA StutterKeeps ==
  ASSUME IInv, UNCHANGED registryVars
  PROVE  IInv'
  BY DEF IInv, RegistryTypeOK, OneAtATime, Placed, SharedInMap, MapInUse, Living, BeingEntered,
         Members, registryVars

LEMMA Invariance == RegistrySpec => []IInv
  <1>1. IInv /\ [RegistryNext]_registryVars => IInv'
    <2> SUFFICES ASSUME IInv, [RegistryNext]_registryVars PROVE IInv'
      OBVIOUS
    <2>1. CASE GetInstance
      BY <2>1, GetInstanceKeeps
    <2>2. CASE UNCHANGED registryVars
      BY <2>2, StutterKeeps
    <2>3. ASSUME NEW l \in Limiters, Look(l) \/ Enter(l) \/ Refuse(l) \/ Drop(l) \/ Collect(l)
          PROVE  IInv'
      BY <2>3, LookKeeps, EnterKeeps, RefuseKeeps, DropKeeps, CollectKeeps
    <2> QED BY <2>1, <2>2, <2>3 DEF RegistryNext
  <1> QED BY InitHolds, <1>1, PTL DEF RegistrySpec

-----------------------------------------------------------------------------
(* Whatever limiters are made, dropped and collected, the state of the      *)
(* registry of base.py has its types.                                      *)
THEOREM RegistryTypes == RegistrySpec => []RegistryTypeOK
  <1>1. IInv => RegistryTypeOK
    BY DEF IInv
  <1> QED BY <1>1, Invariance, PTL

(* Limiters in use with one id and equal fields share their state, however  *)
(* many there are and whenever the others are collected (register_instance, *)
(* _cleanup_id); unless the map of one was dropped as it was entered.      *)
THEOREM SharingIsKept == RegistrySpec => []StateShared
  <1>1. IInv => StateShared
    BY DEF IInv, Placed, SharedInMap, StateShared, Held, Living
  <1> QED BY <1>1, Invariance, PTL

(* The map of an id is there as long as a limiter is in use and no longer   *)
(* (_cleanup_id), whatever map the limiter is of that was collected last.  *)
THEOREM MapIsKept == RegistrySpec => []MapFollowsUse
  <1>1. IInv => MapFollowsUse
    BY DEF IInv, Placed, MapInUse, MapFollowsUse, Held, Living
  <1> QED BY <1>1, Invariance, PTL

-----------------------------------------------------------------------------
(* A provider that is kept was made of what is configured for its name.    *)
Current ==
    /\ DOMAIN configs = Names /\ DOMAIN providers = Names
    /\ \A name \in Names : providers[name] # NoProvider => providers[name] = Config(name)

LEMMA CurrentAtFirst == ClientInit => Current
  <1>1. RoutingInit => Current
    BY DEF RoutingInit, Current
  <1>2. RoutingMade => Current
    BY DEF RoutingMade, Current
  <1> QED BY <1>1, <1>2 DEF ClientInit

(* What is said of a name by its configuration alone.                      *)
LEMMA ConfigOfName ==
  ASSUME NEW name \in Names, configs'[name] = configs[name]
  PROVE  Config(name)' = Config(name)
  BY DEF Config

LEMMA UnchangedKeeps ==
  ASSUME Current, UNCHANGED <<configs, providers>>
  PROVE  Current'
  <1>1. \A name \in Names : Config(name)' = Config(name)
    BY ConfigOfName
  <1> QED BY <1>1 DEF Current

LEMMA ConfigureKeeps ==
  ASSUME Current, Configure
  PROVE  Current'
  <1>1. PICK spelled \in [name : Names, padded : BOOLEAN], config \in Configs :
          /\ configs' = [configs EXCEPT ![Strip(spelled)] = config]
          /\ providers' = [name \in Names |->
               IF name = Stale(spelled) THEN NoProvider ELSE providers[name]]
    BY DEF Configure
  <1>2. DOMAIN configs' = Names /\ DOMAIN providers' = Names
    BY <1>1 DEF Current
  <1>3. ASSUME NEW name \in Names, providers'[name] # NoProvider
        PROVE  providers'[name] = Config(name)'
    <2>1. name # Strip(spelled) /\ providers'[name] = providers[name]
      BY <1>1, <1>3 DEF Stale
    <2>2. configs'[name] = configs[name]
      BY <1>1, <2>1 DEF Current
    <2>3. Config(name)' = Config(name)
      BY <2>2, ConfigOfName
    <2> QED BY <1>3, <2>1, <2>3 DEF Current
  <1> QED BY <1>2, <1>3 DEF Current

LEMMA ResetKeeps ==
  ASSUME Current, Reset
  PROVE  Current'
  BY DEF Current, Reset

(* A call is served by the provider that is kept for its name, or by one    *)
(* that is made of the configuration and kept from then on.                *)
LEMMA CallServes ==
  ASSUME Current, NEW name \in Names, NEW operation, NEW format, Call(name, operation, format)
  PROVE  Current' /\ (request' # NoRequest => request'.name = name /\ request'.provider = Config(name))
  <1>1. Provider(name) = Config(name)
    BY DEF Current, Provider
  <1>2. providers' = [providers EXCEPT ![name] = Config(name)] /\ UNCHANGED configs
    BY <1>1 DEF Call, KeepProvider
  <1>3. \A n \in Names : Config(n)' = Config(n)
    BY <1>2, ConfigOfName
  <1>4. Current'
    BY <1>2, <1>3 DEF Current
  <1>5. request' # NoRequest => request'.name = name /\ request'.provider = Provider(name)
    BY DEF Call
  <1> QED BY <1>1, <1>4, <1>5

LEMMA OthersKeep ==
  ASSUME Current, Say \/ AnswerTool \/ Receive \/ ReceiveNothing \/ Fail \/ Take
  PROVE  Current' /\ (request' = request \/ request' = NoRequest)
  <1>1. UNCHANGED <<configs, providers>>
    BY DEF Say, AnswerTool, Receive, ReceiveNothing, Fail, Take, routing
  <1>2. request' = request \/ request' = NoRequest
    BY DEF Say, AnswerTool, Receive, ReceiveNothing, Fail, Take
  <1> QED BY <1>1, <1>2, UnchangedKeeps

LEMMA ClientStep ==
  ASSUME Current, [ClientNext]_clientVars
  PROVE  Current' /\ (request' # request /\ request' # NoRequest =>
                        request'.provider = Config(request'.name))
  <1>1. CASE Change
    <2>1. request' = request
      BY <1>1 DEF Change
    <2>2. SetEnv => Current'
      BY UnchangedKeeps DEF SetEnv
    <2> QED BY <1>1, <2>1, <2>2, ConfigureKeeps, ResetKeeps DEF Change
  <1>2. CASE Say \/ AnswerTool \/ Receive \/ ReceiveNothing \/ Fail \/ Take
    BY <1>2, OthersKeep
  <1>3. ASSUME NEW name \in Names, CallNobody(name)
        PROVE  Current' /\ request' = request
    BY <1>3, UnchangedKeeps DEF CallNobody, routing
  <1>4. ASSUME NEW name \in Names, NEW operation \in {"complete", "respond", "embed"},
               NEW format \in Formats, Call(name, operation, format)
        PROVE  Current' /\ (request' # NoRequest => request'.provider = Config(request'.name))
    BY <1>4, CallServes
  <1>5. CASE UNCHANGED clientVars
    BY <1>5, UnchangedKeeps DEF clientVars, routing
  <1> QED BY <1>1, <1>2, <1>3, <1>4, <1>5 DEF ClientNext

(* However a name was spelled and whatever was configured, reset or kept    *)
(* before, a call is served as its name is configured when it is made       *)
(* (configure, _get_provider).                                             *)
THEOREM ConfigurationCounts == ClientSpec => ServedAsConfigured
  <1>1. ClientInit => Current
    BY CurrentAtFirst
  <1>2. Current /\ [ClientNext]_clientVars => Current'
    BY ClientStep
  <1>3. Current /\ [ClientNext]_clientVars =>
          [request' # request /\ request' # NoRequest =>
             request'.provider = Config(request'.name)]_clientVars
    BY ClientStep
  <1> QED BY <1>1, <1>2, <1>3, PTL DEF ClientSpec, ServedAsConfigured

-----------------------------------------------------------------------------
(* The first handler of an exception.                                      *)
FitsFirst(handlers, exception, n) ==
    /\ n \in DOMAIN handlers /\ handlers[n][1] \in Classes(exception)
    /\ \A m \in DOMAIN handlers : handlers[m][1] \in Classes(exception) => n <= m

LEMMA FirstDecides ==
  ASSUME NEW type, NEW exception, NEW h, HandlersOf(type) = h, DOMAIN h \subseteq Nat,
         NEW n, FitsFirst(h, exception, n)
  PROVE  MapError(type, exception) = h[n][2]
  <1> DEFINE fitting == {m \in DOMAIN h : h[m][1] \in Classes(exception)}
  <1>1. n \in fitting /\ fitting \subseteq Nat /\ \A m \in fitting : n <= m
    BY DEF FitsFirst
  <1>2. ASSUME NEW m \in fitting, \A k \in fitting : m <= k
        PROVE  m = n
    BY <1>1, <1>2
  <1>3. Min(fitting) = n
    BY <1>1, <1>2 DEF Min
  <1> QED BY <1>1, <1>3 DEF MapError

LEMMA NobodyDecides ==
  ASSUME NEW type, NEW exception, NEW h, HandlersOf(type) = h,
         \A n \in DOMAIN h : h[n][1] \notin Classes(exception)
  PROVE  MapError(type, exception) = "raised"
  BY DEF MapError

Tells(type, exception) ==
    ShouldRetry(MapError(type, exception)) <=>
        \/ exception \in {"rate_limit", "timeout", "internal", "429", "5xx"}
        \/ exception = "timed_out" /\ type = "google"

(* The exceptions of the SDKs of OpenAI and Anthropic.                     *)
LEMMA OpenAITells ==
  ASSUME NEW type \in {"openai", "anthropic"}, NEW exception \in OfSDK \cup {"timed_out", "defect"}
  PROVE  Tells(type, exception)
  <1> DEFINE h == OpenAIHandlers
  <1>1. HandlersOf(type) = h /\ DOMAIN h = 1..6 /\ DOMAIN h \subseteq Nat
    BY DEF HandlersOf, OpenAIHandlers, AnthropicHandlers
  <1>2. /\ h[1][1] = "rate_limit" /\ h[2][1] = "authentication"
        /\ h[3][1] = "bad_request" /\ h[4][1] = "timeout"
        /\ h[5][1] = "internal" /\ h[6][1] = "api"
    BY DEF OpenAIHandlers
  <1>3. /\ h[1][2] = "RateLimitError" /\ h[2][2] = "AuthenticationError"
        /\ h[3][2] = "BadRequestError" /\ h[4][2] = "LLMTimeoutError"
        /\ h[5][2] = "ServerError" /\ h[6][2] = "LLMError"
    BY DEF OpenAIHandlers
  <1> HIDE DEF h
  <1>4. CASE exception = "rate_limit"
    <2>1. FitsFirst(h, exception, 1)
      BY <1>1, <1>2, <1>4 DEF FitsFirst, Classes
    <2> QED BY <1>1, <1>3, <1>4, <2>1, FirstDecides DEF Tells, ShouldRetry
  <1>5. CASE exception = "authentication"
    <2>1. FitsFirst(h, exception, 2)
      BY <1>1, <1>2, <1>5 DEF FitsFirst, Classes
    <2> QED BY <1>1, <1>3, <1>5, <2>1, FirstDecides DEF Tells, ShouldRetry
  <1>6. CASE exception = "bad_request"
    <2>1. FitsFirst(h, exception, 3)
      BY <1>1, <1>2, <1>6 DEF FitsFirst, Classes
    <2> QED BY <1>1, <1>3, <1>6, <2>1, FirstDecides DEF Tells, ShouldRetry
  <1>7. CASE exception = "timeout"
    <2>1. FitsFirst(h, exception, 4)
      BY <1>1, <1>2, <1>7 DEF FitsFirst, Classes
    <2> QED BY <1>1, <1>3, <1>7, <2>1, FirstDecides DEF Tells, ShouldRetry
  <1>8. CASE exception = "internal"
    <2>1. FitsFirst(h, exception, 5)
      BY <1>1, <1>2, <1>8 DEF FitsFirst, Classes
    <2> QED BY <1>1, <1>3, <1>8, <2>1, FirstDecides DEF Tells, ShouldRetry
  <1>9. CASE exception \in {"permission", "other_status", "connection", "api"}
    <2>1. FitsFirst(h, exception, 6)
      BY <1>1, <1>2, <1>9 DEF FitsFirst, Classes
    <2> QED BY <1>1, <1>3, <1>9, <2>1, FirstDecides DEF Tells, ShouldRetry
  <1>10. CASE exception \in {"timed_out", "defect"}
    <2>1. \A n \in DOMAIN h : h[n][1] \notin Classes(exception)
      BY <1>1, <1>2, <1>10 DEF Classes
    <2> QED BY <1>1, <1>10, <2>1, NobodyDecides DEF Tells, ShouldRetry
  <1> QED
    BY <1>4, <1>5, <1>6, <1>7, <1>8, <1>9, <1>10 DEF OfSDK

(* Those of Google have codes, or in the Interactions API classes.         *)
LEMMA GoogleTells ==
  ASSUME NEW type, type = "google",
         NEW exception \in OfSDK \cup OfGoogle \cup {"timed_out", "defect"}
  PROVE  Tells(type, exception)
  <1> DEFINE h == GoogleHandlers
  <1>1. HandlersOf(type) = h /\ DOMAIN h = 1..15 /\ DOMAIN h \subseteq Nat
    BY DEF HandlersOf, GoogleHandlers
  <1>2. /\ h[1][1] = "429" /\ h[2][1] = "401" /\ h[3][1] = "403"
        /\ h[4][1] = "400" /\ h[5][1] = "5xx" /\ h[6][1] = "other_code"
        /\ h[7][1] = "authentication" /\ h[8][1] = "permission" /\ h[9][1] = "rate_limit"
        /\ h[10][1] = "internal" /\ h[11][1] = "status" /\ h[12][1] = "timeout"
        /\ h[13][1] = "connection" /\ h[14][1] = "api" /\ h[15][1] = "timed_out"
    BY DEF GoogleHandlers
  <1>3. /\ h[1][2] = "RateLimitError" /\ h[2][2] = "AuthenticationError" /\ h[3][2] = "AuthenticationError"
        /\ h[4][2] = "BadRequestError" /\ h[5][2] = "ServerError" /\ h[6][2] = "LLMError"
        /\ h[7][2] = "AuthenticationError" /\ h[8][2] = "AuthenticationError" /\ h[9][2] = "RateLimitError"
        /\ h[10][2] = "ServerError" /\ h[11][2] = "BadRequestError" /\ h[12][2] = "LLMTimeoutError"
        /\ h[13][2] = "LLMError" /\ h[14][2] = "LLMError" /\ h[15][2] = "LLMTimeoutError"
    BY DEF GoogleHandlers
  <1> HIDE DEF h
  <1>4. CASE exception = "429"
    <2>1. FitsFirst(h, exception, 1)
      BY <1>1, <1>2, <1>4 DEF FitsFirst, Classes
    <2> QED BY <1>1, <1>3, <1>4, <2>1, FirstDecides DEF Tells, ShouldRetry
  <1>5. CASE exception = "401"
    <2>1. FitsFirst(h, exception, 2)
      BY <1>1, <1>2, <1>5 DEF FitsFirst, Classes
    <2> QED BY <1>1, <1>3, <1>5, <2>1, FirstDecides DEF Tells, ShouldRetry
  <1>6. CASE exception = "403"
    <2>1. FitsFirst(h, exception, 3)
      BY <1>1, <1>2, <1>6 DEF FitsFirst, Classes
    <2> QED BY <1>1, <1>3, <1>6, <2>1, FirstDecides DEF Tells, ShouldRetry
  <1>7. CASE exception = "400"
    <2>1. FitsFirst(h, exception, 4)
      BY <1>1, <1>2, <1>7 DEF FitsFirst, Classes
    <2> QED BY <1>1, <1>3, <1>7, <2>1, FirstDecides DEF Tells, ShouldRetry
  <1>8. CASE exception = "5xx"
    <2>1. FitsFirst(h, exception, 5)
      BY <1>1, <1>2, <1>8 DEF FitsFirst, Classes
    <2> QED BY <1>1, <1>3, <1>8, <2>1, FirstDecides DEF Tells, ShouldRetry
  <1>9. CASE exception = "other_code"
    <2>1. FitsFirst(h, exception, 6)
      BY <1>1, <1>2, <1>9 DEF FitsFirst, Classes
    <2> QED BY <1>1, <1>3, <1>9, <2>1, FirstDecides DEF Tells, ShouldRetry
  <1>10. CASE exception = "authentication"
    <2>1. FitsFirst(h, exception, 7)
      BY <1>1, <1>2, <1>10 DEF FitsFirst, Classes
    <2> QED BY <1>1, <1>3, <1>10, <2>1, FirstDecides DEF Tells, ShouldRetry
  <1>11. CASE exception = "permission"
    <2>1. FitsFirst(h, exception, 8)
      BY <1>1, <1>2, <1>11 DEF FitsFirst, Classes
    <2> QED BY <1>1, <1>3, <1>11, <2>1, FirstDecides DEF Tells, ShouldRetry
  <1>12. CASE exception = "rate_limit"
    <2>1. FitsFirst(h, exception, 9)
      BY <1>1, <1>2, <1>12 DEF FitsFirst, Classes
    <2> QED BY <1>1, <1>3, <1>12, <2>1, FirstDecides DEF Tells, ShouldRetry
  <1>13. CASE exception = "internal"
    <2>1. FitsFirst(h, exception, 10)
      BY <1>1, <1>2, <1>13 DEF FitsFirst, Classes
    <2> QED BY <1>1, <1>3, <1>13, <2>1, FirstDecides DEF Tells, ShouldRetry
  <1>14. CASE exception \in {"bad_request", "other_status"}
    <2>1. FitsFirst(h, exception, 11)
      BY <1>1, <1>2, <1>14 DEF FitsFirst, Classes
    <2> QED BY <1>1, <1>3, <1>14, <2>1, FirstDecides DEF Tells, ShouldRetry
  <1>15. CASE exception = "timeout"
    <2>1. FitsFirst(h, exception, 12)
      BY <1>1, <1>2, <1>15 DEF FitsFirst, Classes
    <2> QED BY <1>1, <1>3, <1>15, <2>1, FirstDecides DEF Tells, ShouldRetry
  <1>16. CASE exception = "connection"
    <2>1. FitsFirst(h, exception, 13)
      BY <1>1, <1>2, <1>16 DEF FitsFirst, Classes
    <2> QED BY <1>1, <1>3, <1>16, <2>1, FirstDecides DEF Tells, ShouldRetry
  <1>17. CASE exception = "api"
    <2>1. FitsFirst(h, exception, 14)
      BY <1>1, <1>2, <1>17 DEF FitsFirst, Classes
    <2> QED BY <1>1, <1>3, <1>17, <2>1, FirstDecides DEF Tells, ShouldRetry
  <1>18. CASE exception = "timed_out"
    <2>1. FitsFirst(h, exception, 15)
      BY <1>1, <1>2, <1>18 DEF FitsFirst, Classes
    <2> QED BY <1>1, <1>3, <1>18, <2>1, FirstDecides DEF Tells, ShouldRetry
  <1>19. CASE exception = "defect"
    <2>1. \A n \in DOMAIN h : h[n][1] \notin Classes(exception)
      BY <1>1, <1>2, <1>19 DEF Classes
    <2> QED BY <1>1, <1>19, <2>1, NobodyDecides DEF Tells, ShouldRetry
  <1> QED
    BY <1>4, <1>5, <1>6, <1>7, <1>8, <1>9, <1>10, <1>11, <1>12, <1>13, <1>14, <1>15,
       <1>16, <1>17, <1>18, <1>19 DEF OfSDK, OfGoogle

-----------------------------------------------------------------------------
(* The items of some kinds are a sequence, and there are none only if there *)
(* are none among the items.                                               *)
LEMMA KindsAreSeq ==
  ASSUME NEW kinds, NEW items, IsFiniteSet(DOMAIN items),
         NEW S, \A n \in DOMAIN OfKind(kinds, items) : OfKind(kinds, items)[n] \in S
  PROVE  OfKind(kinds, items) \in Seq(S)
  <1> DEFINE places == {i \in DOMAIN items : items[i].kind \in kinds}
             list == OfKind(kinds, items)
  <1>1. Cardinality(places) \in Nat
    BY FS_Subset, FS_CardinalityType
  <1>2. list = [n \in 1..Cardinality(places) |-> list[n]] /\ DOMAIN list = 1..Cardinality(places)
    BY DEF OfKind, Those
  <1> HIDE DEF list, places
  <1>3. list \in [1..Cardinality(places) -> S]
    BY <1>2 DEF list
  <1>4. list \in Seq(S)
    BY <1>1, <1>3
  <1> QED BY <1>4 DEF list

LEMMA KindIsSeen ==
  ASSUME NEW kinds, NEW items, IsFiniteSet(DOMAIN items),
         NEW i \in DOMAIN items, items[i].kind \in kinds
  PROVE  OfKind(kinds, items) # <<>>
  <1> DEFINE places == {j \in DOMAIN items : items[j].kind \in kinds}
  <1>1. IsFiniteSet(places) /\ i \in places
    BY FS_Subset
  <1>2. Cardinality(places) \in Nat /\ Cardinality(places) # 0
    BY <1>1, FS_CardinalityType, FS_EmptySet
  <1>3. 1 \in DOMAIN OfKind(kinds, items)
    BY <1>2 DEF OfKind, Those
  <1> QED BY <1>3

(* A reply in which the model refuses is not read as an answer, whatever    *)
(* else is in it.                                                          *)
LEMMA RefusalIsTold ==
  ASSUME NEW type, NEW operation, NEW n, NEW reply, IsFiniteSet(DOMAIN reply.blocks), reply.refused
  PROVE  Reading(FromReply(type, operation, n, reply)) # "answer"
  <1> DEFINE items == [i \in DOMAIN reply.blocks |->
                 Item(KindOf(type, operation, reply.blocks[i]),
                      IF reply.blocks[i].kind = "call"
                      THEN CallId(type, operation, n, i) ELSE <<"new", n, i>>,
                      reply.blocks[i].name)]
             told == Item("refusal", <<"new", n, 0>>, "none")
             texts == OfKind({"text"}, items)
             calls == OfKind({"call"}, items)
             reasoning == IF operation = "complete" THEN OfKind({"reasoning"}, items) ELSE <<>>
             S == {texts[i] : i \in DOMAIN texts} \cup {calls[i] : i \in DOMAIN calls}
                    \cup {reasoning[i] : i \in DOMAIN reasoning} \cup {told}
             all == texts \o <<told>> \o calls \o reasoning
             message == FromReply(type, operation, n, reply)
  <1>1. IsFiniteSet(DOMAIN items)
    OBVIOUS
  <1>2. message.items = all
    BY DEF FromReply, TellsRefusal
  <1>3. told.kind = "refusal"
    BY DEF Item
  <1> HIDE DEF items
  <1>4. texts \in Seq(S)
    BY <1>1, KindsAreSeq
  <1>5. calls \in Seq(S)
    BY <1>1, KindsAreSeq
  <1>6. reasoning \in Seq(S)
    <2>1. CASE operation = "complete"
      <3>1. reasoning = OfKind({"reasoning"}, items)
        BY <2>1
      <3>2. \A i \in DOMAIN OfKind({"reasoning"}, items) : OfKind({"reasoning"}, items)[i] \in S
        BY <3>1
      <3>3. OfKind({"reasoning"}, items) \in Seq(S)
        BY <1>1, <3>2, KindsAreSeq
      <3> QED BY <3>1, <3>3
    <2> QED BY <2>1
  <1>7. told \in S
    OBVIOUS
  <1> HIDE DEF S, texts, calls, reasoning, told
  <1>8. all \in Seq(S) /\ Len(texts) + 1 \in DOMAIN all /\ all[Len(texts) + 1] = told
    BY <1>4, <1>5, <1>6, <1>7
  <1>9. OfKind({"refusal"}, message.items) # <<>>
    <2> HIDE DEF all
    <2>1. DOMAIN all = 1..Len(all) /\ Len(all) \in Nat
      BY <1>8
    <2>2. IsFiniteSet(DOMAIN all)
      BY <2>1, FS_Interval
    <2>3. all[Len(texts) + 1].kind \in {"refusal"}
      BY <1>3, <1>8
    <2> QED BY <1>2, <1>8, <2>2, <2>3, KindIsSeen
  <1> QED BY <1>9 DEF Reading

-----------------------------------------------------------------------------
(* What calls are made of: providers of the types there are, and only such  *)
(* providers are kept and called.                                          *)
LEMMA TypesThereAre == Types = {"openai", "google", "anthropic"}
  BY DEF Types, Known

Routed ==
    /\ configs \in [Names -> Configs \cup {NotConfigured}]
    /\ DOMAIN providers = Names
    /\ \A name \in Names : providers[name] # NoProvider => providers[name].type \in Types

Requested == request # NoRequest => request.provider.type \in Types

LEMMA ConfigHasType ==
  ASSUME Routed, NEW name \in Names
  PROVE  Config(name).type \in Types \cup {"unknown"}
  <1>1. CASE configs[name] # NotConfigured
    <2>1. configs[name] \in Configs
      BY <1>1 DEF Routed
    <2> QED BY <1>1, <2>1 DEF Config, Configs
  <1>2. CASE configs[name] = NotConfigured
    <2>1. name \in DOMAIN Known => Known[name] \in Types
      BY DEF Types
    <2> QED BY <1>2, <2>1 DEF Config, NotConfigured
  <1> QED BY <1>1, <1>2

LEMMA ProviderHasType ==
  ASSUME Routed, NEW name \in Names, Finds(name)
  PROVE  Provider(name).type \in Types
  BY ConfigHasType DEF Routed, Finds, CanMake, Provider

LEMMA RoutedAtFirst == ClientInit => Routed /\ Requested /\ OutcomesTold
  <1>1. RoutingInit => Routed
    BY DEF RoutingInit, Routed
  <1>2. RoutingMade => Routed
    <2> SUFFICES ASSUME RoutingMade PROVE Routed
      OBVIOUS
    <2>1. configs \in [Names -> Configs \cup {NotConfigured}]
      BY DEF RoutingMade
    <2>2. ASSUME NEW name \in Names PROVE Config(name).type \in Types
      <3>1. CASE name \in DOMAIN Known
        BY <3>1 DEF RoutingMade, Config, NotConfigured, Types
      <3>2. CASE name \notin DOMAIN Known
        <4>1. configs[name] # NotConfigured /\ configs[name] \in Configs /\ configs[name].type # "unknown"
          BY <3>2 DEF RoutingMade
        <4> QED BY <4>1 DEF Config, Configs
      <3> QED BY <3>1, <3>2
    <2>3. DOMAIN providers = Names /\ \A name \in Names : providers[name] = Config(name)
      BY DEF RoutingMade
    <2> QED BY <2>1, <2>2, <2>3 DEF Routed
  <1>3. ClientInit => Requested /\ OutcomesTold
    BY DEF ClientInit, Requested, OutcomesTold, NoOutcome, Outcome, OfSDK, OfGoogle
  <1> QED BY <1>1, <1>2, <1>3 DEF ClientInit

LEMMA RoutedKept ==
  ASSUME Routed, Requested, [ClientNext]_clientVars
  PROVE  Routed' /\ Requested'
  <1>1. ASSUME UNCHANGED <<configs, providers>>, request' = request \/ request' = NoRequest
        PROVE  Routed' /\ Requested'
    BY <1>1 DEF Routed, Requested
  <1>2. CASE Say \/ AnswerTool \/ Receive \/ ReceiveNothing \/ Fail \/ Take \/ UNCHANGED clientVars
    BY <1>1, <1>2 DEF Say, AnswerTool, Receive, ReceiveNothing, Fail, Take, clientVars, routing
  <1>3. CASE Change
    <2>1. request' = request
      BY <1>3 DEF Change
    <2>2. CASE Configure
      <3>1. PICK spelled \in [name : Names, padded : BOOLEAN], config \in Configs :
              /\ configs' = [configs EXCEPT ![Strip(spelled)] = config]
              /\ providers' = [name \in Names |->
                   IF name = Stale(spelled) THEN NoProvider ELSE providers[name]]
        BY <2>2 DEF Configure
      <3>2. configs' \in [Names -> Configs \cup {NotConfigured}]
        BY <3>1 DEF Routed
      <3>3. \A name \in Names : providers'[name] # NoProvider => providers'[name] = providers[name]
        BY <3>1
      <3> QED BY <2>1, <3>1, <3>2, <3>3 DEF Routed, Requested
    <2>3. CASE Reset
      BY <2>1, <2>3 DEF Reset, Routed, Requested
    <2>4. CASE SetEnv
      BY <1>1, <2>1, <2>4 DEF SetEnv
    <2> QED BY <1>3, <2>2, <2>3, <2>4 DEF Change
  <1>4. ASSUME NEW name \in Names, CallNobody(name)
        PROVE  Routed' /\ Requested'
    BY <1>1, <1>4 DEF CallNobody, routing
  <1>5. ASSUME NEW name \in Names, NEW operation \in {"complete", "respond", "embed"},
               NEW format \in Formats, Call(name, operation, format)
        PROVE  Routed' /\ Requested'
    <2>1. Provider(name).type \in Types
      BY <1>5, ProviderHasType DEF Call
    <2>2. providers' = [providers EXCEPT ![name] = Provider(name)] /\ configs' = configs
      BY <1>5 DEF Call, KeepProvider
    <2>3. request' # NoRequest => request'.provider = Provider(name)
      BY <1>5 DEF Call
    <2> QED BY <2>1, <2>2, <2>3 DEF Routed, Requested
  <1> QED BY <1>2, <1>3, <1>4, <1>5 DEF ClientNext

LEMMA OutcomesStayTold ==
  ASSUME Requested, OutcomesTold, [ClientNext]_clientVars
  PROVE  OutcomesTold'
  <1>1. ASSUME outcome' = outcome \/ outcome'.told \in {"none", "reply", "vectors"}
        PROVE  OutcomesTold'
    BY <1>1 DEF OutcomesTold, OfSDK, OfGoogle
  <1>2. CASE Say \/ AnswerTool \/ Change \/ UNCHANGED clientVars
    BY <1>1, <1>2 DEF Say, AnswerTool, Change, clientVars
  <1>3. CASE ReceiveNothing \/ Take
    BY <1>1, <1>3 DEF ReceiveNothing, Take, NoOutcome, Outcome
  <1>4. CASE Receive
    <2> DEFINE Message(reply) ==
                 FromReply(request.provider.type, request.operation, Len(chat), reply)
    <2>1. PICK reply \in Replies :
            \/ outcome' = Outcome(request.provider.type, IF reply.refused THEN "refusal" ELSE "reply",
                                  Reading(Message(reply)))
            \/ outcome' = Outcome(request.provider.type, IF reply.refused THEN "refusal" ELSE "reply", "raised")
      BY <1>4 DEF Receive
    <2>2. CASE reply.refused
      <3>1. IsFiniteSet(DOMAIN reply.blocks)
        <4>1. PICK max \in {MaxBlocks, 1} : reply.blocks \in BoundedSeq(Blocks, max)
          BY DEF Replies, Reply
        <4>2. PICK n \in 0..max : reply.blocks \in [1..n -> Blocks]
          BY <4>1 DEF BoundedSeq, SeqOf
        <4> QED BY <4>2, FS_Interval
      <3>2. Reading(Message(reply)) # "answer"
        BY <2>2, <3>1, RefusalIsTold
      <3>3. outcome'.told = "refusal" /\ outcome'.status # "answer"
        BY <2>1, <2>2, <3>2 DEF Outcome
      <3> QED BY <3>3 DEF OutcomesTold, OfSDK, OfGoogle
    <2>3. CASE ~reply.refused
      BY <1>1, <2>1, <2>3 DEF Outcome
    <2> QED BY <2>2, <2>3
  <1>5. CASE Fail
    <2>1. PICK exception \in Raises(request.provider.type, request.operation) :
            outcome' = Outcome(request.provider.type, exception, MapError(request.provider.type, exception))
      BY <1>5 DEF Fail
    <2>2. request.provider.type \in {"openai", "google", "anthropic"}
      BY <1>5, TypesThereAre DEF Fail, Requested
    <2>3. Tells(request.provider.type, exception)
      <3>1. CASE request.provider.type = "google"
        BY <3>1, GoogleTells DEF Raises
      <3>2. CASE request.provider.type \in {"openai", "anthropic"}
        <4>1. exception \in OfSDK \cup {"timed_out", "defect"}
          BY <3>2 DEF Raises
        <4> QED BY <3>2, <4>1, OpenAITells
      <3> QED BY <2>2, <3>1, <3>2
    <2>4. exception # "refusal"
      BY DEF Raises, OfSDK, OfGoogle
    <2> QED BY <2>1, <2>3, <2>4 DEF Outcome, OutcomesTold, Tells
  <1>6. ASSUME NEW name \in Names, CallNobody(name)
        PROVE  OutcomesTold'
    BY <1>1, <1>6 DEF CallNobody, Outcome
  <1>7. ASSUME NEW name \in Names, NEW operation \in {"complete", "respond", "embed"},
               NEW format \in Formats, Call(name, operation, format)
        PROVE  OutcomesTold'
    <2>1. outcome'.told = "none"
      BY <1>7 DEF Call, NoOutcome, Outcome
    <2> QED BY <1>1, <2>1
  <1> QED BY <1>2, <1>3, <1>4, <1>5, <1>6, <1>7 DEF ClientNext

(* Whatever was configured and said before: a refusal is never taken for    *)
(* an answer, whichever way the provider tells it, and exactly the rate     *)
(* limits, timeouts and errors of the server are tried again (the handlers  *)
(* of _map_error, and the fields of a message that a workflow reads).       *)
THEOREM CallersAreTold == ClientSpec => []OutcomesTold
  <1> DEFINE Inv == Routed /\ Requested /\ OutcomesTold
  <1>1. ClientInit => Inv
    BY RoutedAtFirst
  <1>2. Inv /\ [ClientNext]_clientVars => Inv'
    BY RoutedKept, OutcomesStayTold
  <1> HIDE DEF Inv
  <1>3. ClientSpec => []Inv
    BY <1>1, <1>2, PTL DEF ClientSpec
  <1>4. Inv => OutcomesTold
    BY DEF Inv
  <1> QED BY <1>3, <1>4, PTL

-----------------------------------------------------------------------------
(* Any number of processes that start at the same time leave a stored id   *)
(* behind, if none of them dies and the file system allows it.             *)
Opened == \A p \in Procs : /\ pc[p] \in {"read", "read_theirs"} => handle[p] \in Files
                           /\ pc[p] = "write" => handle[p] = p

(* Somebody at work will still see to an id when there is none stored:     *)
(* there is no file, or its creator has not written to it, or an earlier   *)
(* process left it empty.                                                  *)
Missing == file = Absent => \E p \in Procs : pc[p] \in {"exists", "open", "create"}

Begun == \A q \in Procs : file = q /\ content[q] = Empty => pc[q] = "write"

SeesTo(p) == pc[p] \in {"exists", "open", "unlink"} \/ (pc[p] = "read" /\ handle[p] = Old)

Left == file = Old /\ content[Old] = Empty => \E p \in Procs : SeesTo(p)

Undisturbed == writable /\ readable /\ \A p \in Procs : pc[p] # "dead"

IdInv == AnonTypeOK /\ Opened /\ (Undisturbed => Missing /\ Begun /\ Left)

-----------------------------------------------------------------------------
LEMMA IdInit == Init => IdInv
<1> SUFFICES ASSUME Init PROVE IdInv
  OBVIOUS
<1>1. AnonTypeOK
  BY DEF Init, AnonTypeOK, Files, Calls
<1>2. Opened
  BY DEF Init, Opened
<1>3. PICK p \in Procs : pc[p] = "exists"
  BY DistinctNames DEF Init
<1>4. Missing /\ Left
  BY <1>3 DEF Missing, Left, SeesTo
<1>5. Begun
  BY DistinctNames DEF Init, Begun
<1> QED
  BY <1>1, <1>2, <1>4, <1>5 DEF IdInv

(* A step that leaves the files alone keeps the three promises, if who saw *)
(* to the file still does, and a writer goes on writing.                   *)
LEMMA FilesAlone ==
  ASSUME NEW p \in Procs, Undisturbed, Missing, Begun, Left, AnonTypeOK,
         UNCHANGED <<file, content>>,
         \A q \in Procs \ {p} : pc'[q] = pc[q] /\ handle'[q] = handle[q],
         pc[p] # "write",
         file = Absent /\ pc[p] \in {"exists", "open", "create"}
             => pc'[p] \in {"exists", "open", "create"},
         file = Old /\ content[Old] = Empty /\ SeesTo(p) => SeesTo(p)'
  PROVE  Missing' /\ Begun' /\ Left'
<1>1. Missing'
  BY DEF Missing
<1>2. Begun'
  BY DEF Begun
<1>3. Left'
  BY DEF Left, SeesTo
<1> QED
  BY <1>1, <1>2, <1>3

LEMMA IdNext == IdInv /\ [Next]_vars => IdInv'
<1> SUFFICES ASSUME IdInv, [Next]_vars PROVE IdInv'
  OBVIOUS
<1>t. AnonTypeOK /\ Opened
  BY DEF IdInv
<1>r. Undisturbed => Missing /\ Begun /\ Left
  BY DEF IdInv
<1>1. ASSUME NEW p \in Procs, Exists(p) PROVE IdInv'
  <2>1. AnonTypeOK'
    BY <1>1, <1>t DEF AnonTypeOK, Exists, Step, Goto, Calls
  <2>2. Opened'
    BY <1>1, <1>t DEF AnonTypeOK, Opened, Exists, Goto
  <2>3. ASSUME Undisturbed' PROVE Missing' /\ Begun' /\ Left'
    <3>1. Undisturbed
      BY <1>1, <1>t, <2>3 DEF Undisturbed, AnonTypeOK, Exists, Step, Goto
    <3>2. /\ file' = file /\ content' = content /\ handle' = handle
          /\ \A q \in Procs \ {p} : pc'[q] = pc[q]
          /\ pc[p] = "exists" /\ pc'[p] = IF file # Absent THEN "open" ELSE "create"
      BY <1>1, <1>t DEF AnonTypeOK, Exists, Goto
    <3>3. file = Old /\ content[Old] = Empty /\ SeesTo(p) => SeesTo(p)'
      BY <3>2, DistinctNames DEF SeesTo
    <3> QED
      BY <1>r, <1>t, <3>1, <3>2, <3>3, FilesAlone
  <2> QED
    BY <2>1, <2>2, <2>3 DEF IdInv
<1>2. ASSUME NEW p \in Procs, Open(p) PROVE IdInv'
  <2>1. AnonTypeOK'
    BY <1>2, <1>t DEF AnonTypeOK, Open, Step, Goto, Calls
  <2>2. Opened'
    BY <1>2, <1>t DEF AnonTypeOK, Opened, Open, Goto
  <2>3. ASSUME Undisturbed' PROVE Missing' /\ Begun' /\ Left'
    <3>1. Undisturbed
      BY <1>2, <1>t, <2>3 DEF Undisturbed, AnonTypeOK, Open, Step, Goto
    <3>2. /\ file' = file /\ content' = content
          /\ \A q \in Procs \ {p} : pc'[q] = pc[q] /\ handle'[q] = handle[q]
          /\ pc[p] = "open" /\ pc'[p] = (IF file # Absent THEN "read" ELSE "create")
          /\ handle'[p] = file
      BY <1>2, <1>t, <3>1 DEF AnonTypeOK, Open, Goto, Undisturbed
    <3>3. file = Old /\ content[Old] = Empty /\ SeesTo(p) => SeesTo(p)'
      BY <3>2, DistinctNames DEF SeesTo
    <3> QED
      BY <1>r, <1>t, <3>1, <3>2, <3>3, FilesAlone
  <2> QED
    BY <2>1, <2>2, <2>3 DEF IdInv
<1>3. ASSUME NEW p \in Procs, Read(p) PROVE IdInv'
  <2>0. /\ handle[p] \in Files /\ content[handle[p]] \in Procs \cup {Old, Empty}
        /\ content[handle[p]] # Empty => content[handle[p]] \in Procs \cup {Old, Anon, Absent}
    BY <1>3, <1>t DEF AnonTypeOK, Opened, Read
  <2>1. AnonTypeOK'
    BY <1>3, <1>t, <2>0 DEF AnonTypeOK, Read, Step, Goto, Return, Calls
  <2>2. Opened'
    BY <1>3, <1>t DEF AnonTypeOK, Opened, Read, Goto, Return
  <2>3. ASSUME Undisturbed' PROVE Missing' /\ Begun' /\ Left'
    <3>1. Undisturbed
      BY <1>3, <1>t, <2>3 DEF Undisturbed, AnonTypeOK, Read, Step, Goto, Return
    <3>2. /\ file' = file /\ content' = content /\ handle' = handle
          /\ \A q \in Procs \ {p} : pc'[q] = pc[q]
          /\ pc[p] = "read" /\ pc'[p] = (IF content[handle[p]] # Empty THEN "done" ELSE "unlink")
      BY <1>3, <1>t DEF AnonTypeOK, Read, Goto, Return
    <3>3. file = Old /\ content[Old] = Empty /\ SeesTo(p) => SeesTo(p)'
      BY <3>2 DEF SeesTo
    <3> QED
      BY <1>r, <1>t, <3>1, <3>2, <3>3, FilesAlone
  <2> QED
    BY <2>1, <2>2, <2>3 DEF IdInv
<1>4. ASSUME NEW p \in Procs, Unlink(p) PROVE IdInv'
  <2>1. AnonTypeOK'
    BY <1>4, <1>t DEF AnonTypeOK, Unlink, Step, Goto, Calls
  <2>2. Opened'
    BY <1>4, <1>t DEF AnonTypeOK, Opened, Unlink, Goto
  <2>3. ASSUME Undisturbed' PROVE Missing' /\ Begun' /\ Left'
    <3>1. file' = Absent /\ pc'[p] = "create"
      BY <1>4, <1>t, <2>3 DEF AnonTypeOK, Unlink, Goto, Step, Undisturbed
    <3> QED
      BY <3>1, DistinctNames DEF Missing, Begun, Left
  <2> QED
    BY <2>1, <2>2, <2>3 DEF IdInv
<1>5. ASSUME NEW p \in Procs, Create(p) PROVE IdInv'
  <2>1. AnonTypeOK'
    <3>1. writable' \in BOOLEAN /\ readable' \in BOOLEAN /\ alone' \in [Procs -> BOOLEAN]
      BY <1>5, <1>t DEF AnonTypeOK, Create, Step
    <3>2. pc' \in [Procs -> Calls \cup {"done", "dead"}]
      BY <1>5, <1>t DEF AnonTypeOK, Create, Goto, Return, Calls
    <3>3. handle' \in [Procs -> Files \cup {Absent}] /\ file' \in Files \cup {Absent}
      BY <1>5, <1>t DEF AnonTypeOK, Create, Files
    <3>4. got' \in [Procs -> Procs \cup {Old, Anon, Absent}]
      BY <1>5, <1>t DEF AnonTypeOK, Create, Return
    <3>5. content' = content
      BY <1>5 DEF Create
    <3> QED
      BY <1>t, <3>1, <3>2, <3>3, <3>4, <3>5 DEF AnonTypeOK
  <2>2. Opened'
    BY <1>5, <1>t DEF AnonTypeOK, Opened, Create, Goto, Return
  <2>3. ASSUME Undisturbed' PROVE Missing' /\ Begun' /\ Left'
    <3>1. Undisturbed
      BY <1>5, <1>t, <2>3 DEF Undisturbed, AnonTypeOK, Create, Step, Goto, Return
    <3>2. /\ pc[p] = "create" /\ content' = content
          /\ \A q \in Procs \ {p} : pc'[q] = pc[q] /\ handle'[q] = handle[q]
          /\ \/ file # Absent /\ file' = file /\ pc'[p] = "open_theirs"
             \/ file = Absent /\ file' = p /\ pc'[p] = "write"
      BY <1>5, <1>t, <3>1 DEF AnonTypeOK, Create, Goto, Return, Undisturbed
    <3>3. CASE file # Absent
      <4>1. file = Old /\ content[Old] = Empty /\ SeesTo(p) => SeesTo(p)'
        BY <3>2 DEF SeesTo
      <4> QED
        BY <1>r, <1>t, <3>1, <3>2, <3>3, <4>1, FilesAlone
    <3>4. CASE file = Absent
      BY <1>r, <3>1, <3>2, <3>4, DistinctNames DEF Missing, Begun, Left
    <3> QED
      BY <3>3, <3>4
  <2> QED
    BY <2>1, <2>2, <2>3 DEF IdInv
<1>6. ASSUME NEW p \in Procs, Write(p) PROVE IdInv'
  <2>0. pc[p] = "write" /\ handle[p] = p
    BY <1>6, <1>t DEF Opened, Write
  <2>1. AnonTypeOK'
    BY <1>6, <1>t, <2>0 DEF AnonTypeOK, Write, Step, Goto, Return, Calls
  <2>2. Opened'
    BY <1>6, <1>t DEF AnonTypeOK, Opened, Write, Goto, Return
  <2>3. ASSUME Undisturbed' PROVE Missing' /\ Begun' /\ Left'
    <3>1. Undisturbed
      BY <1>6, <1>t, <2>3 DEF Undisturbed, AnonTypeOK, Write, Step, Goto, Return
    <3>2. /\ file' = file /\ handle' = handle /\ pc'[p] = "done"
          /\ \A q \in Procs \ {p} : pc'[q] = pc[q] /\ content'[q] = content[q]
          /\ content'[p] = p /\ content'[Old] = content[Old]
      BY <1>6, <1>t, <2>0, DistinctNames DEF AnonTypeOK, Write, Goto, Return, Files
    <3>3. Missing'
      BY <1>r, <2>0, <3>1, <3>2 DEF Missing
    <3>4. Begun'
      BY <1>r, <3>1, <3>2, DistinctNames DEF Begun
    <3>5. Left'
      BY <1>r, <2>0, <3>1, <3>2 DEF Left, SeesTo
    <3> QED
      BY <3>3, <3>4, <3>5
  <2> QED
    BY <2>1, <2>2, <2>3 DEF IdInv
<1>7. ASSUME NEW p \in Procs, OpenTheirs(p) PROVE IdInv'
  <2>1. AnonTypeOK'
    <3>1. writable' \in BOOLEAN /\ readable' \in BOOLEAN /\ alone' \in [Procs -> BOOLEAN]
      BY <1>7, <1>t DEF AnonTypeOK, OpenTheirs, Step
    <3>2. pc' \in [Procs -> Calls \cup {"done", "dead"}]
      BY <1>7, <1>t DEF AnonTypeOK, OpenTheirs, Goto, Return, Calls
    <3>3. handle' \in [Procs -> Files \cup {Absent}] /\ file' \in Files \cup {Absent}
      BY <1>7, <1>t DEF AnonTypeOK, OpenTheirs, Files
    <3>4. got' \in [Procs -> Procs \cup {Old, Anon, Absent}]
      BY <1>7, <1>t DEF AnonTypeOK, OpenTheirs, Return
    <3>5. content' = content
      BY <1>7 DEF OpenTheirs
    <3> QED
      BY <1>t, <3>1, <3>2, <3>3, <3>4, <3>5 DEF AnonTypeOK
  <2>2. Opened'
    BY <1>7, <1>t DEF AnonTypeOK, Opened, OpenTheirs, Goto, Return
  <2>3. ASSUME Undisturbed' PROVE Missing' /\ Begun' /\ Left'
    <3>1. Undisturbed
      BY <1>7, <1>t, <2>3 DEF Undisturbed, AnonTypeOK, OpenTheirs, Step, Goto, Return
    <3>2. /\ file' = file /\ content' = content /\ pc[p] = "open_theirs"
          /\ \A q \in Procs \ {p} : pc'[q] = pc[q] /\ handle'[q] = handle[q]
      BY <1>7, <1>t DEF AnonTypeOK, OpenTheirs, Goto, Return
    <3>3. file = Old /\ content[Old] = Empty /\ SeesTo(p) => SeesTo(p)'
      BY <3>2 DEF SeesTo
    <3> QED
      BY <1>r, <1>t, <3>1, <3>2, <3>3, FilesAlone
  <2> QED
    BY <2>1, <2>2, <2>3 DEF IdInv
<1>8. ASSUME NEW p \in Procs, ReadTheirs(p) PROVE IdInv'
  <2>0. /\ handle[p] \in Files /\ content[handle[p]] \in Procs \cup {Old, Empty}
        /\ content[handle[p]] # Empty => content[handle[p]] \in Procs \cup {Old, Anon, Absent}
    BY <1>8, <1>t DEF AnonTypeOK, Opened, ReadTheirs
  <2>1. AnonTypeOK'
    BY <1>8, <1>t, <2>0 DEF AnonTypeOK, ReadTheirs, Step, Goto, Return, Calls
  <2>2. Opened'
    BY <1>8, <1>t DEF AnonTypeOK, Opened, ReadTheirs, Goto, Return
  <2>3. ASSUME Undisturbed' PROVE Missing' /\ Begun' /\ Left'
    <3>1. Undisturbed
      BY <1>8, <1>t, <2>3 DEF Undisturbed, AnonTypeOK, ReadTheirs, Step, Goto, Return
    <3>2. /\ file' = file /\ content' = content /\ handle' = handle /\ pc[p] = "read_theirs"
          /\ \A q \in Procs \ {p} : pc'[q] = pc[q]
      BY <1>8, <1>t DEF AnonTypeOK, ReadTheirs, Goto, Return
    <3>3. file = Old /\ content[Old] = Empty /\ SeesTo(p) => SeesTo(p)'
      BY <3>2 DEF SeesTo
    <3> QED
      BY <1>r, <1>t, <3>1, <3>2, <3>3, FilesAlone
  <2> QED
    BY <2>1, <2>2, <2>3 DEF IdInv
<1>9. ASSUME NEW p \in Procs, Crash(p) PROVE IdInv'
  <2>1. AnonTypeOK' /\ ~Undisturbed'
    BY <1>9, <1>t DEF AnonTypeOK, Crash, Step, Goto, Undisturbed, Calls
  <2>2. Opened'
    BY <1>9, <1>t DEF AnonTypeOK, Opened, Crash, Goto
  <2> QED
    BY <2>1, <2>2 DEF IdInv
<1>10. CASE UNCHANGED vars
  BY <1>10 DEF vars, IdInv, AnonTypeOK, Opened, Undisturbed, Missing, Begun, Left, SeesTo
<1> QED
  BY <1>1, <1>2, <1>3, <1>4, <1>5, <1>6, <1>7, <1>8, <1>9, <1>10 DEF Next, Over

LEMMA SpecIdInv == Spec => []IdInv
<1> QED
  BY IdInit, IdNext, PTL DEF Spec

(* Ids, files and the places of the processes have their types.            *)
THEOREM AnonTypeCorrect == Spec => []AnonTypeOK
<1> IdInv => AnonTypeOK
  BY DEF IdInv
<1> QED
  BY SpecIdInv, PTL

(* When the first processes of a user are through, however they raced, the *)
(* path holds an id, unless one of them died.                              *)
THEOREM AnIdIsLeft == Spec => []IdSettles
<1>1. ASSUME IdInv PROVE IdSettles
  <2> SUFFICES ASSUME writable, readable, \A p \in Procs : pc[p] = "done" PROVE Stored(file)
    BY DEF IdSettles
  <2>1. Missing /\ Begun /\ Left /\ AnonTypeOK
    BY <1>1 DEF IdInv, Undisturbed
  <2>2. file # Absent
    BY <2>1 DEF Missing
  <2>3. content[file] # Empty
    BY <2>1, <2>2 DEF Begun, Left, SeesTo, AnonTypeOK, Files
  <2> QED
    BY <2>2, <2>3 DEF Stored
<1> QED
  BY <1>1, SpecIdInv, PTL

-----------------------------------------------------------------------------
(* What a process that runs by itself finds at the path.                   *)
Solo(p) ==
    writable /\ readable /\ alone[p] =>
        /\ pc[p] \in {"open", "read", "unlink"} => file # Absent
        /\ pc[p] = "read" => handle[p] = file
        /\ pc[p] = "create" => file = Absent
        /\ pc[p] = "write" => file = p
        /\ pc[p] \notin {"open_theirs", "read_theirs"}

(* The steps of a process, of which the others at work are not alone.      *)
Moves(p) ==
    \/ Exists(p) \/ Open(p) \/ Read(p) \/ Unlink(p)
    \/ Create(p) \/ Write(p) \/ OpenTheirs(p) \/ ReadTheirs(p) \/ Crash(p)

LEMMA MoveFacts ==
  ASSUME AnonTypeOK, NEW p \in Procs, Moves(p)
  PROVE  /\ UNCHANGED <<writable, readable>> /\ (alone'[p] => alone[p])
         /\ \A q \in Procs \ {p} : pc'[q] = pc[q] /\ (alone'[q] => ~AtWork(q))
<1>1. Step(p)
  BY DEF Moves, Exists, Open, Read, Unlink, Create, Write, OpenTheirs, ReadTheirs, Crash
<1>2. UNCHANGED <<writable, readable>> /\ (alone'[p] => alone[p])
  BY <1>1 DEF Step
<1>3. \A q \in Procs \ {p} : alone'[q] => ~AtWork(q)
  BY <1>1 DEF Step
<1>4. \A q \in Procs \ {p} : pc'[q] = pc[q]
  BY DEF AnonTypeOK, Moves, Exists, Open, Read, Unlink, Create, Write, OpenTheirs, ReadTheirs, Crash,
         Goto, Return
<1> QED
  BY <1>2, <1>3, <1>4

(* A process that runs by itself ends with the id that is stored, which it  *)
(* found, or wrote itself.                                                 *)
LEMMA SoloMoves ==
  ASSUME AnonTypeOK, Opened, NEW p \in Procs, Solo(p), Moves(p)
  PROVE  /\ Solo(p)'
         /\ writable /\ readable /\ alone'[p] /\ pc[p] # "done" /\ pc'[p] = "done"
              => Stored(file)' /\ got'[p] = content'[file']
<1> SUFFICES ASSUME writable, readable, alone'[p]
             PROVE  Solo(p)' /\ (pc'[p] = "done" => Stored(file)' /\ got'[p] = content'[file'])
  BY MoveFacts DEF Solo
<1>1. /\ alone[p] /\ UNCHANGED <<writable, readable>>
      /\ DOMAIN pc = Procs /\ DOMAIN handle = Procs /\ DOMAIN got = Procs /\ DOMAIN content = Files
  BY MoveFacts DEF AnonTypeOK
<1>2. /\ pc[p] \in {"open", "read", "unlink"} => file # Absent
      /\ pc[p] = "read" => handle[p] = file
      /\ pc[p] = "create" => file = Absent
      /\ pc[p] = "write" => file = p /\ handle[p] = p
      /\ pc[p] \notin {"open_theirs", "read_theirs"}
  BY <1>1 DEF Solo, Opened
<1>3. CASE Exists(p)
  BY <1>1, <1>3 DEF Exists, Goto, Solo
<1>4. CASE Open(p)
  BY <1>1, <1>2, <1>4 DEF Open, Goto, Solo
<1>5. CASE Read(p)
  BY <1>1, <1>2, <1>5 DEF Read, Goto, Return, Solo, Stored
<1>6. CASE Unlink(p)
  BY <1>1, <1>2, <1>6 DEF Unlink, Goto, Solo
<1>7. CASE Create(p)
  BY <1>1, <1>2, <1>7 DEF Create, Goto, Return, Solo
<1>8. CASE Write(p)
  <2>1. p \in Files /\ p # Absent /\ p # Empty
    BY DistinctNames DEF Files
  <2>2. file' = p /\ content'[p] = p /\ got'[p] = p /\ pc'[p] = "done"
    BY <1>1, <1>2, <1>8, <2>1 DEF Write, Goto, Return
  <2> QED
    BY <2>1, <2>2 DEF Solo, Stored
<1>9. CASE OpenTheirs(p) \/ ReadTheirs(p)
  BY <1>2, <1>9 DEF OpenTheirs, ReadTheirs
<1>10. CASE Crash(p)
  BY <1>1, <1>10 DEF Crash, Goto, Solo
<1> QED
  BY <1>3, <1>4, <1>5, <1>6, <1>7, <1>8, <1>9, <1>10 DEF Moves

LEMMA SoloNext ==
  ASSUME AnonTypeOK, Opened, \A p \in Procs : Solo(p), [Next]_vars
  PROVE  /\ \A p \in Procs : Solo(p)'
         /\ \A p \in Procs :
              writable /\ readable /\ alone'[p] /\ pc[p] # "done" /\ pc'[p] = "done"
                => Stored(file)' /\ got'[p] = content'[file']
<1>1. ASSUME NEW p \in Procs, Moves(p)
      PROVE  \A q \in Procs : /\ Solo(q)'
                              /\ writable /\ readable /\ alone'[q] /\ pc[q] # "done" /\ pc'[q] = "done"
                                   => Stored(file)' /\ got'[q] = content'[file']
  <2>1. ASSUME NEW q \in Procs \ {p}
        PROVE  Solo(q)' /\ ~(pc[q] # "done" /\ pc'[q] = "done")
    BY <1>1, <2>1, MoveFacts DEF Solo, AtWork, Calls
  <2> QED
    BY <1>1, <2>1, SoloMoves
<1>2. CASE UNCHANGED vars
  BY <1>2 DEF vars, Solo
<1> QED
  BY <1>1, <1>2 DEF Next, Moves, Over

(* _get_or_create_anonymous_id: whatever earlier processes left behind, and *)
(* however many there are, a process that runs by itself goes by the stored *)
(* id, and it is stored when the process is done.                          *)
THEOREM AnIdIsRepaired == Spec => RepairsAlone
<1> DEFINE Alone == \A p \in Procs : Solo(p)
           Repairs == \A p \in Procs :
                        writable /\ readable /\ alone'[p] /\ pc[p] # "done" /\ pc'[p] = "done"
                          => Stored(file)' /\ got'[p] = content'[file']
<1>1. Init => Alone
  BY DEF Init, Solo
<1>2. IdInv /\ Alone /\ [Next]_vars => Alone'
  BY SoloNext DEF IdInv
<1>3. IdInv /\ Alone /\ [Next]_vars => [Repairs]_vars
  BY SoloNext DEF IdInv
<1> HIDE DEF Alone
<1>4. Spec => [][Repairs]_vars
  BY <1>1, <1>2, <1>3, SpecIdInv, PTL DEF Spec
<1> QED
  BY <1>4 DEF RepairsAlone

-----------------------------------------------------------------------------
(* Numbers are well founded: a set of them has a least element, and one     *)
(* that holds 0 and the successors of what it holds has them all.          *)
LEMMA LeastOf ==
  ASSUME NEW T \in SUBSET Nat, T # {}
  PROVE  \E n \in T : \A m \in T : n <= m
  <1>1. IsWellFoundedOn(OpToRel(<,Nat), Nat)
    BY NatLessThanWellFounded
  <1>2. PICK n \in T : \A m \in T : <<m, n>> \notin OpToRel(<,Nat)
    BY <1>1, WFMin
  <1>3. ASSUME NEW m \in T PROVE n <= m
    <2>1. m < n => <<m, n>> \in OpToRel(<,Nat)
      BY DEF OpToRel
    <2>2. m \in Nat /\ n \in Nat /\ ~(m < n)
      BY <1>2, <2>1
    <2> QED BY <2>2
  <1> QED BY <1>3

(* Induction, over a set of numbers.                                        *)
LEMMA AllNumbers ==
  ASSUME NEW T \in SUBSET Nat, 0 \in T, \A n \in T : n + 1 \in T
  PROVE  T = Nat
  <1> SUFFICES ASSUME Nat \ T # {} PROVE FALSE
    OBVIOUS
  <1>1. PICK n \in Nat \ T : \A m \in Nat \ T : n <= m
    BY LeastOf
  <1>2. n # 0 /\ n - 1 \in Nat /\ n - 1 \notin Nat \ T
    BY <1>1
  <1> QED BY <1>1, <1>2

LEMMA MinIsLeast ==
  ASSUME NEW T \in SUBSET Nat, T # {}
  PROVE  Min(T) \in T /\ \A m \in T : Min(T) <= m
  BY LeastOf DEF Min

(* How many of some places there are up to one of them.                    *)
Rank(places, i) == Cardinality(places \cap 1..i)

(* A rank is a number,                                                      *)
LEMMA RankType ==
  ASSUME NEW places, NEW i \in Nat
  PROVE  Rank(places, i) \in Nat
  <1>1. IsFiniteSet(1..i) /\ places \cap 1..i \subseteq 1..i
    BY FS_Interval
  <1> QED BY <1>1, FS_Subset, FS_CardinalityType DEF Rank

(* which grows by one with each place,                                      *)
LEMMA RankStep ==
  ASSUME NEW places, NEW i \in Nat
  PROVE  Rank(places, i + 1) = IF i + 1 \in places THEN Rank(places, i) + 1 ELSE Rank(places, i)
  <1>1. IsFiniteSet(places \cap 1..i)
    <2>1. IsFiniteSet(1..i) /\ places \cap 1..i \subseteq 1..i
      BY FS_Interval
    <2> QED BY <2>1, FS_Subset
  <1>2. CASE i + 1 \in places
    <2>1. places \cap 1..i + 1 = (places \cap 1..i) \cup {i + 1} /\ i + 1 \notin places \cap 1..i
      BY <1>2
    <2> QED BY <1>1, <1>2, <2>1, FS_AddElement DEF Rank
  <1>3. CASE i + 1 \notin places
    <2>1. places \cap 1..i + 1 = places \cap 1..i
      BY <1>3
    <2> QED BY <1>3, <2>1 DEF Rank
  <1> QED BY <1>2, <1>3

(* from none.                                                               *)
LEMMA RankOfNone ==
  ASSUME NEW places
  PROVE  Rank(places, 0) = 0
  <1>1. places \cap 1..0 = {}
    OBVIOUS
  <1> QED BY <1>1, FS_EmptySet DEF Rank

(* Every number up to how many there are is the rank of a place.            *)
LEMMA RanksAreTaken ==
  ASSUME NEW places, NEW k \in Nat, NEW n \in 1..Rank(places, k)
  PROVE  \E i \in places \cap 1..k : Rank(places, i) = n
  <1> DEFINE P(m) == \A j \in 1..Rank(places, m) : \E i \in places \cap 1..m : Rank(places, i) = j
             T == {m \in Nat : P(m)}
  <1>1. 0 \in T
    BY RankOfNone
  <1>2. ASSUME NEW m \in T PROVE m + 1 \in T
    <2> SUFFICES ASSUME NEW j \in 1..Rank(places, m + 1)
                 PROVE  \E i \in places \cap 1..m + 1 : Rank(places, i) = j
      OBVIOUS
    <2>1. Rank(places, m) \in Nat /\ Rank(places, m + 1) \in Nat
      BY RankType
    <2>2. CASE j \in 1..Rank(places, m)
      BY <1>2, <2>2
    <2>3. CASE j \notin 1..Rank(places, m)
      BY <2>1, <2>3, RankStep
    <2> QED BY <2>2, <2>3
  <1>3. T = Nat
    <2> HIDE DEF P
    <2>1. T \in SUBSET Nat
      OBVIOUS
    <2> HIDE DEF T
    <2> QED BY <1>1, <1>2, <2>1, AllNumbers
  <1> QED BY <1>3

(* The place that Nth finds is one of the places, and is the n-th.          *)
LEMMA NthIsThere ==
  ASSUME NEW k \in Nat, NEW places \in SUBSET (1..k), NEW n \in 1..Cardinality(places)
  PROVE  Nth(places, n) \in places /\ Rank(places, Nth(places, n)) = n
  <1> DEFINE T == {i \in places : Rank(places, i) = n}
  <1>1. places \cap 1..k = places
    OBVIOUS
  <1>2. T # {} /\ T \in SUBSET Nat
    <2>1. Rank(places, k) = Cardinality(places)
      BY <1>1 DEF Rank
    <2>2. n \in 1..Rank(places, k)
      BY <2>1
    <2>3. \E i \in places \cap 1..k : Rank(places, i) = n
      BY <2>2, RanksAreTaken
    <2>4. T # {}
      BY <2>3
    <2>5. ASSUME NEW i \in T PROVE i \in Nat
      <3>1. i \in 1..k
        OBVIOUS
      <3> QED BY <3>1
    <2> QED BY <2>4, <2>5
  <1>3. Nth(places, n) = Min(T)
    BY DEF Nth, Rank
  <1> HIDE DEF T
  <1>4. Min(T) \in T
    BY <1>2, MinIsLeast
  <1> QED BY <1>3, <1>4 DEF T

(* One more place makes one more.                                           *)
LEMMA CountOfPlaces ==
  ASSUME NEW k \in Nat, NEW places \in SUBSET (1..k)
  PROVE  /\ IsFiniteSet(places) /\ Cardinality(places) \in Nat
         /\ Cardinality(places \cup {k + 1}) = Cardinality(places) + 1
  <1>1. IsFiniteSet(places)
    <2>1. IsFiniteSet(1..k)
      BY FS_Interval
    <2> QED BY <2>1, FS_Subset
  <1>2. k + 1 \notin places
    OBVIOUS
  <1> QED BY <1>1, <1>2, FS_AddElement, FS_CardinalityType

(* What is kept of a list does not change with what is added behind it,     *)
LEMMA ThoseSame ==
  ASSUME NEW S, NEW list \in Seq(S), NEW x, NEW places \in SUBSET DOMAIN list
  PROVE  Those(Append(list, x), places) = Those(list, places)
  <1>1. Len(list) \in Nat /\ DOMAIN list = 1..Len(list)
    OBVIOUS
  <1>2. ASSUME NEW n \in 1..Cardinality(places)
        PROVE  Append(list, x)[Nth(places, n)] = list[Nth(places, n)]
    <2>1. Nth(places, n) \in 1..Len(list)
      BY <1>1, NthIsThere
    <2> QED BY <2>1
  <1> QED BY <1>2 DEF Those

(* and has the addition at its end if that is kept too.                     *)
LEMMA ThoseMore ==
  ASSUME NEW S, NEW list \in Seq(S), NEW x, NEW places \in SUBSET DOMAIN list
  PROVE  Those(Append(list, x), places \cup {Len(list) + 1}) = Append(Those(list, places), x)
  <1> DEFINE k == Len(list)
             more == places \cup {k + 1}
             c == Cardinality(places)
  <1>1. /\ k \in Nat /\ DOMAIN list = 1..k /\ places \in SUBSET (1..k)
        /\ c \in Nat /\ Cardinality(more) = c + 1
    <2>1. k \in Nat /\ DOMAIN list = 1..k /\ places \in SUBSET (1..k)
      OBVIOUS
    <2> HIDE DEF k
    <2> QED BY <2>1, CountOfPlaces
  <1> HIDE DEF k, c
  <1>2. \A i \in 1..k : Rank(more, i) = Rank(places, i)
    <2>1. \A i \in 1..k : more \cap 1..i = places \cap 1..i
      BY <1>1
    <2> QED BY <2>1 DEF Rank
  <1>3. Rank(more, k + 1) = c + 1
    <2>1. more \cap 1..k + 1 = more
      BY <1>1
    <2> QED BY <1>1, <2>1 DEF Rank
  <1>4. ASSUME NEW n \in 1..c
        PROVE  Nth(more, n) = Nth(places, n)
    <2>0. n # c + 1 /\ more = places \cup {k + 1}
      BY <1>1
    <2> HIDE DEF more
    <2>1. {i \in more : Rank(more, i) = n} = {i \in places : Rank(places, i) = n}
      BY <2>0, <1>1, <1>2, <1>3
    <2> QED BY <2>1 DEF Nth, Rank
  <1>5. Nth(more, c + 1) = k + 1
    <2>1. c + 1 \in 1..Cardinality(more) /\ k + 1 \in Nat /\ more \in SUBSET (1..k + 1)
      BY <1>1
    <2>2. Nth(more, c + 1) \in more /\ Rank(more, Nth(more, c + 1)) = c + 1
      BY <2>1, NthIsThere
    <2>3. ASSUME NEW i \in places PROVE Rank(more, i) # c + 1
      <3>1. Rank(places, i) <= c
        <4>1. places \cap 1..i \subseteq places /\ IsFiniteSet(places)
          BY <1>1, CountOfPlaces
        <4> QED BY <4>1, FS_Subset DEF Rank, c
      <3>2. Rank(more, i) = Rank(places, i) /\ Rank(places, i) \in Nat
        <4>1. i \in 1..k /\ i \in Nat
          BY <1>1
        <4> QED BY <4>1, <1>2, RankType
      <3> QED BY <1>1, <3>1, <3>2
    <2> QED BY <2>2, <2>3
  <1>6. \A n \in 1..c : list[Nth(places, n)] = Append(list, x)[Nth(more, n)]
    <2> SUFFICES ASSUME NEW n \in 1..c PROVE list[Nth(places, n)] = Append(list, x)[Nth(more, n)]
      OBVIOUS
    <2>1. Nth(places, n) \in 1..k
      BY <1>1, NthIsThere DEF c
    <2>2. Append(list, x)[Nth(places, n)] = list[Nth(places, n)]
      BY <2>1 DEF k
    <2> QED BY <1>4, <2>2
  <1>7. Append(list, x)[k + 1] = x
    BY DEF k
  <1>8. Those(Append(list, x), more) = [n \in 1..c + 1 |-> IF n = c + 1 THEN x ELSE list[Nth(places, n)]]
    <2>1. \A n \in 1..c + 1 : n \in 1..c \/ n = c + 1
      BY <1>1
    <2>2. \A n \in 1..c + 1 : Append(list, x)[Nth(more, n)] = IF n = c + 1 THEN x ELSE list[Nth(places, n)]
      BY <1>5, <1>6, <1>7, <2>1
    <2> QED BY <1>1, <2>2 DEF Those
  <1>9. Those(list, places) = [n \in 1..c |-> list[Nth(places, n)]]
    BY DEF Those, c
  <1> DEFINE f == [n \in 1..c |-> list[Nth(places, n)]]
             V == {list[Nth(places, n)] : n \in 1..c} \cup {x}
  <1>10. f \in Seq(V) /\ Len(f) = c /\ x \in V
    <2>1. f \in [1..c -> V]
      OBVIOUS
    <2> HIDE DEF f, V
    <2>2. x \in V
      BY DEF V
    <2>3. f \in Seq(V)
      BY <1>1, <2>1
    <2> QED BY <1>1, <2>1, <2>2, <2>3
  <1>11. Append(f, x) = [n \in 1..c + 1 |-> IF n = c + 1 THEN x ELSE f[n]]
    <2> HIDE DEF f, V
    <2> DEFINE g == [n \in 1..c + 1 |-> IF n = c + 1 THEN x ELSE f[n]]
    <2>1. Append(f, x) \in Seq(V) /\ Len(Append(f, x)) = c + 1
      BY <1>10
    <2>2. \A n \in 1..c + 1 : Append(f, x)[n] = g[n]
      BY <1>1, <1>10
    <2>3. g \in [1..c + 1 -> V]
      BY <1>1, <1>10
    <2>4. g \in Seq(V) /\ Len(g) = c + 1
      BY <1>1, <2>3
    <2> HIDE DEF g
    <2>5. Append(f, x) = g
      BY <2>1, <2>2, <2>4, SeqEqual
    <2> QED BY <2>5 DEF g
  <1>12. \A n \in 1..c : f[n] = list[Nth(places, n)]
    OBVIOUS
  <1>13. [n \in 1..c + 1 |-> IF n = c + 1 THEN x ELSE f[n]]
           = [n \in 1..c + 1 |-> IF n = c + 1 THEN x ELSE list[Nth(places, n)]]
    <2> HIDE DEF f
    <2>1. \A n \in 1..c + 1 : n = c + 1 \/ n \in 1..c
      BY <1>1
    <2> QED BY <1>12, <2>1
  <1>14. Those(Append(list, x), more) = Append(Those(list, places), x)
    <2> HIDE DEF more
    <2> QED BY <1>8, <1>9, <1>11, <1>13
  <1> QED BY <1>14 DEF k

-----------------------------------------------------------------------------
(* What the scanner shows of turns: each prefix of them.                   *)
Acc(turns, f, n) ==
    f = [m \in 0..n |-> IF m = 0 THEN [pairs |-> <<>>, input |-> 0] ELSE PairUp(turns, f[m - 1], m)]

(* The fold of trace_from_role_content_turns is there for any number of turns. *)
LEMMA AccExists ==
  ASSUME NEW turns, NEW n \in Nat
  PROVE  \E f : Acc(turns, f, n)
  <1> DEFINE T == {k \in Nat : \E f : Acc(turns, f, k)}
  <1>1. 0 \in T
    <2> DEFINE f == [m \in 0..0 |-> [pairs |-> <<>>, input |-> 0]]
               g == [m \in 0..0 |-> IF m = 0 THEN [pairs |-> <<>>, input |-> 0] ELSE PairUp(turns, f[m - 1], m)]
    <2>1. \A m \in 0..0 : f[m] = g[m]
      OBVIOUS
    <2>2. f = g
      BY <2>1
    <2> QED BY <2>2 DEF Acc
  <1>2. ASSUME NEW k \in T PROVE k + 1 \in T
    <2>1. PICK f : Acc(turns, f, k)
      OBVIOUS
    <2> DEFINE g == [m \in 0..k + 1 |-> IF m = k + 1 THEN PairUp(turns, f[k], k + 1) ELSE f[m]]
               h == [m \in 0..k + 1 |-> IF m = 0 THEN [pairs |-> <<>>, input |-> 0]
                                        ELSE PairUp(turns, g[m - 1], m)]
    <2>2. ASSUME NEW m \in 0..k + 1 PROVE g[m] = h[m]
      BY <2>1 DEF Acc
    <2>3. g = h
      BY <2>2
    <2>4. Acc(turns, g, k + 1)
      <3> HIDE DEF g
      <3> QED BY <2>3 DEF Acc
    <2> QED BY <2>4
  <1>3. T = Nat
    <2>1. T \in SUBSET Nat
      OBVIOUS
    <2> HIDE DEF T
    <2> QED BY <1>1, <1>2, <2>1, AllNumbers
  <1> QED BY <1>3

(* Its value is what is paired up at the last turn.                         *)
LEMMA PairsByPrefix ==
  ASSUME NEW S, NEW turns \in Seq(S)
  PROVE  \E f : /\ f[0] = [pairs |-> <<>>, input |-> 0]
                /\ \A n \in 1..Len(turns) : f[n] = PairUp(turns, f[n - 1], n)
                /\ Pairs(turns) = Waiting(f[Len(turns)])
  <1> DEFINE f == CHOOSE g : Acc(turns, g, Len(turns))
  <1>1. Acc(turns, f, Len(turns))
    BY AccExists
  <1>2. Pairs(turns) = Waiting(f[Len(turns)])
    BY DEF Pairs, Acc
  <1> HIDE DEF f
  <1>3. f[0] = [pairs |-> <<>>, input |-> 0] /\ \A n \in 1..Len(turns) : f[n] = PairUp(turns, f[n - 1], n)
    <2> DEFINE N == Len(turns)
    <2>1. N \in Nat /\ f
            = [m \in 0..N |-> IF m = 0 THEN [pairs |-> <<>>, input |-> 0] ELSE PairUp(turns, f[m - 1], m)]
      BY <1>1 DEF Acc
    <2> HIDE DEF N
    <2>2. \A m \in 0..N : f[m] = IF m = 0 THEN [pairs |-> <<>>, input |-> 0] ELSE PairUp(turns, f[m - 1], m)
      BY <2>1
    <2>3. \A m \in 1..N : m \in 0..N /\ m # 0
      OBVIOUS
    <2>4. 0 \in 0..N
      BY <2>1
    <2> QED BY <2>2, <2>3, <2>4 DEF N
  <1> QED BY <1>2, <1>3

(* What is so of the pairs of the first n turns: the inputs are the turns of *)
(* the user, in their order, each with the first reply before the next one. *)
Users(turns, n) == {i \in 1..n : turns[i].role = "user"}

Upto(n) == [i \in 1..n |-> i]

(* The first reply between two places, if there is one.                    *)
RepliesIn(turns, first, until) == {i \in first + 1..until - 1 : turns[i].role = "assistant"}

FirstReply(reply, replies) ==
    IF replies = {} THEN reply = 0 ELSE reply \in replies /\ \A i \in replies : reply <= i

Until(trace, k, n) == IF k = Len(trace) THEN n + 1 ELSE trace[k + 1][2]

Prefixed(turns, trace, n) ==
    /\ [k \in DOMAIN trace |-> trace[k][2]] = Those(Upto(n), Users(turns, n))
    /\ \A k \in DOMAIN trace :
         FirstReply(trace[k][3], RepliesIn(turns, trace[k][2], Until(trace, k, n)))

PairTypes == {"pair"} \X Nat \X Nat

(* What the loop carries: a pair that waits for its reply is the last one.  *)
AccOf(turns, acc, n) ==
    /\ acc = [pairs |-> acc.pairs, input |-> acc.input]
    /\ acc.pairs \in Seq(PairTypes) /\ acc.input \in 0..n
    /\ Prefixed(turns, Waiting(acc), n)
    /\ \A k \in DOMAIN acc.pairs : acc.pairs[k][2] \in 1..n
    /\ acc.input = 0 /\ acc.pairs # <<>> => acc.pairs[Len(acc.pairs)][3] # 0

(* The pairs, with the one that waits.                                      *)
LEMMA WaitingType ==
  ASSUME NEW turns, NEW n \in Nat, NEW acc, AccOf(turns, acc, n)
  PROVE  /\ Waiting(acc) \in Seq(PairTypes)
         /\ acc.input = 0 => Waiting(acc) = acc.pairs
         /\ acc.input # 0 => /\ Waiting(acc) = Append(acc.pairs, <<"pair", acc.input, 0>>)
                             /\ Len(Waiting(acc)) = Len(acc.pairs) + 1
                             /\ Waiting(acc)[Len(acc.pairs) + 1] = <<"pair", acc.input, 0>>
                             /\ \A k \in 1..Len(acc.pairs) : Waiting(acc)[k] = acc.pairs[k]
         /\ \A k \in DOMAIN Waiting(acc) : Waiting(acc)[k][2] \in 1..n
  <1>1. CASE acc.input = 0
    BY <1>1 DEF AccOf, Waiting
  <1>2. CASE acc.input # 0
    <2>1. <<"pair", acc.input, 0>> \in PairTypes /\ acc.pairs \in Seq(PairTypes) /\ acc.input \in 1..n
      BY <1>2 DEF AccOf, PairTypes
    <2>2. Waiting(acc) = Append(acc.pairs, <<"pair", acc.input, 0>>)
      BY <1>2 DEF Waiting
    <2>3. \A k \in 1..Len(acc.pairs) : acc.pairs[k][2] \in 1..n
      BY <2>1 DEF AccOf
    <2> DEFINE p == <<"pair", acc.input, 0>>
    <2>4. p \in PairTypes /\ p[2] \in 1..n
      BY <2>1
    <2> HIDE DEF p
    <2>5. /\ Append(acc.pairs, p) \in Seq(PairTypes) /\ Len(Append(acc.pairs, p)) = Len(acc.pairs) + 1
          /\ Append(acc.pairs, p)[Len(acc.pairs) + 1] = p /\ Len(acc.pairs) \in Nat
          /\ \A k \in 1..Len(acc.pairs) : Append(acc.pairs, p)[k] = acc.pairs[k]
          /\ DOMAIN Append(acc.pairs, p) = 1..Len(acc.pairs) + 1
      BY <2>1, <2>4
    <2>6. ASSUME NEW k \in DOMAIN Append(acc.pairs, p) PROVE Append(acc.pairs, p)[k][2] \in 1..n
      <3>1. k = Len(acc.pairs) + 1 \/ k \in 1..Len(acc.pairs)
        BY <2>5
      <3> QED BY <2>3, <2>4, <2>5, <3>1
    <2>7. Waiting(acc) = Append(acc.pairs, p)
      BY <2>2 DEF p
    <2> QED BY <1>2, <2>5, <2>6, <2>7 DEF p
  <1> QED BY <1>1, <1>2

(* One more turn is one more of the user, or not.                           *)
LEMMA UsersStep ==
  ASSUME NEW turns, NEW n \in Nat
  PROVE  /\ Upto(n + 1) = Append(Upto(n), n + 1) /\ Upto(n) \in Seq(Nat) /\ Len(Upto(n)) = n
         /\ turns[n + 1].role = "user" =>
              Those(Upto(n + 1), Users(turns, n + 1)) = Append(Those(Upto(n), Users(turns, n)), n + 1)
         /\ turns[n + 1].role # "user" =>
              Those(Upto(n + 1), Users(turns, n + 1)) = Those(Upto(n), Users(turns, n))
  <1>1. Upto(n) \in Seq(Nat) /\ Len(Upto(n)) = n /\ Upto(n + 1) \in Seq(Nat) /\ Len(Upto(n + 1)) = n + 1
    BY DEF Upto
  <1>2. Upto(n + 1) = Append(Upto(n), n + 1)
    <2>1. Append(Upto(n), n + 1) \in Seq(Nat) /\ Len(Append(Upto(n), n + 1)) = n + 1
      BY <1>1
    <2>2. \A i \in 1..n + 1 : Append(Upto(n), n + 1)[i] = i
      BY <1>1 DEF Upto
    <2>3. \A i \in 1..n + 1 : Upto(n + 1)[i] = i
      BY DEF Upto
    <2> QED BY <1>1, <2>1, <2>2, <2>3, SeqEqual
  <1>3. Users(turns, n) \in SUBSET DOMAIN Upto(n)
    BY DEF Users, Upto
  <1>4. ASSUME turns[n + 1].role = "user"
        PROVE  Those(Upto(n + 1), Users(turns, n + 1)) = Append(Those(Upto(n), Users(turns, n)), n + 1)
    <2>1. Users(turns, n + 1) = Users(turns, n) \cup {n + 1}
      BY <1>4 DEF Users
    <2>2. Those(Append(Upto(n), n + 1), Users(turns, n) \cup {Len(Upto(n)) + 1})
            = Append(Those(Upto(n), Users(turns, n)), n + 1)
      <3>1. Upto(n) \in Seq(Nat)
        BY <1>1
      <3> QED BY <1>3, <3>1, ThoseMore
    <2>3. Len(Upto(n)) = n
      BY <1>1
    <2> QED BY <1>2, <2>1, <2>2, <2>3
  <1>5. CASE turns[n + 1].role # "user"
    <2>1. Users(turns, n + 1) = Users(turns, n)
      BY <1>5 DEF Users
    <2> QED BY <1>1, <1>2, <1>3, <1>5, <2>1, ThoseSame
  <1> QED BY <1>1, <1>2, <1>4, <1>5

(* The inputs of the pairs, with one more pair.                             *)
LEMMA Seconds ==
  ASSUME NEW w \in Seq(PairTypes), NEW p \in PairTypes
  PROVE  [k \in DOMAIN Append(w, p) |-> Append(w, p)[k][2]]
           = Append([k \in DOMAIN w |-> w[k][2]], p[2])
  <1> DEFINE a == [k \in DOMAIN Append(w, p) |-> Append(w, p)[k][2]]
             b == [k \in DOMAIN w |-> w[k][2]]
  <1>1. /\ Append(w, p) \in Seq(PairTypes) /\ Len(Append(w, p)) = Len(w) + 1
        /\ \A k \in 1..Len(w) : Append(w, p)[k] = w[k]
        /\ Append(w, p)[Len(w) + 1] = p /\ DOMAIN w = 1..Len(w) /\ Len(w) \in Nat
        /\ DOMAIN Append(w, p) = 1..Len(w) + 1
    OBVIOUS
  <1>2. b \in Seq(Nat) /\ Len(b) = Len(w)
    <2>1. \A k \in 1..Len(w) : w[k][2] \in Nat
      <3>1. \A k \in 1..Len(w) : w[k] \in PairTypes
        BY <1>1
      <3> QED BY <3>1 DEF PairTypes
    <2>2. b \in [1..Len(w) -> Nat]
      BY <1>1, <2>1
    <2> HIDE DEF b
    <2> QED BY <1>1, <2>2
  <1>3. p[2] \in Nat
    BY DEF PairTypes
  <1>4. \A k \in 1..Len(w) + 1 : a[k] = Append(b, p[2])[k]
    <2>1. \A k \in 1..Len(w) + 1 : a[k] = IF k = Len(w) + 1 THEN p[2] ELSE w[k][2]
      BY <1>1
    <2>2. \A k \in 1..Len(w) : b[k] = w[k][2]
      BY <1>1
    <2> HIDE DEF a, b
    <2> QED BY <1>1, <1>2, <1>3, <2>1, <2>2
  <1>5. a \in Seq(Nat) /\ Len(a) = Len(w) + 1
    <2>1. \A k \in 1..Len(w) + 1 : Append(w, p)[k][2] \in Nat
      <3>1. \A k \in 1..Len(w) + 1 : Append(w, p)[k] \in PairTypes
        BY <1>1
      <3> QED BY <3>1 DEF PairTypes
    <2>2. a \in [1..Len(w) + 1 -> Nat]
      BY <1>1, <2>1
    <2> HIDE DEF a
    <2> QED BY <1>1, <2>2
  <1> HIDE DEF a, b
  <1>6. a = Append(b, p[2])
    <2>1. Append(b, p[2]) \in Seq(Nat) /\ Len(Append(b, p[2])) = Len(w) + 1
      BY <1>2, <1>3
    <2> QED BY <1>4, <1>5, <2>1, SeqEqual
  <1> QED BY <1>6 DEF a, b

(* With a turn of the user another pair begins.                             *)
LEMMA UserBegins ==
  ASSUME NEW turns, NEW n \in Nat, NEW acc, AccOf(turns, acc, n), turns[n + 1].role = "user"
  PROVE  AccOf(turns, PairUp(turns, acc, n + 1), n + 1)
  <1> DEFINE w == Waiting(acc)
             p == <<"pair", n + 1, 0>>
             next == PairUp(turns, acc, n + 1)
  <1>1. next = [pairs |-> w, input |-> n + 1]
    BY DEF PairUp
  <1>2. w \in Seq(PairTypes) /\ \A k \in DOMAIN w : w[k][2] \in 1..n
    BY WaitingType
  <1>3. p \in PairTypes /\ p[2] = n + 1 /\ p[3] = 0
    BY DEF PairTypes
  <1> HIDE DEF w, next
  <1>4. Waiting(next) = Append(w, p)
    <2>1. next.input = n + 1 /\ next.pairs = w /\ n + 1 # 0
      BY <1>1
    <2> QED BY <2>1 DEF Waiting
  <1> HIDE DEF p
  <1>5. /\ Len(Append(w, p)) = Len(w) + 1 /\ \A k \in 1..Len(w) : Append(w, p)[k] = w[k]
        /\ Append(w, p)[Len(w) + 1] = p /\ DOMAIN w = 1..Len(w) /\ Len(w) \in Nat
        /\ DOMAIN Append(w, p) = 1..Len(w) + 1
    BY <1>2, <1>3
  <1>6. [k \in DOMAIN Append(w, p) |-> Append(w, p)[k][2]] = Those(Upto(n + 1), Users(turns, n + 1))
    <2>1. [k \in DOMAIN w |-> w[k][2]] = Those(Upto(n), Users(turns, n))
      BY DEF AccOf, Prefixed, w
    <2>2. [k \in DOMAIN Append(w, p) |-> Append(w, p)[k][2]] = Append([k \in DOMAIN w |-> w[k][2]], p[2])
      BY <1>2, <1>3, Seconds
    <2>3. Those(Upto(n + 1), Users(turns, n + 1)) = Append(Those(Upto(n), Users(turns, n)), n + 1)
      BY UsersStep
    <2> QED BY <1>3, <2>1, <2>2, <2>3
  <1>7. ASSUME NEW k \in 1..Len(w)
        PROVE  FirstReply(Append(w, p)[k][3],
                          RepliesIn(turns, Append(w, p)[k][2], Until(Append(w, p), k, n + 1)))
    <2>1. FirstReply(w[k][3], RepliesIn(turns, w[k][2], Until(w, k, n)))
      BY <1>5 DEF AccOf, Prefixed, w
    <2>2. Until(Append(w, p), k, n + 1) = Until(w, k, n)
      <3>0. Len(w) \in Nat
        BY <1>5
      <3>1. k # Len(w) + 1 /\ (k # Len(w) => k + 1 \in 1..Len(w))
        BY <3>0
      <3>2. CASE k = Len(w)
        BY <1>3, <1>5, <3>1, <3>2 DEF Until
      <3>3. CASE k # Len(w)
        BY <1>5, <3>1, <3>3 DEF Until
      <3> QED BY <3>2, <3>3
    <2> QED BY <1>5, <2>1, <2>2
  <1>8. FirstReply(p[3], RepliesIn(turns, p[2], Until(Append(w, p), Len(w) + 1, n + 1)))
    <2>1. Until(Append(w, p), Len(w) + 1, n + 1) = n + 2
      BY <1>5 DEF Until
    <2>2. RepliesIn(turns, n + 1, n + 2) = {}
      BY DEF RepliesIn
    <2> QED BY <1>3, <2>1, <2>2 DEF FirstReply
  <1>9. Prefixed(turns, Waiting(next), n + 1)
    <2> SUFFICES Prefixed(turns, Append(w, p), n + 1)
      BY <1>4
    <2>1. \A k \in DOMAIN Append(w, p) : k = Len(w) + 1 \/ k \in 1..Len(w)
      BY <1>5
    <2> QED BY <1>5, <1>6, <1>7, <1>8, <2>1 DEF Prefixed
  <1>10. AccOf(turns, next, n + 1)
    BY <1>1, <1>2, <1>9 DEF AccOf
  <1> QED BY <1>10 DEF next

(* The first reply ends it.                                                 *)
LEMMA ReplyEnds ==
  ASSUME NEW turns, NEW n \in Nat, NEW acc, AccOf(turns, acc, n),
         turns[n + 1].role = "assistant", acc.input # 0
  PROVE  AccOf(turns, PairUp(turns, acc, n + 1), n + 1)
  <1> DEFINE w == Waiting(acc)
             k0 == Len(acc.pairs) + 1
             p == <<"pair", acc.input, n + 1>>
             next == PairUp(turns, acc, n + 1)
             v == Append(acc.pairs, p)
  <1>1. next = [pairs |-> v, input |-> 0]
    BY DEF PairUp
  <1>2. /\ w \in Seq(PairTypes) /\ Len(w) = k0 /\ w[k0] = <<"pair", acc.input, 0>>
        /\ \A k \in 1..Len(acc.pairs) : w[k] = acc.pairs[k]
        /\ acc.input \in 1..n /\ acc.pairs \in Seq(PairTypes)
    <2>1. acc.input \in 0..n /\ acc.input # 0 /\ acc.pairs \in Seq(PairTypes)
      BY DEF AccOf
    <2>2. acc.input \in 1..n
      BY <2>1
    <2> HIDE DEF w
    <2> QED BY <2>1, <2>2, WaitingType DEF w
  <1>3. p \in PairTypes /\ p[2] = acc.input /\ p[3] = n + 1
    <2>1. acc.input \in Nat /\ n + 1 \in Nat
      BY <1>2
    <2> QED BY <2>1 DEF PairTypes
  <1>4. /\ v \in Seq(PairTypes) /\ Len(v) = k0 /\ k0 \in Nat /\ k0 # 0 /\ v[k0] = p
        /\ DOMAIN v = 1..k0 /\ DOMAIN w = 1..k0
        /\ \A k \in 1..k0 : k # k0 => v[k] = w[k]
    BY SMTT(30), <1>2, <1>3
  <1> HIDE DEF w, p, next, v, k0
  <1>5. Waiting(next) = v
    <2>1. next.input = 0 /\ next.pairs = v
      BY <1>1
    <2> QED BY <2>1 DEF Waiting
  <1>6. \A k \in 1..k0 : v[k][2] = w[k][2]
    BY <1>2, <1>3, <1>4
  <1>7. [k \in DOMAIN v |-> v[k][2]] = Those(Upto(n + 1), Users(turns, n + 1))
    <2>1. [k \in DOMAIN w |-> w[k][2]] = Those(Upto(n), Users(turns, n))
      BY DEF AccOf, Prefixed, w
    <2>2. Those(Upto(n + 1), Users(turns, n + 1)) = Those(Upto(n), Users(turns, n))
      BY UsersStep
    <2> QED BY <1>4, <1>6, <2>1, <2>2
  <1>8. \A k \in 1..k0 : FirstReply(w[k][3], RepliesIn(turns, w[k][2], Until(w, k, n)))
    BY <1>4 DEF AccOf, Prefixed, w
  <1>9. ASSUME NEW k \in 1..k0, k # k0
        PROVE  FirstReply(v[k][3], RepliesIn(turns, v[k][2], Until(v, k, n + 1)))
    <2>1. Until(v, k, n + 1) = Until(w, k, n)
      <3>1. k + 1 \in 1..k0
        BY <1>4, <1>9
      <3> QED BY <1>2, <1>4, <1>6, <1>9, <3>1 DEF Until
    <2> QED BY <1>4, <1>8, <1>9, <2>1
  <1>10. FirstReply(v[k0][3], RepliesIn(turns, v[k0][2], Until(v, k0, n + 1)))
    <2>1. FirstReply(0, RepliesIn(turns, acc.input, n + 1))
      <3>1. k0 \in 1..k0 /\ Until(w, k0, n) = n + 1
        BY <1>2, <1>4 DEF Until
      <3> QED BY <1>2, <1>8, <3>1
    <2>2. RepliesIn(turns, acc.input, n + 1) = {}
      <3>1. 0 \notin RepliesIn(turns, acc.input, n + 1)
        BY <1>2 DEF RepliesIn
      <3> QED BY <2>1, <3>1 DEF FirstReply
    <2>3. RepliesIn(turns, acc.input, n + 2) = {n + 1}
      <3>1. acc.input + 1..(n + 2) - 1 = (acc.input + 1..(n + 1) - 1) \cup {n + 1}
        BY <1>2
      <3> QED BY <2>2, <3>1 DEF RepliesIn
    <2>4. Until(v, k0, n + 1) = n + 2
      BY <1>4 DEF Until
    <2> QED BY <1>3, <1>4, <2>3, <2>4 DEF FirstReply
  <1>11. Prefixed(turns, v, n + 1)
    BY <1>4, <1>7, <1>9, <1>10 DEF Prefixed
  <1>12. \A k \in 1..k0 : v[k][2] \in 1..n + 1
    <2>1. \A k \in 1..k0 : w[k][2] \in 1..n
      BY <1>4, WaitingType DEF w
    <2> QED BY <1>6, <2>1
  <1>13. AccOf(turns, next, n + 1)
    <2>1. v[Len(v)][3] # 0
      BY <1>3, <1>4
    <2> QED BY <1>1, <1>4, <1>5, <1>11, <1>12, <2>1 DEF AccOf
  <1> QED BY <1>13 DEF next

(* Another reply, or a turn that is of neither side, changes nothing.       *)
LEMMA OthersPass ==
  ASSUME NEW turns, NEW n \in Nat, NEW acc, AccOf(turns, acc, n),
         turns[n + 1].role # "user", turns[n + 1].role = "assistant" => acc.input = 0
  PROVE  AccOf(turns, PairUp(turns, acc, n + 1), n + 1)
  <1> DEFINE w == Waiting(acc)
  <1>1. PairUp(turns, acc, n + 1) = acc
    BY DEF PairUp
  <1>2. /\ w \in Seq(PairTypes) /\ DOMAIN w = 1..Len(w) /\ Len(w) \in Nat
        /\ \A k \in 1..Len(w) : w[k][2] \in 1..n
        /\ acc.input = 0 /\ w # <<>> => w[Len(w)][3] # 0
    <2>1. w \in Seq(PairTypes) /\ \A k \in DOMAIN w : w[k][2] \in 1..n
      BY WaitingType
    <2>2. acc.input = 0 => w = acc.pairs
      BY WaitingType
    <2> HIDE DEF w
    <2> QED BY <2>1, <2>2 DEF AccOf
  <1>3. [k \in DOMAIN w |-> w[k][2]] = Those(Upto(n + 1), Users(turns, n + 1))
    BY UsersStep DEF AccOf, Prefixed
  <1>4. \A k \in 1..Len(w) : FirstReply(w[k][3], RepliesIn(turns, w[k][2], Until(w, k, n)))
    BY <1>2 DEF AccOf, Prefixed
  <1> HIDE DEF w
  <1>5. ASSUME NEW k \in 1..Len(w)
        PROVE  FirstReply(w[k][3], RepliesIn(turns, w[k][2], Until(w, k, n + 1)))
    <2>1. CASE k # Len(w)
      <3>1. Until(w, k, n + 1) = Until(w, k, n)
        BY <2>1 DEF Until
      <3> QED BY <1>4, <3>1
    <2>2. CASE k = Len(w)
      <3> DEFINE first == w[k][2]
                 reply == w[k][3]
                 old == RepliesIn(turns, first, n + 1)
                 new == RepliesIn(turns, first, n + 2)
      <3>1. first \in 1..n /\ FirstReply(reply, old) /\ Until(w, k, n + 1) = n + 2
        <4>1. Until(w, k, n) = n + 1 /\ Until(w, k, n + 1) = n + 2
          BY <2>2 DEF Until
        <4> QED BY <1>2, <1>4, <4>1
      <3>2. (first + 1..(n + 2) - 1) = (first + 1..(n + 1) - 1) \cup {n + 1}
        BY <3>1
      <3>3. CASE turns[n + 1].role # "assistant"
        <4>1. new = old
          BY <3>2, <3>3 DEF RepliesIn
        <4> QED BY <3>1, <4>1
      <3>4. CASE turns[n + 1].role = "assistant"
        <4>1. new = old \cup {n + 1}
          BY <3>2, <3>4 DEF RepliesIn
        <4>2. acc.input = 0 /\ w # <<>>
          BY <1>2, <2>2, <3>4
        <4>3. reply # 0
          BY <1>2, <2>2, <4>2
        <4>4. reply \in old /\ \A i \in old : reply <= i
          BY <3>1, <4>3 DEF FirstReply
        <4>5. reply <= n + 1
          BY <3>1, <4>4 DEF RepliesIn
        <4>6. FirstReply(reply, new)
          BY <4>1, <4>4, <4>5 DEF FirstReply
        <4> QED BY <3>1, <4>6
      <3> QED BY <3>3, <3>4
    <2> QED BY <2>1, <2>2
  <1>6. Prefixed(turns, w, n + 1)
    BY <1>2, <1>3, <1>5 DEF Prefixed
  <1>7. AccOf(turns, acc, n + 1)
    BY <1>6 DEF AccOf, w
  <1> QED BY <1>1, <1>7

(* trace_from_role_content_turns: every turn of the user is there, with the *)
(* first reply before the next one, for turns of any number and order.      *)
LEMMA PairsAreRight ==
  ASSUME NEW S, NEW turns \in Seq(S)
  PROVE  PairedRight(Pairs(turns), turns)
  <1>1. PICK f : /\ f[0] = [pairs |-> <<>>, input |-> 0]
                 /\ \A n \in 1..Len(turns) : f[n] = PairUp(turns, f[n - 1], n)
                 /\ Pairs(turns) = Waiting(f[Len(turns)])
    BY PairsByPrefix
  <1> DEFINE T == {n \in Nat : n <= Len(turns) => AccOf(turns, f[n], n)}
  <1>2. 0 \in T
    <2>1. f[0].input = 0 /\ f[0].pairs = <<>> /\ Waiting(f[0]) = <<>>
      BY <1>1 DEF Waiting
    <2>2. Prefixed(turns, <<>>, 0)
      <3>1. Users(turns, 0) = {}
        BY DEF Users
      <3>2. Those(Upto(0), {}) = <<>>
        <4>1. Cardinality({}) = 0
          BY FS_EmptySet
        <4> QED BY <4>1 DEF Those
      <3> DEFINE none == f[0].pairs
      <3>3. none = <<>> /\ DOMAIN none = {}
        BY <2>1
      <3> HIDE DEF none
      <3>4. [k \in DOMAIN none |-> none[k][2]] = none
        <4>1. [k \in DOMAIN none |-> none[k][2]] = [k \in {} |-> none[k][2]]
          BY <3>3
        <4>2. [k \in {} |-> none[k][2]] = <<>>
          OBVIOUS
        <4> QED BY <4>1, <4>2, <3>3
      <3> QED BY <3>1, <3>2, <3>3, <3>4 DEF Prefixed
    <2>3. f[0].pairs \in Seq(PairTypes) /\ f[0].input \in 0..0
      BY <2>1
    <2>4. AccOf(turns, f[0], 0)
      BY <1>1, <2>1, <2>2, <2>3 DEF AccOf
    <2> QED BY <2>4
  <1>3. ASSUME NEW n \in T PROVE n + 1 \in T
    <2> SUFFICES ASSUME n + 1 <= Len(turns) PROVE AccOf(turns, f[n + 1], n + 1)
      OBVIOUS
    <2>1. f[n + 1] = PairUp(turns, f[n], n + 1) /\ AccOf(turns, f[n], n) /\ n \in Nat
      BY <1>1
    <2> QED BY <2>1, UserBegins, ReplyEnds, OthersPass
  <1>4. T = Nat
    <2>1. T \in SUBSET Nat
      OBVIOUS
    <2> HIDE DEF T
    <2> QED BY <1>2, <1>3, <2>1, AllNumbers
  <1>5. Prefixed(turns, Pairs(turns), Len(turns))
    <2>1. Len(turns) \in Nat
      OBVIOUS
    <2>2. AccOf(turns, f[Len(turns)], Len(turns))
      BY <1>4, <2>1
    <2> QED BY <1>1, <2>2 DEF AccOf
  <1>6. Those(Upto(Len(turns)), Users(turns, Len(turns))) = SaidByUser(turns)
    <2>1. DOMAIN turns = 1..Len(turns)
      OBVIOUS
    <2> QED BY <2>1 DEF SaidByUser, Upto, Users
  <1> QED BY <1>5, <1>6 DEF Prefixed, PairedRight, FirstReply, RepliesIn, Until

-----------------------------------------------------------------------------
(* The id of turns as garak and as the others read it.                     *)
FirstId(turns) == IF Stamps(turns) = {} THEN NoStamp ELSE turns[Min(Stamps(turns))].id
NewestId(turns) == IF Stamps(turns) = {} THEN NoStamp ELSE turns[Max(Stamps(turns))].id

(* What is in the variables.                                                *)
Turns == [role : {"system", "user", "assistant"}, id : Nat]
TalkRecords == [doing : {"unmade", "free", "asking", "over"}, turns : Seq(Turns), calls : Nat,
                round : {1, 2}, parent : Nat, root : Talks]
CallIds == {"call"} \X Talks \X Nat
Entries == [call : CallIds, talk : Talks, round : {1, 2}]

BridgeTypes ==
    /\ tool \in {"garak", "deepteam", "lidar", "raised"}
    /\ talks \in [Talks -> TalkRecords]
    /\ inFlight \in [Talks -> [id : Nat, trace : Seq(CallIds)]]
    /\ minted \in Nat
    /\ DOMAIN traces \subseteq Nat /\ \A id \in DOMAIN traces : traces[id] \in Seq(CallIds)
    /\ answered \in Seq(Entries)

(* Any list, whatever is in it.                                            *)
Listed(list) == \E S : list \in Seq(S)

(* Every id comes from the bridge.                                         *)
IdsMinted ==
    /\ \A t \in Talks : \A i \in DOMAIN talks[t].turns : talks[t].turns[i].id <= minted
    /\ \A t \in Talks : /\ inFlight[t].id <= minted
                        /\ talks[t].doing = "asking" => inFlight[t].id # NoStamp
    /\ \A id \in DOMAIN traces : id # NoStamp /\ id <= minted

(* Traces are reported when every talk is over.                             *)
Reporting ==
    reports # <<>> =>
        /\ tool # "raised"
        /\ \A t \in Talks : talks[t].doing \in {"over", "unmade"}

(* Lidar: what is kept of the calls of an attempt is what was answered since *)
(* it was begun anew, and a call under way is not kept yet.                 *)
AllCalls(t) == [n \in 1..talks[t].calls |-> <<"call", t, n>>]
Kept(t) == {n \in 1..talks[t].calls : <<"call", t, n>> \in byCallId}

LidarInv ==
    tool = "lidar" => \A t \in Talks :
        /\ Those(AllCalls(t), Kept(t)) = OwnCalls(t)
        /\ \A n \in Nat : <<"call", t, n>> \in byCallId =>
             n \in 1..talks[t].calls /\ (talks[t].doing = "asking" => n # talks[t].calls)
        /\ talks[t].doing = "asking" => talks[t].calls # 0

HasId(t, id) == inFlight[t].id = id \/ \E i \in DOMAIN talks[t].turns : talks[t].turns[i].id = id

(* Deepteam: what is kept under the newest id of a test case is what was    *)
(* answered, and no id is in two of them.                                   *)
TraceKept(t) ==
    LET id == NewestId(talks[t].turns)
    IN  /\ id = NoStamp => OwnCalls(t) = <<>>
        /\ id # NoStamp => id \in DOMAIN traces /\ traces[id] = OwnCalls(t) /\ OwnCalls(t) # <<>>
        /\ talks[t].doing = "asking" => inFlight[t].trace = OwnCalls(t)

DeepteamInv ==
    tool = "deepteam" =>
        /\ \A t, u \in Talks : \A id \in Nat : HasId(t, id) /\ HasId(u, id) /\ id # NoStamp => t = u
        /\ \A n \in DOMAIN answered : answered[n].round <= talks[answered[n].talk].round
        /\ \A t \in Talks : TraceKept(t)

ConvId(t) == FirstId(talks[t].turns)
(* Garak: the talk that began the conversation that an attempt goes on with. *)
Root(t) == talks[t].root

(* One attempt is made, asks and is over before the next one,               *)
InTurn ==
    /\ \A t, u \in Talks : u < t /\ talks[t].doing # "unmade" => talks[u].doing = "over"
    /\ \A t \in Talks : talks[t].doing = "unmade" => Root(t) = t /\ ConvId(t) = NoStamp
    /\ \A n \in DOMAIN answered : talks[answered[n].talk].doing # "unmade"

(* has the id of the conversation that it goes on with, which no other has, *)
Rooted ==
    /\ \A t \in Talks : Root(t) <= t /\ Root(Root(t)) = Root(t)
    /\ \A t \in Talks : Root(t) = t => (ConvId(t) # NoStamp <=> talks[t].doing = "over")
    /\ \A t \in Talks : Root(t) # t => ConvId(t) = ConvId(Root(t)) /\ ConvId(t) # NoStamp
    /\ \A t, u \in Talks : Root(t) = t /\ Root(u) = u /\ ConvId(t) = ConvId(u) /\ ConvId(t) # NoStamp => t = u

(* and its trace is with the call under way, or kept under that id until it *)
(* is reported.                                                             *)
Carried ==
    /\ \A t \in Talks : talks[t].doing = "asking" =>
         /\ inFlight[t].trace = OwnCalls(Root(t))
         /\ \/ inFlight[t].id = ConvId(Root(t))
            \/ ConvId(Root(t)) = NoStamp /\ \A u \in Talks : inFlight[t].id # ConvId(u)
    /\ \A t \in Talks : Root(t) = t /\ ConvId(t) = NoStamp => OwnCalls(t) = <<>>
    /\ \A t \in Talks : Root(t) = t /\ ConvId(t) # NoStamp =>
         /\ t \in DOMAIN reports => ConvId(t) \notin DOMAIN traces
         /\ t \notin DOMAIN reports =>
              \/ ConvId(t) \in DOMAIN traces /\ traces[ConvId(t)] = OwnCalls(t)
              \/ \E u \in Talks : talks[u].doing = "asking" /\ Root(u) = t

GarakInv == tool = "garak" => InTurn /\ Rooted /\ Carried

-----------------------------------------------------------------------------
(* Max of places is the greatest of them.                                   *)
LEMMA MaxIsGreatest ==
  ASSUME NEW k \in Nat, NEW T \in SUBSET (1..k), T # {}
  PROVE  Max(T) \in T /\ \A m \in T : m <= Max(T)
  <1> DEFINE U == {k - m : m \in T}
  <1>1. U \in SUBSET Nat /\ U # {}
    <2>1. \A m \in T : k - m \in Nat
      OBVIOUS
    <2> QED BY <2>1
  <1>2. PICK n \in U : \A m \in U : n <= m
    BY <1>1, LeastOf
  <1>3. PICK greatest \in T : n = k - greatest
    OBVIOUS
  <1>4. ASSUME NEW m \in T PROVE greatest >= m
    <2>1. k - m \in U /\ m \in 1..k /\ greatest \in 1..k
      OBVIOUS
    <2>2. k - greatest <= k - m
      BY <1>2, <1>3, <2>1
    <2> QED BY <2>1, <2>2
  <1> QED BY <1>3, <1>4 DEF Max

(* Stamps are places, and the first and the newest id are found there.      *)
LEMMA StampsThere ==
  ASSUME NEW turns \in Seq(Turns)
  PROVE  /\ Stamps(turns) \in SUBSET (1..Len(turns)) /\ Stamps(turns) \in SUBSET Nat
         /\ FirstId(turns) \in Nat /\ NewestId(turns) \in Nat
         /\ FirstId(turns) = NoStamp <=> Stamps(turns) = {}
         /\ NewestId(turns) = NoStamp <=> Stamps(turns) = {}
         /\ FirstId(turns) # NoStamp => \E i \in DOMAIN turns : turns[i].id = FirstId(turns)
         /\ NewestId(turns) # NoStamp => \E i \in DOMAIN turns : turns[i].id = NewestId(turns)
  <1>1. Stamps(turns) \in SUBSET (1..Len(turns)) /\ Stamps(turns) \in SUBSET Nat
    <2>1. Stamps(turns) \in SUBSET (1..Len(turns))
      BY DEF Stamps
    <2>2. (1..Len(turns)) \in SUBSET Nat
      OBVIOUS
    <2> QED BY <2>1, <2>2
  <1>2. \A i \in Stamps(turns) : i \in DOMAIN turns /\ turns[i].id \in Nat /\ turns[i].id # NoStamp
    <2>1. \A i \in DOMAIN turns : turns[i] \in Turns
      OBVIOUS
    <2> QED BY <2>1 DEF Stamps, Turns
  <1>3. NoStamp \in Nat
    BY DEF NoStamp
  <1>4. CASE Stamps(turns) = {}
    BY <1>1, <1>3, <1>4 DEF FirstId, NewestId
  <1>5. CASE Stamps(turns) # {}
    <2>1. Min(Stamps(turns)) \in Stamps(turns)
      BY <1>1, <1>5, MinIsLeast
    <2>2. Max(Stamps(turns)) \in Stamps(turns)
      <3>1. Len(turns) \in Nat
        OBVIOUS
      <3> QED BY <1>1, <1>5, <3>1, MaxIsGreatest
    <2> QED BY <1>1, <1>2, <1>5, <2>1, <2>2 DEF FirstId, NewestId
  <1> QED BY <1>4, <1>5

(* A turn more.                                                             *)
LEMMA Appended ==
  ASSUME NEW S, NEW list \in Seq(S), NEW x \in S
  PROVE  /\ list \o <<x>> = Append(list, x) /\ list \o <<>> = list
         /\ Append(list, x) \in Seq(S) /\ Len(Append(list, x)) = Len(list) + 1 /\ Len(list) \in Nat
         /\ DOMAIN list = 1..Len(list) /\ DOMAIN Append(list, x) = 1..Len(list) + 1
         /\ \A i \in 1..Len(list) : Append(list, x)[i] = list[i]
         /\ Append(list, x)[Len(list) + 1] = x
  BY AppendIsConcat, ConcatEmptySeq, AppendProperties

(* A turn of the user leaves the ids as they are.                           *)
LEMMA UserStamps ==
  ASSUME NEW turns \in Seq(Turns), NEW turn \in Turns, turn.id = NoStamp
  PROVE  /\ FirstId(Append(turns, turn)) = FirstId(turns)
         /\ NewestId(Append(turns, turn)) = NewestId(turns)
  <1> DEFINE more == Append(turns, turn)
  <1>1. /\ Len(turns) \in Nat /\ DOMAIN turns = 1..Len(turns) /\ DOMAIN more = 1..Len(turns) + 1
        /\ \A i \in 1..Len(turns) : more[i] = turns[i]
        /\ more[Len(turns) + 1] = turn
    BY Appended
  <1> HIDE DEF more
  <1>2. Stamps(more) = Stamps(turns)
    <2>1. \A i \in 1..Len(turns) + 1 : i \in 1..Len(turns) \/ i = Len(turns) + 1
      BY <1>1
    <2> QED BY <1>1, <2>1 DEF Stamps
  <1>3. CASE Stamps(turns) = {}
    BY <1>2, <1>3 DEF FirstId, NewestId, more
  <1>4. CASE Stamps(turns) # {}
    <2>1. Min(Stamps(turns)) \in 1..Len(turns)
      BY <1>4, StampsThere, MinIsLeast
    <2>2. Max(Stamps(turns)) \in 1..Len(turns)
      BY <1>1, <1>4, StampsThere, MaxIsGreatest
    <2>3. FirstId(more) = FirstId(turns)
      BY <1>1, <1>2, <1>4, <2>1 DEF FirstId
    <2>4. NewestId(more) = NewestId(turns)
      BY <1>1, <1>2, <1>4, <2>2 DEF NewestId
    <2> QED BY <2>3, <2>4 DEF more
  <1> QED BY <1>3, <1>4

(* A reply of the bridge is the newest, and the first where there was none. *)
LEMMA ReplyStamps ==
  ASSUME NEW turns \in Seq(Turns), NEW turn \in Turns, turn.id # NoStamp
  PROVE  /\ FirstId(Append(turns, turn)) = IF FirstId(turns) = NoStamp THEN turn.id ELSE FirstId(turns)
         /\ NewestId(Append(turns, turn)) = turn.id
  <1> DEFINE more == Append(turns, turn)
             last == Len(turns) + 1
  <1>1. /\ Len(turns) \in Nat /\ DOMAIN turns = 1..Len(turns) /\ DOMAIN more = 1..last
        /\ \A i \in 1..Len(turns) : more[i] = turns[i]
        /\ more[last] = turn
    BY Appended
  <1>2. Stamps(turns) \in SUBSET (1..Len(turns)) /\ Stamps(turns) \in SUBSET Nat
    BY StampsThere
  <1> HIDE DEF more
  <1>3. Stamps(more) = Stamps(turns) \cup {last}
    <2>1. \A i \in 1..last : i \in 1..Len(turns) \/ i = last
      BY <1>1
    <2> QED BY <1>1, <2>1 DEF Stamps
  <1>4. last \in Nat /\ \A i \in Stamps(turns) : i < last
    BY <1>1, <1>2
  <1>5. Stamps(more) \in SUBSET (1..last) /\ Stamps(more) \in SUBSET Nat /\ Stamps(more) # {}
    BY <1>1, <1>2, <1>3, <1>4
  <1>6. Max(Stamps(more)) = last
    <2>1. Max(Stamps(more)) \in Stamps(more) /\ \A m \in Stamps(more) : m <= Max(Stamps(more))
      BY <1>4, <1>5, MaxIsGreatest
    <2>2. last <= Max(Stamps(more))
      BY <1>3, <2>1
    <2>3. Max(Stamps(more)) = last \/ Max(Stamps(more)) \in Stamps(turns)
      BY <1>3, <2>1
    <2>4. Max(Stamps(more)) \in Nat
      BY <1>5, <2>1
    <2> HIDE DEF last
    <2> QED BY <1>4, <2>2, <2>3, <2>4
  <1>7. NewestId(more) = turn.id
    BY <1>1, <1>5, <1>6 DEF NewestId
  <1>8. Min(Stamps(more)) \in Stamps(more) /\ \A m \in Stamps(more) : Min(Stamps(more)) <= m
    BY <1>5, MinIsLeast
  <1>9. CASE Stamps(turns) = {}
    <2>1. Min(Stamps(more)) = last
      BY <1>3, <1>8, <1>9
    <2>2. FirstId(turns) = NoStamp
      BY <1>9 DEF FirstId
    <2> QED BY <1>1, <1>5, <1>7, <2>1, <2>2 DEF FirstId, more
  <1>10. CASE Stamps(turns) # {}
    <2>1. Min(Stamps(turns)) \in Stamps(turns) /\ \A m \in Stamps(turns) : Min(Stamps(turns)) <= m
      BY <1>2, <1>10, MinIsLeast
    <2>2. Min(Stamps(more)) = Min(Stamps(turns))
      <3>1. Min(Stamps(more)) \in Nat /\ Min(Stamps(turns)) \in Nat
        BY <1>2, <1>5, <1>8, <2>1
      <3>2. Min(Stamps(more)) <= Min(Stamps(turns)) /\ Min(Stamps(turns)) < last
        BY <1>3, <1>4, <1>8, <2>1
      <3>3. Min(Stamps(more)) \in Stamps(turns)
        BY <1>1, <1>3, <1>8, <3>1, <3>2
      <3> QED BY <2>1, <3>1, <3>2, <3>3
    <2>3. more[Min(Stamps(turns))] = turns[Min(Stamps(turns))]
      BY <1>1, <1>2, <2>1
    <2>4. FirstId(turns) # NoStamp
      BY <1>10, StampsThere
    <2> QED BY <1>5, <1>7, <1>10, <2>2, <2>3, <2>4 DEF FirstId, more
  <1> QED BY <1>9, <1>10

(* Turns without a stamp have no id.                                        *)
LEMMA NoStamps ==
  ASSUME NEW turns, \A i \in DOMAIN turns : turns[i].id = NoStamp
  PROVE  FirstId(turns) = NoStamp /\ NewestId(turns) = NoStamp
  BY DEF FirstId, NewestId, Stamps

-----------------------------------------------------------------------------
(* The calls of entries, with one entry more.                               *)
CallsAnswered(list) == [n \in DOMAIN list |-> list[n].call]

LEMMA CallsGrow ==
  ASSUME NEW list \in Seq(Entries), NEW e \in Entries, NEW places \in SUBSET DOMAIN list
  PROVE  /\ Those(CallsAnswered(Append(list, e)), places) = Those(CallsAnswered(list), places)
         /\ Those(CallsAnswered(Append(list, e)), places \cup {Len(list) + 1})
              = Append(Those(CallsAnswered(list), places), e.call)
  <1>1. CallsAnswered(list) \in Seq(CallIds) /\ Len(CallsAnswered(list)) = Len(list) /\ e.call \in CallIds
    <2>1. \A n \in 1..Len(list) : list[n] \in Entries
      OBVIOUS
    <2>2. \A n \in 1..Len(list) : list[n].call \in CallIds
      BY <2>1 DEF Entries
    <2>3. CallsAnswered(list) \in [1..Len(list) -> CallIds]
      BY <2>2 DEF CallsAnswered
    <2>4. e.call \in CallIds
      BY DEF Entries
    <2>5. Len(list) \in Nat
      OBVIOUS
    <2> HIDE DEF CallsAnswered
    <2> QED BY <2>3, <2>4, <2>5
  <1>2. CallsAnswered(Append(list, e)) = Append(CallsAnswered(list), e.call)
    <2> DEFINE a == CallsAnswered(Append(list, e))
               b == Append(CallsAnswered(list), e.call)
               k == Len(list)
    <2>1. /\ k \in Nat /\ DOMAIN Append(list, e) = 1..k + 1
          /\ \A n \in 1..k : Append(list, e)[n] = list[n]
          /\ Append(list, e)[k + 1] = e /\ Append(list, e) \in Seq(Entries)
          /\ DOMAIN list = 1..k
      BY Appended
    <2>2. \A n \in 1..k + 1 : a[n] = IF n = k + 1 THEN e.call ELSE list[n].call
      BY <2>1 DEF CallsAnswered
    <2>3. \A n \in 1..k : CallsAnswered(list)[n] = list[n].call
      BY DEF CallsAnswered
    <2>4. b \in Seq(CallIds) /\ Len(b) = k + 1
      BY <1>1, Appended
    <2>5. \A n \in 1..k + 1 : b[n] = IF n = k + 1 THEN e.call ELSE list[n].call
      BY <1>1, <2>3, Appended
    <2>6. a \in Seq(CallIds) /\ Len(a) = k + 1
      <3>1. \A n \in 1..k + 1 : Append(list, e)[n].call \in CallIds
        <4>1. \A n \in 1..k + 1 : Append(list, e)[n] \in Entries
          BY <2>1
        <4> QED BY <4>1 DEF Entries
      <3>2. a \in [1..k + 1 -> CallIds]
        BY <2>1, <3>1 DEF CallsAnswered
      <3> HIDE DEF a, k
      <3> QED BY <2>1, <3>2
    <2> HIDE DEF a, b, k
    <2>7. a = b
      BY <2>2, <2>4, <2>5, <2>6, SeqEqual
    <2> QED BY <2>7 DEF a, b
  <1>3. places \in SUBSET DOMAIN CallsAnswered(list)
    BY DEF CallsAnswered
  <1>4. CallsAnswered(list) \in Seq(CallIds) /\ Len(CallsAnswered(list)) = Len(list)
    BY <1>1
  <1>5. Those(Append(CallsAnswered(list), e.call), places) = Those(CallsAnswered(list), places)
    BY <1>3, <1>4, ThoseSame
  <1>6. Those(Append(CallsAnswered(list), e.call), places \cup {Len(CallsAnswered(list)) + 1})
          = Append(Those(CallsAnswered(list), places), e.call)
    BY <1>3, <1>4, ThoseMore
  <1> QED BY <1>2, <1>4, <1>5, <1>6

(* What a talk becomes, and that the others stay.                          *)
Moved(t, next, doing, turns, calls, round) ==
    /\ next \in [Talks -> TalkRecords]
    /\ next[t].doing = doing /\ next[t].turns = turns
    /\ next[t].calls = calls /\ next[t].round = round /\ next[t].root = talks[t].root
    /\ \A u \in Talks : u # t => next[u] = talks[u]

(* What Become makes of a talk,                                             *)
LEMMA BecomeMoves ==
  ASSUME talks \in [Talks -> TalkRecords], NEW t \in Talks,
         NEW doing \in {"unmade", "free", "asking", "over"}, NEW turns \in Seq(Turns)
  PROVE  Moved(t, Become(t, doing, turns), doing, talks[t].turns \o turns, talks[t].calls, talks[t].round)
  <1>1. talks[t] \in TalkRecords /\ talks[t].turns \in Seq(Turns)
    BY DEF TalkRecords
  <1>2. talks[t].turns \o turns \in Seq(Turns)
    BY <1>1, ConcatProperties
  <1> QED BY <1>1, <1>2 DEF Become, Moved, TalkRecords

(* with turns that are turns,                                               *)
LEMMA TurnsAre ==
  ASSUME NEW id \in Nat
  PROVE  /\ Turn("user", id) \in Turns /\ Turn("assistant", id) \in Turns
         /\ Turn("user", id).id = id /\ Turn("assistant", id).id = id
         /\ <<Turn("user", id)>> \in Seq(Turns) /\ <<Turn("assistant", id)>> \in Seq(Turns)
         /\ <<>> \in Seq(Turns) /\ NoStamp \in Nat
  <1>1. Turn("user", id) \in Turns /\ Turn("assistant", id) \in Turns
    BY DEF Turn, Turns
  <1> QED BY <1>1 DEF Turn, NoStamp

(* in each of the actions.                                                  *)
LEMMA AskMoves ==
  ASSUME BridgeTypes, NEW t \in Talks, Ask(t)
  PROVE  Moved(t, talks', "asking", Append(talks[t].turns, Turn("user", NoStamp)),
               talks[t].calls + 1, talks[t].round)
  <1> DEFINE b == Become(t, "asking", <<Turn("user", NoStamp)>>)
  <1>1. talks[t] \in TalkRecords /\ talks[t].turns \in Seq(Turns) /\ talks[t].calls \in Nat
    BY DEF TalkRecords, BridgeTypes
  <1>2. Moved(t, b, "asking", talks[t].turns \o <<Turn("user", NoStamp)>>, talks[t].calls, talks[t].round)
    BY BecomeMoves, TurnsAre DEF BridgeTypes
  <1>3. talks[t].turns \o <<Turn("user", NoStamp)>> = Append(talks[t].turns, Turn("user", NoStamp))
    BY <1>1, Appended, TurnsAre
  <1>4. talks' = [b EXCEPT ![t].calls = @ + 1]
    BY DEF Ask
  <1> HIDE DEF b
  <1>5. b \in [Talks -> TalkRecords] /\ b[t] \in TalkRecords
    BY <1>2 DEF Moved
  <1> DEFINE new == [b[t] EXCEPT !.calls = @ + 1]
  <1>6. /\ new \in TalkRecords /\ new.calls = b[t].calls + 1 /\ new.doing = b[t].doing
        /\ new.turns = b[t].turns /\ new.round = b[t].round /\ new.root = b[t].root
    BY <1>5 DEF TalkRecords
  <1>7. talks' = [b EXCEPT ![t] = new]
    BY <1>4
  <1> HIDE DEF new
  <1>8. /\ talks' \in [Talks -> TalkRecords] /\ talks'[t] = new
        /\ \A u \in Talks : u # t => talks'[u] = b[u]
    BY <1>5, <1>6, <1>7
  <1> QED BY <1>2, <1>3, <1>6, <1>8 DEF Moved

LEMMA ReplyMoves ==
  ASSUME BridgeTypes, NEW t \in Talks, Answer(t) \/ PassOver(t)
  PROVE  Moved(t, talks', Then, Append(talks[t].turns, Turn("assistant", inFlight[t].id)),
               talks[t].calls, talks[t].round)
  <1>1. talks[t].turns \in Seq(Turns) /\ inFlight[t].id \in Nat /\ talks \in [Talks -> TalkRecords]
    BY DEF TalkRecords, BridgeTypes
  <1>2. talks' = Become(t, Then, <<Turn("assistant", inFlight[t].id)>>)
    BY DEF Answer, PassOver, Replied
  <1>3. talks[t].turns \o <<Turn("assistant", inFlight[t].id)>>
          = Append(talks[t].turns, Turn("assistant", inFlight[t].id))
    BY <1>1, Appended, TurnsAre
  <1>4. Then \in {"unmade", "free", "asking", "over"}
    BY DEF Then
  <1>5. <<Turn("assistant", inFlight[t].id)>> \in Seq(Turns)
    BY <1>1, TurnsAre
  <1> QED BY <1>1, <1>2, <1>3, <1>4, <1>5, BecomeMoves

LEMMA RestMoves ==
  ASSUME BridgeTypes, NEW t \in Talks
  PROVE  /\ Raise(t) => \E doing \in {"free", "over"} :
              /\ tool # "lidar" => doing = "over"
              /\ Moved(t, talks', doing, talks[t].turns, talks[t].calls, talks[t].round)
         /\ EndTalk(t) => Moved(t, talks', "over", talks[t].turns, talks[t].calls, talks[t].round)
         /\ Replay(t) => Moved(t, talks', "free", <<>>, talks[t].calls, 2)
  <1>1. talks[t].turns \in Seq(Turns) /\ talks[t].turns \o <<>> = talks[t].turns /\ <<>> \in Seq(Turns)
    BY ConcatEmptySeq DEF TalkRecords, BridgeTypes
  <1>2. ASSUME NEW doing \in {"free", "over"}
        PROVE  Moved(t, Become(t, doing, <<>>), doing, talks[t].turns, talks[t].calls, talks[t].round)
    BY <1>1, BecomeMoves DEF BridgeTypes
  <1>3. Raise(t) => \E doing \in {"free", "over"} :
              /\ tool # "lidar" => doing = "over"
              /\ Moved(t, talks', doing, talks[t].turns, talks[t].calls, talks[t].round)
    BY <1>2 DEF Raise
  <1>4. EndTalk(t) => Moved(t, talks', "over", talks[t].turns, talks[t].calls, talks[t].round)
    BY <1>2 DEF EndTalk
  <1>5. Replay(t) => Moved(t, talks', "free", <<>>, talks[t].calls, 2)
    <2> SUFFICES ASSUME Replay(t) PROVE Moved(t, talks', "free", <<>>, talks[t].calls, 2)
      OBVIOUS
    <2> DEFINE new == [talks[t] EXCEPT !.turns = <<>>, !.round = 2]
    <2>1. talks \in [Talks -> TalkRecords] /\ talks[t] \in TalkRecords
      BY DEF BridgeTypes
    <2>2. /\ new \in TalkRecords /\ new.calls = talks[t].calls /\ new.doing = talks[t].doing
          /\ new.turns = <<>> /\ new.round = 2 /\ new.root = talks[t].root
      BY <1>1, <2>1 DEF TalkRecords
    <2>3. talks' = [talks EXCEPT ![t] = new] /\ talks[t].doing = "free"
      BY DEF Replay
    <2> HIDE DEF new
    <2>4. /\ talks' \in [Talks -> TalkRecords] /\ talks'[t] = new
          /\ \A u \in Talks : u # t => talks'[u] = talks[u]
      BY <2>1, <2>2, <2>3
    <2> QED BY <2>2, <2>3, <2>4 DEF Moved
  <1> QED BY <1>3, <1>4, <1>5

(* A new attempt of garak: a conversation of its own, or one that goes on.  *)
Made(t, next, parent) ==
    /\ next \in [Talks -> TalkRecords]
    /\ next[t].doing = "free"
    /\ parent = 0 => next[t].turns = <<>> /\ next[t].root = t
    /\ parent # 0 => /\ parent \in Talks /\ parent < t
                     /\ next[t].turns = talks[parent].turns /\ next[t].root = talks[parent].root
    /\ \A u \in Talks : u # t => next[u] = talks[u]

LEMMA MakeMoves ==
  ASSUME BridgeTypes, NEW t \in Talks, MakeAttempt(t)
  PROVE  \E parent \in 0..t - 1 : Made(t, talks', parent)
  <1>1. talks \in [Talks -> TalkRecords] /\ <<>> \in Seq(Turns) /\ NumTalks \in Nat
    BY BridgeAssumption DEF BridgeTypes
  <1>2. PICK parent \in 0..t - 1 :
          talks' = IF parent = 0 THEN [talks EXCEPT ![t] = Fresh(t, "free", <<>>)]
                   ELSE [talks EXCEPT ![t] = [Fresh(talks[parent].root, "free", talks[parent].turns)
                                              EXCEPT !.parent = parent]]
    BY DEF MakeAttempt
  <1>3. CASE parent = 0
    <2>1. Fresh(t, "free", <<>>) \in TalkRecords
      BY <1>1 DEF Fresh, TalkRecords
    <2>2. Fresh(t, "free", <<>>).doing = "free" /\ Fresh(t, "free", <<>>).turns = <<>>
            /\ Fresh(t, "free", <<>>).root = t
      BY DEF Fresh
    <2>3. talks' = [talks EXCEPT ![t] = Fresh(t, "free", <<>>)]
      BY <1>2, <1>3
    <2> QED BY <1>1, <1>3, <2>1, <2>2, <2>3 DEF Made
  <1>4. CASE parent # 0
    <2> DEFINE new == [Fresh(talks[parent].root, "free", talks[parent].turns) EXCEPT !.parent = parent]
    <2>1. parent \in Talks /\ parent < t /\ parent \in Nat
      BY <1>1, <1>4 DEF Talks
    <2>2. talks[parent].root \in Talks /\ talks[parent].turns \in Seq(Turns)
      BY <1>1, <2>1 DEF TalkRecords
    <2>3. /\ new \in TalkRecords /\ new.doing = "free" /\ new.turns = talks[parent].turns
          /\ new.root = talks[parent].root
      BY <2>1, <2>2 DEF Fresh, TalkRecords
    <2>4. talks' = [talks EXCEPT ![t] = new]
      BY <1>2, <1>4
    <2> HIDE DEF new
    <2> QED BY <1>1, <1>4, <2>1, <2>3, <2>4 DEF Made
  <1> QED BY <1>2, <1>3, <1>4

-----------------------------------------------------------------------------
(* The id that the bridge finds is the first or the newest one.             *)
LEMMA RecoverIs ==
  ASSUME NEW turns
  PROVE  Recover(turns) = IF tool = "garak" THEN FirstId(turns) ELSE NewestId(turns)
  BY DEF Recover, FirstId, NewestId

(* The ids that a call may bring were minted.                               *)
LEMMA IdsAre ==
  ASSUME BridgeTypes, IdsMinted, NEW t \in Talks, NEW known \in IdsFor(t)
  PROVE  known \in Nat /\ known <= minted
  <1>1. talks[t].turns \in Seq(Turns) /\ minted \in Nat
    BY DEF BridgeTypes, TalkRecords
  <1>2. \A i \in DOMAIN talks[t].turns : talks[t].turns[i].id \in Nat /\ talks[t].turns[i].id <= minted
    <2>1. \A i \in DOMAIN talks[t].turns : talks[t].turns[i] \in Turns
      BY <1>1
    <2> QED BY <2>1 DEF IdsMinted, Turns
  <1>3. CASE tool = "lidar"
    <2>1. known = NoStamp \/ \E i \in DOMAIN talks[t].turns : known = talks[t].turns[i].id
      BY <1>3 DEF IdsFor, Range
    <2> QED BY <1>1, <1>2, <2>1 DEF NoStamp
  <1>4. CASE tool # "lidar"
    <2>1. known = FirstId(talks[t].turns) \/ known = NewestId(talks[t].turns)
      BY <1>4, RecoverIs DEF IdsFor
    <2>2. known = NoStamp \/ \E i \in DOMAIN talks[t].turns : known = talks[t].turns[i].id
      BY <1>1, <2>1, StampsThere
    <2> QED BY <1>1, <1>2, <2>2 DEF NoStamp
  <1> QED BY <1>3, <1>4

(* No talk begins with a stamp.                                             *)
LEMMA OpeningsAre ==
  ASSUME NEW opening \in Openings
  PROVE  opening \in Seq(Turns) /\ \A i \in DOMAIN opening : opening[i].id = NoStamp
  <1> DEFINE New == {Turn(role, NoStamp) : role \in {"system", "user", "assistant"}}
  <1>1. PICK k \in 0..MaxOpening : opening \in [1..k -> New]
    BY DEF Openings
  <1>2. New \subseteq Turns /\ \A turn \in New : turn.id = NoStamp
    BY DEF Turn, Turns, NoStamp
  <1> HIDE DEF New
  <1>3. k \in Nat
    BY BridgeAssumption
  <1> QED BY <1>1, <1>2, <1>3

LEMMA TalksBegin ==
  ASSUME BridgeInit
  PROVE  /\ talks \in [Talks -> TalkRecords]
         /\ \A t \in Talks : /\ talks[t].doing = IF tool = "garak" THEN "unmade" ELSE "free"
                             /\ talks[t].calls = 0 /\ talks[t].round = 1 /\ talks[t].root = t
                             /\ \A i \in DOMAIN talks[t].turns : talks[t].turns[i].id = NoStamp
  <1>1. PICK opening \in (IF tool = "garak" THEN {<<>>} ELSE Openings) :
          talks = [t \in Talks |-> Fresh(t, IF tool = "garak" THEN "unmade" ELSE "free",
                                            IF t = 1 THEN opening ELSE <<>>)]
    BY DEF BridgeInit
  <1>2. <<>> \in Seq(Turns) /\ DOMAIN <<>> = {}
    OBVIOUS
  <1>3. opening \in Seq(Turns) /\ \A i \in DOMAIN opening : opening[i].id = NoStamp
    BY <1>1, <1>2, OpeningsAre
  <1>4. ASSUME NEW t \in Talks
        PROVE  /\ talks[t] \in TalkRecords
               /\ talks[t].doing = IF tool = "garak" THEN "unmade" ELSE "free"
               /\ talks[t].calls = 0 /\ talks[t].round = 1 /\ talks[t].root = t
               /\ \A i \in DOMAIN talks[t].turns : talks[t].turns[i].id = NoStamp
    <2> DEFINE turns == IF t = 1 THEN opening ELSE <<>>
    <2>1. turns \in Seq(Turns) /\ \A i \in DOMAIN turns : turns[i].id = NoStamp
      BY <1>2, <1>3
    <2>2. talks[t] = Fresh(t, IF tool = "garak" THEN "unmade" ELSE "free", turns)
      BY <1>1
    <2> HIDE DEF turns
    <2> QED BY <2>1, <2>2 DEF Fresh, TalkRecords
  <1>5. talks = [t \in Talks |-> talks[t]]
    BY <1>1
  <1> QED BY <1>4, <1>5

LEMMA BridgeTypesBegin ==
  ASSUME BridgeInit
  PROVE  BridgeTypes /\ IdsMinted /\ Reporting
  <1>1. /\ talks \in [Talks -> TalkRecords]
        /\ \A t \in Talks : /\ talks[t].doing # "asking"
                            /\ \A i \in DOMAIN talks[t].turns : talks[t].turns[i].id = NoStamp
    BY TalksBegin
  <1>2. /\ tool \in {"garak", "deepteam", "lidar"} /\ inFlight = [t \in Talks |-> NoCall]
        /\ traces = <<>> /\ minted = 0 /\ answered = <<>> /\ reports = <<>>
    BY DEF BridgeInit
  <1>3. NoCall \in [id : Nat, trace : Seq(CallIds)] /\ NoCall.id = NoStamp
    BY DEF NoCall, NoStamp
  <1>4. DOMAIN traces = {} /\ answered \in Seq(Entries)
    BY <1>2
  <1>5. BridgeTypes
    BY <1>1, <1>2, <1>3, <1>4 DEF BridgeTypes
  <1>6. IdsMinted
    BY <1>1, <1>2, <1>3, <1>4 DEF IdsMinted, NoStamp
  <1> QED BY <1>2, <1>5, <1>6 DEF Reporting

(* What a call takes with it.                                              *)
LEMMA AskTakes ==
  ASSUME BridgeTypes, IdsMinted, NEW t \in Talks, Ask(t)
  PROVE  \E known \in IdsFor(t), id \in Nat :
           /\ id = IF known = NoStamp THEN minted + 1 ELSE known
           /\ minted' = IF known = NoStamp THEN id ELSE minted
           /\ minted' \in Nat /\ minted <= minted' /\ id <= minted' /\ id # NoStamp
           /\ inFlight' = [inFlight EXCEPT ![t] = [id |-> id, trace |-> TraceOf(id)]]
           /\ inFlight' \in [Talks -> [id : Nat, trace : Seq(CallIds)]]
           /\ inFlight'[t].id = id /\ inFlight'[t].trace = TraceOf(id)
           /\ \A u \in Talks : u # t => inFlight'[u] = inFlight[u]
           /\ traces' = Taken(id)
  <1>1. PICK known \in IdsFor(t) :
          LET id == IF known = NoStamp THEN minted + 1 ELSE known
          IN  /\ minted' = IF known = NoStamp THEN id ELSE minted
              /\ inFlight' = [inFlight EXCEPT ![t] = [id |-> id, trace |-> TraceOf(id)]]
              /\ traces' = Taken(id)
    BY DEF Ask
  <1> DEFINE id == IF known = NoStamp THEN minted + 1 ELSE known
  <1>2. known \in Nat /\ known <= minted /\ minted \in Nat
    BY IdsAre DEF BridgeTypes
  <1>3. id \in Nat /\ id # NoStamp /\ minted' \in Nat /\ minted <= minted' /\ id <= minted'
    BY <1>1, <1>2 DEF NoStamp
  <1>4. TraceOf(id) \in Seq(CallIds)
    BY DEF TraceOf, BridgeTypes
  <1>5. /\ minted' = IF known = NoStamp THEN id ELSE minted
        /\ inFlight' = [inFlight EXCEPT ![t] = [id |-> id, trace |-> TraceOf(id)]]
        /\ traces' = Taken(id) /\ id = IF known = NoStamp THEN minted + 1 ELSE known
    BY <1>1
  <1> HIDE DEF id
  <1>6. inFlight' \in [Talks -> [id : Nat, trace : Seq(CallIds)]]
    BY <1>3, <1>4, <1>5 DEF BridgeTypes
  <1>7. /\ inFlight'[t].id = id /\ inFlight'[t].trace = TraceOf(id)
        /\ \A u \in Talks : u # t => inFlight'[u] = inFlight[u]
    BY <1>5 DEF BridgeTypes
  <1> QED BY <1>3, <1>5, <1>6, <1>7

(* What is left of the traces, and what is put back.                        *)
LEMMA TakenKeeps ==
  ASSUME BridgeTypes, NEW id
  PROVE  /\ DOMAIN Taken(id) \subseteq DOMAIN traces
         /\ \A other \in DOMAIN Taken(id) : Taken(id)[other] = traces[other]
         /\ tool # "garak" => Taken(id) = traces
         /\ tool = "garak" => DOMAIN Taken(id) = DOMAIN traces \ {id}
  BY DEF Taken

LEMMA WithType ==
  ASSUME BridgeTypes, NEW id \in Nat, NEW trace \in Seq(CallIds)
  PROVE  /\ DOMAIN With(id, trace) \subseteq Nat
         /\ \A other \in DOMAIN With(id, trace) : With(id, trace)[other] \in Seq(CallIds)
  <1> DEFINE w == With(id, trace)
  <1>1. /\ DOMAIN w = DOMAIN traces \cup {id} /\ w[id] = trace
        /\ \A other \in DOMAIN traces : other # id => w[other] = traces[other]
    BY DEF With
  <1> HIDE DEF w
  <1>2. DOMAIN w \subseteq Nat
    BY <1>1 DEF BridgeTypes
  <1>3. \A other \in DOMAIN w : w[other] \in Seq(CallIds)
    BY <1>1 DEF BridgeTypes
  <1> QED BY <1>2, <1>3 DEF w

(* A call that is answered is an entry.                                     *)
LEMMA EntryType ==
  ASSUME BridgeTypes, NEW t \in Talks
  PROVE  /\ <<"call", t, talks[t].calls>> \in CallIds
         /\ [call |-> <<"call", t, talks[t].calls>>, talk |-> t, round |-> talks[t].round] \in Entries
  BY DEF BridgeTypes, TalkRecords, CallIds, Entries

(* Every step keeps the types.                                              *)
LEMMA BridgeTypesStay ==
  ASSUME BridgeTypes, IdsMinted, [BridgeNext]_bridgeVars
  PROVE  BridgeTypes'
  <1> USE DEF BridgeTypes
  <1>1. ASSUME NEW t \in Talks, MakeAttempt(t) PROVE BridgeTypes'
    BY <1>1, MakeMoves DEF MakeAttempt, Made
  <1>2. ASSUME NEW t \in Talks, Ask(t) PROVE BridgeTypes'
    <2>1. talks' \in [Talks -> TalkRecords]
      BY <1>2, AskMoves DEF Moved
    <2>2. \E id \in Nat : inFlight' \in [Talks -> [id : Nat, trace : Seq(CallIds)]]
                          /\ minted' \in Nat /\ traces' = Taken(id)
      BY <1>2, AskTakes
    <2>3. DOMAIN traces' \subseteq Nat /\ \A other \in DOMAIN traces' : traces'[other] \in Seq(CallIds)
      BY <2>2, TakenKeeps
    <2> QED BY <1>2, <2>1, <2>2, <2>3 DEF Ask
  <1>3. ASSUME NEW t \in Talks, Answer(t) PROVE BridgeTypes'
    <2> DEFINE call == <<"call", t, talks[t].calls>>
               entry == [call |-> call, talk |-> t, round |-> talks[t].round]
    <2>1. talks' \in [Talks -> TalkRecords]
      BY <1>3, ReplyMoves DEF Moved
    <2>2. call \in CallIds /\ entry \in Entries
      BY EntryType
    <2>3. /\ traces' = With(inFlight[t].id, Append(inFlight[t].trace, call))
          /\ answered' = Append(answered, entry) /\ inFlight' = [inFlight EXCEPT ![t] = NoCall]
          /\ UNCHANGED <<tool, minted>>
      BY <1>3 DEF Answer
    <2> HIDE DEF call, entry
    <2>4. NoCall \in [id : Nat, trace : Seq(CallIds)]
      BY DEF NoCall, NoStamp
    <2>5. inFlight[t].id \in Nat /\ Append(inFlight[t].trace, call) \in Seq(CallIds)
      BY <2>2
    <2>6. DOMAIN traces' \subseteq Nat /\ \A other \in DOMAIN traces' : traces'[other] \in Seq(CallIds)
      BY <2>3, <2>5, WithType
    <2>7. answered' \in Seq(Entries)
      BY <2>2, <2>3
    <2> QED BY <2>1, <2>3, <2>4, <2>6, <2>7
  <1>4. ASSUME NEW t \in Talks, PassOver(t) PROVE BridgeTypes'
    <2>1. talks' \in [Talks -> TalkRecords]
      BY <1>4, ReplyMoves DEF Moved
    <2>2. /\ traces' = With(inFlight[t].id, inFlight[t].trace) /\ inFlight' = [inFlight EXCEPT ![t] = NoCall]
          /\ UNCHANGED <<tool, minted, answered>>
      BY <1>4 DEF PassOver
    <2>3. NoCall \in [id : Nat, trace : Seq(CallIds)]
      BY DEF NoCall, NoStamp
    <2>4. inFlight[t].id \in Nat /\ inFlight[t].trace \in Seq(CallIds)
      OBVIOUS
    <2>5. DOMAIN traces' \subseteq Nat /\ \A other \in DOMAIN traces' : traces'[other] \in Seq(CallIds)
      BY <2>2, <2>4, WithType
    <2> QED BY <2>1, <2>2, <2>3, <2>5
  <1>5. ASSUME NEW t \in Talks, Raise(t) PROVE BridgeTypes'
    <2>1. talks' \in [Talks -> TalkRecords]
      BY <1>5, RestMoves DEF Moved
    <2>2. NoCall \in [id : Nat, trace : Seq(CallIds)]
      BY DEF NoCall, NoStamp
    <2> QED BY <1>5, <2>1, <2>2 DEF Raise
  <1>6. ASSUME NEW t \in Talks, Replay(t) PROVE BridgeTypes'
    <2>1. talks' \in [Talks -> TalkRecords]
      BY <1>6, RestMoves DEF Moved
    <2> QED BY <1>6, <2>1 DEF Replay
  <1>7. ASSUME NEW t \in Talks, EndTalk(t) PROVE BridgeTypes'
    <2>1. talks' \in [Talks -> TalkRecords]
      BY <1>7, RestMoves DEF Moved
    <2> QED BY <1>7, <2>1 DEF EndTalk
  <1>8. CASE Report
    <2>1. \E id : traces' = Taken(id)
      BY <1>8 DEF Report
    <2>2. DOMAIN traces' \subseteq Nat /\ \A other \in DOMAIN traces' : traces'[other] \in Seq(CallIds)
      BY <2>1, TakenKeeps
    <2> QED BY <1>8, <2>2 DEF Report
  <1>9. CASE UNCHANGED bridgeVars
    BY <1>9 DEF bridgeVars
  <1> QED BY <1>1, <1>2, <1>3, <1>4, <1>5, <1>6, <1>7, <1>8, <1>9 DEF BridgeNext

-----------------------------------------------------------------------------
(* The ids of turns, with one more turn.                                   *)
LEMMA IdsOfMore ==
  ASSUME NEW turns \in Seq(Turns), NEW turn \in Turns, NEW k \in Nat, turn.id <= k,
         \A i \in DOMAIN turns : turns[i].id <= k
  PROVE  \A i \in DOMAIN Append(turns, turn) : Append(turns, turn)[i].id <= k
  BY Appended

LEMMA IdsOfOne ==
  ASSUME IdsMinted, BridgeTypes, BridgeTypes', NEW t \in Talks, minted' = minted,
         \A u \in Talks : u # t => talks'[u] = talks[u],
         \A i \in DOMAIN talks'[t].turns : talks'[t].turns[i].id <= minted,
         inFlight' = inFlight \/ inFlight' = [inFlight EXCEPT ![t] = NoCall],
         talks'[t].doing # "asking",
         \A id \in DOMAIN traces' : id # NoStamp /\ id <= minted
  PROVE  IdsMinted'
  <1>1. NoCall.id = 0
    BY DEF NoCall, NoStamp
  <1>2. \A u \in Talks : u # t => inFlight'[u] = inFlight[u]
    BY DEF BridgeTypes
  <1>3. inFlight'[t].id = inFlight[t].id \/ inFlight'[t].id = 0
    BY <1>1 DEF BridgeTypes
  <1>4. inFlight'[t].id <= minted
    BY <1>3 DEF IdsMinted, BridgeTypes
  <1>5. ASSUME NEW u \in Talks
        PROVE  /\ \A i \in DOMAIN talks'[u].turns : talks'[u].turns[i].id <= minted'
               /\ inFlight'[u].id <= minted' /\ (talks'[u].doing = "asking" => inFlight'[u].id # NoStamp)
    BY <1>2, <1>4 DEF IdsMinted
  <1> QED BY <1>5 DEF IdsMinted

(* Every step keeps the ids to those that were minted.                      *)
LEMMA IdsMintedStay ==
  ASSUME BridgeTypes, IdsMinted, [BridgeNext]_bridgeVars
  PROVE  IdsMinted'
  <1>0. BridgeTypes'
    BY BridgeTypesStay
  <1>a. /\ minted \in Nat /\ \A t \in Talks : talks[t].turns \in Seq(Turns)
        /\ \A t \in Talks : \A i \in DOMAIN talks[t].turns : talks[t].turns[i].id <= minted
        /\ \A id \in DOMAIN traces : id # NoStamp /\ id <= minted
    BY DEF BridgeTypes, TalkRecords, IdsMinted
  <1>1. ASSUME NEW t \in Talks, MakeAttempt(t) PROVE IdsMinted'
    <2>1. PICK parent \in 0..t - 1 : Made(t, talks', parent)
      BY <1>1, MakeMoves
    <2>2. \A i \in DOMAIN talks'[t].turns : talks'[t].turns[i].id <= minted
      BY <1>a, <2>1 DEF Made
    <2>3. talks'[t].doing # "asking" /\ \A u \in Talks : u # t => talks'[u] = talks[u]
      BY <2>1 DEF Made
    <2> QED BY <1>0, <1>1, <1>a, <2>2, <2>3, IdsOfOne DEF MakeAttempt
  <1>2. ASSUME NEW t \in Talks, Ask(t) PROVE IdsMinted'
    <2>1. /\ talks'[t].turns = Append(talks[t].turns, Turn("user", NoStamp))
          /\ \A u \in Talks : u # t => talks'[u] = talks[u]
      BY <1>2, AskMoves DEF Moved
    <2>2. /\ minted' \in Nat /\ minted <= minted'
          /\ inFlight'[t].id <= minted' /\ inFlight'[t].id # NoStamp
          /\ \A u \in Talks : u # t => inFlight'[u] = inFlight[u]
          /\ \E id \in Nat : traces' = Taken(id)
      BY <1>2, AskTakes
    <2>3. \A i \in DOMAIN talks'[t].turns : talks'[t].turns[i].id <= minted
      <3>1. Turn("user", NoStamp) \in Turns /\ Turn("user", NoStamp).id <= minted
        BY <1>a, TurnsAre DEF NoStamp
      <3> QED BY <1>a, <2>1, <3>1, IdsOfMore
    <2>4. ASSUME NEW u \in Talks
          PROVE  /\ \A i \in DOMAIN talks'[u].turns : talks'[u].turns[i].id <= minted'
                 /\ inFlight'[u].id <= minted' /\ (talks'[u].doing = "asking" => inFlight'[u].id # NoStamp)
      <3>1. \A i \in DOMAIN talks'[u].turns : talks'[u].turns[i].id <= minted /\ talks'[u].turns[i].id \in Nat
        <4>1. talks'[u].turns \in Seq(Turns)
          BY <1>0 DEF BridgeTypes, TalkRecords
        <4>2. \A i \in DOMAIN talks'[u].turns : talks'[u].turns[i] \in Turns
          BY <4>1
        <4> QED BY <1>a, <2>1, <2>3, <4>2 DEF Turns
      <3>2. CASE u = t
        BY <1>a, <2>2, <3>1, <3>2
      <3>3. CASE u # t
        <4>1. inFlight[u].id <= minted /\ inFlight[u].id \in Nat
                /\ (talks[u].doing = "asking" => inFlight[u].id # NoStamp)
          BY DEF IdsMinted, BridgeTypes
        <4> QED BY <1>a, <2>1, <2>2, <3>1, <3>3, <4>1
      <3> QED BY <3>2, <3>3
    <2>5. \A id \in DOMAIN traces' : id # NoStamp /\ id <= minted'
      <3>1. DOMAIN traces' \subseteq DOMAIN traces
        BY <2>2, TakenKeeps
      <3>2. DOMAIN traces \subseteq Nat
        BY DEF BridgeTypes
      <3> QED BY <1>a, <2>2, <3>1, <3>2
    <2> QED BY <2>4, <2>5 DEF IdsMinted
  <1>3. ASSUME NEW t \in Talks, Answer(t) \/ PassOver(t) PROVE IdsMinted'
    <2>1. /\ talks'[t].turns = Append(talks[t].turns, Turn("assistant", inFlight[t].id))
          /\ \A u \in Talks : u # t => talks'[u] = talks[u]
          /\ talks'[t].doing = Then
      BY <1>3, ReplyMoves DEF Moved
    <2>2. /\ inFlight' = [inFlight EXCEPT ![t] = NoCall] /\ minted' = minted
          /\ talks[t].doing = "asking"
          /\ \E trace : traces' = With(inFlight[t].id, trace)
      BY <1>3 DEF Answer, PassOver
    <2>3. inFlight[t].id \in Nat /\ inFlight[t].id <= minted /\ inFlight[t].id # NoStamp
      BY <2>2 DEF IdsMinted, BridgeTypes
    <2>4. \A i \in DOMAIN talks'[t].turns : talks'[t].turns[i].id <= minted
      <3>1. Turn("assistant", inFlight[t].id) \in Turns /\ Turn("assistant", inFlight[t].id).id <= minted
        BY <2>3, TurnsAre
      <3> QED BY <1>a, <2>1, <3>1, IdsOfMore
    <2>5. \A id \in DOMAIN traces' : id # NoStamp /\ id <= minted
      BY <1>a, <2>2, <2>3 DEF With
    <2>6. talks'[t].doing # "asking"
      BY <2>1 DEF Then
    <2> QED BY <1>0, <2>1, <2>2, <2>4, <2>5, <2>6, IdsOfOne
  <1>4. ASSUME NEW t \in Talks, Raise(t) \/ EndTalk(t) \/ Replay(t) PROVE IdsMinted'
    <2>1. /\ talks'[t].turns = talks[t].turns \/ talks'[t].turns = <<>>
          /\ talks'[t].doing # "asking"
          /\ \A u \in Talks : u # t => talks'[u] = talks[u]
      BY <1>4, RestMoves DEF Moved
    <2>2. \A i \in DOMAIN talks'[t].turns : talks'[t].turns[i].id <= minted
      BY <1>a, <2>1
    <2>3. /\ minted' = minted /\ traces' = traces
          /\ inFlight' = inFlight \/ inFlight' = [inFlight EXCEPT ![t] = NoCall]
      BY <1>4 DEF Raise, EndTalk, Replay
    <2> QED BY <1>0, <1>a, <2>1, <2>2, <2>3, IdsOfOne
  <1>5. CASE Report
    <2>1. /\ \E id : traces' = Taken(id)
          /\ minted' = minted /\ inFlight' = inFlight /\ talks' = talks
      BY <1>5 DEF Report
    <2>2. \A id \in DOMAIN traces' : id # NoStamp /\ id <= minted
      BY <1>a, <2>1, TakenKeeps
    <2> QED BY <2>1, <2>2 DEF IdsMinted
  <1>6. CASE UNCHANGED bridgeVars
    BY <1>6 DEF bridgeVars, IdsMinted
  <1> QED BY <1>1, <1>2, <1>3, <1>4, <1>5, <1>6 DEF BridgeNext

(* Once traces are reported the talks stay as they are.                     *)
LEMMA ReportingStays ==
  ASSUME BridgeTypes, Reporting, [BridgeNext]_bridgeVars
  PROVE  Reporting'
  <1>1. ASSUME NEW t \in Talks, MakeAttempt(t) PROVE Reporting'
    BY <1>1 DEF MakeAttempt, Reporting
  <1>2. ASSUME NEW t \in Talks, Ask(t) \/ Answer(t) \/ PassOver(t) \/ Raise(t) \/ Replay(t) \/ EndTalk(t)
        PROVE  Reporting'
    BY <1>2 DEF Ask, Answer, PassOver, Raise, Replay, EndTalk, Reporting
  <1>3. CASE Report
    BY <1>3 DEF Report, Reporting
  <1>4. CASE UNCHANGED bridgeVars
    BY <1>4 DEF bridgeVars, Reporting
  <1> QED BY <1>1, <1>2, <1>3, <1>4 DEF BridgeNext

-----------------------------------------------------------------------------
(* Which entries belong to a talk, for any talks and answers.              *)
Belonging(kind, all, entry, t) ==
    CASE kind = "garak" -> all[entry.talk].root = t
      [] kind = "deepteam" -> entry.talk = t /\ entry.round = all[t].round
      [] kind = "lidar" -> entry.talk = t

OwnIn(kind, all, list, t) == {n \in DOMAIN list : Belonging(kind, all, list[n], t)}

OwnOf(kind, all, list, t) == Those(CallsAnswered(list), OwnIn(kind, all, list, t))

(* The calls of a talk, in any state.                                       *)
LEMMA OwnCallsAre ==
  ASSUME NEW t
  PROVE  /\ OwnCalls(t) = OwnOf(tool, talks, answered, t)
         /\ OwnCalls(t)' = OwnOf(tool', talks', answered', t)
  BY DEF OwnCalls, OwnOf, Own, OwnIn, Belongs, Belonging, CallsAnswered

(* Append under another name, which lets a lemma about it be cited.         *)
Added(list, e) == Append(list, e)

(* An answer adds to the calls of the talk that it belongs to, and to no other. *)
LEMMA OwnGrows ==
  ASSUME NEW kind, NEW list \in Seq(Entries), NEW all, NEW next, NEW e \in Entries, NEW t,
         \A n \in DOMAIN list : Belonging(kind, next, list[n], t) <=> Belonging(kind, all, list[n], t)
  PROVE  /\ OwnOf(kind, next, list, t) = OwnOf(kind, all, list, t)
         /\ Belonging(kind, next, e, t) =>
              OwnOf(kind, next, Added(list, e), t) = Added(OwnOf(kind, all, list, t), e.call)
         /\ ~Belonging(kind, next, e, t) =>
              OwnOf(kind, next, Added(list, e), t) = OwnOf(kind, all, list, t)
  <1> DEFINE more == Append(list, e)
  <1>1. /\ Len(list) \in Nat /\ DOMAIN list = 1..Len(list) /\ DOMAIN more = 1..Len(list) + 1
        /\ \A n \in 1..Len(list) : more[n] = list[n] /\ n # Len(list) + 1
        /\ more[Len(list) + 1] = e
        /\ \A n \in 1..Len(list) + 1 : n \in 1..Len(list) \/ n = Len(list) + 1
    BY Appended
  <1>2. OwnIn(kind, next, list, t) = OwnIn(kind, all, list, t)
    BY DEF OwnIn
  <1> HIDE DEF more
  <1>3. OwnIn(kind, next, more, t) = IF Belonging(kind, next, e, t)
                                     THEN OwnIn(kind, all, list, t) \cup {Len(list) + 1}
                                     ELSE OwnIn(kind, all, list, t)
    BY <1>1 DEF OwnIn
  <1>4. OwnIn(kind, all, list, t) \in SUBSET DOMAIN list
    BY DEF OwnIn
  <1> DEFINE own == OwnIn(kind, all, list, t)
             last == Len(list) + 1
  <1>5. /\ Those(CallsAnswered(more), own) = Those(CallsAnswered(list), own)
        /\ Those(CallsAnswered(more), own \cup {last}) = Append(Those(CallsAnswered(list), own), e.call)
    <2> HIDE DEF own
    <2> QED BY <1>4, CallsGrow DEF more, own
  <1> HIDE DEF own, last
  <1>6. OwnOf(kind, next, list, t) = Those(CallsAnswered(list), own)
          /\ OwnOf(kind, all, list, t) = Those(CallsAnswered(list), own)
    BY <1>2 DEF OwnOf, own
  <1>7. CASE Belonging(kind, next, e, t)
    <2>1. OwnIn(kind, next, more, t) = own \cup {last}
      BY <1>3, <1>7 DEF own, last
    <2> QED BY <1>5, <1>6, <1>7, <2>1 DEF OwnOf, more, Added
  <1>8. CASE ~Belonging(kind, next, e, t)
    <2>1. OwnIn(kind, next, more, t) = own
      BY <1>3, <1>8 DEF own
    <2> QED BY <1>5, <1>6, <1>8, <2>1 DEF OwnOf, more, Added
  <1> QED BY <1>7, <1>8

LEMMA AnswerAdds ==
  ASSUME BridgeTypes, NEW t \in Talks, Answer(t), NEW u,
         \A n \in DOMAIN answered :
            Belonging(tool, talks', answered[n], u) <=> Belonging(tool, talks, answered[n], u)
  PROVE  LET call == <<"call", t, talks[t].calls>>
             entry == [call |-> call, talk |-> t, round |-> talks[t].round]
         IN  /\ Belonging(tool, talks', entry, u) => OwnCalls(u)' = Append(OwnCalls(u), call)
             /\ ~Belonging(tool, talks', entry, u) => OwnCalls(u)' = OwnCalls(u)
  <1> DEFINE call == <<"call", t, talks[t].calls>>
             entry == [call |-> call, talk |-> t, round |-> talks[t].round]
             next == talks'
  <1>1. answered' = Append(answered, entry) /\ tool' = tool
    BY DEF Answer
  <1>2. entry \in Entries /\ entry.call = call /\ answered \in Seq(Entries)
    BY EntryType DEF BridgeTypes
  <1>3. \A n \in DOMAIN answered : Belonging(tool, next, answered[n], u)
                                     <=> Belonging(tool, talks, answered[n], u)
    OBVIOUS
  <1> HIDE DEF call, entry, next
  <1>4. /\ Belonging(tool, next, entry, u) =>
             OwnOf(tool, next, Added(answered, entry), u) = Added(OwnOf(tool, talks, answered, u), entry.call)
        /\ ~Belonging(tool, next, entry, u) =>
             OwnOf(tool, next, Added(answered, entry), u) = OwnOf(tool, talks, answered, u)
    BY <1>2, <1>3, OwnGrows
  <1>5. /\ OwnCalls(u)' = OwnOf(tool, next, Append(answered, entry), u)
        /\ OwnCalls(u) = OwnOf(tool, talks, answered, u)
    BY <1>1, OwnCallsAre DEF next
  <1>6. /\ Belonging(tool, next, entry, u) => OwnCalls(u)' = Append(OwnCalls(u), call)
        /\ ~Belonging(tool, next, entry, u) => OwnCalls(u)' = OwnCalls(u)
    BY <1>2, <1>4, <1>5 DEF Added
  <1> QED BY <1>6 DEF call, entry, next

LEMMA OthersOwnStay ==
  ASSUME tool' = tool, answered' = answered, NEW u,
         \A n \in DOMAIN answered :
            Belonging(tool, talks', answered[n], u) <=> Belonging(tool, talks, answered[n], u)
  PROVE  OwnCalls(u)' = OwnCalls(u)
  <1>1. OwnIn(tool, talks', answered, u) = OwnIn(tool, talks, answered, u)
    BY DEF OwnIn
  <1> QED BY <1>1, OwnCallsAre DEF OwnOf

(* A talk without an entry has no calls.                                    *)
LEMMA OwnNone ==
  ASSUME NEW kind, NEW list, NEW all, NEW t, \A n \in DOMAIN list : ~Belonging(kind, all, list[n], t)
  PROVE  OwnOf(kind, all, list, t) = <<>>
  <1>1. OwnIn(kind, all, list, t) = {} /\ Cardinality({}) = 0
    BY FS_EmptySet DEF OwnIn
  <1> QED BY <1>1 DEF OwnOf, Those

-----------------------------------------------------------------------------
(* The calls of a lidar attempt, kept and made, for any number of them.     *)
CallsTo(k, t) == [n \in 1..k |-> <<"call", t, n>>]
KeptOf(k, t, ids) == {n \in 1..k : <<"call", t, n>> \in ids}

LEMMA CallsToGrow ==
  ASSUME NEW k \in Nat, NEW t \in Talks
  PROVE  /\ CallsTo(k, t) \in Seq(CallIds) /\ Len(CallsTo(k, t)) = k
         /\ CallsTo(k + 1, t) = Append(CallsTo(k, t), <<"call", t, k + 1>>)
  <1> DEFINE call(n) == <<"call", t, n>>
             a == CallsTo(k, t)
             b == CallsTo(k + 1, t)
  <1>1. \A n \in Nat : call(n) \in CallIds
    BY DEF CallIds
  <1>2. /\ a = [n \in 1..k |-> call(n)] /\ b = [n \in 1..k + 1 |-> call(n)]
        /\ \A n \in 1..k + 1 : n \in Nat /\ (n = k + 1 \/ n \in 1..k)
    BY DEF CallsTo
  <1> HIDE DEF call, a, b
  <1>3. a \in Seq(CallIds) /\ Len(a) = k /\ b \in Seq(CallIds) /\ Len(b) = k + 1
    <2>1. a \in [1..k -> CallIds] /\ b \in [1..k + 1 -> CallIds]
      BY <1>1, <1>2
    <2> QED BY <2>1
  <1>4. b = Append(a, call(k + 1))
    <2>1. Append(a, call(k + 1)) \in Seq(CallIds) /\ Len(Append(a, call(k + 1))) = k + 1
      BY <1>1, <1>3
    <2>2. \A n \in 1..k + 1 : Append(a, call(k + 1))[n] = b[n]
      BY <1>1, <1>2, <1>3
    <2> QED BY <1>3, <2>1, <2>2, SeqEqual
  <1> QED BY <1>3, <1>4 DEF a, b, call

LidarTalk(t, k, ids, doing, own) ==
    /\ Those(CallsTo(k, t), KeptOf(k, t, ids)) = own
    /\ \A n \in Nat : <<"call", t, n>> \in ids => n \in 1..k /\ (doing = "asking" => n # k)
    /\ doing = "asking" => k # 0

LEMMA LidarIs ==
  /\ LidarInv <=> (tool = "lidar" => \A t \in Talks :
        LidarTalk(t, talks[t].calls, byCallId, talks[t].doing, OwnCalls(t)))
  /\ LidarInv' <=> (tool' = "lidar" => \A t \in Talks :
        LidarTalk(t, talks'[t].calls, byCallId', talks'[t].doing, OwnCalls(t)'))
  BY DEF LidarInv, LidarTalk, AllCalls, CallsTo, Kept, KeptOf

(* A call under way is not kept,                                            *)
LEMMA LidarAsks ==
  ASSUME NEW t \in Talks, NEW k \in Nat, NEW ids, NEW doing, NEW own, LidarTalk(t, k, ids, doing, own)
  PROVE  LidarTalk(t, k + 1, ids, "asking", own)
  <1>1. /\ CallsTo(k, t) \in Seq(CallIds) /\ Len(CallsTo(k, t)) = k /\ DOMAIN CallsTo(k, t) = 1..k
        /\ CallsTo(k + 1, t) = Append(CallsTo(k, t), <<"call", t, k + 1>>)
    BY CallsToGrow DEF CallsTo
  <1>2. KeptOf(k + 1, t, ids) = KeptOf(k, t, ids) /\ KeptOf(k, t, ids) \in SUBSET (1..k)
    BY DEF KeptOf, LidarTalk
  <1>3. Those(CallsTo(k + 1, t), KeptOf(k + 1, t, ids)) = own
    <2>1. KeptOf(k, t, ids) \in SUBSET DOMAIN CallsTo(k, t)
      BY <1>1, <1>2
    <2>2. Those(Append(CallsTo(k, t), <<"call", t, k + 1>>), KeptOf(k, t, ids))
            = Those(CallsTo(k, t), KeptOf(k, t, ids))
      BY <1>1, <2>1, ThoseSame
    <2> QED BY <1>1, <1>2, <2>2 DEF LidarTalk
  <1> QED BY <1>3 DEF LidarTalk

(* one that is answered is, at the end,                                     *)
LEMMA LidarAnswers ==
  ASSUME NEW t \in Talks, NEW k \in Nat, NEW ids, NEW own, LidarTalk(t, k, ids, "asking", own)
  PROVE  LidarTalk(t, k, ids \cup {<<"call", t, k>>}, "free", Append(own, <<"call", t, k>>))
  <1> DEFINE j == k - 1
             more == ids \cup {<<"call", t, k>>}
  <1>1. j \in Nat /\ k = j + 1
    BY DEF LidarTalk
  <1>2. /\ CallsTo(j, t) \in Seq(CallIds) /\ Len(CallsTo(j, t)) = j /\ DOMAIN CallsTo(j, t) = 1..j
        /\ CallsTo(k, t) = Append(CallsTo(j, t), <<"call", t, k>>)
    BY <1>1, CallsToGrow DEF CallsTo
  <1>3. KeptOf(k, t, ids) \in SUBSET (1..j) /\ KeptOf(k, t, more) = KeptOf(k, t, ids) \cup {j + 1}
    <2>1. KeptOf(k, t, ids) \in SUBSET (1..j)
      BY <1>1 DEF KeptOf, LidarTalk
    <2>2. \A n \in 1..k : <<"call", t, n>> = <<"call", t, k>> <=> n = j + 1
      BY <1>1
    <2>3. KeptOf(k, t, more) = KeptOf(k, t, ids) \cup {j + 1}
      BY <1>1, <2>2 DEF KeptOf
    <2> QED BY <2>1, <2>3
  <1> HIDE DEF j
  <1>4. Those(CallsTo(k, t), KeptOf(k, t, ids)) = Those(CallsTo(j, t), KeptOf(k, t, ids))
    BY <1>2, <1>3, ThoseSame
  <1>5. Those(CallsTo(k, t), KeptOf(k, t, more))
          = Append(Those(CallsTo(j, t), KeptOf(k, t, ids)), <<"call", t, k>>)
    <2>1. KeptOf(k, t, ids) \in SUBSET DOMAIN CallsTo(j, t)
      BY <1>2, <1>3
    <2>2. Those(Append(CallsTo(j, t), <<"call", t, k>>), KeptOf(k, t, ids) \cup {Len(CallsTo(j, t)) + 1})
            = Append(Those(CallsTo(j, t), KeptOf(k, t, ids)), <<"call", t, k>>)
      BY <1>2, <2>1, ThoseMore
    <2> QED BY <1>2, <1>3, <2>2
  <1>6. \A n \in Nat : <<"call", t, n>> \in more => n \in 1..k
    BY <1>1 DEF LidarTalk
  <1> QED BY <1>4, <1>5, <1>6 DEF LidarTalk

LEMMA LidarRests ==
  ASSUME NEW t \in Talks, NEW k \in Nat, NEW ids, NEW doing, NEW own, NEW new,
         LidarTalk(t, k, ids, doing, own), new # "asking"
  PROVE  LidarTalk(t, k, ids, new, own)
  BY DEF LidarTalk

(* and the other attempts keep what they have.                              *)
LEMMA LidarOthers ==
  ASSUME NEW t \in Talks, NEW u \in Talks, u # t, NEW k \in Nat, NEW n, NEW ids, NEW doing, NEW own,
         LidarTalk(u, k, ids, doing, own)
  PROVE  LidarTalk(u, k, ids \cup {<<"call", t, n>>}, doing, own)
  <1>1. \A m : <<"call", u, m>> \in ids \cup {<<"call", t, n>>} <=> <<"call", u, m>> \in ids
    OBVIOUS
  <1>2. KeptOf(k, u, ids \cup {<<"call", t, n>>}) = KeptOf(k, u, ids)
    BY <1>1 DEF KeptOf
  <1> QED BY <1>1, <1>2 DEF LidarTalk

(* Every step of lidar keeps that.                                          *)
LEMMA LidarStays ==
  ASSUME BridgeTypes, IdsMinted, LidarInv, [BridgeNext]_bridgeVars
  PROVE  LidarInv'
  <1> SUFFICES ASSUME tool' = "lidar"
               PROVE  \A t \in Talks : LidarTalk(t, talks'[t].calls, byCallId', talks'[t].doing, OwnCalls(t)')
    BY LidarIs
  <1>1. tool = "lidar"
    BY DEF BridgeNext, bridgeVars, MakeAttempt, Ask, Answer, PassOver, Raise, Replay, EndTalk, Report
  <1>2. \A t \in Talks : LidarTalk(t, talks[t].calls, byCallId, talks[t].doing, OwnCalls(t))
    BY <1>1, LidarIs
  <1>3. answered \in Seq(Entries) /\ \A t \in Talks : talks[t].calls \in Nat
    BY DEF BridgeTypes, TalkRecords
  <1>4. \A e, t : /\ Belonging("lidar", talks, e, t) <=> e.talk = t
                  /\ Belonging("lidar", talks', e, t) <=> e.talk = t
    BY DEF Belonging
  <1>5. answered' = answered => \A t : OwnCalls(t)' = OwnCalls(t)
    BY <1>1, <1>4, OthersOwnStay
  <1>6. ASSUME NEW t \in Talks, Ask(t)
        PROVE  \A u \in Talks : LidarTalk(u, talks'[u].calls, byCallId', talks'[u].doing, OwnCalls(u)')
    <2>1. /\ talks'[t].doing = "asking" /\ talks'[t].calls = talks[t].calls + 1
          /\ \A u \in Talks : u # t => talks'[u] = talks[u]
      BY <1>6, AskMoves DEF Moved
    <2>2. byCallId' = byCallId /\ answered' = answered
      BY <1>6 DEF Ask
    <2> QED BY <1>2, <1>3, <1>5, <2>1, <2>2, LidarAsks
  <1>7. ASSUME NEW t \in Talks, Answer(t)
        PROVE  \A u \in Talks : LidarTalk(u, talks'[u].calls, byCallId', talks'[u].doing, OwnCalls(u)')
    <2> DEFINE call == <<"call", t, talks[t].calls>>
               entry == [call |-> call, talk |-> t, round |-> talks[t].round]
    <2>1. /\ talks'[t].doing = "free" /\ talks'[t].calls = talks[t].calls
          /\ \A u \in Talks : u # t => talks'[u] = talks[u]
      BY <1>1, <1>7, ReplyMoves DEF Moved, Then
    <2>2. byCallId' = byCallId \cup {call} /\ answered' = Append(answered, entry) /\ talks[t].doing = "asking"
      BY <1>1, <1>7 DEF Answer
    <2>3. entry.talk = t
      OBVIOUS
    <2>4. ASSUME NEW u \in Talks
          PROVE  /\ u = t => OwnCalls(u)' = Append(OwnCalls(u), call)
                 /\ u # t => OwnCalls(u)' = OwnCalls(u)
      <3>1. /\ Belonging(tool, talks', entry, u) => OwnCalls(u)' = Append(OwnCalls(u), call)
            /\ ~Belonging(tool, talks', entry, u) => OwnCalls(u)' = OwnCalls(u)
        BY <1>1, <1>4, <1>7, AnswerAdds
      <3>2. Belonging(tool, talks', entry, u) <=> u = t
        BY <1>1, <1>4, <2>3
      <3> QED BY <3>1, <3>2
    <2> HIDE DEF entry
    <2>5. LidarTalk(t, talks'[t].calls, byCallId', talks'[t].doing, OwnCalls(t)')
      BY <1>2, <1>3, <2>1, <2>2, <2>4, LidarAnswers
    <2>6. ASSUME NEW u \in Talks, u # t
          PROVE  LidarTalk(u, talks'[u].calls, byCallId', talks'[u].doing, OwnCalls(u)')
      BY <1>2, <1>3, <2>1, <2>2, <2>4, <2>6, LidarOthers
    <2> QED BY <2>5, <2>6
  <1>8. ASSUME NEW t \in Talks, Raise(t) \/ EndTalk(t) \/ Replay(t)
        PROVE  \A u \in Talks : LidarTalk(u, talks'[u].calls, byCallId', talks'[u].doing, OwnCalls(u)')
    <2>1. /\ talks'[t].doing # "asking" /\ talks'[t].calls = talks[t].calls
          /\ \A u \in Talks : u # t => talks'[u] = talks[u]
      BY <1>8, RestMoves DEF Moved
    <2>2. byCallId' = byCallId /\ answered' = answered
      BY <1>8 DEF Raise, EndTalk, Replay
    <2> QED BY <1>2, <1>3, <1>5, <2>1, <2>2, LidarRests
  <1>9. CASE Report \/ UNCHANGED bridgeVars
    <2>1. byCallId' = byCallId /\ answered' = answered /\ talks' = talks
      BY <1>9 DEF Report, bridgeVars
    <2> QED BY <1>2, <1>5, <2>1
  <1>10. ASSUME NEW t \in Talks PROVE ~MakeAttempt(t) /\ ~PassOver(t)
    BY <1>1 DEF MakeAttempt, PassOver
  <1> QED BY <1>6, <1>7, <1>8, <1>9, <1>10 DEF BridgeNext

-----------------------------------------------------------------------------
(* Whose an id is: of the call under way, or of a turn of the talk.         *)
Has(turns, call, id) == call.id = id \/ \E i \in DOMAIN turns : turns[i].id = id

LEMMA HasMore ==
  ASSUME NEW turns \in Seq(Turns), NEW turn \in Turns, NEW call, NEW next, NEW id,
         Has(Append(turns, turn), next, id)
  PROVE  next.id = id \/ turn.id = id \/ Has(turns, call, id)
  BY Appended DEF Has

(* An id that a talk has was minted, so the next one is new,                *)
LEMMA HasMinted ==
  ASSUME BridgeTypes, IdsMinted, NEW t \in Talks, NEW id, HasId(t, id)
  PROVE  id <= minted
  BY DEF HasId, IdsMinted

(* and the newest one of a talk is its own.                                 *)
LEMMA NewestIsHad ==
  ASSUME BridgeTypes, NEW t \in Talks, NewestId(talks[t].turns) # NoStamp
  PROVE  HasId(t, NewestId(talks[t].turns))
  BY StampsThere DEF HasId, BridgeTypes, TalkRecords

IdsApart ==
    \A t, u \in Talks : \A id \in Nat : HasId(t, id) /\ HasId(u, id) /\ id # NoStamp => t = u

LEMMA DeepteamIs ==
  /\ DeepteamInv <=> (tool = "deepteam" =>
        /\ IdsApart
        /\ \A n \in DOMAIN answered : answered[n].round <= talks[answered[n].talk].round
        /\ \A t \in Talks : TraceKept(t))
  /\ DeepteamInv' <=> (tool' = "deepteam" =>
        /\ IdsApart'
        /\ \A n \in DOMAIN answered' : answered'[n].round <= talks'[answered'[n].talk].round
        /\ (\A t \in Talks : TraceKept(t))')
  BY DEF DeepteamInv, IdsApart

(* A talk may keep its ids and get one that no other has.                   *)
LEMMA ApartStays ==
  ASSUME IdsApart, NEW t \in Talks, NEW new,
         \A u \in Talks : u # t => \A id \in Nat : HasId(u, id)' => HasId(u, id),
         \A id \in Nat : HasId(t, id)' /\ id # NoStamp => HasId(t, id) \/ id = new,
         \A u \in Talks : u # t => ~HasId(u, new)
  PROVE  IdsApart'
  BY DEF IdsApart

(* The steps that deepteam takes.                                           *)
LEMMA DeepteamActions ==
  ASSUME tool' = "deepteam", [BridgeNext]_bridgeVars
  PROVE  /\ tool = "deepteam"
         /\ \/ \E t \in Talks : Ask(t) \/ Answer(t) \/ Raise(t) \/ Replay(t) \/ EndTalk(t)
            \/ Report \/ UNCHANGED bridgeVars
  <1>1. tool = "deepteam"
    BY DEF BridgeNext, bridgeVars, MakeAttempt, Ask, Answer, PassOver, Raise, Replay, EndTalk, Report
  <1> QED BY <1>1 DEF BridgeNext, MakeAttempt, PassOver

(* No step gives two test cases one id.                                     *)
LEMMA IdsStayApart ==
  ASSUME BridgeTypes, IdsMinted, DeepteamInv, tool' = "deepteam", [BridgeNext]_bridgeVars
  PROVE  IdsApart'
  <1>1. tool = "deepteam" /\ IdsApart
    BY DeepteamActions, DeepteamIs
  <1>2. /\ minted \in Nat
        /\ \A t \in Talks : talks[t].turns \in Seq(Turns) /\ inFlight[t].id \in Nat
        /\ NoStamp \in Nat /\ NoCall.id = NoStamp
    BY DEF BridgeTypes, TalkRecords, NoStamp, NoCall
  <1>3. ASSUME NEW t \in Talks, Ask(t) PROVE IdsApart'
    <2>1. PICK known \in IdsFor(t), new \in Nat :
            /\ new = IF known = NoStamp THEN minted + 1 ELSE known
            /\ inFlight'[t].id = new /\ \A u \in Talks : u # t => inFlight'[u] = inFlight[u]
      BY <1>3, AskTakes
    <2>2. /\ talks'[t].turns = Append(talks[t].turns, Turn("user", NoStamp))
          /\ \A u \in Talks : u # t => talks'[u] = talks[u]
      BY <1>3, AskMoves DEF Moved
    <2>3. \A u \in Talks : u # t => ~HasId(u, new)
      <3>1. CASE known = NoStamp
        <4>1. new = minted + 1 /\ ~(new <= minted)
          BY <1>2, <2>1, <3>1
        <4> QED BY <4>1, HasMinted
      <3>2. CASE known # NoStamp
        <4>1. new = known /\ known = NewestId(talks[t].turns)
          BY <1>1, <2>1, <3>2, RecoverIs DEF IdsFor
        <4>2. HasId(t, new) /\ new # NoStamp
          BY <3>2, <4>1, NewestIsHad
        <4> QED BY <1>1, <2>1, <4>2 DEF IdsApart
      <3> QED BY <3>1, <3>2
    <2>4. \A u \in Talks : u # t => \A id \in Nat : HasId(u, id)' => HasId(u, id)
      BY <2>1, <2>2 DEF HasId
    <2>5. ASSUME NEW id \in Nat, HasId(t, id)', id # NoStamp PROVE HasId(t, id) \/ id = new
      <3>1. Has(Append(talks[t].turns, Turn("user", NoStamp)), inFlight'[t], id)
        BY <2>2, <2>5 DEF HasId, Has
      <3>2. Turn("user", NoStamp) \in Turns /\ Turn("user", NoStamp).id = NoStamp
        BY <1>2, TurnsAre
      <3>3. inFlight'[t].id = id \/ Has(talks[t].turns, inFlight[t], id)
        BY <1>2, <2>5, <3>1, <3>2, HasMore
      <3> QED BY <2>1, <3>3 DEF Has, HasId
    <2> QED BY <1>1, <2>3, <2>4, <2>5, ApartStays
  <1>4. ASSUME NEW t \in Talks, Answer(t) PROVE IdsApart'
    <2> DEFINE turn == Turn("assistant", inFlight[t].id)
    <2>1. /\ inFlight'[t].id = NoStamp /\ \A u \in Talks : u # t => inFlight'[u] = inFlight[u]
          /\ talks[t].doing = "asking"
      BY <1>2, <1>4 DEF Answer, BridgeTypes
    <2>2. talks'[t].turns = Append(talks[t].turns, turn) /\ \A u \in Talks : u # t => talks'[u] = talks[u]
      BY <1>4, ReplyMoves DEF Moved
    <2>3. turn \in Turns /\ turn.id = inFlight[t].id
      BY <1>2, TurnsAre
    <2>4. \A u \in Talks : u # t => ~HasId(u, inFlight[t].id)
      <3>1. HasId(t, inFlight[t].id) /\ inFlight[t].id # NoStamp
        BY <2>1 DEF HasId, IdsMinted
      <3> QED BY <1>1, <1>2, <3>1 DEF IdsApart
    <2>5. \A u \in Talks : u # t => \A id \in Nat : HasId(u, id)' => HasId(u, id)
      BY <2>1, <2>2 DEF HasId
    <2> HIDE DEF turn
    <2>6. ASSUME NEW id \in Nat, HasId(t, id)', id # NoStamp PROVE HasId(t, id) \/ id = inFlight[t].id
      <3>1. Has(Append(talks[t].turns, turn), inFlight'[t], id)
        BY <2>2, <2>6 DEF HasId, Has
      <3>2. turn.id = id \/ Has(talks[t].turns, inFlight[t], id)
        BY <1>2, <2>1, <2>3, <2>6, <3>1, HasMore
      <3> QED BY <2>3, <3>2 DEF Has, HasId
    <2> QED BY <1>1, <2>4, <2>5, <2>6, ApartStays
  <1>5. ASSUME NEW t \in Talks, Raise(t) \/ EndTalk(t) \/ Replay(t) PROVE IdsApart'
    <2>1. /\ talks'[t].turns = talks[t].turns \/ talks'[t].turns = <<>>
          /\ \A u \in Talks : u # t => talks'[u] = talks[u]
      BY <1>5, RestMoves DEF Moved
    <2>2. inFlight' = inFlight \/ inFlight' = [inFlight EXCEPT ![t] = NoCall]
      BY <1>5 DEF Raise, EndTalk, Replay
    <2>3. \A u \in Talks : u # t => inFlight'[u] = inFlight[u]
      BY <2>2 DEF BridgeTypes
    <2>4. inFlight'[t] = inFlight[t] \/ inFlight'[t] = NoCall
      BY <2>2 DEF BridgeTypes
    <2>5. \A u \in Talks : \A id \in Nat : HasId(u, id)' /\ id # NoStamp => HasId(u, id)
      BY <1>2, <2>1, <2>3, <2>4 DEF HasId
    <2> QED BY <1>1, <2>5 DEF IdsApart
  <1>6. CASE Report \/ UNCHANGED bridgeVars
    BY <1>1, <1>6 DEF Report, bridgeVars, IdsApart, HasId
  <1> QED BY <1>3, <1>4, <1>5, <1>6, DeepteamActions

(* No answer is of a round that is still to come.                           *)
RoundsFollow == \A n \in DOMAIN answered : answered[n].round <= talks[answered[n].talk].round

LEMMA RoundsStay ==
  ASSUME BridgeTypes, IdsMinted, DeepteamInv, tool' = "deepteam", [BridgeNext]_bridgeVars
  PROVE  RoundsFollow'
  <1>1. tool = "deepteam" /\ RoundsFollow
    BY DeepteamActions, DeepteamIs DEF RoundsFollow
  <1>2. /\ answered \in Seq(Entries)
        /\ \A n \in DOMAIN answered : answered[n].round \in {1, 2} /\ answered[n].talk \in Talks
        /\ \A t \in Talks : talks[t].round \in {1, 2}
    <2>1. answered \in Seq(Entries) /\ \A t \in Talks : talks[t].round \in {1, 2}
      BY DEF BridgeTypes, TalkRecords
    <2>2. \A n \in DOMAIN answered : answered[n] \in Entries
      BY <2>1
    <2> QED BY <2>1, <2>2 DEF Entries
  <1>3. ASSUME answered' = answered, NEW t \in Talks, \A u \in Talks : u # t => talks'[u] = talks[u],
               talks'[t].round = talks[t].round \/ talks'[t].round = 2
        PROVE  RoundsFollow'
    <2>1. ASSUME NEW u \in Talks PROVE talks[u].round <= talks'[u].round /\ talks'[u].round \in {1, 2}
      BY <1>2, <1>3
    <2> QED BY <1>1, <1>2, <1>3, <2>1 DEF RoundsFollow
  <1>4. ASSUME NEW t \in Talks, Ask(t) PROVE RoundsFollow'
    BY <1>3, <1>4, AskMoves DEF Moved, Ask
  <1>5. ASSUME NEW t \in Talks, Raise(t) \/ EndTalk(t) \/ Replay(t) PROVE RoundsFollow'
    <2>1. /\ talks'[t].round = talks[t].round \/ talks'[t].round = 2
          /\ \A u \in Talks : u # t => talks'[u] = talks[u]
      BY <1>5, RestMoves DEF Moved
    <2>2. answered' = answered
      BY <1>5 DEF Raise, EndTalk, Replay
    <2> QED BY <1>3, <2>1, <2>2
  <1>6. ASSUME NEW t \in Talks, Answer(t) PROVE RoundsFollow'
    <2> DEFINE entry == [call |-> <<"call", t, talks[t].calls>>, talk |-> t, round |-> talks[t].round]
    <2>1. /\ talks'[t].round = talks[t].round /\ \A u \in Talks : u # t => talks'[u] = talks[u]
      BY <1>6, ReplyMoves DEF Moved
    <2>2. answered' = Append(answered, entry) /\ entry \in Entries
      BY <1>6, EntryType DEF Answer
    <2>3. entry.talk = t /\ entry.round = talks[t].round
      OBVIOUS
    <2> HIDE DEF entry
    <2>4. /\ \A n \in 1..Len(answered) : answered'[n] = answered[n] /\ n \in DOMAIN answered
          /\ answered'[Len(answered) + 1] = entry
          /\ \A n \in DOMAIN answered' : n \in 1..Len(answered) \/ n = Len(answered) + 1
      BY <1>2, <2>2, Appended
    <2>5. ASSUME NEW n \in DOMAIN answered' PROVE answered'[n].round <= talks'[answered'[n].talk].round
      <3>1. CASE n \in 1..Len(answered)
        BY <1>1, <1>2, <2>1, <2>4, <3>1 DEF RoundsFollow
      <3>2. CASE n = Len(answered) + 1
        BY <1>2, <2>1, <2>3, <2>4, <3>2
      <3> QED BY <2>4, <3>1, <3>2
    <2> QED BY <2>5 DEF RoundsFollow
  <1>7. CASE Report \/ UNCHANGED bridgeVars
    BY <1>1, <1>7 DEF Report, bridgeVars, RoundsFollow
  <1> QED BY <1>4, <1>5, <1>6, <1>7, DeepteamActions

-----------------------------------------------------------------------------
(* What is kept of a talk, for any turns and calls.                         *)
KeptOk(turns, doing, call, kept, own) ==
    LET id == NewestId(turns)
    IN  /\ id = NoStamp => own = <<>>
        /\ id # NoStamp => id \in DOMAIN kept /\ kept[id] = own /\ own # <<>>
        /\ doing = "asking" => call.trace = own

LEMMA TraceKeptIs ==
  ASSUME NEW t \in Talks
  PROVE  /\ TraceKept(t) <=> KeptOk(talks[t].turns, talks[t].doing, inFlight[t], traces, OwnCalls(t))
         /\ TraceKept(t)' <=> KeptOk(talks'[t].turns, talks'[t].doing, inFlight'[t], traces', OwnCalls(t)')
  BY DEF TraceKept, KeptOk

(* Every step keeps the trace of a test case under its newest id.           *)
LEMMA TracesKept ==
  ASSUME BridgeTypes, IdsMinted, DeepteamInv, tool' = "deepteam", [BridgeNext]_bridgeVars, NEW u \in Talks
  PROVE  TraceKept(u)'
  <1>1. /\ tool = "deepteam" /\ IdsApart /\ RoundsFollow
        /\ \A t \in Talks : KeptOk(talks[t].turns, talks[t].doing, inFlight[t], traces, OwnCalls(t))
    BY DeepteamActions, DeepteamIs, TraceKeptIs DEF RoundsFollow
  <1>2. /\ minted \in Nat /\ NoStamp \in Nat
        /\ \A t \in Talks : talks[t].turns \in Seq(Turns) /\ inFlight[t].id \in Nat
        /\ \A id \in DOMAIN traces : id <= minted
    BY DEF BridgeTypes, TalkRecords, NoStamp, IdsMinted
  <1>3. ASSUME \A t \in Talks : talks'[t].round = talks[t].round
        PROVE  \A e : Belonging(tool, talks', e, u) <=> Belonging(tool, talks, e, u)
    BY <1>1, <1>3 DEF Belonging
  <1>4. ASSUME NEW t \in Talks, Ask(t) PROVE TraceKept(u)'
    <2>1. PICK known \in IdsFor(t), id \in Nat :
            /\ id = IF known = NoStamp THEN minted + 1 ELSE known
            /\ inFlight'[t].trace = TraceOf(id) /\ \A v \in Talks : v # t => inFlight'[v] = inFlight[v]
            /\ traces' = Taken(id)
      BY <1>4, AskTakes
    <2>2. /\ talks'[t].turns = Append(talks[t].turns, Turn("user", NoStamp))
          /\ talks'[t].round = talks[t].round /\ talks'[t].doing = "asking"
          /\ \A v \in Talks : v # t => talks'[v] = talks[v]
      BY <1>4, AskMoves DEF Moved
    <2>3. traces' = traces
      BY <1>1, <2>1, TakenKeeps
    <2>4. OwnCalls(u)' = OwnCalls(u)
      <3>1. answered' = answered /\ tool' = tool
        BY <1>4 DEF Ask
      <3>2. \A v \in Talks : talks'[v].round = talks[v].round
        BY <2>2
      <3> QED BY <1>3, <3>1, <3>2, OthersOwnStay
    <2>5. CASE u # t
      BY <1>1, <2>1, <2>2, <2>3, <2>4, <2>5, TraceKeptIs
    <2>6. CASE u = t
      <3>1. NewestId(talks'[t].turns) = NewestId(talks[t].turns)
        BY <1>2, <2>2, TurnsAre, UserStamps
      <3>2. known = NewestId(talks[t].turns)
        BY <1>1, <2>1, RecoverIs DEF IdsFor
      <3>3. TraceOf(id) = OwnCalls(t)
        <4>1. CASE known = NoStamp
          <5>1. id = minted + 1 /\ ~(id <= minted)
            BY <1>2, <2>1, <4>1
          <5>2. id \notin DOMAIN traces
            BY <1>2, <5>1
          <5> QED BY <1>1, <3>2, <4>1, <5>2 DEF TraceOf, KeptOk
        <4>2. CASE known # NoStamp
          BY <1>1, <2>1, <3>2, <4>2 DEF TraceOf, KeptOk
        <4> QED BY <4>1, <4>2
      <3>4. KeptOk(talks'[t].turns, talks'[t].doing, inFlight'[t], traces', OwnCalls(t)')
        BY <1>1, <2>1, <2>3, <2>4, <2>6, <3>1, <3>3 DEF KeptOk
      <3> QED BY <2>6, <3>4, TraceKeptIs
    <2> QED BY <2>5, <2>6
  <1>5. ASSUME NEW t \in Talks, Answer(t) PROVE TraceKept(u)'
    <2> DEFINE id == inFlight[t].id
               call == <<"call", t, talks[t].calls>>
               entry == [call |-> call, talk |-> t, round |-> talks[t].round]
    <2>1. /\ talks'[t].turns = Append(talks[t].turns, Turn("assistant", id))
          /\ talks'[t].round = talks[t].round /\ talks'[t].doing = "free"
          /\ \A v \in Talks : v # t => talks'[v] = talks[v]
      BY <1>1, <1>5, ReplyMoves DEF Moved, Then
    <2>2. /\ traces' = With(id, Append(inFlight[t].trace, call)) /\ talks[t].doing = "asking"
          /\ \A v \in Talks : v # t => inFlight'[v] = inFlight[v]
      BY <1>5 DEF Answer, BridgeTypes
    <2>3. id # NoStamp /\ HasId(t, id)
      BY <2>2 DEF IdsMinted, HasId
    <2>4. /\ Belonging(tool, talks', entry, u) => OwnCalls(u)' = Append(OwnCalls(u), call)
          /\ ~Belonging(tool, talks', entry, u) => OwnCalls(u)' = OwnCalls(u)
      <3>1. \A v \in Talks : talks'[v].round = talks[v].round
        BY <2>1
      <3>2. \A e : Belonging(tool, talks', e, u) <=> Belonging(tool, talks, e, u)
        BY <1>3, <3>1
      <3> QED BY <1>5, <3>2, AnswerAdds
    <2>5. Belonging(tool, talks', entry, u) <=> u = t
      BY <1>1, <2>1 DEF Belonging
    <2> HIDE DEF id, call, entry
    <2>6. /\ DOMAIN traces' = DOMAIN traces \cup {id} /\ traces'[id] = Append(inFlight[t].trace, call)
          /\ \A other \in DOMAIN traces : other # id => traces'[other] = traces[other]
      BY <2>2 DEF With
    <2>7. CASE u = t
      <3>1. NewestId(talks'[t].turns) = id
        BY <1>2, <2>1, <2>3, TurnsAre, ReplyStamps DEF id
      <3>2. inFlight[t].trace = OwnCalls(t)
        BY <1>1, <2>2 DEF KeptOk
      <3>3. Append(inFlight[t].trace, call) # <<>>
        <4>1. inFlight[t].trace \in Seq(CallIds) /\ call \in CallIds
          BY EntryType DEF BridgeTypes, call
        <4> QED BY <4>1
      <3>4. OwnCalls(t)' = Append(inFlight[t].trace, call)
        BY <2>4, <2>5, <2>7, <3>2
      <3>5. KeptOk(talks'[t].turns, talks'[t].doing, inFlight'[t], traces', OwnCalls(t)')
        BY <2>1, <2>3, <2>6, <3>1, <3>3, <3>4 DEF KeptOk
      <3> QED BY <2>7, <3>5, TraceKeptIs
    <2>8. CASE u # t
      <3> DEFINE newest == NewestId(talks[u].turns)
      <3>1. newest # NoStamp => newest # id
        <4>1. newest # NoStamp => HasId(u, newest) /\ newest \in Nat
          BY <1>2, NewestIsHad, StampsThere
        <4> QED BY <1>1, <2>3, <2>8, <4>1 DEF IdsApart
      <3>2. newest # NoStamp => newest \in DOMAIN traces' /\ traces'[newest] = traces[newest]
        BY <1>1, <2>6, <3>1 DEF KeptOk
      <3>3. /\ talks'[u] = talks[u] /\ inFlight'[u] = inFlight[u] /\ OwnCalls(u)' = OwnCalls(u)
            /\ KeptOk(talks[u].turns, talks[u].doing, inFlight[u], traces, OwnCalls(u))
        BY <1>1, <2>1, <2>2, <2>4, <2>5, <2>8
      <3>4. KeptOk(talks'[u].turns, talks'[u].doing, inFlight'[u], traces', OwnCalls(u)')
        BY <3>2, <3>3 DEF KeptOk
      <3> QED BY <3>4, TraceKeptIs
    <2> QED BY <2>7, <2>8
  <1>6. ASSUME NEW t \in Talks, Replay(t) PROVE TraceKept(u)'
    <2>1. /\ talks'[t].turns = <<>> /\ talks'[t].round = 2 /\ talks'[t].doing = "free"
          /\ \A v \in Talks : v # t => talks'[v] = talks[v]
      BY <1>6, RestMoves DEF Moved
    <2>2. traces' = traces /\ inFlight' = inFlight /\ answered' = answered /\ talks[t].round = 1
            /\ tool' = tool
      BY <1>6 DEF Replay
    <2>3. CASE u = t
      <3>1. NewestId(<<>>) = NoStamp
        BY NoStamps
      <3>2. \A n \in DOMAIN answered : ~Belonging("deepteam", talks', answered[n], t)
        <4>1. \A n \in DOMAIN answered : answered[n].talk = t => answered[n].round <= 1
          BY <1>1, <2>2 DEF RoundsFollow
        <4> QED BY <2>1, <4>1 DEF Belonging
      <3>3. OwnCalls(t)' = <<>>
        BY <1>1, <2>2, <3>2, OwnNone, OwnCallsAre
      <3>4. KeptOk(talks'[t].turns, talks'[t].doing, inFlight'[t], traces', OwnCalls(t)')
        BY <2>1, <3>1, <3>3 DEF KeptOk
      <3> QED BY <2>3, <3>4, TraceKeptIs
    <2>4. CASE u # t
      <3>1. \A n \in DOMAIN answered : Belonging(tool, talks', answered[n], u)
                                         <=> Belonging(tool, talks, answered[n], u)
        BY <1>1, <2>1, <2>4 DEF Belonging
      <3>2. OwnCalls(u)' = OwnCalls(u)
        BY <2>2, <3>1, OthersOwnStay
      <3> QED BY <1>1, <2>1, <2>2, <2>4, <3>2, TraceKeptIs
    <2> QED BY <2>3, <2>4
  <1>7. ASSUME NEW t \in Talks, Raise(t) \/ EndTalk(t) PROVE TraceKept(u)'
    <2>1. /\ talks'[t].turns = talks[t].turns /\ talks'[t].round = talks[t].round
          /\ talks'[t].doing # "asking" /\ \A v \in Talks : v # t => talks'[v] = talks[v]
      BY <1>7, RestMoves DEF Moved
    <2>2. /\ traces' = traces /\ answered' = answered /\ tool' = tool
          /\ \A v \in Talks : v # t => inFlight'[v] = inFlight[v]
      BY <1>1, <1>7 DEF Raise, EndTalk, BridgeTypes
    <2>3. OwnCalls(u)' = OwnCalls(u)
      <3>1. \A v \in Talks : talks'[v].round = talks[v].round
        BY <2>1
      <3> QED BY <1>3, <2>2, <3>1, OthersOwnStay
    <2>4. KeptOk(talks'[u].turns, talks'[u].doing, inFlight'[u], traces', OwnCalls(u)')
      BY <1>1, <2>1, <2>2, <2>3 DEF KeptOk
    <2> QED BY <2>4, TraceKeptIs
  <1>8. CASE Report \/ UNCHANGED bridgeVars
    <2>1. traces' = traces /\ talks' = talks /\ inFlight' = inFlight /\ answered' = answered /\ tool' = tool
      BY <1>1, <1>8, TakenKeeps DEF Report, bridgeVars
    <2>2. OwnCalls(u)' = OwnCalls(u)
      BY <2>1, OthersOwnStay
    <2> QED BY <1>1, <2>1, <2>2, TraceKeptIs
  <1> QED BY <1>4, <1>5, <1>6, <1>7, <1>8, DeepteamActions

LEMMA DeepteamStays ==
  ASSUME BridgeTypes, IdsMinted, DeepteamInv, [BridgeNext]_bridgeVars
  PROVE  DeepteamInv'
  BY IdsStayApart, RoundsStay, TracesKept, DeepteamIs DEF RoundsFollow

-----------------------------------------------------------------------------
(* The steps that garak takes.                                              *)
LEMMA GarakActions ==
  ASSUME tool' = "garak", [BridgeNext]_bridgeVars
  PROVE  /\ tool = "garak"
         /\ \/ \E t \in Talks : MakeAttempt(t) \/ Ask(t) \/ Answer(t) \/ PassOver(t)
            \/ Report \/ UNCHANGED bridgeVars
  <1>1. tool = "garak"
    BY DEF BridgeNext, bridgeVars, MakeAttempt, Ask, Answer, PassOver, Raise, Replay, EndTalk, Report
  <1>2. \A t \in Talks : ~Raise(t) /\ ~Replay(t) /\ ~EndTalk(t)
    BY <1>1 DEF Raise, Replay, EndTalk
  <1> QED BY <1>1, <1>2 DEF BridgeNext

LEMMA TalkTypes ==
  ASSUME BridgeTypes
  PROVE  /\ minted \in Nat /\ NoStamp \in Nat /\ Talks \subseteq Nat /\ NoCall.id = NoStamp
         /\ \A t \in Talks : /\ talks[t].turns \in Seq(Turns) /\ talks[t].root \in Talks
                             /\ talks[t].doing \in {"unmade", "free", "asking", "over"}
                             /\ inFlight[t].id \in Nat /\ ConvId(t) \in Nat
  BY StampsThere DEF BridgeTypes, TalkRecords, NoStamp, NoCall, Talks, ConvId

(* An attempt of garak is made, asks and is over before the next one.       *)
LEMMA OneAsks ==
  ASSUME BridgeTypes, InTurn, NEW t \in Talks, talks[t].doing # "over",
         \A other \in 1..t - 1 : talks[other].doing = "over", NEW u \in Talks, u # t
  PROVE  talks[u].doing # "asking"
  <1>1. t \in Nat /\ u \in Nat /\ (u < t => u \in 1..t - 1) /\ (u < t \/ t < u)
    BY DEF Talks
  <1>2. CASE u < t
    BY <1>1, <1>2
  <1>3. CASE t < u
    BY <1>3 DEF InTurn
  <1> QED BY <1>1, <1>2, <1>3

LEMMA BusyAlone ==
  ASSUME BridgeTypes, InTurn, NEW t \in Talks, talks[t].doing \in {"free", "asking"}, NEW u \in Talks, u # t
  PROVE  talks[u].doing # "asking"
  <1>1. t \in Nat /\ \A other \in 1..t - 1 : other \in Talks /\ other < t
    BY BridgeAssumption DEF Talks
  <1>2. \A other \in 1..t - 1 : talks[other].doing = "over"
    BY <1>1 DEF InTurn
  <1> QED BY <1>2, OneAsks

(* What the steps do to the ids and the roots.                              *)
LEMMA AskIds ==
  ASSUME BridgeTypes, NEW t \in Talks, Ask(t)
  PROVE  /\ \A u \in Talks : ConvId(u)' = ConvId(u) /\ Root(u)' = Root(u)
         /\ talks[t].doing = "free" /\ talks'[t].doing = "asking"
         /\ \A u \in Talks : u # t => talks'[u] = talks[u]
  <1>1. /\ talks'[t].turns = Append(talks[t].turns, Turn("user", NoStamp))
        /\ talks'[t].root = talks[t].root /\ talks'[t].doing = "asking"
        /\ \A u \in Talks : u # t => talks'[u] = talks[u]
    BY AskMoves DEF Moved
  <1>2. FirstId(talks'[t].turns) = FirstId(talks[t].turns)
    BY <1>1, TalkTypes, TurnsAre, UserStamps
  <1> QED BY <1>1, <1>2 DEF ConvId, Root, Ask

LEMMA ReplyIds ==
  ASSUME BridgeTypes, IdsMinted, NEW t \in Talks, Answer(t) \/ PassOver(t), tool = "garak"
  PROVE  /\ inFlight[t].id # NoStamp
         /\ ConvId(t)' = IF ConvId(t) = NoStamp THEN inFlight[t].id ELSE ConvId(t)
         /\ \A u \in Talks : u # t => ConvId(u)' = ConvId(u)
         /\ \A u \in Talks : Root(u)' = Root(u)
         /\ talks[t].doing = "asking" /\ talks'[t].doing = "over"
         /\ \A u \in Talks : u # t => talks'[u] = talks[u]
  <1>1. /\ talks'[t].turns = Append(talks[t].turns, Turn("assistant", inFlight[t].id))
        /\ talks'[t].root = talks[t].root /\ talks'[t].doing = "over"
        /\ \A u \in Talks : u # t => talks'[u] = talks[u]
    BY ReplyMoves DEF Moved, Then
  <1>2. talks[t].doing = "asking" /\ inFlight[t].id # NoStamp
    BY DEF Answer, PassOver, IdsMinted
  <1>3. FirstId(talks'[t].turns) = IF FirstId(talks[t].turns) = NoStamp THEN inFlight[t].id
                                   ELSE FirstId(talks[t].turns)
    BY <1>1, <1>2, TalkTypes, TurnsAre, ReplyStamps
  <1> QED BY <1>1, <1>2, <1>3 DEF ConvId, Root

LEMMA MakeIds ==
  ASSUME BridgeTypes, InTurn, Rooted, NEW t \in Talks, MakeAttempt(t)
  PROVE  /\ talks[t].doing = "unmade" /\ talks'[t].doing = "free" /\ Root(t) = t /\ ConvId(t) = NoStamp
         /\ \A u \in Talks : u < t => talks[u].doing = "over"
         /\ \A u \in Talks : u # t => /\ talks'[u] = talks[u] /\ ConvId(u)' = ConvId(u)
                                      /\ Root(u)' = Root(u) /\ Root(u) # t
         /\ \/ ConvId(t)' = NoStamp /\ Root(t)' = t
            \/ Root(t)' \in Talks /\ Root(t)' < t /\ ConvId(t)' = ConvId(Root(t)') /\ ConvId(t)' # NoStamp
                 /\ Root(Root(t)') = Root(t)'
  <1>1. PICK parent \in 0..t - 1 : Made(t, talks', parent)
    BY MakeMoves
  <1>2. talks[t].doing = "unmade" /\ talks'[t].doing = "free" /\ Root(t) = t /\ ConvId(t) = NoStamp
    BY <1>1 DEF Made, MakeAttempt, InTurn
  <1>3. \A u \in Talks : u < t => talks[u].doing = "over"
    BY DEF MakeAttempt, Talks
  <1>4. \A u \in Talks : u # t => talks'[u] = talks[u] /\ ConvId(u)' = ConvId(u) /\ Root(u)' = Root(u)
    BY <1>1 DEF Made, ConvId, Root
  <1>5. \A u \in Talks : u # t => Root(u) # t
    BY <1>2 DEF Rooted
  <1>6. CASE parent = 0
    <2>1. talks'[t].turns = <<>> /\ talks'[t].root = t
      BY <1>1, <1>6 DEF Made
    <2>2. ConvId(t)' = NoStamp /\ Root(t)' = t
      BY <2>1, NoStamps DEF ConvId, Root
    <2> QED BY <1>2, <1>3, <1>4, <1>5, <2>2
  <1>7. CASE parent # 0
    <2>1. /\ parent \in Talks /\ parent < t
          /\ talks'[t].turns = talks[parent].turns /\ talks'[t].root = talks[parent].root
      BY <1>1, <1>7 DEF Made
    <2>2. ConvId(t)' = ConvId(parent) /\ Root(t)' = Root(parent)
      BY <2>1 DEF ConvId, Root
    <2>3. talks[parent].doing = "over"
      BY <1>3, <2>1
    <2>4. ConvId(parent) # NoStamp /\ ConvId(parent) = ConvId(Root(parent))
      BY <2>1, <2>3 DEF Rooted
    <2>5. Root(parent) \in Talks /\ Root(parent) < t
      <3>1. Root(parent) \in Talks /\ Root(parent) <= parent /\ t \in Nat /\ parent \in Nat
              /\ Root(parent) \in Nat
        BY <2>1, TalkTypes DEF Rooted, Root
      <3> QED BY <2>1, <3>1
    <2>6. Root(Root(parent)) = Root(parent)
      BY <2>1 DEF Rooted
    <2>7. Root(t)' \in Talks /\ Root(t)' < t /\ ConvId(t)' = ConvId(Root(t)') /\ ConvId(t)' # NoStamp
            /\ Root(Root(t)') = Root(t)'
      BY <2>2, <2>4, <2>5, <2>6
    <2> QED BY <1>2, <1>3, <1>4, <1>5, <2>7
  <1> QED BY <1>6, <1>7

-----------------------------------------------------------------------------
(* An answer is an answer to a talk.                                        *)
LEMMA EntriesAre ==
  ASSUME BridgeTypes, NEW n \in DOMAIN answered
  PROVE  answered[n] \in Entries /\ answered[n].talk \in Talks
  <1>1. answered[n] \in Entries
    BY DEF BridgeTypes
  <1> QED BY <1>1 DEF Entries

(* Every step keeps the order of the attempts,                              *)
LEMMA InTurnStays ==
  ASSUME BridgeTypes, IdsMinted, InTurn, Rooted, tool' = "garak", [BridgeNext]_bridgeVars
  PROVE  InTurn'
  <1>0. tool = "garak"
    BY GarakActions
  <1>1. ASSUME NEW t \in Talks, \A u \in Talks : u # t => talks'[u] = talks[u],
               \A u \in Talks : u < t => talks[u].doing = "over",
               talks[t].doing # "over", talks'[t].doing # "unmade",
               \A u \in Talks : u # t => ConvId(u)' = ConvId(u) /\ Root(u)' = Root(u),
               \A n \in DOMAIN answered' : (n \in DOMAIN answered /\ answered'[n] = answered[n])
                                           \/ answered'[n].talk = t
        PROVE  InTurn'
    <2>1. ASSUME NEW u \in Talks, NEW v \in Talks, v < u, talks'[u].doing # "unmade"
          PROVE  talks'[v].doing = "over"
      <3>1. CASE u = t
        <4>1. v # t
          BY <1>1, <2>1, <3>1, TalkTypes
        <4> QED BY <1>1, <2>1, <3>1, <4>1
      <3>2. CASE u # t
        <4>1. talks[u].doing # "unmade"
          BY <1>1, <2>1, <3>2
        <4>2. talks[v].doing = "over"
          BY <2>1, <4>1 DEF InTurn
        <4> QED BY <1>1, <4>2
      <3> QED BY <3>1, <3>2
    <2>2. \A u \in Talks : talks'[u].doing = "unmade" => Root(u)' = u /\ ConvId(u)' = NoStamp
      BY <1>1 DEF InTurn
    <2>3. ASSUME NEW n \in DOMAIN answered' PROVE talks'[answered'[n].talk].doing # "unmade"
      <3>1. CASE answered'[n].talk = t
        BY <1>1, <3>1
      <3>2. CASE n \in DOMAIN answered /\ answered'[n] = answered[n] /\ answered'[n].talk # t
        BY <1>1, <3>2, EntriesAre DEF InTurn
      <3> QED BY <1>1, <3>1, <3>2
    <2> QED BY <2>1, <2>2, <2>3 DEF InTurn
  <1>2. ASSUME NEW t \in Talks, talks[t].doing # "unmade"
        PROVE  \A u \in Talks : u < t => talks[u].doing = "over"
    BY <1>2 DEF InTurn
  <1>3. ASSUME NEW t \in Talks, MakeAttempt(t) PROVE InTurn'
    <2>1. answered' = answered
      BY <1>3 DEF MakeAttempt
    <2>2. talks[t].doing # "over" /\ talks'[t].doing # "unmade"
      BY <1>3, MakeIds
    <2> QED BY <1>1, <1>3, <2>1, <2>2, MakeIds
  <1>4. ASSUME NEW t \in Talks, Ask(t) PROVE InTurn'
    <2>1. answered' = answered
      BY <1>4 DEF Ask
    <2>2. talks[t].doing = "free" /\ talks'[t].doing = "asking"
      BY <1>4, AskIds
    <2> QED BY <1>1, <1>2, <1>4, <2>1, <2>2, AskIds
  <1>5. ASSUME NEW t \in Talks, Answer(t) \/ PassOver(t) PROVE InTurn'
    <2>1. \A n \in DOMAIN answered' : (n \in DOMAIN answered /\ answered'[n] = answered[n])
                                           \/ answered'[n].talk = t
      <3>1. CASE PassOver(t)
        BY <3>1 DEF PassOver
      <3>2. CASE Answer(t)
        <4> DEFINE entry == [call |-> <<"call", t, talks[t].calls>>, talk |-> t, round |-> talks[t].round]
        <4>1. answered' = Append(answered, entry) /\ entry \in Entries /\ answered \in Seq(Entries)
                /\ entry.talk = t
          BY <3>2, EntryType DEF Answer, BridgeTypes
        <4> HIDE DEF entry
        <4> QED BY <4>1, Appended
      <3> QED BY <1>5, <3>1, <3>2
    <2>2. talks[t].doing = "asking" /\ talks'[t].doing = "over"
      BY <1>0, <1>5, ReplyIds
    <2>3. /\ \A u \in Talks : u # t => talks'[u] = talks[u]
          /\ \A u \in Talks : u # t => ConvId(u)' = ConvId(u) /\ Root(u)' = Root(u)
      BY <1>0, <1>5, ReplyIds
    <2> QED BY <1>1, <1>2, <2>1, <2>2, <2>3
  <1>6. CASE Report \/ UNCHANGED bridgeVars
    BY <1>6 DEF Report, bridgeVars, InTurn, ConvId, Root
  <1> QED BY <1>3, <1>4, <1>5, <1>6, GarakActions

(* and their ids.                                                           *)
LEMMA RootedStays ==
  ASSUME BridgeTypes, IdsMinted, InTurn, Rooted, Carried, tool' = "garak", [BridgeNext]_bridgeVars
  PROVE  Rooted'
  <1>0. tool = "garak"
    BY GarakActions
  <1>a. \A t \in Talks : Root(t) \in Talks
    BY TalkTypes DEF Root
  <1>1. ASSUME NEW t \in Talks, MakeAttempt(t) PROVE Rooted'
    <2>1. /\ talks[t].doing = "unmade" /\ talks'[t].doing = "free" /\ Root(t) = t /\ ConvId(t) = NoStamp
          /\ \A u \in Talks : u # t => /\ talks'[u] = talks[u] /\ ConvId(u)' = ConvId(u)
                                       /\ Root(u)' = Root(u) /\ Root(u) # t
          /\ \/ ConvId(t)' = NoStamp /\ Root(t)' = t
             \/ Root(t)' \in Talks /\ Root(t)' < t /\ ConvId(t)' = ConvId(Root(t)') /\ ConvId(t)' # NoStamp
                 /\ Root(Root(t)') = Root(t)'
      BY <1>1, MakeIds
    <2>2. CASE ConvId(t)' = NoStamp /\ Root(t)' = t
      <3>1. \A u \in Talks : ConvId(u)' = ConvId(u) /\ Root(u)' = Root(u)
                               /\ (talks'[u].doing = "over" <=> talks[u].doing = "over")
        BY <2>1, <2>2
      <3>2. \A u \in Talks : Root(Root(u))' = Root(Root(u)) /\ ConvId(Root(u))' = ConvId(Root(u))
        BY <1>a, <3>1 DEF Root, ConvId
      <3> QED BY <3>1, <3>2 DEF Rooted
    <2>3. CASE Root(t)' \in Talks /\ Root(t)' < t /\ ConvId(t)' = ConvId(Root(t)')
                 /\ ConvId(t)' # NoStamp /\ Root(Root(t)') = Root(t)'
      <3>0. PICK r \in Talks : r = Root(t)'
        BY <2>3
      <3>1. r \in Talks /\ r < t /\ r # t /\ ConvId(t)' = ConvId(r) /\ ConvId(r) # NoStamp /\ Root(r) = r
        BY <2>3, <3>0, TalkTypes
      <3>2. r = talks'[t].root
        BY <3>0 DEF Root
      <3>3. talks'[r] = talks[r] /\ ConvId(r)' = ConvId(r) /\ Root(r)' = r
        BY <2>1, <3>1
      <3>4. \A u \in Talks : Root(u)' = IF u = t THEN r ELSE Root(u)
        BY <2>1, <3>2 DEF Root
      <3>5. \A u \in Talks : ConvId(u)' = IF u = t THEN ConvId(r) ELSE ConvId(u)
        BY <2>1, <3>1
      <3>6. \A u \in Talks : Root(u)' <= u /\ Root(Root(u))' = Root(u)'
        <4>1. \A u \in Talks : u # t => Root(u)' <= u /\ Root(Root(u))' = Root(u)'
          <5> SUFFICES ASSUME NEW u \in Talks, u # t PROVE Root(u)' <= u /\ Root(Root(u))' = Root(u)'
            OBVIOUS
          <5>1. Root(u) \in Talks /\ Root(u) # t /\ Root(u) <= u /\ Root(Root(u)) = Root(u)
            BY <1>a, <2>1 DEF Rooted
          <5>2. Root(Root(u))' = talks'[talks'[u].root].root /\ talks'[u].root = Root(u)
            BY <2>1 DEF Root
          <5> QED BY <2>1, <5>1, <5>2 DEF Root
        <4>2. Root(t)' <= t
          BY <3>1, <3>4, TalkTypes
        <4>3. Root(Root(t))' = talks'[r].root
          BY <3>2 DEF Root
        <4> QED BY <3>1, <3>3, <3>4, <4>1, <4>2, <4>3 DEF Root
      <3>7. \A u \in Talks : Root(u)' = u
                               => u # t /\ Root(u) = u /\ ConvId(u)' = ConvId(u) /\ talks'[u] = talks[u]
        BY <2>1, <3>1, <3>4
      <3>8. \A u \in Talks : Root(u)' = u => (ConvId(u)' # NoStamp <=> talks'[u].doing = "over")
        BY <3>7 DEF Rooted
      <3>9. ASSUME NEW u \in Talks, Root(u)' # u PROVE ConvId(u)' = ConvId(Root(u))' /\ ConvId(u)' # NoStamp
        <4>1. CASE u = t
          <5>1. ConvId(Root(t))' = FirstId(talks'[r].turns)
            BY <3>2 DEF Root, ConvId
          <5> QED BY <3>1, <3>3, <3>5, <4>1, <5>1 DEF ConvId
        <4>2. CASE u # t
          <5>1. ConvId(u)' = ConvId(u) /\ Root(u) # t /\ Root(u) # u /\ Root(u) \in Talks
            BY <1>a, <2>1, <3>9, <4>2
          <5>2. ConvId(Root(u))' = FirstId(talks'[Root(u)].turns)
            BY <2>1, <4>2 DEF Root, ConvId
          <5>3. ConvId(Root(u))' = ConvId(Root(u))
            BY <2>1, <5>1, <5>2 DEF ConvId
          <5> QED BY <5>1, <5>3 DEF Rooted
        <4> QED BY <4>1, <4>2
      <3>10. \A u, v \in Talks : Root(u)' = u /\ Root(v)' = v /\ ConvId(u)' = ConvId(v)'
                                   /\ ConvId(u)' # NoStamp => u = v
        BY <3>7 DEF Rooted
      <3> QED BY <3>6, <3>8, <3>9, <3>10 DEF Rooted
    <2> QED BY <2>1, <2>2, <2>3
  <1>2. ASSUME NEW t \in Talks, Ask(t) PROVE Rooted'
    <2>1. \A u \in Talks : ConvId(u)' = ConvId(u) /\ Root(u)' = Root(u)
                             /\ (talks'[u].doing = "over" <=> talks[u].doing = "over")
      BY <1>2, AskIds
    <2>2. \A u \in Talks : Root(Root(u))' = Root(Root(u)) /\ ConvId(Root(u))' = ConvId(Root(u))
      BY <1>a, <2>1 DEF Root, ConvId
    <2> QED BY <2>1, <2>2 DEF Rooted
  <1>3. ASSUME NEW t \in Talks, Answer(t) \/ PassOver(t) PROVE Rooted'
    <2> DEFINE id == inFlight[t].id
    <2>1. /\ id # NoStamp /\ ConvId(t)' = IF ConvId(t) = NoStamp THEN id ELSE ConvId(t)
          /\ \A u \in Talks : u # t => ConvId(u)' = ConvId(u)
          /\ \A u \in Talks : Root(u)' = Root(u)
          /\ talks[t].doing = "asking" /\ talks'[t].doing = "over"
          /\ \A u \in Talks : u # t => talks'[u] = talks[u]
      BY <1>0, <1>3, ReplyIds
    <2>2. \A u \in Talks : Root(Root(u))' = Root(Root(u))
      BY <1>a, <2>1 DEF Root
    <2>3. CASE Root(t) = t
      <3>1. ConvId(t) = NoStamp /\ ConvId(t)' = id
        BY <2>1, <2>3 DEF Rooted
      <3>2. \A u \in Talks : id # ConvId(u)
        BY <2>1, <2>3, <3>1 DEF Carried
      <3>3. \A u \in Talks : u # t => Root(u) # t
        BY <3>1 DEF Rooted
      <3>4. \A u \in Talks : u # t => ConvId(Root(u))' = ConvId(Root(u))
        <4> SUFFICES ASSUME NEW u \in Talks, u # t PROVE ConvId(Root(u))' = ConvId(Root(u))
          OBVIOUS
        <4>1. ConvId(Root(u))' = FirstId(talks'[Root(u)].turns) /\ Root(u) # t /\ Root(u) \in Talks
          BY <1>a, <2>1, <3>3 DEF ConvId, Root
        <4> QED BY <2>1, <4>1 DEF ConvId
      <3>5. \A u \in Talks : Root(u) = u => (ConvId(u)' # NoStamp <=> talks'[u].doing = "over")
        BY <2>1, <3>1 DEF Rooted
      <3>6. \A u \in Talks : Root(u) # u => ConvId(u)' = ConvId(Root(u))' /\ ConvId(u)' # NoStamp
        BY <2>1, <2>3, <3>4 DEF Rooted
      <3>7. \A u, v \in Talks : Root(u) = u /\ Root(v) = v /\ ConvId(u)' = ConvId(v)'
                                  /\ ConvId(u)' # NoStamp => u = v
        BY <2>1, <3>1, <3>2 DEF Rooted
      <3> QED BY <2>1, <2>2, <3>5, <3>6, <3>7 DEF Rooted
    <2>4. CASE Root(t) # t
      <3>1. ConvId(t)' = ConvId(t)
        BY <2>1, <2>4 DEF Rooted
      <3>2. \A u \in Talks : ConvId(u)' = ConvId(u)
        BY <2>1, <3>1
      <3>3. \A u \in Talks : ConvId(Root(u))' = ConvId(Root(u))
        <4> SUFFICES ASSUME NEW u \in Talks PROVE ConvId(Root(u))' = ConvId(Root(u))
          OBVIOUS
        <4>1. ConvId(Root(u))' = FirstId(talks'[Root(u)].turns) /\ Root(u) \in Talks
          BY <1>a, <2>1 DEF ConvId, Root
        <4> QED BY <3>2, <4>1 DEF ConvId
      <3>4. \A u \in Talks : Root(u) = u => (ConvId(u)' # NoStamp <=> talks'[u].doing = "over")
        BY <2>1, <2>4, <3>2 DEF Rooted
      <3>5. \A u \in Talks : Root(u) # u => ConvId(u)' = ConvId(Root(u))' /\ ConvId(u)' # NoStamp
        BY <3>2, <3>3 DEF Rooted
      <3>6. \A u, v \in Talks : Root(u) = u /\ Root(v) = v /\ ConvId(u)' = ConvId(v)'
                                  /\ ConvId(u)' # NoStamp => u = v
        BY <3>2 DEF Rooted
      <3> QED BY <2>1, <2>2, <3>4, <3>5, <3>6 DEF Rooted
    <2> QED BY <2>3, <2>4
  <1>4. CASE Report \/ UNCHANGED bridgeVars
    BY <1>4 DEF Report, bridgeVars, Rooted, ConvId, Root
  <1> QED BY <1>1, <1>2, <1>3, <1>4, GarakActions

-----------------------------------------------------------------------------
(* The reports are a list.                                                  *)
LEMMA ReportedAre ==
  ASSUME Listed(reports)
  PROVE  Len(reports) \in Nat /\ DOMAIN reports = 1..Len(reports)
  BY DEF Listed

LEMMA ListedStays ==
  ASSUME Listed(reports), [BridgeNext]_bridgeVars
  PROVE  Listed(reports')
  <1>1. CASE reports' = reports
    BY <1>1 DEF Listed
  <1>2. CASE Report
    <2>1. PICK S : reports \in Seq(S)
      BY DEF Listed
    <2>2. PICK x : reports' = Append(reports, x)
      BY <1>2 DEF Report
    <2>3. reports \in Seq(S \cup {x})
      BY <2>1
    <2>4. reports' \in Seq(S \cup {x})
      BY <2>2, <2>3
    <2> QED BY <2>4 DEF Listed
  <1> QED
    BY <1>1, <1>2 DEF BridgeNext, bridgeVars, MakeAttempt, Ask, Answer, PassOver, Raise, Replay, EndTalk

(* With the roots as they were, what belongs to a talk stays its own.       *)
LEMMA RootsKeep ==
  ASSUME BridgeTypes, tool = "garak", NEW u,
         \A n \in DOMAIN answered : talks'[answered[n].talk].root = talks[answered[n].talk].root
  PROVE  \A n \in DOMAIN answered :
            Belonging(tool, talks', answered[n], u) <=> Belonging(tool, talks, answered[n], u)
  BY DEF Belonging

(* A trace is where it belongs after an attempt is made,                    *)
LEMMA CarriedByMake ==
  ASSUME BridgeTypes, InTurn, Rooted, Carried, tool = "garak", NEW t \in Talks, MakeAttempt(t)
  PROVE  Carried'
  <1>1. /\ talks[t].doing = "unmade" /\ talks'[t].doing = "free" /\ Root(t) = t /\ ConvId(t) = NoStamp
        /\ \A u \in Talks : u < t => talks[u].doing = "over"
        /\ \A u \in Talks : u # t => /\ talks'[u] = talks[u] /\ ConvId(u)' = ConvId(u)
                                     /\ Root(u)' = Root(u) /\ Root(u) # t
        /\ \/ ConvId(t)' = NoStamp /\ Root(t)' = t
           \/ Root(t)' \in Talks /\ Root(t)' < t /\ ConvId(t)' = ConvId(Root(t)') /\ ConvId(t)' # NoStamp
                 /\ Root(Root(t)') = Root(t)'
    BY MakeIds
  <1>2. traces' = traces /\ inFlight' = inFlight /\ answered' = answered /\ reports' = reports /\ tool' = tool
    BY DEF MakeAttempt
  <1>3. \A u \in Talks : talks[u].doing # "asking" /\ talks'[u].doing # "asking"
    <2>1. \A other \in 1..t - 1 : talks[other].doing = "over"
      BY DEF MakeAttempt
    <2> QED BY <1>1, <2>1, OneAsks
  <1>4. \A u \in Talks : OwnCalls(u)' = OwnCalls(u)
    <2>1. \A n \in DOMAIN answered : answered[n].talk \in Talks /\ answered[n].talk # t
      BY <1>1, EntriesAre DEF InTurn
    <2>2. \A n \in DOMAIN answered : talks'[answered[n].talk].root = talks[answered[n].talk].root
      BY <1>1, <2>1
    <2> QED BY <1>2, <2>2, RootsKeep, OthersOwnStay
  <1>5. \A u \in Talks : Root(u)' = u => /\ Root(u) = u
                                         /\ (u = t /\ ConvId(u)' = NoStamp /\ ConvId(u) = NoStamp) \/ ConvId(u)' = ConvId(u)
    BY <1>1, TalkTypes
  <1>6. \A u \in Talks : Root(u)' = u /\ ConvId(u)' = NoStamp => OwnCalls(u)' = <<>>
    BY <1>4, <1>5 DEF Carried
  <1>7. ASSUME NEW u \in Talks, Root(u)' = u, ConvId(u)' # NoStamp
        PROVE  /\ u \in DOMAIN reports' => ConvId(u)' \notin DOMAIN traces'
               /\ u \notin DOMAIN reports'
                    => ConvId(u)' \in DOMAIN traces' /\ traces'[ConvId(u)'] = OwnCalls(u)'
    BY <1>2, <1>3, <1>4, <1>5, <1>7 DEF Carried
  <1> QED BY <1>3, <1>6, <1>7 DEF Carried

(* after a call takes it,                                                   *)
LEMMA CarriedByAsk ==
  ASSUME BridgeTypes, IdsMinted, Reporting, Listed(reports), InTurn, Rooted, Carried, tool = "garak",
         NEW t \in Talks, Ask(t)
  PROVE  Carried'
  <1>1. /\ \A u \in Talks : ConvId(u)' = ConvId(u) /\ Root(u)' = Root(u)
        /\ talks[t].doing = "free" /\ talks'[t].doing = "asking"
        /\ \A u \in Talks : u # t => talks'[u] = talks[u]
    BY AskIds
  <1>2. PICK known \in IdsFor(t), id \in Nat :
          /\ id = IF known = NoStamp THEN minted + 1 ELSE known
          /\ id # NoStamp
          /\ inFlight'[t].id = id /\ inFlight'[t].trace = TraceOf(id)
          /\ traces' = Taken(id)
    BY AskTakes
  <1>3. known = ConvId(t)
    BY <1>2, RecoverIs DEF IdsFor, ConvId
  <1>4. \A u \in Talks : talks[u].doing # "asking"
    BY <1>1, BusyAlone
  <1>5. reports = <<>> /\ reports' = reports /\ answered' = answered /\ tool' = tool /\ DOMAIN reports = {}
    BY <1>1 DEF Ask, Reporting
  <1>6. \A u \in Talks : OwnCalls(u)' = OwnCalls(u)
    <2>1. \A n \in DOMAIN answered : talks'[answered[n].talk].root = talks[answered[n].talk].root
      BY <1>1, EntriesAre DEF Root
    <2> QED BY <1>5, <2>1, RootsKeep, OthersOwnStay
  <1>7. /\ minted \in Nat /\ \A id2 \in DOMAIN traces : id2 <= minted /\ id2 \in Nat
        /\ \A u \in Talks : ConvId(u) <= minted /\ ConvId(u) \in Nat
    <2>1. \A u \in Talks : ConvId(u) = NoStamp
                             \/ \E i \in DOMAIN talks[u].turns : talks[u].turns[i].id = ConvId(u)
      BY TalkTypes, StampsThere DEF ConvId
    <2>2. ASSUME NEW u \in Talks PROVE ConvId(u) <= minted
      <3>1. NoStamp <= minted
        BY TalkTypes DEF NoStamp
      <3>2. \A i \in DOMAIN talks[u].turns : talks[u].turns[i].id <= minted
        BY DEF IdsMinted
      <3> QED BY <2>1, <3>1, <3>2
    <2> QED BY <2>2, TalkTypes DEF IdsMinted, BridgeTypes
  <1>8. /\ DOMAIN traces' = DOMAIN traces \ {id}
        /\ \A other \in DOMAIN traces' : traces'[other] = traces[other]
    BY <1>2, TakenKeeps
  <1>9. \A u \in Talks : Root(u) = u /\ ConvId(u) # NoStamp
                           => ConvId(u) \in DOMAIN traces /\ traces[ConvId(u)] = OwnCalls(u)
    BY <1>4, <1>5 DEF Carried
  <1>10. CASE ConvId(t) = NoStamp
    <2>1. Root(t) = t
      BY <1>10 DEF Rooted
    <2>2. id = minted + 1 /\ ~(id <= minted)
      BY <1>2, <1>3, <1>7, <1>10
    <2>3. id \notin DOMAIN traces /\ \A u \in Talks : id # ConvId(u)
      BY <1>7, <2>2
    <2>4. inFlight'[t].trace = OwnCalls(t)
      BY <1>2, <1>10, <2>1, <2>3 DEF TraceOf, Carried
    <2>5. ASSUME NEW u \in Talks, talks'[u].doing = "asking"
          PROVE  /\ inFlight'[u].trace = OwnCalls(Root(u))'
                 /\ ConvId(Root(u))' = NoStamp /\ \A v \in Talks : inFlight'[u].id # ConvId(v)'
      <3>1. u = t
        BY <1>1, <1>4, <2>5
      <3>2. talks'[t].root = t
        BY <1>1, <2>1 DEF Root
      <3>3. OwnCalls(Root(t))' = OwnCalls(t)' /\ ConvId(Root(t))' = ConvId(t)'
        BY <3>2 DEF Root, ConvId, OwnCalls, Own, Belongs
      <3> QED BY <1>1, <1>2, <1>6, <1>10, <2>3, <2>4, <3>1, <3>3
    <2>6. \A u \in Talks : Root(u)' = u /\ ConvId(u)' = NoStamp => OwnCalls(u)' = <<>>
      BY <1>1, <1>6 DEF Carried
    <2>7. ASSUME NEW u \in Talks, Root(u)' = u, ConvId(u)' # NoStamp
          PROVE  ConvId(u)' \in DOMAIN traces' /\ traces'[ConvId(u)'] = OwnCalls(u)'
                   /\ u \notin DOMAIN reports'
      BY <1>1, <1>5, <1>6, <1>8, <1>9, <2>3, <2>7
    <2> QED BY <2>5, <2>6, <2>7 DEF Carried
  <1>11. CASE ConvId(t) # NoStamp
    <2>1. PICK r \in Talks : r = Root(t)
      BY TalkTypes DEF Root
    <2>2. r # t /\ ConvId(r) = ConvId(t) /\ Root(r) = r
      BY <1>1, <1>11, <2>1 DEF Rooted
    <2>3. id = ConvId(r)
      BY <1>2, <1>3, <1>11, <2>2
    <2>4. inFlight'[t].trace = OwnCalls(r)
      BY <1>2, <1>9, <1>11, <2>2, <2>3 DEF TraceOf
    <2>5. ASSUME NEW u \in Talks, talks'[u].doing = "asking"
          PROVE  inFlight'[u].trace = OwnCalls(Root(u))' /\ inFlight'[u].id = ConvId(Root(u))'
      <3>1. u = t
        BY <1>1, <1>4, <2>5
      <3>2. talks'[t].root = r
        BY <1>1, <2>1 DEF Root
      <3>3. OwnCalls(Root(t))' = OwnCalls(r)' /\ ConvId(Root(t))' = ConvId(r)'
        BY <3>2 DEF Root, ConvId, OwnCalls, Own, Belongs
      <3> QED BY <1>1, <1>2, <1>6, <2>3, <2>4, <3>1, <3>3
    <2>6. \A u \in Talks : Root(u)' = u /\ ConvId(u)' = NoStamp => OwnCalls(u)' = <<>>
      BY <1>1, <1>6 DEF Carried
    <2>7. ASSUME NEW u \in Talks, Root(u)' = u, ConvId(u)' # NoStamp
          PROVE  /\ u \notin DOMAIN reports'
                 /\ \/ ConvId(u)' \in DOMAIN traces' /\ traces'[ConvId(u)'] = OwnCalls(u)'
                    \/ talks'[t].doing = "asking" /\ Root(t)' = u
      <3>1. CASE u = r
        BY <1>1, <1>5, <2>1, <3>1
      <3>2. CASE u # r
        <4>1. ConvId(u) # id
          BY <1>1, <1>11, <2>2, <2>3, <2>7, <3>2 DEF Rooted
        <4> QED BY <1>1, <1>5, <1>6, <1>8, <1>9, <2>7, <4>1
      <3> QED BY <3>1, <3>2
    <2> QED BY <2>5, <2>6, <2>7 DEF Carried
  <1> QED BY <1>10, <1>11

(* after the call ends and puts it back, longer or not,                     *)
LEMMA CarriedByReply ==
  ASSUME BridgeTypes, IdsMinted, Reporting, Listed(reports), InTurn, Rooted, Carried, tool = "garak",
         NEW t \in Talks, Answer(t) \/ PassOver(t)
  PROVE  Carried'
  <1> DEFINE id == inFlight[t].id
             call == <<"call", t, talks[t].calls>>
  <1>1. /\ id # NoStamp /\ ConvId(t)' = IF ConvId(t) = NoStamp THEN id ELSE ConvId(t)
        /\ \A u \in Talks : u # t => ConvId(u)' = ConvId(u)
        /\ \A u \in Talks : Root(u)' = Root(u)
        /\ talks[t].doing = "asking" /\ talks'[t].doing = "over"
        /\ \A u \in Talks : u # t => talks'[u] = talks[u]
    BY ReplyIds
  <1>2. \A u \in Talks : (talks[u].doing = "asking" => u = t) /\ talks'[u].doing # "asking"
    BY <1>1, BusyAlone
  <1>3. reports = <<>> /\ reports' = reports /\ tool' = tool /\ DOMAIN reports = {}
    BY <1>1 DEF Answer, PassOver, Reporting
  <1>4. PICK r \in Talks : r = Root(t)
    BY TalkTypes DEF Root
  <1>5. \A u \in Talks : \A n \in DOMAIN answered :
            Belonging(tool, talks', answered[n], u) <=> Belonging(tool, talks, answered[n], u)
    <2>1. \A n \in DOMAIN answered : talks'[answered[n].talk].root = talks[answered[n].talk].root
      BY <1>1, EntriesAre DEF Root
    <2> QED BY <2>1, RootsKeep
  <1>6. /\ \A u \in Talks : u # r => OwnCalls(u)' = OwnCalls(u)
        /\ \E trace : traces' = With(id, trace) /\ trace = OwnCalls(r)'
    <2>1. inFlight[t].trace = OwnCalls(r)
      BY <1>1, <1>4 DEF Carried
    <2>2. CASE PassOver(t)
      <3>1. \A u \in Talks : OwnCalls(u)' = OwnCalls(u)
        BY <1>3, <1>5, <2>2, OthersOwnStay DEF PassOver
      <3> QED BY <2>1, <2>2, <3>1 DEF PassOver
    <2>3. CASE Answer(t)
      <3> DEFINE entry == [call |-> call, talk |-> t, round |-> talks[t].round]
      <3>1. \A u \in Talks : /\ Belonging(tool, talks', entry, u) => OwnCalls(u)' = Append(OwnCalls(u), call)
                             /\ ~Belonging(tool, talks', entry, u) => OwnCalls(u)' = OwnCalls(u)
        BY <1>5, <2>3, AnswerAdds
      <3>2. \A u \in Talks : Belonging(tool, talks', entry, u) <=> u = r
        BY <1>1, <1>4 DEF Belonging, Root
      <3>3. traces' = With(id, Append(inFlight[t].trace, call))
        BY <2>3 DEF Answer
      <3> HIDE DEF entry, call, id
      <3> QED BY <2>1, <3>1, <3>2, <3>3
    <2> QED BY <2>2, <2>3
  <1> HIDE DEF id, call
  <1>7. Root(r) = r /\ ConvId(r)' = id /\ (r = t => ConvId(t) = NoStamp)
          /\ (ConvId(r) = id \/ \A u \in Talks : id # ConvId(u))
    <2>1. Root(r) = r
      BY <1>4 DEF Rooted
    <2>2. \/ id = ConvId(r)
          \/ ConvId(r) = NoStamp /\ \A u \in Talks : id # ConvId(u)
      <3>1. \/ inFlight[t].id = ConvId(Root(t))
            \/ ConvId(Root(t)) = NoStamp /\ \A u \in Talks : inFlight[t].id # ConvId(u)
        BY <1>1 DEF Carried
      <3> QED BY <1>4, <3>1 DEF id
    <2>3. CASE r = t
      BY <1>1, <2>1, <2>2, <2>3 DEF Rooted
    <2>4. CASE r # t
      BY <1>1, <1>4, <2>1, <2>2, <2>4 DEF Rooted
    <2> QED BY <2>1, <2>2, <2>3, <2>4
  <1>8. \A u \in Talks : Root(u)' = u /\ u # r => Root(u) = u /\ u # t /\ ConvId(u)' = ConvId(u)
    BY <1>1, <1>4
  <1>9. /\ DOMAIN traces' = DOMAIN traces \cup {id} /\ traces'[id] = OwnCalls(r)'
        /\ \A other \in DOMAIN traces : other # id => traces'[other] = traces[other]
    BY <1>6 DEF With
  <1>10. \A u \in Talks : Root(u)' = u /\ ConvId(u)' = NoStamp => OwnCalls(u)' = <<>>
    BY <1>1, <1>6, <1>7, <1>8 DEF Carried
  <1>11. ASSUME NEW u \in Talks, Root(u)' = u, ConvId(u)' # NoStamp
         PROVE  ConvId(u)' \in DOMAIN traces' /\ traces'[ConvId(u)'] = OwnCalls(u)'
                  /\ u \notin DOMAIN reports'
    <2>1. CASE u = r
      BY <1>3, <1>7, <1>9, <2>1
    <2>2. CASE u # r
      <3>1. Root(u) = u /\ u # t /\ ConvId(u)' = ConvId(u) /\ ConvId(u) # NoStamp
        BY <1>8, <1>11, <2>2
      <3>2. ConvId(u) \in DOMAIN traces /\ traces[ConvId(u)] = OwnCalls(u)
        <4>1. \A v \in Talks : talks[v].doing = "asking" => Root(v) # u
          BY <1>2, <1>4, <2>2
        <4> QED BY <1>3, <3>1, <4>1 DEF Carried
      <3>3. ConvId(u) # id
        BY <1>1, <1>7, <2>2, <3>1 DEF Rooted
      <3> QED BY <1>3, <1>6, <1>9, <2>2, <3>1, <3>2, <3>3
    <2> QED BY <2>1, <2>2
  <1> QED BY <1>2, <1>10, <1>11 DEF Carried

(* and after it is taken for a report.                                      *)
LEMMA CarriedByReport ==
  ASSUME BridgeTypes, Listed(reports), InTurn, Rooted, Carried, tool = "garak", Report
  PROVE  Carried'
  <1> DEFINE t == Len(reports) + 1
  <1>1. /\ Len(reports) \in Nat /\ DOMAIN reports = 1..Len(reports)
        /\ t \in Talks /\ talks[t].doing = "over"
        /\ \A u \in Talks : talks[u].doing \in {"over", "unmade"}
        /\ \E x : reports' = Append(reports, x)
        /\ traces' = Taken(ConvId(t))
        /\ talks' = talks /\ inFlight' = inFlight /\ answered' = answered /\ tool' = tool
    BY ReportedAre, RecoverIs DEF Report, ConvId
  <1>2. DOMAIN reports' = 1..t
    BY <1>1 DEF Listed
  <1> HIDE DEF t
  <1>3. \A u \in Talks : u \in DOMAIN reports' => u = t \/ u \in DOMAIN reports
    BY <1>1, <1>2 DEF t
  <1>4. \A u \in Talks : ConvId(u)' = ConvId(u) /\ Root(u)' = Root(u) /\ OwnCalls(u)' = OwnCalls(u)
    BY <1>1 DEF ConvId, Root, OwnCalls, Own, Belongs
  <1>5. /\ DOMAIN traces' = DOMAIN traces \ {ConvId(t)}
        /\ \A other \in DOMAIN traces' : traces'[other] = traces[other]
    BY <1>1, TakenKeeps
  <1>6. \A u \in Talks : talks[u].doing # "asking" /\ talks'[u].doing # "asking"
    BY <1>1
  <1>7. \A u \in Talks : Root(u) = u /\ ConvId(u) = NoStamp => OwnCalls(u)' = <<>>
    BY <1>4 DEF Carried
  <1>8. ASSUME NEW u \in Talks, Root(u) = u, ConvId(u) # NoStamp
        PROVE  /\ u \in DOMAIN reports' => ConvId(u) \notin DOMAIN traces'
               /\ u \notin DOMAIN reports'
                    => ConvId(u) \in DOMAIN traces' /\ traces'[ConvId(u)] = OwnCalls(u)'
    <2>1. CASE u \in DOMAIN reports'
      BY <1>3, <1>5, <1>8, <2>1 DEF Carried
    <2>2. CASE u \notin DOMAIN reports'
      <3>1. u \notin DOMAIN reports /\ u # t /\ ~(u <= t)
        BY <1>1, <1>2, <2>2, TalkTypes DEF t, Talks
      <3>2. ConvId(u) \in DOMAIN traces /\ traces[ConvId(u)] = OwnCalls(u)
        BY <1>6, <1>8, <3>1 DEF Carried
      <3>3. ConvId(u) # ConvId(t)
        <4>1. PICK r \in Talks : r = Root(t)
          BY <1>1, TalkTypes DEF Root
        <4>2. r <= t /\ Root(r) = r /\ ConvId(t) = ConvId(r)
          BY <1>1, <4>1 DEF Rooted
        <4> QED BY <1>8, <3>1, <4>2 DEF Rooted
      <3> QED BY <1>4, <1>5, <2>2, <3>2, <3>3
    <2> QED BY <2>1, <2>2
  <1> QED BY <1>4, <1>6, <1>7, <1>8 DEF Carried

LEMMA GarakStays ==
  ASSUME BridgeTypes, IdsMinted, Reporting, Listed(reports), GarakInv, [BridgeNext]_bridgeVars
  PROVE  GarakInv'
  <1> SUFFICES ASSUME tool' = "garak" PROVE InTurn' /\ Rooted' /\ Carried'
    BY DEF GarakInv
  <1>1. tool = "garak" /\ InTurn /\ Rooted /\ Carried
    BY GarakActions DEF GarakInv
  <1>2. ASSUME UNCHANGED bridgeVars PROVE Carried'
    <2>1. /\ tool' = tool /\ talks' = talks /\ inFlight' = inFlight /\ traces' = traces
          /\ answered' = answered /\ reports' = reports
      BY <1>2 DEF bridgeVars
    <2>2. \A u : /\ ConvId(u)' = ConvId(u) /\ Root(u)' = Root(u) /\ OwnCalls(u)' = OwnCalls(u)
                 /\ ConvId(Root(u))' = ConvId(Root(u)) /\ OwnCalls(Root(u))' = OwnCalls(Root(u))
      BY <2>1 DEF ConvId, Root, OwnCalls, Own, Belongs
    <2>3. Carried'
      BY <1>1, <2>1, <2>2 DEF Carried
    <2> QED BY <2>3
  <1>3. Carried'
    BY <1>1, <1>2, GarakActions, CarriedByMake, CarriedByAsk, CarriedByReply, CarriedByReport
  <1> QED BY <1>1, <1>3, InTurnStays, RootedStays

-----------------------------------------------------------------------------
(* What a report has to be, of one talk.                                    *)
Told(t, report) ==
    LET called == IF tool = "lidar" THEN talks[t].calls > 0 ELSE OwnCalls(t) # <<>>
    IN  IF called \/ tool = "garak" THEN report = OwnCalls(t)
        ELSE talks[t].turns # <<>> => PairedRight(report, talks[t].turns)

(* The inductive invariant.                                                 *)
BridgeInv ==
    /\ BridgeTypes /\ IdsMinted /\ Reporting /\ Listed(reports)
    /\ LidarInv /\ DeepteamInv /\ GarakInv

(* It holds at first.                                                       *)
LEMMA BridgeInvBegins ==
  ASSUME BridgeInit
  PROVE  BridgeInv /\ TracesTold
  <1>1. BridgeTypes /\ IdsMinted /\ Reporting
    BY BridgeTypesBegin
  <1>2. /\ inFlight = [t \in Talks |-> NoCall] /\ byCallId = {} /\ answered = <<>> /\ reports = <<>>
        /\ NoCall.id = NoStamp /\ DOMAIN answered = {} /\ DOMAIN reports = {}
    BY DEF BridgeInit, NoCall
  <1>3. \A t \in Talks : /\ talks[t].doing = IF tool = "garak" THEN "unmade" ELSE "free"
                         /\ talks[t].calls = 0 /\ talks[t].root = t
                         /\ \A i \in DOMAIN talks[t].turns : talks[t].turns[i].id = NoStamp
    BY TalksBegin
  <1>4. \A t : OwnCalls(t) = <<>>
    BY <1>2, OwnNone, OwnCallsAre
  <1>5. \A t \in Talks : NewestId(talks[t].turns) = NoStamp /\ FirstId(talks[t].turns) = NoStamp
    BY <1>3, NoStamps
  <1>6. Listed(reports)
    <2>1. reports \in Seq({})
      BY <1>2
    <2> QED BY <2>1 DEF Listed
  <1>7. LidarInv
    <2>1. ASSUME NEW t \in Talks, tool = "lidar"
          PROVE  /\ Those(AllCalls(t), Kept(t)) = OwnCalls(t)
                 /\ \A n \in Nat : <<"call", t, n>> \notin byCallId
                 /\ talks[t].doing # "asking"
      <3>1. Kept(t) = {} /\ Cardinality({}) = 0
        BY <1>2, FS_EmptySet DEF Kept
      <3>2. Those(AllCalls(t), Kept(t)) = <<>>
        BY <3>1 DEF Those
      <3> QED BY <1>2, <1>3, <1>4, <2>1, <3>2
    <2> QED BY <2>1 DEF LidarInv
  <1>8. DeepteamInv
    <2>1. \A t \in Talks : \A id : HasId(t, id) => id = NoStamp
      BY <1>2, <1>3 DEF HasId
    <2>2. tool = "deepteam" => \A t \in Talks : TraceKept(t)
      BY <1>3, <1>4, <1>5 DEF TraceKept
    <2> QED BY <1>2, <2>1, <2>2 DEF DeepteamInv
  <1>9. GarakInv
    <2> SUFFICES ASSUME tool = "garak" PROVE InTurn /\ Rooted /\ Carried
      BY DEF GarakInv
    <2>1. \A t \in Talks : ConvId(t) = NoStamp /\ Root(t) = t /\ talks[t].doing = "unmade"
      BY <1>3, <1>5 DEF ConvId, Root
    <2>2. \A t \in Talks : t <= t
      BY DEF Talks
    <2>3. InTurn
      BY <1>2, <2>1 DEF InTurn
    <2>4. Rooted
      BY <2>1, <2>2 DEF Rooted
    <2>5. Carried
      BY <1>4, <2>1 DEF Carried
    <2> QED BY <2>3, <2>4, <2>5
  <1>10. TracesTold
    BY <1>2 DEF TracesTold
  <1> QED BY <1>1, <1>6, <1>7, <1>8, <1>9, <1>10 DEF BridgeInv

LEMMA LidarTold ==
  ASSUME BridgeInv, tool = "lidar", NEW t \in Talks
  PROVE  Told(t, FinalTrace(t))
  <1>1. talks[t].calls \in Nat /\ talks[t].turns \in Seq(Turns)
    BY DEF BridgeInv, BridgeTypes, TalkRecords
  <1>2. FinalTrace(t) = Joined(t)
    BY DEF FinalTrace
  <1>3. Those(AllCalls(t), Kept(t)) = OwnCalls(t)
    BY DEF BridgeInv, LidarInv
  <1>4. DOMAIN AllCalls(t) = 1..talks[t].calls
    BY DEF AllCalls
  <1>5. Joined(t) = IF AllCalls(t) = <<>> THEN Pairs(talks[t].turns)
                    ELSE Those(AllCalls(t), {n \in DOMAIN AllCalls(t) : AllCalls(t)[n] \in byCallId})
    BY DEF Joined, AllCalls
  <1>6. {n \in DOMAIN AllCalls(t) : AllCalls(t)[n] \in byCallId} = Kept(t)
    BY DEF AllCalls, Kept
  <1>7. CASE talks[t].calls > 0
    <2>1. AllCalls(t) # <<>>
      <3>1. 1 \in DOMAIN AllCalls(t)
        BY <1>1, <1>4, <1>7
      <3> QED BY <3>1
    <2> QED BY <1>2, <1>3, <1>5, <1>6, <1>7, <2>1 DEF Told
  <1>8. CASE ~(talks[t].calls > 0)
    <2>1. AllCalls(t) = <<>>
      <3>1. 1..talks[t].calls = {}
        BY <1>1, <1>8
      <3> QED BY <3>1 DEF AllCalls
    <2>2. PairedRight(Pairs(talks[t].turns), talks[t].turns)
      BY <1>1, PairsAreRight
    <2>3. FinalTrace(t) = Pairs(talks[t].turns)
      BY <1>2, <1>5, <2>1
    <2> QED BY <1>8, <2>2, <2>3 DEF Told
  <1> QED BY <1>7, <1>8

LEMMA DeepteamTold ==
  ASSUME BridgeInv, tool = "deepteam", NEW t \in Talks
  PROVE  Told(t, FinalTrace(t))
  <1> DEFINE turns == talks[t].turns
             id == NewestId(turns)
  <1>1. turns \in Seq(Turns) /\ FinalTrace(t) = Recovered(t) /\ Recover(turns) = id
    BY RecoverIs DEF BridgeInv, BridgeTypes, TalkRecords, FinalTrace
  <1>2. /\ id = NoStamp => OwnCalls(t) = <<>>
        /\ id # NoStamp => id \in DOMAIN traces /\ traces[id] = OwnCalls(t) /\ OwnCalls(t) # <<>>
        /\ \A other \in DOMAIN traces : other # NoStamp
    BY DEF BridgeInv, DeepteamInv, TraceKept, IdsMinted
  <1>3. PairedRight(Pairs(turns), turns)
    BY <1>1, PairsAreRight
  <1>4. CASE id # NoStamp
    <2>1. FinalTrace(t) = OwnCalls(t) /\ FinalTrace(t) = traces[id]
      BY <1>1, <1>2, <1>4 DEF Recovered, TraceOf
    <2> QED BY <1>2, <1>4, <2>1 DEF Told
  <1>5. CASE id = NoStamp
    <2>1. turns # <<>> => FinalTrace(t) = Pairs(turns)
      BY <1>1, <1>2, <1>5 DEF Recovered
    <2> QED BY <1>2, <1>3, <1>5, <2>1 DEF Told
  <1> QED BY <1>4, <1>5

LEMMA GarakTold ==
  ASSUME BridgeInv, tool = "garak", NEW t \in Talks, t = Len(reports) + 1, talks[t].doing = "over",
         \A u \in Talks : talks[u].doing # "asking"
  PROVE  Told(t, FinalTrace(t))
  <1>1. FinalTrace(t) = TraceOf(ConvId(t))
    BY RecoverIs DEF FinalTrace, ConvId
  <1>2. /\ InTurn /\ Rooted /\ Carried /\ BridgeTypes
        /\ Len(reports) \in Nat /\ DOMAIN reports = 1..Len(reports)
    BY ReportedAre DEF BridgeInv, GarakInv
  <1>3. CASE Root(t) = t
    <2>1. t \notin DOMAIN reports
      BY <1>2
    <2>2. ConvId(t) # NoStamp
      BY <1>2, <1>3 DEF Rooted
    <2>3. ConvId(t) \in DOMAIN traces /\ traces[ConvId(t)] = OwnCalls(t)
      BY <1>2, <1>3, <2>1, <2>2 DEF Carried
    <2> QED BY <1>1, <2>3 DEF Told, TraceOf
  <1>4. CASE Root(t) # t
    <2>1. PICK r \in Talks : r = Root(t)
      BY <1>2, TalkTypes DEF Root
    <2>2. Root(r) = r /\ ConvId(t) = ConvId(r) /\ ConvId(r) # NoStamp /\ r <= t /\ r # t
      BY <1>2, <1>4, <2>1 DEF Rooted
    <2>3. r \in DOMAIN reports
      BY <1>2, <2>2 DEF Talks
    <2>4. ConvId(t) \notin DOMAIN traces
      BY <1>2, <2>2, <2>3 DEF Carried
    <2>5. OwnCalls(t) = <<>>
      <3>1. \A n \in DOMAIN answered : Root(answered[n].talk) # t
        BY <1>2, <1>4, EntriesAre DEF Rooted
      <3>2. \A n \in DOMAIN answered : ~Belonging(tool, talks, answered[n], t)
        BY <3>1 DEF Belonging, Root
      <3> QED BY <3>2, OwnNone, OwnCallsAre
    <2> QED BY <1>1, <2>4, <2>5 DEF Told, TraceOf
  <1> QED BY <1>3, <1>4

(* That is what TracesTold says of every talk that is reported.             *)
LEMMA ToldIs ==
  TracesTold <=> \A t \in DOMAIN reports : Told(t, reports[t])
  BY DEF TracesTold, Told

(* Every step keeps it.                                                     *)
LEMMA TracesToldStay ==
  ASSUME BridgeInv, TracesTold, [BridgeNext]_bridgeVars
  PROVE  TracesTold'
  <1>1. CASE Report
    <2> DEFINE t == Len(reports) + 1
    <2>1. /\ t \in Talks /\ talks[t].doing = "over" /\ \A u \in Talks : talks[u].doing # "asking"
          /\ reports' = Append(reports, FinalTrace(t)) /\ tool # "raised"
          /\ tool' = tool /\ talks' = talks /\ answered' = answered
      BY <1>1 DEF Report
    <2>2. tool \in {"garak", "deepteam", "lidar"}
      BY <2>1 DEF BridgeInv, BridgeTypes
    <2>3. Told(t, FinalTrace(t))
      BY <2>1, <2>2, LidarTold, DeepteamTold, GarakTold
    <2>4. PICK S : reports \in Seq(S)
      BY DEF BridgeInv, Listed
    <2> HIDE DEF t
    <2>5. /\ DOMAIN reports' = 1..Len(reports) + 1 /\ DOMAIN reports = 1..Len(reports) /\ Len(reports) \in Nat
          /\ \A n \in 1..Len(reports) : reports'[n] = reports[n]
          /\ reports'[t] = FinalTrace(t)
      <3> DEFINE W == S \cup {FinalTrace(t)}
      <3>1. reports \in Seq(W) /\ FinalTrace(t) \in W
        BY <2>4
      <3> HIDE DEF W
      <3> QED BY <2>1, <3>1, Appended DEF t
    <2>6. \A n \in DOMAIN reports' : Told(n, reports'[n])
      <3>1. \A n \in DOMAIN reports' : n = t \/ n \in DOMAIN reports
        BY <2>5 DEF t
      <3> QED BY <2>3, <2>5, <3>1, ToldIs
    <2>7. \A n : OwnCalls(n)' = OwnCalls(n)
      BY <2>1 DEF OwnCalls, Own, Belongs
    <2> QED BY <2>1, <2>6, <2>7 DEF TracesTold, Told
  <1>2. ASSUME NEW t \in Talks,
               MakeAttempt(t) \/ Ask(t) \/ Answer(t) \/ PassOver(t) \/ Raise(t) \/ Replay(t) \/ EndTalk(t)
        PROVE  TracesTold'
    <2>1. reports = <<>> /\ reports' = reports
      BY <1>2 DEF MakeAttempt, Ask, Answer, PassOver, Raise, Replay, EndTalk, BridgeInv, Reporting
    <2>2. DOMAIN reports' = {}
      BY <2>1
    <2> QED BY <2>2 DEF TracesTold
  <1>3. CASE UNCHANGED bridgeVars
    <2>1. reports' = reports /\ tool' = tool /\ talks' = talks /\ answered' = answered
      BY <1>3 DEF bridgeVars
    <2>2. \A n : OwnCalls(n)' = OwnCalls(n)
      BY <2>1 DEF OwnCalls, Own, Belongs
    <2> QED BY <2>1, <2>2 DEF TracesTold
  <1> QED BY <1>1, <1>2, <1>3 DEF BridgeNext

(* For any number of talks, of calls and of turns that a talk begins with, and *)
(* in whatever order the calls end: the trace that lidar, deepteam and garak *)
(* report of a talk holds the calls that the target answered in it, once each *)
(* and in their order; a talk that never reached the target is told by what *)
(* the scanner shows, each turn of the user with the reply that followed.   *)
THEOREM TracesAreTold == BridgeSpec => []TracesTold
  <1>1. BridgeInit => BridgeInv /\ TracesTold
    BY BridgeInvBegins
  <1>2. BridgeInv /\ TracesTold /\ [BridgeNext]_bridgeVars => (BridgeInv /\ TracesTold)'
    <2> SUFFICES ASSUME BridgeInv, TracesTold, [BridgeNext]_bridgeVars PROVE BridgeInv' /\ TracesTold'
      OBVIOUS
    <2>1. BridgeTypes' /\ IdsMinted' /\ Reporting' /\ Listed(reports)'
      BY BridgeTypesStay, IdsMintedStay, ReportingStays, ListedStays DEF BridgeInv, Listed
    <2>2. LidarInv' /\ DeepteamInv' /\ GarakInv'
      BY LidarStays, DeepteamStays, GarakStays DEF BridgeInv
    <2>3. TracesTold'
      BY TracesToldStay
    <2> QED BY <2>1, <2>2, <2>3 DEF BridgeInv
  <1> QED BY <1>1, <1>2, PTL DEF BridgeSpec

-----------------------------------------------------------------------------
(* Lists, one longer or one behind the other, and what is picked of them.   *)
LEMMA AddedIs ==
  ASSUME NEW S, NEW list \in Seq(S), NEW x \in S
  PROVE  /\ Added(list, x) \in Seq(S) /\ Len(Added(list, x)) = Len(list) + 1 /\ Len(list) \in Nat
         /\ DOMAIN list = 1..Len(list) /\ DOMAIN Added(list, x) = 1..Len(list) + 1
         /\ \A i \in 1..Len(list) : Added(list, x)[i] = list[i]
         /\ Added(list, x)[Len(list) + 1] = x
  BY Appended DEF Added

(* Two lists, one behind the other.                                        *)
Both(list, other) == list \o other

LEMMA BothIs ==
  ASSUME NEW S, NEW list \in Seq(S), NEW other \in Seq(S)
  PROVE  /\ Both(list, other) \in Seq(S) /\ Len(Both(list, other)) = Len(list) + Len(other)
         /\ Both(list, <<>>) = list /\ Both(<<>>, other) = other
         /\ \A i \in 1..Len(list) + Len(other) :
              Both(list, other)[i] = IF i <= Len(list) THEN list[i] ELSE other[i - Len(list)]
  BY ConcatProperties, ConcatEmptySeq DEF Both

LEMMA BothOfThree ==
  ASSUME NEW S, NEW a \in Seq(S), NEW b \in Seq(S), NEW c \in Seq(S)
  PROVE  Both(Both(a, b), c) = Both(a, Both(b, c))
  BY ConcatAssociative DEF Both

(* One more behind two lists is one more behind the second.                *)
LEMMA AddedJoin ==
  ASSUME NEW S, NEW list \in Seq(S), NEW other \in Seq(S), NEW x \in S
  PROVE  Both(list, Added(other, x)) = Added(Both(list, other), x)
  <1>1. list \o other \in Seq(S) /\ <<x>> \in Seq(S)
    BY ConcatProperties
  <1>2. Added(other, x) = other \o <<x>>
    BY AppendIsConcat DEF Added
  <1>3. Added(list \o other, x) = (list \o other) \o <<x>>
    BY <1>1, AppendIsConcat DEF Added
  <1> QED BY <1>1, <1>2, <1>3, ConcatAssociative DEF Both

(* Induction over lists: a set of them that has the empty one, and with     *)
(* each list those that are one longer, has them all.                      *)
LEMMA AllLists ==
  ASSUME NEW S, NEW T \in SUBSET Seq(S), <<>> \in T,
         \A list \in T, x \in S : Added(list, x) \in T
  PROVE  T = Seq(S)
  <1> DEFINE L == {n \in Nat : \A list \in Seq(S) : Len(list) = n => list \in T}
  <1>1. 0 \in L
    <2>1. \A list \in Seq(S) : Len(list) = 0 => list = <<>>
      BY EmptySeq
    <2> QED BY <2>1
  <1>2. ASSUME NEW n \in L PROVE n + 1 \in L
    <2> SUFFICES ASSUME NEW list \in Seq(S), Len(list) = n + 1 PROVE list \in T
      OBVIOUS
    <2>1. list # <<>>
      BY EmptySeq
    <2>2. PICK front \in Seq(S), x \in S : list = Added(front, x)
      BY <2>1, SequenceEmptyOrAppend DEF Added
    <2>3. Len(front) = n
      BY <2>2, AddedIs, LenProperties
    <2> QED BY <2>2, <2>3
  <1>3. L = Nat
    <2>1. L \in SUBSET Nat
      OBVIOUS
    <2> HIDE DEF L
    <2> QED BY <1>1, <1>2, <2>1, AllNumbers
  <1>4. ASSUME NEW list \in Seq(S) PROVE list \in T
    <2>1. Len(list) \in L
      BY <1>3, LenProperties
    <2> QED BY <2>1
  <1> QED BY <1>4

(* What is in a set, of a list.                                            *)
Picked(list, P) == Those(list, {i \in DOMAIN list : list[i] \in P})

LEMMA PickedNone ==
  ASSUME NEW P
  PROVE  Picked(<<>>, P) = <<>>
  <1>1. {i \in DOMAIN <<>> : <<>>[i] \in P} = {}
    BY EmptySeq
  <1>2. Cardinality({}) = 0 /\ 1..0 = {}
    BY FS_EmptySet
  <1>3. Those(<<>>, {}) = <<>>
    <2>1. Those(<<>>, {}) = [n \in {} |-> <<>>[Nth({}, n)]]
      BY <1>2 DEF Those
    <2>2. [n \in {} |-> <<>>[Nth({}, n)]] = <<>>
      OBVIOUS
    <2> QED BY <2>1, <2>2
  <1> QED BY <1>1, <1>3 DEF Picked

LEMMA PickedMore ==
  ASSUME NEW S, NEW list \in Seq(S), NEW x \in S, NEW P
  PROVE  Picked(Added(list, x), P) = IF x \in P THEN Added(Picked(list, P), x) ELSE Picked(list, P)
  <1> DEFINE more == Added(list, x)
             places == {i \in DOMAIN list : list[i] \in P}
             after == {i \in DOMAIN more : more[i] \in P}
  <1> DEFINE k == Len(list) + 1
  <1>1. /\ \A i \in DOMAIN more : i \in DOMAIN list \/ i = k
        /\ k \in DOMAIN more /\ k \notin DOMAIN list /\ DOMAIN list \subseteq DOMAIN more
        /\ \A i \in DOMAIN list : more[i] = list[i]
        /\ more[k] = x
    <2>1. /\ DOMAIN more = 1..k /\ DOMAIN list = 1..Len(list) /\ Len(list) \in Nat
          /\ \A i \in 1..Len(list) : more[i] = list[i]
          /\ more[k] = x
      BY AddedIs
    <2> HIDE DEF more
    <2> QED BY <2>1
  <1> HIDE DEF k
  <1>2. CASE x \in P
    <2>1. \A i : i \in after <=> i \in places \/ i = k
      BY <1>1, <1>2
    <2>2. after = places \cup {k}
      BY <2>1
    <2>3. Those(more, after) = Append(Those(list, places), x)
      <3>1. places \in SUBSET DOMAIN list
        OBVIOUS
      <3> HIDE DEF places, after
      <3>2. Those(Append(list, x), places \cup {Len(list) + 1}) = Append(Those(list, places), x)
        BY <3>1, ThoseMore
      <3> QED BY <2>2, <3>2 DEF Added, k
    <2>4. Picked(list, P) = Those(list, places) /\ Picked(more, P) = Those(more, after)
      BY DEF Picked
    <2> HIDE DEF places, after, more
    <2>5. Picked(more, P) = Added(Picked(list, P), x)
      BY <2>3, <2>4 DEF Added
    <2> QED BY <1>2, <2>5 DEF more
  <1>3. CASE x \notin P
    <2>1. \A i : i \in after <=> i \in places
      BY <1>1, <1>3
    <2>2. after = places
      BY <2>1
    <2>3. Those(more, after) = Those(list, places)
      BY <2>2, ThoseSame DEF Added
    <2> QED BY <1>3, <2>3 DEF Picked
  <1> QED BY <1>2, <1>3

LEMMA PickedType ==
  ASSUME NEW S, NEW list \in Seq(S), NEW P
  PROVE  /\ Picked(list, P) \in Seq(S \cap P)
         /\ Picked(list, P) \in Seq(S)
  <1> DEFINE T == {s \in Seq(S) : Picked(s, P) \in Seq(S \cap P)}
  <1>1. <<>> \in T
    BY PickedNone, EmptySeq
  <1>2. ASSUME NEW s \in T, NEW x \in S PROVE Added(s, x) \in T
    <2>1. Added(s, x) \in Seq(S)
      BY AddedIs
    <2>2. Picked(Added(s, x), P) = IF x \in P THEN Added(Picked(s, P), x) ELSE Picked(s, P)
      BY PickedMore
    <2>3. x \in P => Added(Picked(s, P), x) \in Seq(S \cap P)
      BY AddedIs
    <2> QED BY <2>1, <2>2, <2>3
  <1>3. T = Seq(S)
    <2>1. T \in SUBSET Seq(S)
      OBVIOUS
    <2> HIDE DEF T
    <2> QED BY <1>1, <1>2, <2>1, AllLists
  <1>4. Picked(list, P) \in Seq(S \cap P)
    BY <1>3
  <1> QED BY <1>4, SeqMonotonic

(* Lists are picked from one after the other.                              *)
LEMMA PickedJoin ==
  ASSUME NEW S, NEW list \in Seq(S), NEW other \in Seq(S), NEW P
  PROVE  Picked(Both(list, other), P) = Both(Picked(list, P), Picked(other, P))
  <1> DEFINE T == {s \in Seq(S) : Picked(Both(list, s), P) = Both(Picked(list, P), Picked(s, P))}
  <1>1. <<>> \in T
    <2>1. Both(list, <<>>) = list /\ Both(Picked(list, P), <<>>) = Picked(list, P)
      BY PickedType, EmptySeq, BothIs
    <2> QED BY <2>1, PickedNone, EmptySeq
  <1>2. ASSUME NEW s \in T, NEW x \in S PROVE Added(s, x) \in T
    <2>1. Added(s, x) \in Seq(S) /\ Both(list, s) \in Seq(S)
      BY AddedIs, BothIs
    <2>2. Both(list, Added(s, x)) = Added(Both(list, s), x)
      BY AddedJoin
    <2>3. Picked(Added(Both(list, s), x), P)
            = IF x \in P THEN Added(Picked(Both(list, s), P), x) ELSE Picked(Both(list, s), P)
      BY <2>1, PickedMore
    <2>4. Picked(Added(s, x), P) = IF x \in P THEN Added(Picked(s, P), x) ELSE Picked(s, P)
      BY PickedMore
    <2>5. Both(Picked(list, P), Added(Picked(s, P), x)) = Added(Both(Picked(list, P), Picked(s, P)), x)
      <3>1. Picked(list, P) \in Seq(S) /\ Picked(s, P) \in Seq(S)
        BY PickedType
      <3> QED BY <3>1, AddedJoin
    <2> QED BY <2>1, <2>2, <2>3, <2>4, <2>5
  <1>3. T = Seq(S)
    <2>1. T \in SUBSET Seq(S)
      OBVIOUS
    <2> HIDE DEF T
    <2> QED BY <1>1, <1>2, <2>1, AllLists
  <1> QED BY <1>3

(* All of a list is in the set that its elements are of, and nothing in     *)
(* another.                                                                *)
LEMMA PickedAll ==
  ASSUME NEW S, NEW list \in Seq(S), NEW P
  PROVE  /\ S \subseteq P => Picked(list, P) = list
         /\ S \cap P = {} => Picked(list, P) = <<>>
  <1> DEFINE T == {s \in Seq(S) : /\ S \subseteq P => Picked(s, P) = s
                                  /\ S \cap P = {} => Picked(s, P) = <<>>}
  <1>1. <<>> \in T
    BY PickedNone, EmptySeq
  <1>2. ASSUME NEW s \in T, NEW x \in S PROVE Added(s, x) \in T
    <2>1. Added(s, x) \in Seq(S)
      BY AddedIs
    <2>2. Picked(Added(s, x), P) = IF x \in P THEN Added(Picked(s, P), x) ELSE Picked(s, P)
      BY PickedMore
    <2>3. S \subseteq P => x \in P
      OBVIOUS
    <2>4. S \cap P = {} => x \notin P
      OBVIOUS
    <2> QED BY <2>1, <2>2, <2>3, <2>4
  <1>3. T = Seq(S)
    <2>1. T \in SUBSET Seq(S)
      OBVIOUS
    <2> HIDE DEF T
    <2> QED BY <1>1, <1>2, <2>1, AllLists
  <1> QED BY <1>3

-----------------------------------------------------------------------------
(* A function of each element of a list.                                   *)
Mapped(f, list) == [i \in DOMAIN list |-> f[list[i]]]

FromTo(S, R) == [S -> R]

LEMMA ValueIs ==
  ASSUME NEW S, NEW R, NEW f \in FromTo(S, R), NEW x \in S
  PROVE  f[x] \in R
  BY DEF FromTo

(* It maps each element,                                                    *)
LEMMA MappedIs ==
  ASSUME NEW S, NEW R, NEW f \in FromTo(S, R), NEW list \in Seq(S)
  PROVE  /\ Mapped(f, list) \in Seq(R) /\ Len(Mapped(f, list)) = Len(list)
         /\ \A i \in 1..Len(list) : Mapped(f, list)[i] = f[list[i]]
  <1> DEFINE k == Len(list)
  <1>1. k \in Nat /\ DOMAIN list = 1..k /\ \A i \in 1..k : list[i] \in S
    BY LenProperties, ElementOfSeq
  <1> HIDE DEF k
  <1>2. Mapped(f, list) \in [1..k -> R] /\ \A i \in 1..k : Mapped(f, list)[i] = f[list[i]]
    BY <1>1 DEF Mapped, FromTo
  <1> HIDE DEF Mapped
  <1>3. Mapped(f, list) \in Seq(R) /\ Len(Mapped(f, list)) = k
    BY <1>1, <1>2
  <1> QED BY <1>2, <1>3 DEF k

LEMMA MappedNone ==
  ASSUME NEW f
  PROVE  Mapped(f, <<>>) = <<>>
  <1>1. DOMAIN <<>> = {}
    BY EmptySeq
  <1> QED BY <1>1 DEF Mapped

(* and a list that is one longer to one that is one longer.                 *)
LEMMA MappedMore ==
  ASSUME NEW S, NEW R, NEW f \in FromTo(S, R), NEW list \in Seq(S), NEW x \in S
  PROVE  Mapped(f, Added(list, x)) = Added(Mapped(f, list), f[x])
  <1> DEFINE left == Mapped(f, Added(list, x))
             right == Added(Mapped(f, list), f[x])
             k == Len(list)
  <1>2. /\ k \in Nat /\ left \in Seq(R) /\ Len(left) = k + 1
        /\ \A i \in 1..k : left[i] = f[list[i]]
        /\ left[k + 1] = f[x]
    <2>1. Added(list, x) \in Seq(S) /\ Len(Added(list, x)) = k + 1 /\ k \in Nat
      BY AddedIs
    <2>2. \A i \in 1..k : Added(list, x)[i] = list[i]
      BY AddedIs
    <2>3. Added(list, x)[k + 1] = x
      BY AddedIs
    <2>4. left \in Seq(R) /\ Len(left) = k + 1 /\ \A i \in 1..k + 1 : left[i] = f[Added(list, x)[i]]
      <3>1. PICK all \in Seq(S) : all = Added(list, x)
        BY <2>1
      <3>2. Mapped(f, all) \in Seq(R) /\ Len(Mapped(f, all)) = Len(all)
        BY MappedIs
      <3>3. \A i \in 1..Len(all) : Mapped(f, all)[i] = f[all[i]]
        BY MappedIs
      <3>4. Mapped(f, all) = left /\ Len(all) = k + 1
        BY <2>1, <3>1
      <3> HIDE DEF left, k
      <3> QED BY <3>1, <3>2, <3>3, <3>4
    <2>5. \A i \in 1..k : i \in 1..k + 1
      BY <2>1
    <2>6. k + 1 \in 1..k + 1
      BY <2>1
    <2> HIDE DEF k, left
    <2> QED BY <2>1, <2>2, <2>3, <2>4, <2>5, <2>6
  <1>3. /\ right \in Seq(R) /\ Len(right) = k + 1
        /\ \A i \in 1..k : right[i] = f[list[i]]
        /\ right[k + 1] = f[x]
    <2> HIDE DEF k
    <2>1. PICK m \in Seq(R) : m = Mapped(f, list) /\ Len(m) = k /\ \A i \in 1..k : m[i] = f[list[i]]
      BY MappedIs DEF k
    <2>2. PICK y \in R : y = f[x]
      BY ValueIs
    <2>3. right = Added(m, y)
      BY <2>1, <2>2
    <2> HIDE DEF right, left
    <2>4. Added(m, y) \in Seq(R) /\ Len(Added(m, y)) = Len(m) + 1 /\ Added(m, y)[Len(m) + 1] = y
      BY AddedIs
    <2>5. \A i \in 1..Len(m) : Added(m, y)[i] = m[i]
      BY AddedIs
    <2> QED BY <2>1, <2>2, <2>3, <2>4, <2>5
  <1>4. left = right
    <2> HIDE DEF left, right, k
    <2>1. \A i \in 1..Len(left) : left[i] = right[i]
      <3>1. \A i \in 1..k + 1 : i \in 1..k \/ i = k + 1
        BY <1>2
      <3> QED BY <1>2, <1>3, <3>1
    <2> QED BY <1>2, <1>3, <2>1, SeqEqual
  <1> QED BY <1>4

-----------------------------------------------------------------------------
(* FlattenSeq of the library: its last value.                              *)
Flattens(g, lists, n) ==
    g = [i \in 1..n |-> IF i = 1 THEN lists[i] ELSE g[i - 1] \o lists[i]]

(* There is such a function,                                                *)
LEMMA FlattenExists ==
  ASSUME NEW lists, NEW n \in Nat
  PROVE  \E g : Flattens(g, lists, n)
  <1> DEFINE T == {k \in Nat : \E g : Flattens(g, lists, k)}
  <1>1. 0 \in T
    <2> DEFINE g == [i \in 1..0 |-> lists[i]]
    <2>1. g = [i \in 1..0 |-> IF i = 1 THEN lists[i] ELSE g[i - 1] \o lists[i]]
      OBVIOUS
    <2> QED BY <2>1 DEF Flattens
  <1>2. ASSUME NEW k \in T PROVE k + 1 \in T
    <2>1. PICK g : Flattens(g, lists, k)
      OBVIOUS
    <2> DEFINE h == [i \in 1..k + 1 |-> IF i = k + 1 THEN IF i = 1 THEN lists[i] ELSE g[k] \o lists[i]
                                        ELSE g[i]]
               e == [i \in 1..k + 1 |-> IF i = 1 THEN lists[i] ELSE h[i - 1] \o lists[i]]
    <2>2. ASSUME NEW i \in 1..k + 1 PROVE h[i] = e[i]
      <3>1. \A j \in 1..k : g[j] = IF j = 1 THEN lists[j] ELSE g[j - 1] \o lists[j]
        BY <2>1 DEF Flattens
      <3>2. CASE i = 1
        BY <3>1, <3>2
      <3>3. CASE i # 1 /\ i = k + 1
        <4>1. i - 1 = k /\ k \in 1..k + 1 /\ k # k + 1
          BY <3>3
        <4>2. h[k] = g[k] /\ h[i] = g[k] \o lists[i]
          BY <3>3, <4>1
        <4>3. e[i] = h[i - 1] \o lists[i]
          BY <3>3
        <4> HIDE DEF h, e
        <4> QED BY <4>1, <4>2, <4>3
      <3>4. CASE i # 1 /\ i # k + 1
        <4>1. i \in 1..k /\ i - 1 \in 1..k /\ i - 1 # k + 1 /\ i - 1 \in 1..k + 1
          BY <3>4
        <4>2. h[i - 1] = g[i - 1] /\ h[i] = g[i]
          BY <3>4, <4>1
        <4> QED BY <3>1, <3>4, <4>1, <4>2
      <3> QED BY <3>2, <3>3, <3>4
    <2>3. h = e
      BY <2>2
    <2>4. Flattens(h, lists, k + 1)
      <3> HIDE DEF h
      <3> QED BY <2>3 DEF Flattens
    <2> QED BY <2>4
  <1>3. T = Nat
    <2>1. T \in SUBSET Nat
      OBVIOUS
    <2> HIDE DEF T
    <2> QED BY <1>1, <1>2, <2>1, AllNumbers
  <1> QED BY <1>3

(* The value for the first lists does not change with those that follow.   *)
Agree(lists, more, k) == \A i \in 1..k : lists[i] = more[i]

(* and one value of it for what lists have in common.                       *)
LEMMA FlattensSame ==
  ASSUME NEW lists, NEW more, NEW k \in Nat, NEW n \in Nat, k <= n, NEW g, NEW h,
         Flattens(g, lists, k), Flattens(h, more, n),
         Agree(lists, more, k)
  PROVE  Agree(g, h, k)
  <1> DEFINE T == {m \in Nat : m \in 1..k => g[m] = h[m]}
  <1>1. \A i \in 1..k : g[i] = IF i = 1 THEN lists[i] ELSE g[i - 1] \o lists[i]
    BY DEF Flattens
  <1>2. \A i \in 1..n : h[i] = IF i = 1 THEN more[i] ELSE h[i - 1] \o more[i]
    BY DEF Flattens
  <1>3. 0 \in T
    OBVIOUS
  <1>4. ASSUME NEW m \in T PROVE m + 1 \in T
    <2> SUFFICES ASSUME m + 1 \in 1..k PROVE g[m + 1] = h[m + 1]
      OBVIOUS
    <2>1. m + 1 \in 1..n /\ (m + 1 # 1 => m \in 1..k) /\ (m + 1) - 1 = m
      OBVIOUS
    <2>2. m + 1 # 1 => g[m] = h[m]
      BY <2>1
    <2>3. g[m + 1] = IF m + 1 = 1 THEN lists[m + 1] ELSE g[m] \o lists[m + 1]
      BY <1>1, <2>1
    <2>4. h[m + 1] = IF m + 1 = 1 THEN more[m + 1] ELSE h[m] \o more[m + 1]
      BY <1>2, <2>1
    <2>5. lists[m + 1] = more[m + 1]
      BY DEF Agree
    <2> HIDE DEF T
    <2> QED BY <2>2, <2>3, <2>4, <2>5
  <1>5. T = Nat
    <2>1. T \in SUBSET Nat
      OBVIOUS
    <2> HIDE DEF T
    <2> QED BY <1>3, <1>4, <2>1, AllNumbers
  <1> QED BY <1>5 DEF Agree

LEMMA FlattenIs ==
  ASSUME NEW S, NEW lists \in Seq(S)
  PROVE  \E g : /\ Flattens(g, lists, Len(lists))
                /\ lists # <<>> => FlattenSeq(lists) = g[Len(lists)]
                /\ lists = <<>> => FlattenSeq(lists) = <<>>
  <1> DEFINE g == CHOOSE f : Flattens(f, lists, Len(lists))
  <1>1. Flattens(g, lists, Len(lists))
    BY LenProperties, FlattenExists
  <1>2. lists # <<>> => Len(lists) # 0
    BY EmptySeq
  <1>3. lists # <<>> => FlattenSeq(lists) = g[Len(lists)]
    BY <1>2 DEF FlattenSeq, Flattens
  <1>4. lists = <<>> => FlattenSeq(lists) = <<>>
    BY DEF FlattenSeq
  <1> HIDE DEF g
  <1> QED BY <1>1, <1>3, <1>4

LEMMA FlattenNone == FlattenSeq(<<>>) = <<>>
  BY DEF FlattenSeq

(* One more list goes behind those before.                                  *)
LEMMA FlattenMore ==
  ASSUME NEW X, NEW lists \in Seq(Seq(X)), NEW list \in Seq(X)
  PROVE  FlattenSeq(Added(lists, list)) = Both(FlattenSeq(lists), list)
  <1> DEFINE more == Added(lists, list)
             k == Len(lists)
  <1>1. /\ k \in Nat /\ more \in Seq(Seq(X)) /\ Len(more) = k + 1
        /\ \A i \in 1..k : lists[i] = more[i]
        /\ more[k + 1] = list
    BY AddedIs
  <1>2. PICK g : /\ Flattens(g, lists, k)
                 /\ lists # <<>> => FlattenSeq(lists) = g[k]
                 /\ lists = <<>> => FlattenSeq(lists) = <<>>
    BY FlattenIs
  <1> HIDE DEF more
  <1>3. PICK h : Flattens(h, more, Len(more)) /\ (more # <<>> => FlattenSeq(more) = h[Len(more)])
    BY <1>1, FlattenIs
  <1>4. more # <<>>
    BY <1>1, EmptySeq
  <1>5. FlattenSeq(more) = h[k + 1] /\ Flattens(h, more, k + 1)
    BY <1>1, <1>3, <1>4
  <1>6. h[k + 1] = IF k + 1 = 1 THEN more[k + 1] ELSE h[(k + 1) - 1] \o more[k + 1]
    <2>1. k + 1 \in 1..k + 1
      BY <1>1
    <2> QED BY <1>5, <2>1 DEF Flattens
  <1>7. lists = <<>> <=> k = 0
    BY EmptySeq, LenProperties
  <1> HIDE DEF k
  <1>8. CASE lists = <<>>
    <2>1. h[k + 1] = list
      BY <1>1, <1>6, <1>7, <1>8
    <2> QED BY <1>2, <1>5, <1>8, <2>1, BothIs DEF more
  <1>9. CASE lists # <<>>
    <2>1. k + 1 # 1 /\ (k + 1) - 1 = k /\ k \in 1..k
      BY <1>1, <1>7, <1>9
    <2>2. \A i \in 1..k : g[i] = h[i]
      <3>1. k <= k + 1 /\ k + 1 \in Nat
        BY <1>1
      <3>2. PICK n \in Nat : n = k + 1 /\ k <= n /\ Flattens(h, more, n)
        BY <1>5, <3>1
      <3>3. Flattens(g, lists, k) /\ Agree(lists, more, k)
        BY <1>1, <1>2 DEF Agree
      <3>4. Agree(g, h, k)
        BY <1>1, <3>2, <3>3, FlattensSame
      <3> QED BY <3>4 DEF Agree
    <2>3. h[k + 1] = g[k] \o list
      BY <1>1, <1>6, <2>1, <2>2
    <2> QED BY <1>2, <1>5, <1>9, <2>3 DEF Both, more
  <1> QED BY <1>8, <1>9

-----------------------------------------------------------------------------
(* The lists that a function makes of the elements of a list, in a row: it  *)
(* is what grows with each element by its list.                            *)
Gathered(f, list) == FlattenSeq(Mapped(f, list))

LEMMA GatheredNone ==
  ASSUME NEW f
  PROVE  Gathered(f, <<>>) = <<>>
  BY MappedNone, FlattenNone DEF Gathered

LEMMA GatheredMore ==
  ASSUME NEW S, NEW X, NEW f \in FromTo(S, Seq(X)), NEW list \in Seq(S), NEW x \in S
  PROVE  Gathered(f, Added(list, x)) = Both(Gathered(f, list), f[x])
  <1>1. PICK lists \in Seq(Seq(X)) : lists = Mapped(f, list)
    BY MappedIs
  <1>2. PICK more \in Seq(X) : more = f[x]
    BY ValueIs
  <1>3. Mapped(f, Added(list, x)) = Added(Mapped(f, list), f[x])
    BY MappedMore
  <1>4. FlattenSeq(Added(lists, more)) = Both(FlattenSeq(lists), more)
    BY FlattenMore
  <1> QED BY <1>1, <1>2, <1>3, <1>4 DEF Gathered

LEMMA GatheredType ==
  ASSUME NEW S, NEW X, NEW f \in FromTo(S, Seq(X)), NEW list \in Seq(S)
  PROVE  Gathered(f, list) \in Seq(X)
  <1> DEFINE T == {s \in Seq(S) : Gathered(f, s) \in Seq(X)}
  <1>1. <<>> \in T
    BY GatheredNone, EmptySeq
  <1>2. ASSUME NEW s \in T, NEW x \in S PROVE Added(s, x) \in T
    <2>1. Added(s, x) \in Seq(S)
      BY AddedIs
    <2>2. Gathered(f, Added(s, x)) = Both(Gathered(f, s), f[x])
      BY GatheredMore
    <2>3. Gathered(f, s) \in Seq(X) /\ f[x] \in Seq(X)
      BY ValueIs
    <2>4. Both(Gathered(f, s), f[x]) \in Seq(X)
      BY <2>3, BothIs
    <2> QED BY <2>1, <2>2, <2>4
  <1>3. T = Seq(S)
    <2>1. T \in SUBSET Seq(S)
      OBVIOUS
    <2> HIDE DEF T
    <2> QED BY <1>1, <1>2, <2>1, AllLists
  <1> QED BY <1>3

LEMMA GatheredAlone ==
  ASSUME NEW D, NEW X, NEW f \in FromTo(D, Seq(X)), NEW S \in SUBSET D, NEW list \in Seq(S),
         NEW G, G[<<>>] = <<>>,
         \A s \in Seq(S), x \in S : G[Added(s, x)] = Both(G[s], f[x])
  PROVE  G[list] = Gathered(f, list)
  <1> DEFINE T == {s \in Seq(S) : G[s] = Gathered(f, s)}
  <1>1. <<>> \in T
    BY GatheredNone, EmptySeq
  <1>2. ASSUME NEW s \in T, NEW x \in S PROVE Added(s, x) \in T
    <2>1. Added(s, x) \in Seq(S) /\ s \in Seq(D) /\ x \in D
      BY AddedIs, SeqMonotonic
    <2>2. Gathered(f, Added(s, x)) = Both(Gathered(f, s), f[x])
      BY <2>1, GatheredMore
    <2>3. G[Added(s, x)] = Both(G[s], f[x]) /\ G[s] = Gathered(f, s)
      OBVIOUS
    <2> QED BY <2>1, <2>2, <2>3
  <1>3. T = Seq(S)
    <2>1. T \in SUBSET Seq(S)
      OBVIOUS
    <2> HIDE DEF T
    <2> QED BY <1>1, <1>2, <2>1, AllLists
  <1> QED BY <1>3

LEMMA GatheredBoth ==
  ASSUME NEW S, NEW X, NEW f \in FromTo(S, Seq(X)), NEW list \in Seq(S), NEW other \in Seq(S)
  PROVE  Gathered(f, Both(list, other)) = Both(Gathered(f, list), Gathered(f, other))
  <1> DEFINE T == {s \in Seq(S) : Gathered(f, Both(list, s)) = Both(Gathered(f, list), Gathered(f, s))}
  <1>1. <<>> \in T
    <2>1. Gathered(f, list) \in Seq(X)
      BY GatheredType
    <2>2. Both(list, <<>>) = list /\ Both(Gathered(f, list), <<>>) = Gathered(f, list)
      BY <2>1, EmptySeq, BothIs
    <2> QED BY <2>2, GatheredNone, EmptySeq
  <1>2. ASSUME NEW s \in T, NEW x \in S PROVE Added(s, x) \in T
    <2>1. Added(s, x) \in Seq(S) /\ Both(list, s) \in Seq(S)
      BY AddedIs, BothIs
    <2>2. Both(list, Added(s, x)) = Added(Both(list, s), x)
      BY AddedJoin
    <2>3. Gathered(f, Added(Both(list, s), x)) = Both(Gathered(f, Both(list, s)), f[x])
      BY <2>1, GatheredMore
    <2>4. Gathered(f, Added(s, x)) = Both(Gathered(f, s), f[x])
      BY GatheredMore
    <2>5. Gathered(f, list) \in Seq(X) /\ Gathered(f, s) \in Seq(X) /\ f[x] \in Seq(X)
      BY GatheredType, ValueIs
    <2>6. Both(Both(Gathered(f, list), Gathered(f, s)), f[x]) = Both(Gathered(f, list), Both(Gathered(f, s), f[x]))
      BY <2>5, BothOfThree
    <2> QED BY <2>1, <2>2, <2>3, <2>4, <2>6
  <1>3. T = Seq(S)
    <2>1. T \in SUBSET Seq(S)
      OBVIOUS
    <2> HIDE DEF T
    <2> QED BY <1>1, <1>2, <2>1, AllLists
  <1> QED BY <1>3

(* A function of each element goes through a row of lists.                 *)
LEMMA MappedBoth ==
  ASSUME NEW S, NEW R, NEW f \in FromTo(S, R), NEW list \in Seq(S), NEW other \in Seq(S)
  PROVE  Mapped(f, Both(list, other)) = Both(Mapped(f, list), Mapped(f, other))
  <1> DEFINE T == {s \in Seq(S) : Mapped(f, Both(list, s)) = Both(Mapped(f, list), Mapped(f, s))}
  <1>1. <<>> \in T
    <2>1. Mapped(f, list) \in Seq(R) /\ <<>> \in Seq(S) /\ <<>> \in Seq(R)
      BY MappedIs, EmptySeq
    <2>2. Both(list, <<>>) = list /\ Both(Mapped(f, list), <<>>) = Mapped(f, list)
      BY <2>1, BothIs
    <2> QED BY <2>1, <2>2, MappedNone
  <1>2. ASSUME NEW s \in T, NEW x \in S PROVE Added(s, x) \in T
    <2>1. Added(s, x) \in Seq(S) /\ Both(list, s) \in Seq(S)
      BY AddedIs, BothIs
    <2>2. Both(list, Added(s, x)) = Added(Both(list, s), x)
      BY AddedJoin
    <2>3. Mapped(f, Added(Both(list, s), x)) = Added(Mapped(f, Both(list, s)), f[x])
      BY <2>1, MappedMore
    <2>4. Mapped(f, Added(s, x)) = Added(Mapped(f, s), f[x])
      BY MappedMore
    <2>5. Mapped(f, list) \in Seq(R) /\ Mapped(f, s) \in Seq(R) /\ f[x] \in R
      BY MappedIs, ValueIs
    <2>6. Both(Mapped(f, list), Added(Mapped(f, s), f[x])) = Added(Both(Mapped(f, list), Mapped(f, s)), f[x])
      BY <2>5, AddedJoin
    <2> QED BY <2>1, <2>2, <2>3, <2>4, <2>6
  <1>3. T = Seq(S)
    <2>1. T \in SUBSET Seq(S)
      OBVIOUS
    <2> HIDE DEF T
    <2> QED BY <1>1, <1>2, <2>1, AllLists
  <1> QED BY <1>3

-----------------------------------------------------------------------------
(* What chats are made of, and what of it is told.                         *)
Kinds == {"text", "blank", "refusal", "call", "result", "reasoning"}

ItemIds == {NoId} \cup ({"said", "call", "new"} \X Nat \X Nat)

Items == [kind : Kinds, id : ItemIds, name : Tools \cup {"none"}]

Talkers == {"user", "assistant", "tool", "function"}

Messages == [role : Instructions \cup Talkers, items : Seq(Items)]

Aloud == {item \in Items : item.kind # "reasoning"}

Forms == {Shape(item) : item \in Items}

ShapeOf == [item \in Items |-> Shape(item)]

TextOf == [item \in Items |-> IF item.kind = "refusal" THEN [item EXCEPT !.kind = "text"] ELSE item]

ItemsOf == [message \in Messages |-> message.items]

WithRole(roles) == {message \in Messages : message.role \in roles}

LEMMA ItemIs ==
  ASSUME NEW item \in Items
  PROVE  /\ item.kind \in Kinds /\ item.id \in ItemIds /\ item.name \in Tools \cup {"none"}
         /\ item = [kind |-> item.kind, id |-> item.id, name |-> item.name]
  BY DEF Items

LEMMA MessageIs ==
  ASSUME NEW message \in Messages
  PROVE  /\ message.role \in Instructions \cup Talkers /\ message.items \in Seq(Items)
         /\ message = [role |-> message.role, items |-> message.items]
  BY DEF Messages

(* The functions are what they are called.                                  *)
LEMMA FunctionsAre ==
  /\ ShapeOf \in FromTo(Items, Forms) /\ \A item \in Items : ShapeOf[item] = Shape(item)
  /\ TextOf \in FromTo(Items, Items)
  /\ \A item \in Items : ShapeOf[TextOf[item]] = ShapeOf[item]
  /\ ItemsOf \in FromTo(Messages, Seq(Items)) /\ \A message \in Messages : ItemsOf[message] = message.items
  <1>1. ShapeOf \in FromTo(Items, Forms) /\ \A item \in Items : ShapeOf[item] = Shape(item)
    BY DEF ShapeOf, Forms, FromTo
  <1>2. \A item \in Items : TextOf[item] \in Items
    BY DEF TextOf, Items, Kinds
  <1>3. TextOf \in FromTo(Items, Items)
    BY <1>2 DEF TextOf, FromTo
  <1>5. \A item \in Items : ShapeOf[TextOf[item]] = ShapeOf[item]
    BY <1>1, <1>2 DEF TextOf, Shape, Items
  <1>6. ItemsOf \in FromTo(Messages, Seq(Items)) /\ \A message \in Messages : ItemsOf[message] = message.items
    BY DEF ItemsOf, FromTo, Messages
  <1> QED BY <1>1, <1>3, <1>5, <1>6

(* The operators of the translators, as what is picked, mapped and gathered. *)
LEMMA SentIs ==
  ASSUME NEW list \in Seq(Items)
  PROVE  /\ Sent(list) = Picked(list, Aloud)
         /\ OfKind({"text", "blank", "refusal", "call", "result"}, list) = Picked(list, Aloud)
  <1>1. \A i \in DOMAIN list : list[i] \in Items
    BY LenProperties, ElementOfSeq
  <1>2. {i \in DOMAIN list : list[i].kind # "reasoning"} = {i \in DOMAIN list : list[i] \in Aloud}
    BY <1>1 DEF Aloud
  <1>3. {i \in DOMAIN list : list[i].kind \in {"text", "blank", "refusal", "call", "result"}}
          = {i \in DOMAIN list : list[i] \in Aloud}
    BY <1>1, ItemIs DEF Aloud, Kinds
  <1> QED BY <1>2, <1>3 DEF Sent, OfKind, Picked

OfThe(kind, S) == {item \in S : item.kind = kind}

LEMMA KindIs ==
  ASSUME NEW S, NEW list \in Seq(S), NEW kind
  PROVE  OfKind({kind}, list) = Picked(list, OfThe(kind, S))
  <1>1. \A i \in DOMAIN list : list[i] \in S
    BY LenProperties, ElementOfSeq
  <1>2. {i \in DOMAIN list : list[i].kind \in {kind}}
          = {i \in DOMAIN list : list[i] \in OfThe(kind, S)}
    BY <1>1 DEF OfThe
  <1> QED BY <1>2 DEF OfKind, Picked

LEMMA RoleIs ==
  ASSUME NEW list \in Seq(Messages), NEW roles
  PROVE  OfRole(roles, list) = Picked(list, WithRole(roles))
  <1>1. \A i \in DOMAIN list : list[i] \in Messages
    BY LenProperties, ElementOfSeq
  <1>2. {i \in DOMAIN list : list[i].role \in roles} = {i \in DOMAIN list : list[i] \in WithRole(roles)}
    BY <1>1 DEF WithRole
  <1> QED BY <1>2 DEF OfRole, Picked

(* The messages of some roles are messages of these roles.                  *)
LEMMA RoleType ==
  ASSUME NEW list \in Seq(Messages), NEW roles
  PROVE  OfRole(roles, list) \in Seq(Messages) /\ OfRole(roles, list) \in Seq(WithRole(roles))
  <1>1. Picked(list, WithRole(roles)) \in Seq(Messages)
    BY PickedType
  <1>2. Picked(list, WithRole(roles)) \in Seq(Messages \cap WithRole(roles))
    BY PickedType
  <1>3. Messages \cap WithRole(roles) = WithRole(roles)
    BY DEF WithRole
  <1> QED BY <1>1, <1>2, <1>3, RoleIs

LEMMA MapsAre ==
  ASSUME NEW list \in Seq(Items)
  PROVE  /\ Shapes(list) = Mapped(ShapeOf, list)
         /\ AsText(list) = Mapped(TextOf, list)
  <1>1. \A i \in DOMAIN list : list[i] \in Items
    BY LenProperties, ElementOfSeq
  <1>2. \A i \in DOMAIN list : ShapeOf[list[i]] = Shape(list[i])
    BY <1>1 DEF ShapeOf
  <1>3. \A i \in DOMAIN list : TextOf[list[i]]
          = IF list[i].kind = "refusal" THEN [list[i] EXCEPT !.kind = "text"] ELSE list[i]
    BY <1>1 DEF TextOf
  <1> QED BY <1>2, <1>3 DEF Shapes, AsText, Mapped

LEMMA AllItemsAre ==
  ASSUME NEW list \in Seq(Messages)
  PROVE  AllItems(list) = Gathered(ItemsOf, list) /\ AllItems(list) \in Seq(Items)
  <1>1. \A i \in DOMAIN list : list[i] \in Messages
    BY LenProperties, ElementOfSeq
  <1>2. \A i \in DOMAIN list : ItemsOf[list[i]] = list[i].items
    BY <1>1, FunctionsAre
  <1>3. AllItems(list) = Gathered(ItemsOf, list)
    BY <1>2 DEF AllItems, Gathered, Mapped
  <1> QED BY <1>3, FunctionsAre, GatheredType

(* What is to be told of items, and of a message.                          *)
Form(list) == Mapped(ShapeOf, Picked(list, Aloud))

Whole == [message \in Messages |-> Form(message.items)]

LEMMA FormType ==
  ASSUME NEW list \in Seq(Items)
  PROVE  Form(list) \in Seq(Forms)
  <1>1. Picked(list, Aloud) \in Seq(Items)
    BY PickedType
  <1> QED BY <1>1, FunctionsAre, MappedIs DEF Form

LEMMA WholeIs ==
  /\ Whole \in FromTo(Messages, Seq(Forms))
  /\ \A message \in Messages : Whole[message] = Form(message.items)
  BY FormType, MessageIs DEF Whole, FromTo

LEMMA FormBoth ==
  ASSUME NEW list \in Seq(Items), NEW other \in Seq(Items)
  PROVE  Form(Both(list, other)) = Both(Form(list), Form(other))
  <1>1. Picked(list, Aloud) \in Seq(Items) /\ Picked(other, Aloud) \in Seq(Items)
    BY PickedType
  <1>2. Picked(Both(list, other), Aloud) = Both(Picked(list, Aloud), Picked(other, Aloud))
    BY PickedJoin
  <1> QED BY <1>1, <1>2, FunctionsAre, MappedBoth DEF Form

LEMMA FormNone == Form(<<>>) = <<>>
  BY PickedNone, MappedNone DEF Form

(* A chat is told when each of its messages is.                            *)
LEMMA FormOfChat ==
  ASSUME NEW list \in Seq(Messages)
  PROVE  Form(AllItems(list)) = Gathered(Whole, list)
  <1> DEFINE G == [s \in Seq(Messages) |-> Form(Gathered(ItemsOf, s))]
  <1>1. G[<<>>] = <<>>
    BY GatheredNone, FormNone, EmptySeq
  <1>2. ASSUME NEW s \in Seq(Messages), NEW x \in Messages
        PROVE  G[Added(s, x)] = Both(G[s], Whole[x])
    <2>1. Added(s, x) \in Seq(Messages)
      BY AddedIs
    <2>2. Gathered(ItemsOf, Added(s, x)) = Both(Gathered(ItemsOf, s), ItemsOf[x])
      BY FunctionsAre, GatheredMore
    <2>3. Gathered(ItemsOf, s) \in Seq(Items) /\ ItemsOf[x] \in Seq(Items) /\ ItemsOf[x] = x.items
      BY FunctionsAre, GatheredType, MessageIs
    <2>4. Form(Both(Gathered(ItemsOf, s), ItemsOf[x])) = Both(Form(Gathered(ItemsOf, s)), Form(ItemsOf[x]))
      BY <2>3, FormBoth
    <2> QED BY <2>1, <2>2, <2>3, <2>4, WholeIs
  <1>3. G[list] = Form(Gathered(ItemsOf, list))
    OBVIOUS
  <1> HIDE DEF G
  <1>4. G[list] = Gathered(Whole, list)
    <2>1. Messages \in SUBSET Messages
      OBVIOUS
    <2> QED BY <1>1, <1>2, <2>1, WholeIs, GatheredAlone
  <1> QED BY <1>3, <1>4, AllItemsAre

-----------------------------------------------------------------------------
(* Messages that are sent one for one are told if the items of each are.   *)
LEMMA ToldOneForOne ==
  ASSUME NEW S \in SUBSET Messages, NEW h \in FromTo(S, Messages),
         \A message \in S : Mapped(ShapeOf, ItemsOf[h[message]]) = Whole[message],
         NEW list \in Seq(S)
  PROVE  Shapes(AllItems(Mapped(h, list))) = Gathered(Whole, list)
  <1> DEFINE G == [s \in Seq(S) |-> Mapped(ShapeOf, Gathered(ItemsOf, Mapped(h, s)))]
  <1>1. G[<<>>] = <<>>
    BY MappedNone, GatheredNone, EmptySeq
  <1>2. ASSUME NEW s \in Seq(S), NEW x \in S
        PROVE  G[Added(s, x)] = Both(G[s], Whole[x])
    <2>1. Added(s, x) \in Seq(S)
      BY AddedIs
    <2>2. Mapped(h, s) \in Seq(Messages) /\ h[x] \in Messages
      BY MappedIs, ValueIs
    <2>3. Mapped(h, Added(s, x)) = Added(Mapped(h, s), h[x])
      BY MappedMore
    <2>4. Gathered(ItemsOf, Added(Mapped(h, s), h[x])) = Both(Gathered(ItemsOf, Mapped(h, s)), ItemsOf[h[x]])
      BY <2>2, FunctionsAre, GatheredMore
    <2>5. Gathered(ItemsOf, Mapped(h, s)) \in Seq(Items) /\ ItemsOf[h[x]] \in Seq(Items)
      BY <2>2, FunctionsAre, GatheredType, ValueIs
    <2>6. Mapped(ShapeOf, Both(Gathered(ItemsOf, Mapped(h, s)), ItemsOf[h[x]]))
            = Both(Mapped(ShapeOf, Gathered(ItemsOf, Mapped(h, s))), Mapped(ShapeOf, ItemsOf[h[x]]))
      BY <2>5, FunctionsAre, MappedBoth
    <2> QED BY <2>1, <2>3, <2>4, <2>6
  <1>3. G[list] = Mapped(ShapeOf, Gathered(ItemsOf, Mapped(h, list)))
    OBVIOUS
  <1> HIDE DEF G
  <1>4. G[list] = Gathered(Whole, list)
    BY <1>1, <1>2, WholeIs, GatheredAlone
  <1>5. Mapped(h, list) \in Seq(Messages)
    BY MappedIs
  <1> QED BY <1>3, <1>4, <1>5, AllItemsAre, MapsAre

-----------------------------------------------------------------------------
(* The chats of OpenAI: all messages, without their reasoning.             *)
SentOf == [message \in Messages |-> [role |-> message.role, items |-> Picked(message.items, Aloud)]]

LEMMA SentOfIs ==
  /\ SentOf \in FromTo(Messages, Messages)
  /\ \A message \in Messages : /\ Mapped(ShapeOf, ItemsOf[SentOf[message]]) = Whole[message]
                               /\ SentOf[message].role = message.role
  <1> SUFFICES ASSUME NEW message \in Messages
               PROVE  /\ SentOf[message] \in Messages /\ SentOf[message].role = message.role
                      /\ Mapped(ShapeOf, ItemsOf[SentOf[message]]) = Whole[message]
    BY DEF SentOf, FromTo
  <1>1. Picked(message.items, Aloud) \in Seq(Items)
    BY MessageIs, PickedType
  <1>2. SentOf[message] \in Messages /\ SentOf[message].role = message.role
        /\ SentOf[message].items = Picked(message.items, Aloud)
    BY <1>1, MessageIs DEF SentOf, Messages
  <1> QED BY <1>2, FunctionsAre, WholeIs DEF Form

(* Messages are of the same role as before.                                *)
LEMMA RoleOfMapped ==
  ASSUME NEW h \in FromTo(Messages, Messages), \A message \in Messages : h[message].role = message.role,
         NEW list \in Seq(Messages), NEW roles
  PROVE  OfRole(roles, Mapped(h, list)) = Mapped(h, OfRole(roles, list))
  <1> DEFINE P == WithRole(roles)
             T == {s \in Seq(Messages) : Picked(Mapped(h, s), P) = Mapped(h, Picked(s, P))}
  <1> HIDE DEF P
  <1>1. <<>> \in T
    BY MappedNone, PickedNone, EmptySeq
  <1>2. ASSUME NEW s \in T, NEW x \in Messages PROVE Added(s, x) \in T
    <2>1. Added(s, x) \in Seq(Messages)
      BY AddedIs
    <2>2. Mapped(h, s) \in Seq(Messages) /\ h[x] \in Messages
      BY MappedIs, ValueIs
    <2>3. Mapped(h, Added(s, x)) = Added(Mapped(h, s), h[x])
      BY MappedMore
    <2>4. Picked(Added(Mapped(h, s), h[x]), P)
            = IF h[x] \in P THEN Added(Picked(Mapped(h, s), P), h[x]) ELSE Picked(Mapped(h, s), P)
      BY <2>2, PickedMore
    <2>5. Picked(Added(s, x), P) = IF x \in P THEN Added(Picked(s, P), x) ELSE Picked(s, P)
      BY PickedMore
    <2>6. Picked(s, P) \in Seq(Messages)
      BY PickedType
    <2>7. Mapped(h, Added(Picked(s, P), x)) = Added(Mapped(h, Picked(s, P)), h[x])
      BY <2>6, MappedMore
    <2>8. h[x] \in P <=> x \in P
      BY <2>2 DEF P, WithRole
    <2> QED BY <2>1, <2>3, <2>4, <2>5, <2>7, <2>8
  <1>3. T = Seq(Messages)
    <2>1. T \in SUBSET Seq(Messages)
      OBVIOUS
    <2> HIDE DEF T
    <2> QED BY <1>1, <1>2, <2>1, AllLists
  <1>4. Picked(Mapped(h, list), P) = Mapped(h, Picked(list, P)) /\ Mapped(h, list) \in Seq(Messages)
    BY <1>3, MappedIs
  <1> QED BY <1>4, RoleIs DEF P

(* What the wire has of messages, and what it should have of the chat.     *)
LEMMA ShapesOfOrder ==
  ASSUME NEW system \in Seq(Items), NEW list \in Seq(Messages)
  PROVE  Shapes(system \o AllItems(InOrder(list)))
           = Both(Shapes(system), Both(Shapes(AllItems(OfRole(Instructions, list))),
                                       Shapes(AllItems(Conversation(list)))))
  <1>1. PICK a \in Seq(Messages), b \in Seq(Messages) : a = OfRole(Instructions, list) /\ b = Conversation(list)
    <2>1. OfRole(Instructions, list) \in Seq(Messages) /\ Conversation(list) \in Seq(Messages)
      BY RoleType DEF Conversation
    <2> QED BY <2>1
  <1>2. InOrder(list) = Both(a, b) /\ Both(a, b) \in Seq(Messages)
    BY <1>1, BothIs DEF InOrder, Both
  <1>3. AllItems(Both(a, b)) = Both(AllItems(a), AllItems(b))
    BY <1>2, AllItemsAre, FunctionsAre, GatheredBoth
  <1>4. PICK x \in Seq(Items), y \in Seq(Items) : x = AllItems(a) /\ y = AllItems(b)
    BY AllItemsAre
  <1>5. Both(x, y) \in Seq(Items) /\ Both(system, Both(x, y)) \in Seq(Items)
    BY BothIs
  <1>6. Mapped(ShapeOf, Both(x, y)) = Both(Mapped(ShapeOf, x), Mapped(ShapeOf, y))
    BY FunctionsAre, MappedBoth
  <1>7. Mapped(ShapeOf, Both(system, Both(x, y))) = Both(Mapped(ShapeOf, system), Mapped(ShapeOf, Both(x, y)))
    BY <1>5, FunctionsAre, MappedBoth
  <1>8. Shapes(Both(system, Both(x, y))) = Both(Shapes(system), Both(Shapes(x), Shapes(y)))
    BY <1>5, <1>6, <1>7, MapsAre
  <1>9. system \o AllItems(InOrder(list)) = Both(system, Both(x, y))
    BY <1>2, <1>3, <1>4 DEF Both
  <1> QED BY <1>1, <1>4, <1>8, <1>9

LEMMA FormOfOrder ==
  ASSUME NEW list \in Seq(Messages)
  PROVE  Shapes(OfKind({"text", "blank", "refusal", "call", "result"}, AllItems(InOrder(list))))
           = Both(Gathered(Whole, OfRole(Instructions, list)), Gathered(Whole, Conversation(list)))
  <1>1. PICK a \in Seq(Messages), b \in Seq(Messages) : a = OfRole(Instructions, list) /\ b = Conversation(list)
    <2>1. OfRole(Instructions, list) \in Seq(Messages) /\ Conversation(list) \in Seq(Messages)
      BY RoleType DEF Conversation
    <2> QED BY <2>1
  <1>2. InOrder(list) = Both(a, b) /\ Both(a, b) \in Seq(Messages)
    BY <1>1, BothIs DEF InOrder, Both
  <1>3. Form(AllItems(Both(a, b))) = Gathered(Whole, Both(a, b))
    BY <1>2, FormOfChat
  <1>4. Gathered(Whole, Both(a, b)) = Both(Gathered(Whole, a), Gathered(Whole, b))
    BY WholeIs, GatheredBoth
  <1>5. PICK all \in Seq(Items) : all = AllItems(Both(a, b))
    BY <1>2, AllItemsAre
  <1>6. Picked(all, Aloud) \in Seq(Items)
    BY PickedType
  <1>7. Shapes(OfKind({"text", "blank", "refusal", "call", "result"}, all)) = Form(all)
    BY <1>6, SentIs, MapsAre DEF Form
  <1> QED BY <1>1, <1>2, <1>3, <1>4, <1>5, <1>7

LEMMA WholeType ==
  ASSUME NEW list \in Seq(Messages), NEW roles
  PROVE  Gathered(Whole, OfRole(roles, list)) \in Seq(Forms)
  BY RoleType, WholeIs, GatheredType

(* A chat is told in full,                                                 *)
InFull(list, system, sent) ==
    Shapes(system \o AllItems(InOrder(sent)))
      = Shapes(OfKind({"text", "blank", "refusal", "call", "result"}, AllItems(InOrder(list))))

(* with its instructions among its messages,                               *)
LEMMA ToldAlongside ==
  ASSUME NEW list \in Seq(Messages), NEW sent \in Seq(Messages),
         \A roles : Shapes(AllItems(OfRole(roles, sent))) = Gathered(Whole, OfRole(roles, list))
  PROVE  InFull(list, <<>>, sent)
  <1>1. PICK none \in Seq(Items) : none = <<>>
    BY EmptySeq
  <1>2. Shapes(none) = <<>>
    BY <1>1, MapsAre, MappedNone
  <1>3. Shapes(none \o AllItems(InOrder(sent)))
          = Both(Shapes(none), Both(Shapes(AllItems(OfRole(Instructions, sent))),
                                    Shapes(AllItems(Conversation(sent)))))
    BY ShapesOfOrder
  <1>4. PICK right \in Seq(Forms) : right
          = Both(Gathered(Whole, OfRole(Instructions, list)), Gathered(Whole, Conversation(list)))
    BY WholeType, BothIs DEF Conversation
  <1>5. Both(<<>>, right) = right
    BY BothIs
  <1>6. Shapes(none \o AllItems(InOrder(sent))) = right
    BY <1>2, <1>3, <1>4, <1>5 DEF Conversation
  <1> QED BY <1>1, <1>4, <1>6, FormOfOrder DEF InFull

(* or with them apart.                                                     *)
Plain == {message \in Messages : message.role \in Instructions => message.items \in Seq(Aloud)}

LEMMA PlainType ==
  ASSUME NEW list \in Seq(Plain)
  PROVE  /\ list \in Seq(Messages)
         /\ AllItems(OfRole(Instructions, list)) \in Seq(Aloud)
         /\ Shapes(AllItems(OfRole(Instructions, list))) = Gathered(Whole, OfRole(Instructions, list))
  <1>1. list \in Seq(Messages) /\ Plain \subseteq Messages
    BY SeqMonotonic DEF Plain
  <1> DEFINE own == Plain \cap WithRole(Instructions)
             T == {s \in Seq(own) : Gathered(ItemsOf, s) \in Seq(Aloud)}
  <1>2. \A x \in own : x \in Messages /\ ItemsOf[x] \in Seq(Aloud)
    BY FunctionsAre DEF Plain, WithRole
  <1> HIDE DEF own
  <1>3. <<>> \in T
    BY GatheredNone, EmptySeq
  <1>4. ASSUME NEW s \in T, NEW x \in own PROVE Added(s, x) \in T
    <2>1. Added(s, x) \in Seq(own)
      BY AddedIs
    <2>2. own \subseteq Messages
      BY <1>2
    <2>3. s \in Seq(Messages) /\ x \in Messages
      BY <2>2, SeqMonotonic
    <2>4. Gathered(ItemsOf, Added(s, x)) = Both(Gathered(ItemsOf, s), ItemsOf[x])
      BY <2>3, FunctionsAre, GatheredMore
    <2>5. Both(Gathered(ItemsOf, s), ItemsOf[x]) \in Seq(Aloud)
      BY <1>2, BothIs
    <2> QED BY <2>1, <2>4, <2>5
  <1>5. T = Seq(own)
    <2>1. T \in SUBSET Seq(own)
      OBVIOUS
    <2> HIDE DEF T
    <2> QED BY <1>3, <1>4, <2>1, AllLists
  <1>6. PICK part \in Seq(own) : part = OfRole(Instructions, list) /\ part \in Seq(Messages)
    <2>1. Picked(list, WithRole(Instructions)) \in Seq(own)
      BY PickedType DEF own
    <2> QED BY <1>1, <2>1, RoleIs, RoleType
  <1>7. AllItems(part) \in Seq(Aloud) /\ AllItems(part) \in Seq(Items)
    BY <1>5, <1>6, AllItemsAre
  <1>8. PICK all \in Seq(Aloud) : all = AllItems(part) /\ all \in Seq(Items)
    BY <1>7
  <1>9. Picked(all, Aloud) = all
    <2>1. Aloud \subseteq Aloud
      OBVIOUS
    <2> QED BY <2>1, PickedAll
  <1>10. Shapes(all) = Form(all)
    BY <1>8, <1>9, MapsAre DEF Form
  <1>11. Form(AllItems(part)) = Gathered(Whole, part)
    BY <1>6, FormOfChat
  <1> QED BY <1>1, <1>6, <1>7, <1>8, <1>10, <1>11

LEMMA ToldApart ==
  ASSUME NEW list \in Seq(Plain), NEW sent \in Seq(WithRole(Talkers)),
         Shapes(AllItems(sent)) = Gathered(Whole, Conversation(list))
  PROVE  InFull(list, AllItems(OfRole(Instructions, list)), sent)
  <1>1. list \in Seq(Messages)
    BY PlainType
  <1>2. WithRole(Talkers) \subseteq Messages /\ WithRole(Talkers) \cap WithRole(Instructions) = {}
    BY DEF WithRole, Talkers, Instructions
  <1>3. sent \in Seq(Messages)
    BY <1>2, SeqMonotonic
  <1>4. OfRole(Instructions, sent) = <<>>
    BY <1>2, <1>3, RoleIs, PickedAll
  <1>5. Conversation(sent) = sent
    <2>1. Picked(sent, WithRole(Talkers)) = sent
      <3>1. WithRole(Talkers) \subseteq WithRole(Talkers)
        OBVIOUS
      <3> QED BY <3>1, PickedAll
    <2> QED BY <1>3, <2>1, RoleIs DEF Conversation, Talkers
  <1>6. Shapes(AllItems(OfRole(Instructions, sent))) = <<>>
    <2>1. PICK none \in Seq(Messages) : none = <<>>
      BY EmptySeq
    <2>2. AllItems(none) = <<>>
      BY <2>1, AllItemsAre, GatheredNone
    <2>3. PICK nothing \in Seq(Items) : nothing = <<>>
      BY EmptySeq
    <2>4. Shapes(nothing) = <<>>
      BY <2>3, MapsAre, MappedNone
    <2> QED BY <1>4, <2>1, <2>2, <2>3, <2>4
  <1>7. PICK system \in Seq(Items) : system = AllItems(OfRole(Instructions, list))
    BY <1>1, RoleType, AllItemsAre
  <1>8. Shapes(system) = Gathered(Whole, OfRole(Instructions, list))
    BY <1>7, PlainType
  <1>9. Shapes(system \o AllItems(InOrder(sent)))
          = Both(Shapes(system), Both(Shapes(AllItems(OfRole(Instructions, sent))),
                                      Shapes(AllItems(Conversation(sent)))))
    BY <1>3, ShapesOfOrder
  <1>10. PICK talk \in Seq(Forms) : talk = Gathered(Whole, Conversation(list))
    BY <1>1, WholeType DEF Conversation
  <1>11. Both(<<>>, talk) = talk
    BY BothIs
  <1>12. Shapes(system \o AllItems(InOrder(sent))) = Both(Gathered(Whole, OfRole(Instructions, list)), talk)
    BY <1>5, <1>6, <1>8, <1>9, <1>10, <1>11
  <1> QED BY <1>1, <1>7, <1>10, <1>12, FormOfOrder DEF InFull

(* What is sent to the chats of OpenAI.                                    *)
LEMMA ToldToOpenAI ==
  ASSUME NEW list \in Seq(Messages)
  PROVE  InFull(list, ToOpenAI(list).system, ToOpenAI(list).messages)
  <1>1. ToOpenAI(list).system = <<>> /\ ToOpenAI(list).messages = Mapped(SentOf, list)
    <2>1. \A i \in DOMAIN list : list[i] \in Messages
      BY LenProperties, ElementOfSeq
    <2>2. ASSUME NEW i \in DOMAIN list
          PROVE  [list[i] EXCEPT !.items = Sent(list[i].items)] = SentOf[list[i]]
      <3>1. Sent(list[i].items) = Picked(list[i].items, Aloud)
        BY <2>1, MessageIs, SentIs
      <3>2. [list[i] EXCEPT !.items = Sent(list[i].items)]
              = [role |-> list[i].role, items |-> Sent(list[i].items)]
        BY <2>1, MessageIs
      <3> QED BY <2>1, <3>1, <3>2 DEF SentOf
    <2> QED BY <2>2 DEF ToOpenAI, Mapped
  <1>2. PICK sent \in Seq(Messages) : sent = Mapped(SentOf, list)
    BY SentOfIs, MappedIs
  <1>3. ASSUME NEW roles
        PROVE  Shapes(AllItems(OfRole(roles, sent))) = Gathered(Whole, OfRole(roles, list))
    <2>1. OfRole(roles, sent) = Mapped(SentOf, OfRole(roles, list))
      BY <1>2, SentOfIs, RoleOfMapped
    <2>2. PICK part \in Seq(Messages) : part = OfRole(roles, list)
      BY RoleType
    <2>3. Messages \in SUBSET Messages
      OBVIOUS
    <2>4. Shapes(AllItems(Mapped(SentOf, part))) = Gathered(Whole, part)
      BY <2>3, SentOfIs, ToldOneForOne
    <2> QED BY <2>1, <2>2, <2>4
  <1> QED BY <1>1, <1>2, <1>3, ToldAlongside

-----------------------------------------------------------------------------
(* The items of the Responses API: each is a message of its own.           *)
One(role) == [item \in Items |-> [role |-> role, items |-> Added(<<>>, item)]]

StepsFrom == [message \in Messages |-> Mapped(One(message.role), Picked(message.items, Aloud))]

LEMMA OneIs ==
  ASSUME NEW role \in Instructions \cup Talkers
  PROVE  /\ One(role) \in FromTo(Items, Messages) /\ One(role) \in FromTo(Items, WithRole({role}))
         /\ \A item \in Items : /\ One(role)[item] = [role |-> role, items |-> <<item>>]
                                /\ ItemsOf[One(role)[item]] = Added(<<>>, item)
  <1> SUFFICES ASSUME NEW item \in Items
               PROVE  /\ One(role)[item] \in Messages /\ One(role)[item] \in WithRole({role})
                      /\ One(role)[item] = [role |-> role, items |-> <<item>>]
                      /\ ItemsOf[One(role)[item]] = Added(<<>>, item)
    BY DEF One, FromTo
  <1>1. Added(<<>>, item) \in Seq(Items) /\ Added(<<>>, item) = <<item>>
    <2>1. <<>> \in Seq(Items)
      BY EmptySeq
    <2>2. Added(<<>>, item) \in Seq(Items)
      BY <2>1, AddedIs
    <2>3. Added(<<>>, item) = <<item>>
      BY DEF Added
    <2> QED BY <2>2, <2>3
  <1>2. One(role)[item] = [role |-> role, items |-> Added(<<>>, item)]
    BY DEF One
  <1>3. One(role)[item] \in Messages
    BY <1>1, <1>2 DEF Messages
  <1>4. One(role)[item].role = role /\ One(role)[item].items = Added(<<>>, item)
    BY <1>2
  <1> QED BY <1>1, <1>2, <1>3, <1>4, FunctionsAre DEF WithRole

LEMMA StepsFromIs ==
  /\ StepsFrom \in FromTo(Messages, Seq(Messages))
  /\ \A message \in Messages :
       /\ StepsFrom[message] = Mapped(One(message.role), Picked(message.items, Aloud))
       /\ StepsFrom[message] \in Seq(WithRole({message.role}))
       /\ StepsFrom[message] = StepsOf(message)
  <1> SUFFICES ASSUME NEW message \in Messages
               PROVE  /\ StepsFrom[message] = Mapped(One(message.role), Picked(message.items, Aloud))
                      /\ StepsFrom[message] \in Seq(Messages)
                      /\ StepsFrom[message] \in Seq(WithRole({message.role}))
                      /\ StepsFrom[message] = StepsOf(message)
    BY DEF StepsFrom, FromTo
  <1>1. PICK list \in Seq(Items) : list = Picked(message.items, Aloud) /\ list = Sent(message.items)
    BY MessageIs, PickedType, SentIs
  <1>2. PICK role \in Instructions \cup Talkers : role = message.role
    BY MessageIs
  <1>3. StepsFrom[message] = Mapped(One(role), list)
    BY <1>1, <1>2 DEF StepsFrom
  <1>4. Mapped(One(role), list) \in Seq(Messages)
    BY OneIs, MappedIs
  <1>5. Mapped(One(role), list) \in Seq(WithRole({role}))
    BY OneIs, MappedIs
  <1>6. StepsOf(message) = Mapped(One(role), list)
    <2>1. \A j \in DOMAIN list : list[j] \in Items
      BY LenProperties, ElementOfSeq
    <2>2. \A j \in DOMAIN list : One(role)[list[j]] = [role |-> role, items |-> <<list[j]>>]
      BY <2>1, OneIs
    <2> QED BY <1>1, <1>2, <2>2 DEF StepsOf, Mapped
  <1> QED BY <1>1, <1>2, <1>3, <1>4, <1>5, <1>6

LEMMA StepsAre ==
  ASSUME NEW list \in Seq(Messages)
  PROVE  Steps(list) = Gathered(StepsFrom, list) /\ Steps(list) \in Seq(Messages)
  <1>1. \A i \in DOMAIN list : list[i] \in Messages
    BY LenProperties, ElementOfSeq
  <1>2. \A i \in DOMAIN list : StepsFrom[list[i]] = StepsOf(list[i])
    BY <1>1, StepsFromIs
  <1>3. Steps(list) = Gathered(StepsFrom, list)
    BY <1>2 DEF Steps, Gathered, Mapped
  <1> QED BY <1>3, StepsFromIs, GatheredType

(* Items are of the roles of their messages.                               *)
LEMMA RoleOfSteps ==
  ASSUME NEW list \in Seq(Messages), NEW roles
  PROVE  OfRole(roles, Steps(list)) = Steps(OfRole(roles, list))
  <1> DEFINE P == WithRole(roles)
             T == {s \in Seq(Messages) : Picked(Gathered(StepsFrom, s), P) = Gathered(StepsFrom, Picked(s, P))}
  <1> HIDE DEF P
  <1>1. <<>> \in T
    BY GatheredNone, PickedNone, EmptySeq
  <1>2. ASSUME NEW s \in T, NEW x \in Messages PROVE Added(s, x) \in T
    <2>1. Added(s, x) \in Seq(Messages)
      BY AddedIs
    <2>2. PICK steps \in Seq(Messages) : steps = StepsFrom[x]
      BY StepsFromIs, ValueIs
    <2>3. Gathered(StepsFrom, Added(s, x)) = Both(Gathered(StepsFrom, s), steps)
      BY <2>2, StepsFromIs, GatheredMore
    <2>4. PICK before \in Seq(Messages) : before = Gathered(StepsFrom, s)
      BY StepsFromIs, GatheredType
    <2>5. Picked(Both(before, steps), P) = Both(Picked(before, P), Picked(steps, P))
      BY PickedJoin
    <2>6. Picked(Added(s, x), P) = IF x \in P THEN Added(Picked(s, P), x) ELSE Picked(s, P)
      BY PickedMore
    <2>7. Picked(s, P) \in Seq(Messages) /\ Picked(before, P) \in Seq(Messages)
      BY PickedType
    <2>8. CASE x \in P
      <3>1. WithRole({x.role}) \subseteq P
        BY <2>8 DEF P, WithRole
      <3>2. Picked(steps, P) = steps
        <4>1. PICK own : own = WithRole({x.role}) /\ steps \in Seq(own)
          BY <2>2, StepsFromIs
        <4> QED BY <3>1, <4>1, PickedAll
      <3>3. Gathered(StepsFrom, Added(Picked(s, P), x)) = Both(Gathered(StepsFrom, Picked(s, P)), steps)
        BY <2>2, <2>7, StepsFromIs, GatheredMore
      <3> QED BY <2>1, <2>3, <2>4, <2>5, <2>6, <2>8, <3>2, <3>3
    <2>9. CASE x \notin P
      <3>1. WithRole({x.role}) \cap P = {}
        BY <2>9 DEF P, WithRole
      <3>2. PICK own : own = WithRole({x.role}) /\ steps \in Seq(own)
        BY <2>2, StepsFromIs
      <3>3. Picked(steps, P) = <<>>
        BY <3>1, <3>2, PickedAll
      <3>4. Both(Picked(before, P), <<>>) = Picked(before, P)
        BY <2>7, BothIs
      <3> QED BY <2>1, <2>3, <2>4, <2>5, <2>6, <2>9, <3>3, <3>4
    <2> QED BY <2>8, <2>9
  <1>3. T = Seq(Messages)
    <2>1. T \in SUBSET Seq(Messages)
      OBVIOUS
    <2> HIDE DEF T
    <2> QED BY <1>1, <1>2, <2>1, AllLists
  <1>4. Picked(Steps(list), P) = Steps(Picked(list, P))
    BY <1>3, StepsAre, PickedType
  <1> QED BY <1>4, StepsAre, RoleIs DEF P

(* A function of messages that leaves the shapes of their items.           *)
KeepsShapes(h) ==
    /\ h \in FromTo(Messages, Messages)
    /\ \A message \in Messages : Mapped(ShapeOf, ItemsOf[h[message]]) = Mapped(ShapeOf, ItemsOf[message])

LEMMA StepsOfOne ==
  ASSUME NEW h, KeepsShapes(h), NEW role \in Instructions \cup Talkers, NEW list \in Seq(Items)
  PROVE  Mapped(ShapeOf, Gathered(ItemsOf, Mapped(h, Mapped(One(role), list)))) = Mapped(ShapeOf, list)
  <1> DEFINE T == {s \in Seq(Items) : Mapped(ShapeOf, Gathered(ItemsOf, Mapped(h, Mapped(One(role), s))))
                                        = Mapped(ShapeOf, s)}
  <1>0. h \in FromTo(Messages, Messages)
    BY DEF KeepsShapes
  <1>1. <<>> \in T
    BY MappedNone, GatheredNone, EmptySeq
  <1>2. ASSUME NEW s \in T, NEW x \in Items PROVE Added(s, x) \in T
    <2>1. Added(s, x) \in Seq(Items)
      BY AddedIs
    <2>2. PICK one \in Messages : one = One(role)[x] /\ ItemsOf[one] = Added(<<>>, x)
      BY OneIs, ValueIs
    <2>3. PICK ones \in Seq(Messages) : ones = Mapped(One(role), s)
      BY OneIs, MappedIs
    <2>4. Mapped(One(role), Added(s, x)) = Added(ones, one)
      <3>1. PICK f \in FromTo(Items, Messages) : f = One(role)
        BY OneIs
      <3>2. Mapped(f, Added(s, x)) = Added(Mapped(f, s), f[x])
        BY MappedMore
      <3> QED BY <2>2, <2>3, <3>1, <3>2
    <2>5. Mapped(h, Added(ones, one)) = Added(Mapped(h, ones), h[one])
      BY <1>0, MappedMore
    <2>6. PICK sent \in Seq(Messages), y \in Messages : sent = Mapped(h, ones) /\ y = h[one]
      BY <1>0, MappedIs, ValueIs
    <2>7. Gathered(ItemsOf, Added(sent, y)) = Both(Gathered(ItemsOf, sent), ItemsOf[y])
      BY FunctionsAre, GatheredMore
    <2>8. PICK a \in Seq(Items), b \in Seq(Items) : a = Gathered(ItemsOf, sent) /\ b = ItemsOf[y]
      BY FunctionsAre, GatheredType, ValueIs
    <2>9. Mapped(ShapeOf, Both(a, b)) = Both(Mapped(ShapeOf, a), Mapped(ShapeOf, b))
      BY FunctionsAre, MappedBoth
    <2>10. Mapped(ShapeOf, b) = Mapped(ShapeOf, ItemsOf[one])
      BY <2>6, <2>8 DEF KeepsShapes
    <2>11. PICK none \in Seq(Items) : none = <<>>
      BY EmptySeq
    <2>12. Mapped(ShapeOf, Added(none, x)) = Added(Mapped(ShapeOf, none), ShapeOf[x])
      BY FunctionsAre, MappedMore
    <2>13. Mapped(ShapeOf, b) = Added(<<>>, ShapeOf[x])
      BY <2>2, <2>10, <2>11, <2>12, MappedNone
    <2>14. PICK shapes \in Seq(Forms), z \in Forms : shapes = Mapped(ShapeOf, s) /\ z = ShapeOf[x]
      BY FunctionsAre, MappedIs, ValueIs
    <2>15. Mapped(ShapeOf, a) = shapes
      BY <2>3, <2>6, <2>8, <2>14
    <2>16. Both(shapes, Added(<<>>, z)) = Added(shapes, z)
      <3>1. PICK empty \in Seq(Forms) : empty = <<>> /\ Both(shapes, <<>>) = shapes
        BY EmptySeq, BothIs
      <3>2. Both(shapes, Added(empty, z)) = Added(Both(shapes, empty), z)
        BY AddedJoin
      <3> QED BY <3>1, <3>2
    <2>17. Mapped(ShapeOf, Added(s, x)) = Added(shapes, z)
      BY <2>14, FunctionsAre, MappedMore
    <2>18. Mapped(ShapeOf, Gathered(ItemsOf, Mapped(h, Mapped(One(role), Added(s, x))))) = Added(shapes, z)
      BY <2>4, <2>5, <2>6, <2>7, <2>8, <2>9, <2>13, <2>14, <2>15, <2>16
    <2> QED BY <2>1, <2>17, <2>18
  <1>3. T = Seq(Items)
    <2>1. T \in SUBSET Seq(Items)
      OBVIOUS
    <2> HIDE DEF T
    <2> QED BY <1>1, <1>2, <2>1, AllLists
  <1> QED BY <1>3

LEMMA ToldInSteps ==
  ASSUME NEW h, KeepsShapes(h), NEW list \in Seq(Messages)
  PROVE  Shapes(AllItems(Mapped(h, Steps(list)))) = Gathered(Whole, list)
  <1> DEFINE G == [s \in Seq(Messages) |->
                     Mapped(ShapeOf, Gathered(ItemsOf, Mapped(h, Gathered(StepsFrom, s))))]
  <1>0. h \in FromTo(Messages, Messages)
    BY DEF KeepsShapes
  <1>1. G[<<>>] = <<>>
    BY MappedNone, GatheredNone, EmptySeq
  <1>2. ASSUME NEW s \in Seq(Messages), NEW x \in Messages
        PROVE  G[Added(s, x)] = Both(G[s], Whole[x])
    <2>1. Added(s, x) \in Seq(Messages)
      BY AddedIs
    <2>2. PICK before \in Seq(Messages), steps \in Seq(Messages) :
            before = Gathered(StepsFrom, s) /\ steps = StepsFrom[x]
      BY StepsFromIs, GatheredType, ValueIs
    <2>3. Gathered(StepsFrom, Added(s, x)) = Both(before, steps)
      BY <2>2, StepsFromIs, GatheredMore
    <2>4. Mapped(h, Both(before, steps)) = Both(Mapped(h, before), Mapped(h, steps))
      BY <1>0, MappedBoth
    <2>5. PICK a \in Seq(Messages), b \in Seq(Messages) : a = Mapped(h, before) /\ b = Mapped(h, steps)
      BY <1>0, MappedIs
    <2>6. Gathered(ItemsOf, Both(a, b)) = Both(Gathered(ItemsOf, a), Gathered(ItemsOf, b))
      BY FunctionsAre, GatheredBoth
    <2>7. PICK c \in Seq(Items), d \in Seq(Items) : c = Gathered(ItemsOf, a) /\ d = Gathered(ItemsOf, b)
      BY FunctionsAre, GatheredType
    <2>8. Mapped(ShapeOf, Both(c, d)) = Both(Mapped(ShapeOf, c), Mapped(ShapeOf, d))
      BY FunctionsAre, MappedBoth
    <2>9. Mapped(ShapeOf, d) = Whole[x]
      <3>1. PICK items \in Seq(Items) : items = Picked(x.items, Aloud)
        BY MessageIs, PickedType
      <3>2. PICK role \in Instructions \cup Talkers : role = x.role
        BY MessageIs
      <3>3. Mapped(ShapeOf, Gathered(ItemsOf, Mapped(h, Mapped(One(role), items)))) = Mapped(ShapeOf, items)
        BY StepsOfOne
      <3>4. steps = Mapped(One(role), items)
        BY <2>2, <3>1, <3>2, StepsFromIs
      <3>5. Whole[x] = Mapped(ShapeOf, items)
        BY <3>1, WholeIs DEF Form
      <3> QED BY <2>5, <2>7, <3>3, <3>4, <3>5
    <2>10. G[Added(s, x)] = Mapped(ShapeOf, Both(c, d))
      BY <2>1, <2>3, <2>4, <2>5, <2>6, <2>7
    <2>11. G[s] = Mapped(ShapeOf, c)
      BY <2>2, <2>5, <2>7
    <2> HIDE DEF G
    <2> QED BY <2>8, <2>9, <2>10, <2>11
  <1>3. G[list] = Mapped(ShapeOf, Gathered(ItemsOf, Mapped(h, Gathered(StepsFrom, list))))
    OBVIOUS
  <1> HIDE DEF G
  <1>4. G[list] = Gathered(Whole, list)
    <2>1. Messages \in SUBSET Messages
      OBVIOUS
    <2> QED BY <1>1, <1>2, <2>1, WholeIs, GatheredAlone
  <1>5. Mapped(h, Steps(list)) \in Seq(Messages)
    BY <1>0, StepsAre, MappedIs
  <1> QED BY <1>3, <1>4, <1>5, StepsAre, AllItemsAre, MapsAre

-----------------------------------------------------------------------------
(* What is sent to the Responses API of OpenAI.                            *)
Same == [message \in Messages |-> message]

(* The steps are sent as they are.                                          *)
LEMMA SameIs ==
  /\ KeepsShapes(Same)
  /\ \A list \in Seq(Messages) : Mapped(Same, list) = list
  <1>1. Same \in FromTo(Messages, Messages) /\ \A message \in Messages : Same[message] = message
    BY DEF Same, FromTo
  <1>2. ASSUME NEW list \in Seq(Messages) PROVE Mapped(Same, list) = list
    <2>1. Mapped(Same, list) \in Seq(Messages) /\ Len(Mapped(Same, list)) = Len(list)
      BY <1>1, MappedIs
    <2>2. \A i \in 1..Len(list) : Mapped(Same, list)[i] = list[i]
      BY <1>1, MappedIs, ElementOfSeq
    <2> QED BY <2>1, <2>2, SeqEqual
  <1> QED BY <1>1, <1>2 DEF KeepsShapes

LEMMA ToldToResponses ==
  ASSUME NEW list \in Seq(Messages)
  PROVE  InFull(list, <<>>, Steps(list))
  <1>1. PICK sent \in Seq(Messages) : sent = Steps(list)
    BY StepsAre
  <1>2. ASSUME NEW roles
        PROVE  Shapes(AllItems(OfRole(roles, sent))) = Gathered(Whole, OfRole(roles, list))
    <2>1. PICK part \in Seq(Messages) : part = OfRole(roles, list)
      BY RoleType
    <2>2. OfRole(roles, sent) = Steps(part)
      BY <1>1, <2>1, RoleOfSteps
    <2>3. Shapes(AllItems(Mapped(Same, Steps(part)))) = Gathered(Whole, part)
      BY SameIs, ToldInSteps
    <2>4. Mapped(Same, Steps(part)) = Steps(part)
      BY StepsAre, SameIs
    <2> QED BY <2>1, <2>2, <2>3, <2>4
  <1> QED BY <1>1, <1>2, ToldAlongside

-----------------------------------------------------------------------------
(* What is sent to the Interactions API of Google.                         *)
TextStep == [message \in Messages |-> [role |-> message.role, items |-> AsText(message.items)]]

LEMMA TextStepIs ==
  /\ KeepsShapes(TextStep)
  /\ \A message \in Messages : /\ TextStep[message].role = message.role
                               /\ TextStep[message] = [message EXCEPT !.items = AsText(@)]
  <1>1. ASSUME NEW message \in Messages
        PROVE  /\ TextStep[message] \in Messages
               /\ TextStep[message].role = message.role
               /\ TextStep[message] = [message EXCEPT !.items = AsText(@)]
               /\ Mapped(ShapeOf, ItemsOf[TextStep[message]]) = Mapped(ShapeOf, ItemsOf[message])
    <2>1. PICK items \in Seq(Items) : items = message.items
      BY MessageIs
    <2>2. TextStep[message] = [role |-> message.role, items |-> AsText(items)]
      BY <2>1 DEF TextStep
    <2>3. AsText(items) \in Seq(Items) /\ Len(AsText(items)) = Len(items)
      BY FunctionsAre, MapsAre, MappedIs
    <2>4. \A i \in 1..Len(items) : AsText(items)[i] = TextOf[items[i]]
      BY FunctionsAre, MapsAre, MappedIs
    <2>5. TextStep[message] \in Messages
      BY <2>2, <2>3, MessageIs DEF Messages
    <2>6. TextStep[message] = [message EXCEPT !.items = AsText(@)]
      BY <2>1, <2>2, MessageIs
    <2>7. Mapped(ShapeOf, AsText(items)) = Mapped(ShapeOf, items)
      <3>1. PICK texts \in Seq(Items) : texts = AsText(items) /\ Len(texts) = Len(items)
        BY <2>3
      <3>2. Mapped(ShapeOf, texts) \in Seq(Forms) /\ Mapped(ShapeOf, items) \in Seq(Forms)
        BY FunctionsAre, MappedIs
      <3>3. Len(Mapped(ShapeOf, texts)) = Len(texts) /\ Len(Mapped(ShapeOf, items)) = Len(items)
        BY FunctionsAre, MappedIs
      <3>4. ASSUME NEW i \in 1..Len(items)
            PROVE  Mapped(ShapeOf, texts)[i] = Mapped(ShapeOf, items)[i]
        <4>1. Mapped(ShapeOf, texts)[i] = ShapeOf[texts[i]]
          BY <3>1, FunctionsAre, MappedIs
        <4>2. Mapped(ShapeOf, items)[i] = ShapeOf[items[i]]
          BY FunctionsAre, MappedIs
        <4>3. items[i] \in Items
          BY ElementOfSeq
        <4> QED BY <2>4, <3>1, <4>1, <4>2, <4>3, FunctionsAre
      <3> QED BY <3>1, <3>2, <3>3, <3>4, SeqEqual
    <2>8. ItemsOf[message] = items /\ ItemsOf[TextStep[message]] = AsText(items)
      BY <2>1, <2>2, <2>5, FunctionsAre
    <2> QED BY <2>2, <2>5, <2>6, <2>7, <2>8
  <1>2. TextStep \in FromTo(Messages, Messages)
    BY <1>1 DEF TextStep, FromTo
  <1> QED BY <1>1, <1>2 DEF KeepsShapes

LEMMA ToldToInteractions ==
  ASSUME NEW list \in Seq(Plain)
  PROVE  InFull(list, ToInteractions(list).system, ToInteractions(list).messages)
  <1>1. list \in Seq(Messages)
    BY PlainType
  <1>2. PICK talk \in Seq(Messages) : talk = Conversation(list) /\ talk \in Seq(WithRole(Talkers))
    BY <1>1, RoleType DEF Conversation, Talkers
  <1>3. PICK steps \in Seq(Messages) : steps = Steps(talk)
    BY StepsAre
  <1>4. OfRole(Talkers, steps) = steps
    <2>1. OfRole(Talkers, steps) = Steps(OfRole(Talkers, talk))
      BY <1>3, RoleOfSteps
    <2>2. Picked(talk, WithRole(Talkers)) = talk
      <3>1. WithRole(Talkers) \subseteq WithRole(Talkers)
        OBVIOUS
      <3> QED BY <1>2, <3>1, PickedAll
    <2> QED BY <1>3, <2>1, <2>2, RoleIs
  <1>5. PICK sent \in Seq(Messages) : sent = Mapped(TextStep, steps)
    BY TextStepIs, MappedIs DEF KeepsShapes
  <1>6. OfRole(Talkers, sent) = sent
    <2>1. PICK h \in FromTo(Messages, Messages) : h = TextStep
      BY TextStepIs DEF KeepsShapes
    <2>2. \A message \in Messages : h[message].role = message.role
      BY <2>1, TextStepIs
    <2>3. OfRole(Talkers, Mapped(h, steps)) = Mapped(h, OfRole(Talkers, steps))
      BY <2>2, RoleOfMapped
    <2> QED BY <1>4, <1>5, <2>1, <2>3
  <1>7. sent \in Seq(WithRole(Talkers))
    BY <1>6, RoleType
  <1>8. Shapes(AllItems(sent)) = Gathered(Whole, talk)
    BY <1>3, <1>5, TextStepIs, ToldInSteps
  <1>9. ToInteractions(list).system = AllItems(OfRole(Instructions, list)) /\ ToInteractions(list).messages = sent
    <2>1. \A i \in DOMAIN steps : steps[i] \in Messages
      BY LenProperties, ElementOfSeq
    <2>2. \A i \in DOMAIN steps : [steps[i] EXCEPT !.items = AsText(steps[i].items)] = TextStep[steps[i]]
      BY <2>1, TextStepIs
    <2> QED BY <1>2, <1>3, <1>5, <2>2 DEF ToInteractions, Mapped
  <1> QED BY <1>2, <1>7, <1>8, <1>9, ToldApart

-----------------------------------------------------------------------------
(* What is somewhere in the items of a chat.                               *)
Within(list, item) == \E i \in 1..Len(list) : Contains(list[i].items, item)

LEMMA ContainsMore ==
  ASSUME NEW S, NEW list \in Seq(S), NEW x \in S
  PROVE  \A y : Contains(Added(list, x), y) <=> Contains(list, y) \/ y = x
  <1>1. PICK all : all = Added(list, x)
    OBVIOUS
  <1>2. /\ Len(all) = Len(list) + 1 /\ Len(list) \in Nat
        /\ \A i \in 1..Len(list) : all[i] = list[i]
        /\ all[Len(list) + 1] = x
    <2>1. Len(Added(list, x)) = Len(list) + 1 /\ Len(list) \in Nat
      BY AddedIs
    <2>2. \A i \in 1..Len(list) : Added(list, x)[i] = list[i]
      BY AddedIs
    <2>3. Added(list, x)[Len(list) + 1] = x
      BY AddedIs
    <2> QED BY <1>1, <2>1, <2>2, <2>3
  <1>3. ASSUME NEW y, Contains(all, y) PROVE Contains(list, y) \/ y = x
    BY <1>2, <1>3 DEF Contains
  <1>4. ASSUME NEW y, Contains(list, y) \/ y = x PROVE Contains(all, y)
    BY <1>2, <1>4 DEF Contains
  <1> QED BY <1>1, <1>3, <1>4

LEMMA ContainsNone == \A y : ~Contains(<<>>, y)
  BY EmptySeq DEF Contains

LEMMA ContainsBoth ==
  ASSUME NEW S, NEW list \in Seq(S), NEW other \in Seq(S)
  PROVE  \A y : Contains(Both(list, other), y) <=> Contains(list, y) \/ Contains(other, y)
  <1> DEFINE T == {s \in Seq(S) : \A y : Contains(Both(list, s), y) <=> Contains(list, y) \/ Contains(s, y)}
  <1>1. <<>> \in T
    <2>1. Both(list, <<>>) = list /\ <<>> \in Seq(S)
      BY EmptySeq, BothIs
    <2> QED BY <2>1, ContainsNone
  <1>2. ASSUME NEW s \in T, NEW x \in S PROVE Added(s, x) \in T
    <2>1. Added(s, x) \in Seq(S) /\ Both(list, s) \in Seq(S)
      BY AddedIs, BothIs
    <2>2. Both(list, Added(s, x)) = Added(Both(list, s), x)
      BY AddedJoin
    <2>3. \A y : Contains(Added(s, x), y) <=> Contains(s, y) \/ y = x
      BY ContainsMore
    <2>4. \A y : Contains(Added(Both(list, s), x), y) <=> Contains(Both(list, s), y) \/ y = x
      BY <2>1, ContainsMore
    <2> QED BY <2>1, <2>2, <2>3, <2>4
  <1>3. T = Seq(S)
    <2>1. T \in SUBSET Seq(S)
      OBVIOUS
    <2> HIDE DEF T
    <2> QED BY <1>1, <1>2, <2>1, AllLists
  <1> QED BY <1>3

(* What a list has is what it is a list of.                                *)
LEMMA ContainsType ==
  ASSUME NEW S, NEW list \in Seq(S)
  PROVE  /\ \A x : Contains(list, x) => x \in S
         /\ \A i \in 1..Len(list) : Contains(list, list[i])
         /\ list \in Seq({x \in S : Contains(list, x)})
         /\ ToSet(list) = {x \in S : Contains(list, x)}
  <1> DEFINE k == Len(list)
             H == {x \in S : Contains(list, x)}
  <1>1. k \in Nat /\ DOMAIN list = 1..k /\ \A i \in 1..k : list[i] \in S
    BY LenProperties, ElementOfSeq
  <1>2. list \in [1..k -> S]
    BY LenProperties
  <1>3. \A i \in 1..k : Contains(list, list[i])
    BY DEF Contains
  <1>4. \A x : Contains(list, x) => \E i \in 1..k : list[i] = x
    BY DEF Contains
  <1> HIDE DEF k
  <1>5. list \in [1..k -> H]
    BY <1>1, <1>2, <1>3
  <1> HIDE DEF H
  <1>6. list \in Seq(H)
    BY <1>1, <1>5
  <1>7. ToSet(list) = H
    BY <1>1, <1>3, <1>4 DEF ToSet, H
  <1> QED BY <1>1, <1>3, <1>4, <1>6, <1>7 DEF k, H

LEMMA PickedFrom ==
  ASSUME NEW S, NEW list \in Seq(S), NEW P, NEW x, Contains(Picked(list, P), x)
  PROVE  x \in P /\ Contains(list, x)
  <1>1. PICK H : H = {y \in S : Contains(list, y)}
    OBVIOUS
  <1>2. list \in Seq(H)
    BY <1>1, ContainsType
  <1>3. PICK part \in Seq(H \cap P) : part = Picked(list, P)
    BY <1>2, PickedType
  <1>4. x \in H \cap P
    BY <1>3, ContainsType
  <1> QED BY <1>1, <1>4

LEMMA WithinMore ==
  ASSUME NEW list \in Seq(Messages), NEW x \in Messages
  PROVE  \A item : Within(Added(list, x), item) <=> Within(list, item) \/ Contains(x.items, item)
  <1>1. PICK all : all = Added(list, x)
    OBVIOUS
  <1>2. /\ Len(all) = Len(list) + 1 /\ Len(list) \in Nat
        /\ \A i \in 1..Len(list) : all[i] = list[i]
        /\ all[Len(list) + 1] = x
    <2>1. Len(Added(list, x)) = Len(list) + 1 /\ Len(list) \in Nat
      BY AddedIs
    <2>2. \A i \in 1..Len(list) : Added(list, x)[i] = list[i]
      BY AddedIs
    <2>3. Added(list, x)[Len(list) + 1] = x
      BY AddedIs
    <2> QED BY <1>1, <2>1, <2>2, <2>3
  <1>3. ASSUME NEW item, Within(all, item) PROVE Within(list, item) \/ Contains(x.items, item)
    <2>1. PICK i \in 1..Len(list) + 1 : Contains(all[i].items, item)
      BY <1>2, <1>3 DEF Within
    <2>2. i \in 1..Len(list) \/ i = Len(list) + 1
      BY <1>2
    <2> QED BY <1>2, <2>1, <2>2 DEF Within
  <1>4. ASSUME NEW item, Within(list, item) PROVE Within(all, item)
    <2>1. PICK i \in 1..Len(list) : Contains(list[i].items, item)
      BY <1>4 DEF Within
    <2>2. i \in 1..Len(list) + 1 /\ all[i] = list[i]
      BY <1>2
    <2> QED BY <1>2, <2>1, <2>2 DEF Within
  <1>5. ASSUME NEW item, Contains(x.items, item) PROVE Within(all, item)
    <2>1. Len(list) + 1 \in 1..Len(all)
      BY <1>2
    <2> QED BY <1>2, <1>5, <2>1 DEF Within
  <1> QED BY <1>1, <1>3, <1>4, <1>5

LEMMA AllItemsHave ==
  ASSUME NEW list \in Seq(Messages)
  PROVE  \A item : Contains(AllItems(list), item) <=> Within(list, item)
  <1> DEFINE T == {s \in Seq(Messages) : \A item : Contains(Gathered(ItemsOf, s), item) <=> Within(s, item)}
  <1>1. <<>> \in T
    <2>1. \A item : ~Within(<<>>, item)
      BY EmptySeq DEF Within
    <2> QED BY <2>1, GatheredNone, ContainsNone, EmptySeq
  <1>2. ASSUME NEW s \in T, NEW x \in Messages PROVE Added(s, x) \in T
    <2>1. Added(s, x) \in Seq(Messages)
      BY AddedIs
    <2>2. Gathered(ItemsOf, Added(s, x)) = Both(Gathered(ItemsOf, s), ItemsOf[x])
      BY FunctionsAre, GatheredMore
    <2>3. Gathered(ItemsOf, s) \in Seq(Items) /\ ItemsOf[x] \in Seq(Items) /\ ItemsOf[x] = x.items
      BY FunctionsAre, GatheredType, MessageIs
    <2>4. \A item : Contains(Both(Gathered(ItemsOf, s), ItemsOf[x]), item)
                      <=> Contains(Gathered(ItemsOf, s), item) \/ Contains(ItemsOf[x], item)
      BY <2>3, ContainsBoth
    <2>5. \A item : Within(Added(s, x), item) <=> Within(s, item) \/ Contains(x.items, item)
      BY WithinMore
    <2> QED BY <2>1, <2>2, <2>3, <2>4, <2>5
  <1>3. T = Seq(Messages)
    <2>1. T \in SUBSET Seq(Messages)
      OBVIOUS
    <2> HIDE DEF T
    <2> QED BY <1>1, <1>2, <2>1, AllLists
  <1> QED BY <1>3, AllItemsAre

(* The name for a result is that of a call in the chat.                     *)
LEMMA CallIsThere ==
  ASSUME NEW list \in Seq(Messages), NEW id, CallsOf(list, id) # <<>>
  PROVE  \E call \in Items : /\ Within(list, call) /\ call.kind = "call" /\ call.id = id
                             /\ NameOf(list, id) = call.name
  <1> DEFINE P == {item \in Items : item.kind = "call" /\ item.id = id}
  <1>1. PICK items \in Seq(Items) : items = AllItems(list)
    BY AllItemsAre
  <1>2. \A i \in DOMAIN items : items[i] \in Items
    BY LenProperties, ElementOfSeq
  <1>3. {i \in DOMAIN items : items[i].kind = "call" /\ items[i].id = id} = {i \in DOMAIN items : items[i] \in P}
    BY <1>2
  <1>4. CallsOf(list, id) = Picked(items, P)
    BY <1>1, <1>3 DEF CallsOf, Picked
  <1> HIDE DEF P
  <1>5. PICK calls \in Seq(Items) : calls = Picked(items, P)
    BY PickedType
  <1>6. Len(calls) \in 1..Len(calls)
    BY <1>4, <1>5, EmptySeq, LenProperties
  <1>7. PICK call : call = calls[Len(calls)]
    OBVIOUS
  <1>8. Contains(calls, call)
    BY <1>6, <1>7 DEF Contains
  <1>9. call \in P /\ Contains(items, call)
    BY <1>5, <1>8, PickedFrom
  <1>10. NameOf(list, id) = call.name
    BY <1>4, <1>5, <1>7 DEF NameOf, Last
  <1> QED BY <1>1, <1>9, <1>10, AllItemsHave DEF P

-----------------------------------------------------------------------------
(* What is sent to the chats of Google, of items whose results have the     *)
(* names of their calls.                                                   *)
Named(list) == {item \in Items : item.kind = "result" => NameOf(list, item.id) = item.name}

Answers(list) == {message \in Messages : message.items \in Seq(Named(list))}

Bare(list) == [item \in Named(list) |-> Nameless(list, TextOf[item])]

BareOf(list) ==
    [message \in Answers(list) |->
        [role |-> Side(message.role), items |-> Mapped(Bare(list), Picked(message.items, Aloud))]]

LEMMA BareIs ==
  ASSUME NEW list
  PROVE  /\ Bare(list) \in FromTo(Named(list), Items)
         /\ \A item \in Named(list) : /\ Bare(list)[item] = Nameless(list, TextOf[item])
                                      /\ ShapeOf[Bare(list)[item]] = ShapeOf[item]
  <1> SUFFICES ASSUME NEW item \in Named(list)
               PROVE  /\ Nameless(list, TextOf[item]) \in Items
                      /\ ShapeOf[Nameless(list, TextOf[item])] = ShapeOf[item]
    BY DEF Bare, FromTo
  <1>1. item \in Items /\ (item.kind = "result" => NameOf(list, item.id) = item.name)
    BY DEF Named
  <1>2. PICK text \in Items : text = TextOf[item]
    BY <1>1, FunctionsAre, ValueIs
  <1>3. text.kind = (IF item.kind = "refusal" THEN "text" ELSE item.kind)
        /\ text.id = item.id /\ text.name = item.name
    BY <1>1, <1>2, ItemIs DEF TextOf
  <1>4. NoId \in ItemIds
    BY DEF ItemIds
  <1>5. CASE text.kind = "call"
    <2>1. Nameless(list, text) = [kind |-> "call", id |-> NoId, name |-> text.name]
      BY <1>5, ItemIs DEF Nameless
    <2>2. Nameless(list, text) \in Items
      BY <1>4, <1>5, <2>1, ItemIs DEF Items
    <2>3. Shape(Nameless(list, text)) = Shape(text)
      BY <1>5, <2>1 DEF Shape
    <2> QED BY <1>1, <1>2, <2>2, <2>3, FunctionsAre
  <1>6. CASE text.kind = "result"
    <2>1. item.kind = "result"
      BY <1>3, <1>6
    <2>2. Nameless(list, text) = [kind |-> "result", id |-> NoId, name |-> item.name]
      BY <1>1, <1>3, <1>6, <2>1 DEF Nameless, Item
    <2>3. Nameless(list, text) \in Items
      BY <1>1, <1>4, <2>2, ItemIs DEF Items, Kinds
    <2>4. Shape(Nameless(list, text)) = Shape(text)
      BY <1>3, <1>6, <2>2 DEF Shape
    <2> QED BY <1>1, <1>2, <2>3, <2>4, FunctionsAre
  <1>7. CASE text.kind # "call" /\ text.kind # "result"
    <2>1. Nameless(list, text) = text
      BY <1>7 DEF Nameless
    <2> QED BY <1>1, <1>2, <2>1, FunctionsAre
  <1> QED BY <1>2, <1>5, <1>6, <1>7

LEMMA SideIs ==
  ASSUME NEW role
  PROVE  Side(role) \in Talkers /\ Side(role) \in Instructions \cup Talkers
  BY DEF Side, Talkers

LEMMA BareOfIs ==
  ASSUME NEW list
  PROVE  /\ BareOf(list) \in FromTo(Answers(list), Messages)
         /\ BareOf(list) \in FromTo(Answers(list), WithRole(Talkers))
         /\ \A message \in Answers(list) : Mapped(ShapeOf, ItemsOf[BareOf(list)[message]]) = Whole[message]
  <1> DEFINE f == Bare(list)
             S == Named(list)
  <1>1. f \in FromTo(S, Items) /\ \A item \in S : ShapeOf[f[item]] = ShapeOf[item]
    BY BareIs
  <1>2. S \subseteq Items
    BY DEF Named
  <1> HIDE DEF f, S
  <1> SUFFICES ASSUME NEW message \in Answers(list)
               PROVE  /\ BareOf(list)[message] \in WithRole(Talkers)
                      /\ Mapped(ShapeOf, ItemsOf[BareOf(list)[message]]) = Whole[message]
    BY DEF BareOf, FromTo, WithRole
  <1>3. message \in Messages /\ message.items \in Seq(S)
    BY DEF Answers, S
  <1>4. PICK told \in Seq(S) : told = Picked(message.items, Aloud) /\ told \in Seq(Items)
    <2>1. Picked(message.items, Aloud) \in Seq(S)
      BY <1>3, PickedType
    <2> QED BY <1>2, <2>1, SeqMonotonic
  <1>5. PICK bare \in Seq(Items) : bare = Mapped(f, told) /\ Len(bare) = Len(told)
    BY <1>1, MappedIs
  <1>6. \A i \in 1..Len(told) : bare[i] = f[told[i]] /\ told[i] \in S
    BY <1>1, <1>5, MappedIs, ElementOfSeq
  <1>7. Mapped(ShapeOf, bare) = Mapped(ShapeOf, told)
    <2>1. Mapped(ShapeOf, bare) \in Seq(Forms) /\ Len(Mapped(ShapeOf, bare)) = Len(bare)
      BY FunctionsAre, MappedIs
    <2>2. Mapped(ShapeOf, told) \in Seq(Forms) /\ Len(Mapped(ShapeOf, told)) = Len(told)
      BY <1>4, FunctionsAre, MappedIs
    <2>3. \A i \in 1..Len(bare) : Mapped(ShapeOf, bare)[i] = ShapeOf[bare[i]]
      BY FunctionsAre, MappedIs
    <2>4. \A i \in 1..Len(told) : Mapped(ShapeOf, told)[i] = ShapeOf[told[i]]
      BY <1>4, FunctionsAre, MappedIs
    <2>5. \A i \in 1..Len(told) : ShapeOf[bare[i]] = ShapeOf[told[i]]
      BY <1>1, <1>6
    <2> QED BY <1>5, <2>1, <2>2, <2>3, <2>4, <2>5, SeqEqual
  <1>8. BareOf(list)[message] = [role |-> Side(message.role), items |-> bare]
    BY <1>4, <1>5 DEF BareOf, f
  <1>9. BareOf(list)[message] \in Messages /\ BareOf(list)[message] \in WithRole(Talkers)
    BY <1>8, SideIs DEF Messages, WithRole
  <1>10. ItemsOf[BareOf(list)[message]] = bare
    BY <1>8, <1>9, FunctionsAre
  <1>11. Whole[message] = Mapped(ShapeOf, told)
    BY <1>3, <1>4, WholeIs DEF Form
  <1> QED BY <1>7, <1>9, <1>10, <1>11

(* What is sent to the chats of Google tells the chat in full.              *)
LEMMA ToldToGoogle ==
  ASSUME NEW list \in Seq(Plain), Conversation(list) \in Seq(Answers(list))
  PROVE  InFull(list, ToGoogle(list).system, ToGoogle(list).messages)
  <1>1. list \in Seq(Messages)
    BY PlainType
  <1>2. PICK talk \in Seq(Answers(list)) : talk = Conversation(list)
    OBVIOUS
  <1>3. PICK h : h = BareOf(list) /\ h \in FromTo(Answers(list), Messages)
                 /\ h \in FromTo(Answers(list), WithRole(Talkers))
    BY BareOfIs
  <1>4. PICK sent \in Seq(WithRole(Talkers)) : sent = Mapped(h, talk)
    BY <1>3, MappedIs
  <1>5. ToGoogle(list).system = AllItems(OfRole(Instructions, list)) /\ ToGoogle(list).messages = sent
    <2>1. \A i \in DOMAIN talk : talk[i] \in Answers(list)
      BY LenProperties, ElementOfSeq
    <2>2. ASSUME NEW message \in Answers(list)
          PROVE  [Translated(message) EXCEPT !.items =
                     [j \in DOMAIN Translated(message).items |-> Nameless(list, Translated(message).items[j])]]
                   = BareOf(list)[message]
      <3>1. message \in Messages /\ message.items \in Seq(Named(list)) /\ message.items \in Seq(Items)
        BY MessageIs DEF Answers
      <3>2. PICK told \in Seq(Named(list)) : told = Picked(message.items, Aloud) /\ told \in Seq(Items)
        BY <3>1, PickedType
      <3>3. PICK texts : texts = Mapped(TextOf, told)
        OBVIOUS
      <3>4. Translated(message) = [role |-> Side(message.role), items |-> texts]
        BY <3>1, <3>2, <3>3, SentIs, MapsAre DEF Translated
      <3>5. DOMAIN texts = DOMAIN told /\ \A j \in DOMAIN told : texts[j] = TextOf[told[j]] /\ told[j] \in Named(list)
        <4>1. \A j \in DOMAIN told : told[j] \in Named(list)
          BY LenProperties, ElementOfSeq
        <4> QED BY <3>3, <4>1 DEF Mapped
      <3>6. [j \in DOMAIN texts |-> Nameless(list, texts[j])] = Mapped(Bare(list), told)
        <4>1. \A j \in DOMAIN told : Nameless(list, texts[j]) = Bare(list)[told[j]]
          BY <3>5, BareIs
        <4> QED BY <3>5, <4>1 DEF Mapped
      <3> QED BY <3>2, <3>4, <3>6 DEF BareOf
    <2>3. ToGoogle(list).messages =
            [i \in DOMAIN talk |->
               [Translated(talk[i]) EXCEPT !.items =
                  [j \in DOMAIN Translated(talk[i]).items |-> Nameless(list, Translated(talk[i]).items[j])]]]
      BY <1>2 DEF ToGoogle
    <2>4. ToGoogle(list).messages = [i \in DOMAIN talk |-> BareOf(list)[talk[i]]]
      BY <2>1, <2>2, <2>3
    <2> QED BY <1>3, <1>4, <2>4 DEF ToGoogle, Mapped
  <1>6. Shapes(AllItems(sent)) = Gathered(Whole, talk)
    <2>1. Answers(list) \in SUBSET Messages
      BY DEF Answers
    <2>2. \A message \in Answers(list) : Mapped(ShapeOf, ItemsOf[h[message]]) = Whole[message]
      BY <1>3, BareOfIs
    <2> QED BY <1>3, <1>4, <2>1, <2>2, ToldOneForOne
  <1> QED BY <1>2, <1>5, <1>6, ToldApart

-----------------------------------------------------------------------------
(* What is sent to Anthropic: messages one by one, each behind those before *)
(* or into the last of them.                                               *)
Sides == WithRole({"user", "assistant"})

TranslationOf == [message \in Messages |-> Translated(message)]

LEMMA TranslationIs ==
  /\ TranslationOf \in FromTo(Messages, Messages) /\ TranslationOf \in FromTo(Messages, Sides)
  /\ \A message \in Messages :
       /\ TranslationOf[message] = Translated(message)
       /\ Translated(message).role = Side(message.role)
       /\ Translated(message).items = Mapped(TextOf, Picked(message.items, Aloud))
       /\ Mapped(ShapeOf, ItemsOf[TranslationOf[message]]) = Whole[message]
  <1> SUFFICES ASSUME NEW message \in Messages
               PROVE  /\ Translated(message) \in Messages /\ Translated(message) \in Sides
                      /\ Translated(message).role = Side(message.role)
                      /\ Translated(message).items = Mapped(TextOf, Picked(message.items, Aloud))
                      /\ Mapped(ShapeOf, ItemsOf[Translated(message)]) = Whole[message]
    BY DEF TranslationOf, FromTo
  <1>1. PICK told \in Seq(Items) : told = Picked(message.items, Aloud)
    BY MessageIs, PickedType
  <1>2. PICK texts \in Seq(Items) : texts = Mapped(TextOf, told) /\ Len(texts) = Len(told)
    BY FunctionsAre, MappedIs
  <1>3. Translated(message) = [role |-> Side(message.role), items |-> texts]
    BY <1>1, <1>2, MessageIs, SentIs, MapsAre DEF Translated
  <1>4. Side(message.role) \in {"user", "assistant"} /\ {"user", "assistant"} \subseteq Instructions \cup Talkers
    BY DEF Side, Talkers
  <1>5. Translated(message) \in Messages /\ Translated(message) \in Sides
    BY <1>3, <1>4 DEF Messages, Sides, WithRole
  <1>6. Mapped(ShapeOf, texts) = Mapped(ShapeOf, told)
    <2>1. Mapped(ShapeOf, texts) \in Seq(Forms) /\ Len(Mapped(ShapeOf, texts)) = Len(texts)
      BY FunctionsAre, MappedIs
    <2>2. Mapped(ShapeOf, told) \in Seq(Forms) /\ Len(Mapped(ShapeOf, told)) = Len(told)
      BY FunctionsAre, MappedIs
    <2>3. \A i \in 1..Len(texts) : Mapped(ShapeOf, texts)[i] = ShapeOf[texts[i]]
      BY FunctionsAre, MappedIs
    <2>4. \A i \in 1..Len(told) : Mapped(ShapeOf, told)[i] = ShapeOf[told[i]]
      BY FunctionsAre, MappedIs
    <2>5. \A i \in 1..Len(told) : texts[i] = TextOf[told[i]] /\ told[i] \in Items
      BY <1>2, FunctionsAre, MappedIs, ElementOfSeq
    <2>6. \A i \in 1..Len(told) : ShapeOf[texts[i]] = ShapeOf[told[i]]
      BY <2>5, FunctionsAre
    <2> QED BY <1>2, <2>1, <2>2, <2>3, <2>4, <2>6, SeqEqual
  <1>7. ItemsOf[Translated(message)] = texts
    BY <1>3, <1>5, FunctionsAre
  <1>8. Whole[message] = Mapped(ShapeOf, told)
    BY <1>1, WholeIs DEF Form
  <1> QED BY <1>1, <1>2, <1>3, <1>5, <1>6, <1>7, <1>8

LEMMA FrontIs ==
  ASSUME NEW S, NEW list \in Seq(S), NEW x \in S
  PROVE  Front(Added(list, x)) = list /\ Last(Added(list, x)) = x /\ Added(list, x) # <<>>
  <1>1. PICK all : all = Added(list, x)
    OBVIOUS
  <1>2. /\ Len(all) = Len(list) + 1 /\ Len(list) \in Nat
        /\ \A i \in 1..Len(list) : all[i] = list[i]
        /\ all[Len(list) + 1] = x
    <2>1. Len(Added(list, x)) = Len(list) + 1 /\ Len(list) \in Nat
      BY AddedIs
    <2>2. \A i \in 1..Len(list) : Added(list, x)[i] = list[i]
      BY AddedIs
    <2>3. Added(list, x)[Len(list) + 1] = x
      BY AddedIs
    <2> QED BY <1>1, <2>1, <2>2, <2>3
  <1>3. Front(all) = [i \in 1..Len(list) |-> list[i]]
    <2>1. Front(all) = [i \in 1..Len(list) |-> all[i]]
      BY <1>2 DEF Front
    <2> QED BY <1>2, <2>1
  <1>4. [i \in 1..Len(list) |-> list[i]] = list
    <2>1. DOMAIN list = 1..Len(list) /\ list \in [1..Len(list) -> S]
      BY LenProperties
    <2> QED BY <2>1
  <1>5. Last(all) = x
    BY <1>2 DEF Last
  <1>6. all # <<>>
    BY <1>2, EmptySeq
  <1> QED BY <1>1, <1>3, <1>4, <1>5, <1>6

Longer(message, items) == [role |-> message.role, items |-> Both(message.items, items)]

LEMMA MergeIs ==
  ASSUME NEW list \in Seq(Sides), NEW last \in Sides, NEW x \in Sides
  PROVE  /\ Merge(<<>>, x) = Added(<<>>, x)
         /\ last.role # x.role => Merge(Added(list, last), x) = Added(Added(list, last), x)
         /\ last.role = x.role => Merge(Added(list, last), x) = Added(list, Longer(last, x.items))
         /\ Longer(last, x.items) \in Sides
  <1>1. Front(Added(list, last)) = list /\ Last(Added(list, last)) = last /\ Added(list, last) # <<>>
    BY FrontIs
  <1>2. [last EXCEPT !.items = last.items \o x.items] = Longer(last, x.items)
    <2>1. last \in Messages
      BY DEF Sides, WithRole
    <2>2. last = [role |-> last.role, items |-> last.items]
      BY <2>1, MessageIs
    <2>3. PICK role, own, items : role = last.role /\ own = last.items /\ items = own \o x.items
      OBVIOUS
    <2>4. last = [role |-> role, items |-> own]
      BY <2>2, <2>3
    <2>5. [last EXCEPT !.items = items] = [role |-> role, items |-> items]
      BY <2>4
    <2> QED BY <2>3, <2>5 DEF Longer, Both
  <1>3. Both(last.items, x.items) \in Seq(Items)
    BY MessageIs, BothIs DEF Sides, WithRole
  <1>4. Longer(last, x.items) \in Sides
    BY <1>3 DEF Sides, WithRole, Longer, Messages
  <1> QED BY <1>1, <1>2, <1>4 DEF Merge, Added

(* The recursion of Merged.                                                *)
Merging(g, list, n) ==
    g = [k \in 0..n |-> IF k = 0 THEN <<>> ELSE Merge(g[k - 1], Translated(list[k]))]

(* It has a value for every list,                                           *)
LEMMA MergingExists ==
  ASSUME NEW list, NEW n \in Nat
  PROVE  \E g : Merging(g, list, n)
  <1> DEFINE T == {k \in Nat : \E g : Merging(g, list, k)}
  <1>1. 0 \in T
    <2> DEFINE g == [k \in 0..0 |-> <<>>]
    <2>1. g = [k \in 0..0 |-> IF k = 0 THEN <<>> ELSE Merge(g[k - 1], Translated(list[k]))]
      OBVIOUS
    <2> QED BY <2>1 DEF Merging
  <1>2. ASSUME NEW k \in T PROVE k + 1 \in T
    <2>1. PICK g : Merging(g, list, k)
      OBVIOUS
    <2> DEFINE h == [i \in 0..k + 1 |-> IF i = k + 1 THEN Merge(g[k], Translated(list[i])) ELSE g[i]]
               e == [i \in 0..k + 1 |-> IF i = 0 THEN <<>> ELSE Merge(h[i - 1], Translated(list[i]))]
    <2>2. ASSUME NEW i \in 0..k + 1 PROVE h[i] = e[i]
      <3>1. \A j \in 0..k : g[j] = IF j = 0 THEN <<>> ELSE Merge(g[j - 1], Translated(list[j]))
        BY <2>1 DEF Merging
      <3>2. CASE i = 0
        BY <3>1, <3>2
      <3>3. CASE i = k + 1
        <4>1. i - 1 = k /\ k \in 0..k + 1 /\ k # k + 1 /\ i # 0
          BY <3>3
        <4>2. h[k] = g[k] /\ h[i] = Merge(g[k], Translated(list[i]))
          BY <3>3, <4>1
        <4>3. e[i] = Merge(h[i - 1], Translated(list[i]))
          BY <4>1
        <4> HIDE DEF h, e
        <4> QED BY <4>1, <4>2, <4>3
      <3>4. CASE i # 0 /\ i # k + 1
        <4>1. i \in 0..k /\ i - 1 \in 0..k /\ i - 1 # k + 1 /\ i - 1 \in 0..k + 1
          BY <3>4
        <4>2. h[i - 1] = g[i - 1] /\ h[i] = g[i]
          BY <3>4, <4>1
        <4>3. e[i] = Merge(h[i - 1], Translated(list[i]))
          BY <3>4
        <4> HIDE DEF h, e
        <4> QED BY <3>1, <3>4, <4>1, <4>2, <4>3
      <3> QED BY <3>2, <3>3, <3>4
    <2>3. h = e
      BY <2>2
    <2>4. Merging(h, list, k + 1)
      <3> HIDE DEF h
      <3> QED BY <2>3 DEF Merging
    <2> QED BY <2>4
  <1>3. T = Nat
    <2>1. T \in SUBSET Nat
      OBVIOUS
    <2> HIDE DEF T
    <2> QED BY <1>1, <1>2, <2>1, AllNumbers
  <1> QED BY <1>3

(* and the same one for what lists have in common.                          *)
LEMMA MergingSame ==
  ASSUME NEW list, NEW more, NEW k \in Nat, NEW n \in Nat, k <= n, NEW g, NEW h,
         Merging(g, list, k), Merging(h, more, n), Agree(list, more, k)
  PROVE  g[k] = h[k]
  <1> DEFINE T == {m \in Nat : m \in 0..k => g[m] = h[m]}
  <1>1. \A i \in 0..k : g[i] = IF i = 0 THEN <<>> ELSE Merge(g[i - 1], Translated(list[i]))
    BY DEF Merging
  <1>2. \A i \in 0..n : h[i] = IF i = 0 THEN <<>> ELSE Merge(h[i - 1], Translated(more[i]))
    BY DEF Merging
  <1>3. 0 \in T
    <2>1. 0 \in 0..k /\ 0 \in 0..n
      OBVIOUS
    <2> QED BY <1>1, <1>2, <2>1
  <1>4. ASSUME NEW m \in T PROVE m + 1 \in T
    <2> SUFFICES ASSUME m + 1 \in 0..k PROVE g[m + 1] = h[m + 1]
      OBVIOUS
    <2>1. m + 1 \in 0..n /\ m \in 0..k /\ (m + 1) - 1 = m /\ m + 1 # 0 /\ m + 1 \in 1..k
      OBVIOUS
    <2>2. g[m] = h[m]
      BY <2>1
    <2>3. g[m + 1] = Merge(g[m], Translated(list[m + 1]))
      BY <1>1, <2>1
    <2>4. h[m + 1] = Merge(h[m], Translated(more[m + 1]))
      BY <1>2, <2>1
    <2>5. list[m + 1] = more[m + 1]
      BY <2>1 DEF Agree
    <2> HIDE DEF T
    <2> QED BY <2>2, <2>3, <2>4, <2>5
  <1>5. T = Nat
    <2>1. T \in SUBSET Nat
      OBVIOUS
    <2> HIDE DEF T
    <2> QED BY <1>3, <1>4, <2>1, AllNumbers
  <1> QED BY <1>5

(* So what is merged of a list that is one longer is what was merged        *)
(* before, with one more message.                                           *)
LEMMA MergedIs ==
  ASSUME NEW S, NEW list \in Seq(S)
  PROVE  \E g : Merging(g, list, Len(list)) /\ Merged(list) = g[Len(list)]
  <1> DEFINE g == CHOOSE f : Merging(f, list, Len(list))
  <1>1. Merging(g, list, Len(list))
    BY LenProperties, MergingExists
  <1>2. Merged(list) = g[Len(list)]
    BY DEF Merged, Merging
  <1> HIDE DEF g
  <1> QED BY <1>1, <1>2

LEMMA MergedNone == Merged(<<>>) = <<>>
  <1>1. PICK none \in Seq({}) : none = <<>> /\ Len(none) = 0
    BY EmptySeq
  <1>2. PICK g : Merging(g, none, 0) /\ Merged(none) = g[0]
    BY <1>1, MergedIs
  <1>3. g[0] = <<>>
    BY <1>2 DEF Merging
  <1> QED BY <1>1, <1>2, <1>3

LEMMA MergedMore ==
  ASSUME NEW S, NEW list \in Seq(S), NEW x \in S
  PROVE  Merged(Added(list, x)) = Merge(Merged(list), Translated(x))
  <1>1. PICK all \in Seq(S) : all = Added(list, x)
    BY AddedIs
  <1>2. /\ Len(all) = Len(list) + 1 /\ Len(list) \in Nat
        /\ \A i \in 1..Len(list) : list[i] = all[i]
        /\ all[Len(list) + 1] = x
    <2>1. Len(Added(list, x)) = Len(list) + 1 /\ Len(list) \in Nat
      BY AddedIs
    <2>2. \A i \in 1..Len(list) : Added(list, x)[i] = list[i]
      BY AddedIs
    <2>3. Added(list, x)[Len(list) + 1] = x
      BY AddedIs
    <2> QED BY <1>1, <2>1, <2>2, <2>3
  <1>3. PICK k \in Nat : k = Len(list) /\ Len(all) = k + 1
    BY <1>2
  <1>4. PICK g : Merging(g, list, k) /\ Merged(list) = g[k]
    BY <1>3, MergedIs
  <1>5. PICK h : Merging(h, all, k + 1) /\ Merged(all) = h[k + 1]
    BY <1>3, MergedIs
  <1>6. g[k] = h[k]
    <2>1. Agree(list, all, k)
      BY <1>2, <1>3 DEF Agree
    <2>2. k <= k + 1 /\ k + 1 \in Nat
      OBVIOUS
    <2> QED BY <1>4, <1>5, <2>1, <2>2, MergingSame
  <1>7. h[k + 1] = Merge(h[k], Translated(all[k + 1]))
    <2>1. k + 1 \in 0..k + 1 /\ k + 1 # 0 /\ (k + 1) - 1 = k
      OBVIOUS
    <2> QED BY <1>5, <2>1 DEF Merging
  <1> QED BY <1>1, <1>2, <1>3, <1>4, <1>5, <1>6, <1>7

-----------------------------------------------------------------------------
(* Sides are among the messages and the roles of them.                      *)
LEMMA SidesAre ==
  /\ Sides \subseteq Messages /\ Sides \subseteq WithRole(Talkers)
  /\ \A list \in Seq(Sides) : list \in Seq(Messages) /\ list \in Seq(WithRole(Talkers))
  <1>1. Sides \subseteq Messages /\ Sides \subseteq WithRole(Talkers)
    BY DEF Sides, WithRole, Talkers
  <1> QED BY <1>1, SeqMonotonic

(* No item is lost in merging.                                             *)
LEMMA MergeKeeps ==
  ASSUME NEW list \in Seq(Sides), NEW x \in Sides
  PROVE  /\ Merge(list, x) \in Seq(Sides)
         /\ AllItems(Merge(list, x)) = Both(AllItems(list), x.items)
  <1>0. x \in Messages /\ ItemsOf[x] = x.items /\ x.items \in Seq(Items)
    BY SidesAre, FunctionsAre, MessageIs
  <1>1. ASSUME NEW front \in Seq(Sides), NEW y \in Sides
        PROVE  /\ Added(front, y) \in Seq(Sides)
               /\ AllItems(Added(front, y)) = Both(AllItems(front), y.items)
               /\ AllItems(front) \in Seq(Items)
    <2>1. front \in Seq(Messages) /\ y \in Messages
      BY SidesAre
    <2>2. Added(front, y) \in Seq(Sides) /\ Added(front, y) \in Seq(Messages)
      BY <2>1, AddedIs
    <2>3. Gathered(ItemsOf, Added(front, y)) = Both(Gathered(ItemsOf, front), ItemsOf[y])
      BY <2>1, FunctionsAre, GatheredMore
    <2>4. ItemsOf[y] = y.items
      BY <2>1, FunctionsAre
    <2> QED BY <2>1, <2>2, <2>3, <2>4, AllItemsAre
  <1>2. CASE list = <<>>
    <2>1. Merge(list, x) = Added(list, x)
      BY <1>2, MergeIs
    <2> QED BY <1>1, <2>1
  <1>3. CASE list # <<>>
    <2>1. PICK front \in Seq(Sides), last \in Sides : list = Added(front, last)
      BY <1>3, SequenceEmptyOrAppend DEF Added
    <2>2. CASE last.role # x.role
      <3>1. Merge(list, x) = Added(list, x)
        BY <2>1, <2>2, MergeIs
      <3> QED BY <1>1, <3>1
    <2>3. CASE last.role = x.role
      <3>1. Merge(list, x) = Added(front, Longer(last, x.items)) /\ Longer(last, x.items) \in Sides
        BY <2>1, <2>3, MergeIs
      <3>2. Longer(last, x.items).items = Both(last.items, x.items)
        BY DEF Longer
      <3>3. AllItems(Merge(list, x)) = Both(AllItems(front), Both(last.items, x.items))
        BY <1>1, <3>1, <3>2
      <3>4. AllItems(list) = Both(AllItems(front), last.items) /\ AllItems(front) \in Seq(Items)
        BY <1>1, <2>1
      <3>5. last.items \in Seq(Items)
        BY SidesAre, MessageIs
      <3>6. Both(Both(AllItems(front), last.items), x.items) = Both(AllItems(front), Both(last.items, x.items))
        BY <1>0, <3>4, <3>5, BothOfThree
      <3> QED BY <1>1, <3>1, <3>3, <3>4, <3>6
    <2> QED BY <2>2, <2>3
  <1> QED BY <1>2, <1>3

LEMMA MergedKeeps ==
  ASSUME NEW list \in Seq(Messages)
  PROVE  /\ Merged(list) \in Seq(Sides)
         /\ AllItems(Merged(list)) = AllItems(Mapped(TranslationOf, list))
  <1> DEFINE T == {s \in Seq(Messages) : /\ Merged(s) \in Seq(Sides)
                                         /\ AllItems(Merged(s)) = Gathered(ItemsOf, Mapped(TranslationOf, s))}
  <1>1. <<>> \in T
    <2>1. PICK none \in Seq(Messages) : none = <<>> /\ none \in Seq(Sides)
      BY EmptySeq
    <2>2. AllItems(none) = Gathered(ItemsOf, none)
      BY AllItemsAre
    <2> QED BY <2>1, <2>2, MergedNone, MappedNone
  <1>2. ASSUME NEW s \in T, NEW x \in Messages PROVE Added(s, x) \in T
    <2>1. Added(s, x) \in Seq(Messages)
      BY AddedIs
    <2>2. PICK t \in Sides : t = Translated(x) /\ t = TranslationOf[x] /\ t \in Messages /\ ItemsOf[t] = t.items
      <3>1. TranslationOf[x] \in Sides
        BY TranslationIs, ValueIs
      <3> QED BY <3>1, TranslationIs, SidesAre, FunctionsAre
    <2>3. Merged(Added(s, x)) = Merge(Merged(s), t)
      BY <2>2, MergedMore
    <2>4. PICK done \in Seq(Sides) : done = Merged(s)
      OBVIOUS
    <2>5. Merge(done, t) \in Seq(Sides) /\ AllItems(Merge(done, t)) = Both(AllItems(done), t.items)
      BY MergeKeeps
    <2>6. Mapped(TranslationOf, s) \in Seq(Messages)
      BY TranslationIs, MappedIs
    <2>7. Mapped(TranslationOf, Added(s, x)) = Added(Mapped(TranslationOf, s), t)
      BY <2>2, TranslationIs, MappedMore
    <2>8. Gathered(ItemsOf, Added(Mapped(TranslationOf, s), t))
            = Both(Gathered(ItemsOf, Mapped(TranslationOf, s)), ItemsOf[t])
      BY <2>2, <2>6, FunctionsAre, GatheredMore
    <2> QED BY <2>1, <2>2, <2>3, <2>4, <2>5, <2>7, <2>8
  <1>3. T = Seq(Messages)
    <2>1. T \in SUBSET Seq(Messages)
      OBVIOUS
    <2> HIDE DEF T
    <2> QED BY <1>1, <1>2, <2>1, AllLists
  <1>4. Mapped(TranslationOf, list) \in Seq(Messages)
    BY TranslationIs, MappedIs
  <1> QED BY <1>3, <1>4, AllItemsAre

(* What is sent to Anthropic tells the chat in full.                        *)
LEMMA ToldToAnthropic ==
  ASSUME NEW list \in Seq(Plain)
  PROVE  InFull(list, ToAnthropic(list).system, ToAnthropic(list).messages)
  <1>1. list \in Seq(Messages)
    BY PlainType
  <1>2. PICK talk \in Seq(Messages) : talk = Conversation(list)
    BY <1>1, RoleType DEF Conversation
  <1>3. PICK sent \in Seq(WithRole(Talkers)) : sent = Merged(talk)
    BY MergedKeeps, SidesAre
  <1>4. ToAnthropic(list).system = AllItems(OfRole(Instructions, list)) /\ ToAnthropic(list).messages = sent
    BY <1>2, <1>3 DEF ToAnthropic
  <1>5. Shapes(AllItems(sent)) = Gathered(Whole, talk)
    <2>1. Messages \in SUBSET Messages
      OBVIOUS
    <2>2. Shapes(AllItems(Mapped(TranslationOf, talk))) = Gathered(Whole, talk)
      BY <2>1, TranslationIs, ToldOneForOne
    <2> QED BY <1>3, <2>2, MergedKeeps
  <1> QED BY <1>2, <1>4, <1>5, ToldApart

-----------------------------------------------------------------------------
(* The chats that come about: instructions are told as they are, calls are  *)
(* numbered by the reply that they came with, and results are those of a   *)
(* call of the chat unless the caller says what nobody asked for.          *)
Uncalled == {item \in Items : item.kind # "call"}

Spoken ==
    {message \in Plain :
        /\ message.role # "assistant" => message.items \in Seq(Uncalled)
        /\ message.role = "tool" => Len(message.items) = 1 /\ message.items[1].kind = "result"}

ItemsIn(list) == ToSet(AllItems(list))

Drawn(n) == {"call", "new"} \X {n} \X Nat

Numbered(list, n) ==
    \A call \in list : call.kind = "call" => \E k \in 0..n - 1 : call.id \in Drawn(k)

OneName(list) ==
    \A call, other \in list :
        call.kind = "call" /\ other.kind = "call" /\ call.id = other.id => call.name = other.name

Matches(result, list) ==
    \/ result.id[1] = "said"
    \/ \E call \in list : call.kind = "call" /\ call.id = result.id /\ call.name = result.name

Matched(list) == \A result \in list : result.kind = "result" => Matches(result, list)

ChatOk(list) ==
    /\ list \in Seq(Spoken)
    /\ Numbered(ItemsIn(list), Len(list)) /\ OneName(ItemsIn(list)) /\ Matched(ItemsIn(list))

(* What a chat may grow by.                                                *)
Fits(list, message) ==
    /\ message \in Spoken
    /\ \A call \in ToSet(message.items) : call.kind = "call" => call.id \in Drawn(Len(list))
    /\ OneName(ToSet(message.items))
    /\ \A result \in ToSet(message.items) : result.kind = "result" => Matches(result, ItemsIn(list))

LEMMA ItemsInIs ==
  ASSUME NEW list \in Seq(Messages)
  PROVE  /\ ItemsIn(list) = {item \in Items : Within(list, item)}
         /\ \A x \in Messages : ItemsIn(Added(list, x)) = ItemsIn(list) \cup ToSet(x.items)
  <1>1. ASSUME NEW s \in Seq(Messages) PROVE ItemsIn(s) = {item \in Items : Within(s, item)}
    <2>1. PICK items \in Seq(Items) : items = AllItems(s)
      BY AllItemsAre
    <2>2. ToSet(items) = {item \in Items : Contains(items, item)}
      BY ContainsType
    <2> QED BY <2>1, <2>2, AllItemsHave DEF ItemsIn
  <1>2. ASSUME NEW x \in Messages PROVE ItemsIn(Added(list, x)) = ItemsIn(list) \cup ToSet(x.items)
    <2>1. Added(list, x) \in Seq(Messages)
      BY AddedIs
    <2>2. ToSet(x.items) = {item \in Items : Contains(x.items, item)}
      BY MessageIs, ContainsType
    <2>3. \A item : Within(Added(list, x), item) <=> Within(list, item) \/ Contains(x.items, item)
      BY WithinMore
    <2>4. ItemsIn(Added(list, x)) = {item \in Items : Within(Added(list, x), item)}
      BY <1>1, <2>1
    <2>5. ItemsIn(list) = {item \in Items : Within(list, item)}
      BY <1>1
    <2> QED BY <2>2, <2>3, <2>4, <2>5
  <1> QED BY <1>1, <1>2

LEMMA SpokenType ==
  ASSUME NEW list \in Seq(Spoken)
  PROVE  list \in Seq(Plain) /\ list \in Seq(Messages)
  <1>1. Spoken \subseteq Plain
    BY DEF Spoken
  <1> QED BY <1>1, SeqMonotonic, PlainType

(* A chat that grows by what fits is such a chat.                           *)
LEMMA ChatGrows ==
  ASSUME NEW list, ChatOk(list), NEW message, Fits(list, message)
  PROVE  ChatOk(Added(list, message))
  <1>1. list \in Seq(Spoken) /\ message \in Spoken /\ list \in Seq(Messages) /\ message \in Messages
    BY SpokenType DEF ChatOk, Fits, Spoken, Plain
  <1>2. PICK all : all = Added(list, message)
    OBVIOUS
  <1>3. all \in Seq(Spoken) /\ Len(all) = Len(list) + 1 /\ Len(list) \in Nat
    BY <1>1, <1>2, AddedIs
  <1>4. PICK old, new : old = ItemsIn(list) /\ new = ToSet(message.items)
    OBVIOUS
  <1>5. ItemsIn(all) = old \cup new
    BY <1>1, <1>2, <1>4, ItemsInIs
  <1>6. PICK k \in Nat : k = Len(list)
    BY <1>3
  <1>7. /\ Numbered(old, k) /\ OneName(old) /\ Matched(old)
        /\ \A call \in new : call.kind = "call" => call.id \in Drawn(k)
        /\ OneName(new)
        /\ \A result \in new : result.kind = "result" => Matches(result, old)
    BY <1>4, <1>6 DEF ChatOk, Fits
  <1>8. Numbered(old \cup new, k + 1)
    <2>1. \A i \in 0..k - 1 : i \in 0..(k + 1) - 1
      OBVIOUS
    <2>2. k \in 0..(k + 1) - 1
      OBVIOUS
    <2> QED BY <1>7, <2>1, <2>2 DEF Numbered
  <1>9. OneName(old \cup new)
    <2>1. ASSUME NEW call \in old, call.kind = "call", NEW other \in new, other.kind = "call"
          PROVE  call.id # other.id
      <3>1. PICK i \in 0..k - 1 : call.id \in Drawn(i)
        BY <1>7, <2>1 DEF Numbered
      <3>2. other.id \in Drawn(k)
        BY <1>7, <2>1
      <3>3. call.id[2] = i /\ other.id[2] = k
        BY <3>1, <3>2 DEF Drawn
      <3> QED BY <3>3
    <2> QED BY <1>7, <2>1 DEF OneName
  <1>10. Matched(old \cup new)
    BY <1>7 DEF Matched, Matches
  <1> QED BY <1>2, <1>3, <1>5, <1>6, <1>8, <1>9, <1>10 DEF ChatOk

LEMMA OneIsSpoken ==
  ASSUME NEW role \in Instructions \cup Talkers, NEW item \in Aloud,
         item.kind # "call", role = "tool" => item.kind = "result"
  PROVE  [role |-> role, items |-> <<item>>] \in Spoken
  <1>1. item \in Items /\ item \in Uncalled
    BY DEF Aloud, Uncalled
  <1>2. <<item>> \in Seq(Items)
    BY <1>1
  <1>3. <<item>> \in Seq(Aloud)
    OBVIOUS
  <1>4. <<item>> \in Seq(Uncalled)
    BY <1>1
  <1>5. PICK items : items = <<item>>
    OBVIOUS
  <1>6. Len(items) = 1 /\ items[1] = item
    BY <1>5
  <1> QED BY <1>2, <1>3, <1>4, <1>5, <1>6 DEF Spoken, Plain, Messages

(* What the caller says,                                                   *)
LEMMA SaidFits ==
  ASSUME ChatOk(chat), NEW role \in Instructions \cup Talkers, NEW kind \in {"text", "blank", "result"},
         role = "tool" => kind = "result"
  PROVE  Fits(chat, Said(role, kind))
  <1>1. Len(chat) \in Nat
    BY LenProperties DEF ChatOk
  <1>2. PICK item : item = [kind |-> kind, id |-> <<"said", Len(chat), 0>>, name |-> "none"]
    OBVIOUS
  <1>3. item \in Items /\ item \in Aloud
    BY <1>1, <1>2 DEF Items, ItemIds, Kinds, Aloud
  <1>4. Said(role, kind) = [role |-> role, items |-> <<item>>]
    BY <1>2 DEF Said, Item
  <1>5. Said(role, kind) \in Spoken
    BY <1>2, <1>3, <1>4, OneIsSpoken
  <1>6. ToSet(<<item>>) = {item}
    BY DEF ToSet
  <1>7. item.kind = kind /\ item.id[1] = "said"
    BY <1>2
  <1> QED BY <1>4, <1>5, <1>6, <1>7 DEF Fits, OneName, Matches

(* what answers his tools,                                                  *)
LEMMA LastReplyIs ==
  ASSUME NEW k \in Nat, DOMAIN chat = 1..k
  PROVE  LastReply = 0 \/ LastReply \in 1..k
  <1> DEFINE T == {n \in DOMAIN chat : chat[n].role = "assistant"}
  <1>1. LastReply = Max({0} \cup T)
    BY DEF LastReply
  <1>2. T \in SUBSET (1..k)
    OBVIOUS
  <1> HIDE DEF T
  <1>3. CASE T = {}
    <2>1. {0} \cup T = {0}
      BY <1>3
    <2>2. \E greatest \in {0} : \A m \in {0} : greatest >= m
      OBVIOUS
    <2>3. Max({0}) = 0
      BY <2>2 DEF Max
    <2> QED BY <1>1, <2>1, <2>3
  <1>4. CASE T # {}
    <2>1. PICK greatest \in T : \A m \in T : m <= greatest
      BY <1>2, <1>4, MaxIsGreatest
    <2>2. \A m \in {0} \cup T : greatest >= m
      BY <1>2, <2>1
    <2>3. Max({0} \cup T) \in {0} \cup T
      BY <2>2 DEF Max
    <2> QED BY <1>1, <1>2, <2>3
  <1> QED BY <1>3, <1>4

LEMMA CalledAre ==
  ASSUME chat \in Seq(Messages)
  PROVE  /\ Called \in Seq(Items)
         /\ \A call : Contains(Called, call) => call.kind = "call" /\ Within(chat, call)
  <1>1. Len(chat) \in Nat /\ DOMAIN chat = 1..Len(chat)
    BY LenProperties
  <1>2. CASE LastReply = 0
    BY <1>2, EmptySeq, ContainsNone DEF Called
  <1>3. CASE LastReply # 0
    <2>1. PICK n \in 1..Len(chat) : n = LastReply
      BY <1>1, <1>3, LastReplyIs
    <2>2. PICK items \in Seq(Items) : items = chat[n].items
      BY <2>1, ElementOfSeq, MessageIs
    <2>3. Called = Picked(items, OfThe("call", Items))
      <3>1. Called = OfKind({"call"}, items)
        BY <1>3, <2>1, <2>2 DEF Called
      <3> QED BY <3>1, KindIs
    <2>4. Called \in Seq(Items)
      BY <2>3, PickedType
    <2>5. ASSUME NEW call, Contains(Called, call)
          PROVE  call.kind = "call" /\ Within(chat, call)
      <3>1. call \in OfThe("call", Items) /\ Contains(items, call)
        BY <2>3, <2>5, PickedFrom
      <3> QED BY <2>2, <3>1 DEF Within, OfThe
    <2> QED BY <2>4, <2>5
  <1> QED BY <1>2, <1>3

LEMMA ResultsAre ==
  ASSUME chat \in Seq(Messages)
  PROVE  Len(Results) \in Nat
  <1> DEFINE P == {item \in Items : item.kind = "result" /\ item.id[1] # "said"}
  <1>1. PICK k \in Nat : k = Len(chat) /\ DOMAIN chat = 1..k /\ \A i \in 1..k : chat[i] \in Messages
    BY LenProperties, ElementOfSeq
  <1>2. LastReply \in Nat
    BY <1>1, LastReplyIs
  <1>3. SubSeq(chat, LastReply + 1, k) \in Seq(Messages)
    <2>1. LastReply + 1 \in Int /\ k \in Int /\ \A i \in LastReply + 1..k : chat[i] \in Messages
      BY <1>1, <1>2
    <2> QED BY <2>1, SubSeqProperties
  <1>4. PICK items \in Seq(Items) : items = AllItems(SubSeq(chat, LastReply + 1, k))
    BY <1>3, AllItemsAre
  <1>5. \A i \in DOMAIN items : items[i] \in Items
    BY LenProperties, ElementOfSeq
  <1>6. {i \in DOMAIN items : items[i].kind = "result" /\ items[i].id[1] # "said"} = {i \in DOMAIN items : items[i] \in P}
    BY <1>5
  <1>7. Results = Picked(items, P)
    BY <1>1, <1>4, <1>6 DEF Results, Picked
  <1> HIDE DEF P
  <1>8. Picked(items, P) \in Seq(Items)
    BY PickedType
  <1> QED BY <1>7, <1>8, LenProperties

LEMMA AnswerFits ==
  ASSUME ChatOk(chat), Len(Results) < Len(Called)
  PROVE  LET call == Called[Len(Results) + 1]
         IN  Fits(chat, [role |-> "tool", items |-> <<Item("result", call.id, call.name)>>])
  <1>1. chat \in Seq(Messages)
    BY SpokenType DEF ChatOk
  <1>2. PICK n \in Nat : n = Len(Results) + 1 /\ n \in 1..Len(Called)
    <2>1. Len(Called) \in Nat /\ Len(Results) \in Nat
      BY <1>1, CalledAre, ResultsAre, LenProperties
    <2> QED BY <2>1
  <1>3. PICK call \in Items : call = Called[n] /\ call.kind = "call" /\ Within(chat, call)
    <2>1. Called[n] \in Items /\ Contains(Called, Called[n])
      BY <1>1, <1>2, CalledAre, ContainsType
    <2> QED BY <1>1, <2>1, CalledAre
  <1>4. PICK item : item = [kind |-> "result", id |-> call.id, name |-> call.name]
    OBVIOUS
  <1>5. item \in Items /\ item \in Aloud
    BY <1>4, ItemIs DEF Items, Kinds, Aloud
  <1>6. PICK message : message = [role |-> "tool", items |-> <<item>>]
    OBVIOUS
  <1>7. message \in Spoken
    <2>1. "tool" \in Instructions \cup Talkers
      BY DEF Talkers
    <2> QED BY <1>4, <1>5, <1>6, <2>1, OneIsSpoken
  <1>8. ToSet(message.items) = {item}
    BY <1>6 DEF ToSet
  <1>9. call \in ItemsIn(chat)
    BY <1>1, <1>3, ItemsInIs
  <1>10. Fits(chat, message)
    BY <1>3, <1>4, <1>7, <1>8, <1>9 DEF Fits, OneName, Matches
  <1>11. message = [role |-> "tool", items |-> <<Item("result", call.id, call.name)>>]
    BY <1>4, <1>6 DEF Item
  <1> QED BY <1>2, <1>3, <1>10, <1>11

-----------------------------------------------------------------------------
(* and the replies that he keeps.                                          *)
LEMMA MadeIs ==
  ASSUME NEW type, NEW operation, NEW n \in Nat, NEW i \in Nat, NEW block \in Blocks,
         NEW item, item = Item(KindOf(type, operation, block),
                               IF block.kind = "call" THEN CallId(type, operation, n, i) ELSE <<"new", n, i>>,
                               block.name)
  PROVE  /\ item.id \in ItemIds /\ item.name \in Tools \cup {"none"}
         /\ item = [kind |-> item.kind, id |-> item.id, name |-> item.name]
         /\ item.kind = "call" => item.id \in Drawn(n) /\ item.id[3] = i
         /\ item.kind # "result"
  <1>1. /\ block.kind \in {"text", "reasoning", "other", "call"} /\ block.name \in Tools \cup {"none"}
    BY DEF Blocks
  <1>2. PICK first \in {"call", "new"} : CallId(type, operation, n, i) = <<first, n, i>>
    BY DEF CallId
  <1>3. KindOf(type, operation, block) \in {block.kind, "text"}
    BY DEF KindOf
  <1>4. item.kind = KindOf(type, operation, block) /\ item.name = block.name
        /\ item.id = (IF block.kind = "call" THEN CallId(type, operation, n, i) ELSE <<"new", n, i>>)
        /\ item = [kind |-> item.kind, id |-> item.id, name |-> item.name]
    BY DEF Item
  <1>5. <<first, n, i>> \in Drawn(n) /\ <<first, n, i>>[3] = i /\ <<first, n, i>> \in ItemIds /\ <<"new", n, i>> \in ItemIds
    BY DEF Drawn, ItemIds
  <1>6. item.id \in ItemIds
    BY <1>2, <1>4, <1>5
  <1>7. item.kind = "call" => item.id = <<first, n, i>>
    BY <1>1, <1>2, <1>3, <1>4
  <1>8. item.kind # "result"
    BY <1>1, <1>3, <1>4
  <1> QED BY <1>1, <1>4, <1>5, <1>6, <1>7, <1>8

LEMMA ReplyFits ==
  ASSUME ChatOk(chat), NEW type, NEW operation, NEW reply \in Replies
  PROVE  Fits(chat, FromReply(type, operation, Len(chat), reply))
  <1> DEFINE made(i) == Item(KindOf(type, operation, reply.blocks[i]),
                             IF reply.blocks[i].kind = "call" THEN CallId(type, operation, Len(chat), i)
                             ELSE <<"new", Len(chat), i>>,
                             reply.blocks[i].name)
             items == [i \in DOMAIN reply.blocks |-> made(i)]
             refusal == IF TellsRefusal(type, reply) THEN <<Item("refusal", <<"new", Len(chat), 0>>, "none")>> ELSE <<>>
             reasoning == IF operation = "complete" THEN OfKind({"reasoning"}, items) ELSE <<>>
             all == OfKind({"text"}, items) \o refusal \o OfKind({"call"}, items) \o reasoning
             message == FromReply(type, operation, Len(chat), reply)
             refused == Item("refusal", <<"new", Len(chat), 0>>, "none")
  <1>1. PICK k \in Nat : DOMAIN reply.blocks = 1..k /\ \A i \in 1..k : reply.blocks[i] \in Blocks
    <2>1. \A m \in Int : \A blocks \in BoundedSeq(Blocks, m) :
            \E k \in Nat : DOMAIN blocks = 1..k /\ \A i \in 1..k : blocks[i] \in Blocks
      BY DEF BoundedSeq, SeqOf
    <2>2. MaxBlocks \in Int /\ 1 \in Int
      BY ClientAssumption
    <2>3. reply.blocks \in BoundedSeq(Blocks, MaxBlocks) \/ reply.blocks \in BoundedSeq(Blocks, 1)
      BY DEF Replies, Reply
    <2> QED BY <2>1, <2>2, <2>3
  <1>2. PICK n \in Nat : n = Len(chat)
    BY LenProperties DEF ChatOk
  <1>3. ASSUME NEW i \in 1..k
        PROVE  /\ made(i).id \in ItemIds /\ made(i).name \in Tools \cup {"none"}
               /\ made(i) = [kind |-> made(i).kind, id |-> made(i).id, name |-> made(i).name]
               /\ made(i).kind = "call" => made(i).id \in Drawn(n) /\ made(i).id[3] = i
               /\ made(i).kind # "result"
    <2>1. reply.blocks[i] \in Blocks /\ i \in Nat
      BY <1>1
    <2>2. PICK item : item = made(i)
      OBVIOUS
    <2>3. PICK block \in Blocks : block = reply.blocks[i]
      BY <2>1
    <2>4. item = Item(KindOf(type, operation, block),
                      IF block.kind = "call" THEN CallId(type, operation, n, i) ELSE <<"new", n, i>>,
                      block.name)
      BY <1>2, <2>2, <2>3
    <2>5. /\ item.id \in ItemIds /\ item.name \in Tools \cup {"none"}
          /\ item = [kind |-> item.kind, id |-> item.id, name |-> item.name]
          /\ item.kind = "call" => item.id \in Drawn(n) /\ item.id[3] = i
          /\ item.kind # "result"
      BY <2>1, <2>4, MadeIs
    <2> HIDE DEF made
    <2> QED BY <2>2, <2>5
  <1> DEFINE E == {items[i] : i \in 1..k}
             R == {item \in E : item.kind \in {"text", "call", "reasoning"}} \cup {refused}
  <1>4. DOMAIN items = 1..k /\ \A i \in 1..k : items[i] = made(i)
    BY <1>1
  <1>5. message = [role |-> "assistant", items |-> all]
    BY DEF FromReply
  <1> HIDE DEF made, items, message
  <1>6. items \in Seq(E)
    <2>1. items \in [1..k -> E]
      <3>1. items = [i \in 1..k |-> items[i]]
        BY <1>1 DEF items
      <3> QED BY <3>1
    <2> QED BY <2>1
  <1>7. \A item \in E : \E i \in 1..k : item = made(i)
    BY <1>4
  <1>8. ASSUME NEW item \in E
        PROVE  /\ item.id \in ItemIds /\ item.name \in Tools \cup {"none"} /\ item.kind # "result"
               /\ item = [kind |-> item.kind, id |-> item.id, name |-> item.name]
               /\ item.kind = "call" => item.id \in Drawn(n)
    BY <1>3, <1>7
  <1>9. ASSUME NEW item \in E, NEW other \in E, item.kind = "call", other.kind = "call", item.id = other.id
        PROVE  item = other
    <2>1. PICK i \in 1..k, j \in 1..k : item = made(i) /\ other = made(j)
      BY <1>7
    <2>2. item.id[3] = i /\ other.id[3] = j
      BY <1>3, <1>9, <2>1
    <2> QED BY <1>9, <2>1, <2>2
  <1>10. refused = [kind |-> "refusal", id |-> <<"new", n, 0>>, name |-> "none"]
    BY <1>2 DEF Item
  <1> HIDE DEF E, refused
  <1>11. refused \in Items /\ refused.kind = "refusal"
    BY <1>10 DEF Items, ItemIds, Kinds
  <1>12. \A item \in R : item \in Items /\ item.kind # "result"
    BY <1>8, <1>11 DEF Items, Kinds
  <1>13. ASSUME NEW kind \in {"text", "call", "reasoning"}
         PROVE  OfKind({kind}, items) \in Seq(R)
    <2>1. OfKind({kind}, items) = Picked(items, OfThe(kind, E))
      BY <1>6, KindIs
    <2>2. Picked(items, OfThe(kind, E)) \in Seq(E \cap OfThe(kind, E))
      BY <1>6, PickedType
    <2>3. E \cap OfThe(kind, E) \subseteq R
      BY DEF OfThe
    <2> HIDE DEF R
    <2> QED BY <2>1, <2>2, <2>3, SeqMonotonic
  <1>14. refusal \in Seq(R)
    <2>1. refused \in R
      OBVIOUS
    <2> HIDE DEF R
    <2>2. <<refused>> \in Seq(R)
      BY <2>1
    <2>3. refusal = <<refused>> \/ refusal = <<>>
      BY DEF refused
    <2> QED BY <2>2, <2>3, EmptySeq
  <1>15. reasoning \in Seq(R)
    <2>1. reasoning = OfKind({"reasoning"}, items) \/ reasoning = <<>>
      OBVIOUS
    <2> HIDE DEF reasoning, R
    <2> QED BY <1>13, <2>1, EmptySeq
  <1>16. all \in Seq(R)
    <2>1. PICK texts \in Seq(R), calls \in Seq(R) : texts = OfKind({"text"}, items) /\ calls = OfKind({"call"}, items)
      BY <1>13
    <2> HIDE DEF refusal, reasoning, R
    <2>2. Both(texts, refusal) \in Seq(R)
      BY <1>14, BothIs
    <2>3. Both(Both(texts, refusal), calls) \in Seq(R)
      BY <2>2, BothIs
    <2>4. Both(Both(Both(texts, refusal), calls), reasoning) \in Seq(R)
      BY <1>15, <2>3, BothIs
    <2> QED BY <2>1, <2>4 DEF Both
  <1> HIDE DEF all
  <1>17. ToSet(all) \subseteq R
    <2> HIDE DEF R
    <2>1. PICK list \in Seq(R) : list = all
      BY <1>16
    <2>2. ToSet(list) = {item \in R : Contains(list, item)}
      BY ContainsType
    <2> QED BY <2>1, <2>2
  <1>18. message \in Spoken
    <2>1. R \subseteq Items
      BY <1>12
    <2> HIDE DEF R
    <2>2. all \in Seq(Items)
      BY <1>16, <2>1, SeqMonotonic
    <2> QED BY <1>5, <2>2 DEF Spoken, Plain, Messages, Instructions, Talkers
  <1>19. \A call \in R : call.kind = "call" => call \in E /\ call.id \in Drawn(n)
    BY <1>8, <1>11
  <1>20. OneName(ToSet(all))
    BY <1>9, <1>17, <1>19 DEF OneName
  <1> HIDE DEF R
  <1>21. message.items = all
    BY <1>5
  <1>22. \A item \in ToSet(all) : item.kind # "result" /\ (item.kind = "call" => item.id \in Drawn(Len(chat)))
    BY <1>2, <1>12, <1>17, <1>19
  <1>23. Fits(chat, message)
    BY <1>18, <1>20, <1>21, <1>22 DEF Fits
  <1> QED BY <1>23 DEF message

-----------------------------------------------------------------------------
(* What is in flight was made of the chat as it is.                         *)
Sending ==
    request.operation \in {"complete", "respond"} =>
        /\ Supports(request.provider.type, request.operation)
        /\ request.operation = "complete" => Valid(request.provider, chat)
        /\ Serializable(request.provider.type, request.operation, chat)
        /\ request.wire = ToWire(request.provider.type, request.operation, chat)

(* At first there is no chat, and nothing in flight.                        *)
LEMMA ChatBegins == ClientInit => ChatOk(chat) /\ Sending
  <1>1. ASSUME ClientInit PROVE ChatOk(chat)
    <2>1. PICK none \in Seq(Spoken) : none = <<>> /\ none \in Seq(Messages) /\ Len(none) = 0
      BY EmptySeq
    <2>2. PICK nothing \in Seq(Items) : nothing = <<>>
      BY EmptySeq
    <2>3. AllItems(none) = nothing
      BY <2>1, <2>2, AllItemsAre, GatheredNone
    <2>4. ItemsIn(none) = {}
      <3>1. ToSet(nothing) = {item \in Items : Contains(nothing, item)}
        BY ContainsType
      <3>2. \A item : ~Contains(nothing, item)
        BY <2>2, ContainsNone
      <3> QED BY <2>3, <3>1, <3>2 DEF ItemsIn
    <2>5. chat = none
      BY <1>1, <2>1 DEF ClientInit
    <2> QED BY <2>1, <2>4, <2>5 DEF ChatOk, Numbered, OneName, Matched
  <1>2. ClientInit => Sending
    BY DEF ClientInit, NoRequest, Sending
  <1> QED BY <1>1, <1>2

(* Every step keeps the chat a chat, whatever is said and whatever the      *)
(* reply,                                                                   *)
LEMMA ChatStays ==
  ASSUME ChatOk(chat), [ClientNext]_clientVars
  PROVE  ChatOk(chat)'
  <1>0. chat' = chat => ChatOk(chat)'
    OBVIOUS
  <1>1. ASSUME NEW message, Fits(chat, message), chat' = Append(chat, message) PROVE ChatOk(chat)'
    BY <1>1, ChatGrows DEF Added
  <1>2. CASE Say
    <2>1. CASE \E role \in {"user", "system"} : chat' = Append(chat, Said(role, "text"))
      <3>1. PICK role \in {"user", "system"} : chat' = Append(chat, Said(role, "text"))
        BY <2>1
      <3>2. role \in Instructions \cup Talkers
        BY DEF Instructions, Talkers
      <3>3. Fits(chat, Said(role, "text"))
        BY <3>2, SaidFits
      <3> QED BY <1>1, <3>1, <3>3
    <2>2. CASE \E message \in {Said("system", "blank"), Said("function", "text"), Said("tool", "result")} :
                 chat' = Append(chat, message)
      <3>1. {"system", "function", "tool"} \subseteq Instructions \cup Talkers
        BY DEF Instructions, Talkers
      <3>2. Fits(chat, Said("system", "blank"))
        BY <3>1, SaidFits
      <3>3. Fits(chat, Said("function", "text"))
        BY <3>1, SaidFits
      <3>4. Fits(chat, Said("tool", "result"))
        BY <3>1, SaidFits
      <3> QED BY <1>1, <2>2, <3>2, <3>3, <3>4
    <2> QED BY <1>2, <2>1, <2>2 DEF Say
  <1>3. CASE AnswerTool
    <2>1. PICK call : call = Called[Len(Results) + 1]
      OBVIOUS
    <2>2. PICK message : message = [role |-> "tool", items |-> <<Item("result", call.id, call.name)>>]
      OBVIOUS
    <2>3. chat' = Append(chat, message) /\ Len(Results) < Len(Called)
      BY <1>3, <2>1, <2>2 DEF AnswerTool
    <2>4. Fits(chat, message)
      BY <2>1, <2>2, <2>3, AnswerFits
    <2> QED BY <1>1, <2>3, <2>4
  <1>4. CASE Receive
    <2>1. PICK reply \in Replies :
            LET message == FromReply(request.provider.type, request.operation, Len(chat), reply)
            IN  chat' = chat \/ chat' = Append(chat, message)
      BY <1>4 DEF Receive, Keep
    <2>2. Fits(chat, FromReply(request.provider.type, request.operation, Len(chat), reply))
      BY ReplyFits
    <2> QED BY <1>0, <1>1, <2>1, <2>2
  <1>5. CASE ReceiveNothing \/ Fail \/ Take \/ Change \/ UNCHANGED clientVars
    BY <1>0, <1>5 DEF ReceiveNothing, Fail, Take, Change, clientVars
  <1>6. ASSUME NEW name \in Names, CallNobody(name) PROVE ChatOk(chat)'
    BY <1>0, <1>6 DEF CallNobody
  <1>7. ASSUME NEW name \in Names, NEW operation \in {"complete", "respond", "embed"},
               NEW format \in Formats, Call(name, operation, format)
        PROVE  ChatOk(chat)'
    BY <1>0, <1>7 DEF Call
  <1> QED BY <1>2, <1>3, <1>4, <1>5, <1>6, <1>7 DEF ClientNext

(* and what is in flight what was made of it: the chat grows when nothing   *)
(* is.                                                                      *)
LEMMA SendingStays ==
  ASSUME Sending, [ClientNext]_clientVars
  PROVE  Sending'
  <1>1. ASSUME request' = NoRequest PROVE Sending'
    BY <1>1 DEF Sending, NoRequest
  <1>2. ASSUME UNCHANGED <<chat, request>> PROVE Sending'
    BY <1>2 DEF Sending
  <1>3. CASE Say \/ AnswerTool \/ Receive \/ ReceiveNothing \/ Fail
    BY <1>1, <1>3 DEF Say, AnswerTool, Receive, ReceiveNothing, Fail, Idle
  <1>4. CASE Take \/ Change \/ UNCHANGED clientVars
    BY <1>2, <1>4 DEF Take, Change, clientVars
  <1>5. ASSUME NEW name \in Names, CallNobody(name) PROVE Sending'
    BY <1>2, <1>5 DEF CallNobody
  <1>6. ASSUME NEW name \in Names, NEW operation \in {"complete", "respond", "embed"},
               NEW format \in Formats, Call(name, operation, format)
        PROVE  Sending'
    <2>1. PICK provider : provider = Provider(name)
      OBVIOUS
    <2>2. chat' = chat
      BY <1>6 DEF Call
    <2>3. CASE Complaint(provider, operation, format) # "none"
      <3>1. request' = NoRequest
        BY <1>6, <2>1, <2>3 DEF Call
      <3> QED BY <1>1, <3>1
    <2>4. CASE Complaint(provider, operation, format) = "none"
      <3>1. request' = [provider |-> provider, name |-> name, operation |-> operation,
                        wire |-> ToWire(provider.type, operation, chat)]
        BY <1>6, <2>1, <2>4 DEF Call
      <3>2. /\ Supports(provider.type, operation) /\ ~Rejected(provider, operation, format)
            /\ Serializable(provider.type, operation, chat)
        BY <2>4 DEF Complaint
      <3>3. operation = "complete" => Valid(provider, chat)
        BY <3>2 DEF Rejected
      <3>4. request'.provider = provider /\ request'.operation = operation
            /\ request'.wire = ToWire(provider.type, operation, chat)
        BY <3>1
      <3> QED BY <2>2, <3>2, <3>3, <3>4 DEF Sending
    <2> QED BY <2>3, <2>4
  <1> QED BY <1>3, <1>4, <1>5, <1>6 DEF ClientNext

(* Chats that can be serialized for Google have results with the names of   *)
(* their calls.                                                            *)
LEMMA ResultsAreNamed ==
  ASSUME NEW list, ChatOk(list), Serializable("google", "complete", list)
  PROVE  Conversation(list) \in Seq(Answers(list))
  <1>1. list \in Seq(Messages)
    BY SpokenType DEF ChatOk
  <1>2. PICK all : all = ItemsIn(list) /\ all = {item \in Items : Within(list, item)}
    BY <1>1, ItemsInIs
  <1>3. ASSUME NEW item \in all PROVE item \in Named(list)
    <2> SUFFICES ASSUME item.kind = "result" PROVE NameOf(list, item.id) = item.name
      BY <1>2 DEF Named
    <2>1. CallsOf(list, item.id) # <<>>
      BY <1>2 DEF Serializable, ItemsIn
    <2>2. PICK call \in all : call.kind = "call" /\ call.id = item.id /\ NameOf(list, item.id) = call.name
      BY <1>1, <1>2, <2>1, CallIsThere
    <2>3. item.id[1] # "said"
      <3>1. PICK n : call.id \in Drawn(n)
        BY <1>2, <2>2 DEF ChatOk, Numbered
      <3> QED BY <2>2, <3>1 DEF Drawn
    <2>4. PICK other \in all : other.kind = "call" /\ other.id = item.id /\ other.name = item.name
      BY <1>2, <2>3 DEF ChatOk, Matched, Matches
    <2>5. call.name = other.name
      BY <1>2, <2>2, <2>4 DEF ChatOk, OneName
    <2> QED BY <2>2, <2>4, <2>5
  <1>4. PICK k \in Nat : k = Len(list) /\ DOMAIN list = 1..k /\ list \in [1..k -> Messages]
    BY <1>1, LenProperties
  <1>5. ASSUME NEW i \in 1..k PROVE list[i] \in Answers(list)
    <2>1. PICK items \in Seq(Items) : items = list[i].items
      BY <1>4, MessageIs
    <2>2. \A item : Contains(items, item) => Within(list, item)
      BY <1>4, <2>1 DEF Within
    <2>3. {item \in Items : Contains(items, item)} \subseteq Named(list)
      BY <1>2, <1>3, <2>2
    <2>4. items \in Seq({item \in Items : Contains(items, item)})
      BY ContainsType
    <2>5. items \in Seq(Named(list))
      BY <2>3, <2>4, SeqMonotonic
    <2> QED BY <1>4, <2>1, <2>5 DEF Answers
  <1>6. list \in Seq(Answers(list))
    <2>1. PICK S : S = Answers(list)
      OBVIOUS
    <2>2. list \in [1..k -> S]
      BY <1>4, <1>5, <2>1
    <2>3. list \in Seq(S)
      BY <2>2
    <2> QED BY <2>1, <2>3
  <1>7. Picked(list, WithRole(Talkers)) \in Seq(Answers(list))
    BY <1>6, PickedType
  <1> QED BY <1>1, <1>7, RoleIs DEF Conversation, Talkers

(* What is made of such a chat tells it in full.                            *)
LEMMA ChatIsTold ==
  ASSUME Requested, ChatOk(chat), Sending
  PROVE  ChatOnTheWire
  <1> SUFFICES ASSUME request.operation \in {"complete", "respond"}
               PROVE  InFull(chat, request.wire.system, request.wire.messages)
    BY DEF ChatOnTheWire, InFull
  <1>1. PICK type, operation : type = request.provider.type /\ operation = request.operation
    OBVIOUS
  <1>2. type \in {"openai", "google", "anthropic"} /\ operation \in {"complete", "respond"}
    BY <1>1, TypesThereAre DEF Requested, NoRequest
  <1>3. Supports(type, operation) /\ Serializable(type, operation, chat) /\ request.wire = ToWire(type, operation, chat)
    BY <1>1 DEF Sending
  <1>4. chat \in Seq(Plain) /\ chat \in Seq(Messages)
    BY SpokenType DEF ChatOk
  <1>5. CASE operation = "complete" /\ type = "openai"
    <2>1. request.wire = ToOpenAI(chat)
      BY <1>3, <1>5 DEF ToWire
    <2> QED BY <1>4, <2>1, ToldToOpenAI
  <1>6. CASE operation = "complete" /\ type = "anthropic"
    <2>1. request.wire = ToAnthropic(chat)
      BY <1>3, <1>6 DEF ToWire
    <2> QED BY <1>4, <2>1, ToldToAnthropic
  <1>7. CASE operation = "complete" /\ type = "google"
    <2>1. request.wire = ToGoogle(chat)
      BY <1>3, <1>7 DEF ToWire
    <2>2. Conversation(chat) \in Seq(Answers(chat))
      BY <1>3, <1>7, ResultsAreNamed
    <2> QED BY <1>4, <2>1, <2>2, ToldToGoogle
  <1>8. CASE operation = "respond" /\ type = "google"
    <2>1. request.wire = ToInteractions(chat)
      BY <1>3, <1>8 DEF ToWire
    <2> QED BY <1>4, <2>1, ToldToInteractions
  <1>9. CASE operation = "respond" /\ type = "openai"
    <2>1. request.wire = [system |-> <<>>, messages |-> Steps(chat)]
      BY <1>3, <1>9 DEF ToWire
    <2>2. InFull(chat, <<>>, Steps(chat))
      BY <1>4, ToldToResponses
    <2> QED BY <2>1, <2>2
  <1> QED BY <1>2, <1>3, <1>5, <1>6, <1>7, <1>8, <1>9 DEF Supports

(* The inductive invariant: the providers are those of the names, the chat  *)
(* is one that the caller and the models can have made, and what is in      *)
(* flight was made of it.                                                   *)
ClientInv == Routed /\ Requested /\ ChatOk(chat) /\ Sending

LEMMA SpecClientInv == ClientSpec => []ClientInv
  <1>1. ClientInit => ClientInv
    BY RoutedAtFirst, ChatBegins DEF ClientInv
  <1>2. ClientInv /\ [ClientNext]_clientVars => ClientInv'
    BY RoutedKept, ChatStays, SendingStays DEF ClientInv
  <1> QED BY <1>1, <1>2, PTL DEF ClientSpec

(* For any names, configurations, chats and replies: what is sent for a     *)
(* chat, to the chats of OpenAI, Anthropic and Google as to their Responses *)
(* and Interactions APIs, has each text, refusal, call and result of it     *)
(* once and in order, the calls and results with the names of their         *)
(* functions, even if another provider made them (acompletion and           *)
(* aresponse, and the translators: to_openai, to_anthropic, to_google and   *)
(* the serializers).                                                        *)
THEOREM ChatsAreTold == ClientSpec => []ChatOnTheWire
  <1>1. ClientInv => ChatOnTheWire
    BY ChatIsTold DEF ClientInv
  <1> QED BY <1>1, SpecClientInv, PTL

-----------------------------------------------------------------------------
(* How messages are arranged for Anthropic: sides in turn, and behind each  *)
(* message of the assistant what the tools gave, for as long as they did.   *)
Run(list, p, m) == \A k \in 1..m : p + k <= Len(list) => list[p + k].role = "tool"

Follows(list, sent, i, p) ==
    /\ i = Len(sent) => p = Len(list)
    /\ i < Len(sent) => \A m \in Nat : Run(list, p, m) =>
         /\ \A k \in 1..m : p + k <= Len(list) =>
              /\ k \in 1..Len(sent[i + 1].items)
              /\ sent[i + 1].items[k] = Translated(list[p + k]).items[1]
         /\ Len(list) <= p + m => i + 1 = Len(sent) /\ Len(sent[i + 1].items) = Len(list) - p

Arranged(list, sent) ==
    /\ list = <<>> => sent = <<>>
    /\ list # <<>> => sent # <<>> /\ sent[Len(sent)].role = Side(list[Len(list)].role)
    /\ \A i \in 2..Len(sent) : sent[i].role # sent[i - 1].role
    /\ \A i \in 1..Len(sent) : sent[i].role = "assistant" =>
         \E p \in 1..Len(list) : /\ list[p].role = "assistant"
                                 /\ sent[i].items = Translated(list[p]).items
                                 /\ Follows(list, sent, i, p)

(* A result goes to Anthropic as it is, as that of the user.                *)
LEMMA ToolIs ==
  ASSUME NEW message \in Spoken, message.role = "tool"
  PROVE  /\ Translated(message).role = "user"
         /\ Len(Translated(message).items) = 1
         /\ Translated(message).items[1] = message.items[1]
         /\ message.items[1].kind = "result"
  <1>1. message \in Messages /\ Len(message.items) = 1 /\ message.items[1].kind = "result"
    BY DEF Spoken, Plain
  <1>2. PICK items \in Seq(Items) : items = message.items
    BY <1>1, MessageIs
  <1>3. PICK result : result = items[1]
    OBVIOUS
  <1>4. Len(items) = 1 /\ result \in Items /\ result.kind = "result"
    BY <1>1, <1>2, <1>3, ElementOfSeq
  <1>5. PICK none \in Seq(Items) : none = <<>>
    BY EmptySeq
  <1>6. items = Added(none, result)
    <2>1. Added(none, result) \in Seq(Items) /\ Len(none) = 0
      BY <1>4, <1>5, EmptySeq, AddedIs
    <2>2. Len(Added(none, result)) = Len(none) + 1 /\ Added(none, result)[Len(none) + 1] = result
      BY <1>4, AddedIs
    <2>3. Len(Added(none, result)) = 1 /\ Added(none, result)[1] = result
      BY <2>1, <2>2
    <2>4. \A i \in 1..1 : i = 1
      OBVIOUS
    <2> QED BY <1>3, <1>4, <2>1, <2>3, <2>4, SeqEqual
  <1>7. Picked(items, Aloud) = items
    <2>1. result \in Aloud
      BY <1>4 DEF Aloud
    <2>2. Picked(Added(none, result), Aloud) = Added(Picked(none, Aloud), result)
      BY <1>4, <2>1, PickedMore
    <2> QED BY <1>5, <1>6, <2>2, PickedNone
  <1>8. Mapped(TextOf, items) \in Seq(Items) /\ Len(Mapped(TextOf, items)) = 1
        /\ Mapped(TextOf, items)[1] = TextOf[result]
    <2>1. Len(Mapped(TextOf, items)) = Len(items) /\ Mapped(TextOf, items) \in Seq(Items)
      BY FunctionsAre, MappedIs
    <2>2. \A i \in 1..Len(items) : Mapped(TextOf, items)[i] = TextOf[items[i]]
      BY FunctionsAre, MappedIs
    <2> QED BY <1>3, <1>4, <2>1, <2>2
  <1>9. TextOf[result] = result
    BY <1>4 DEF TextOf
  <1>10. Translated(message).items = Mapped(TextOf, items)
    BY <1>1, <1>2, <1>7, TranslationIs
  <1>11. Translated(message).role = "user"
    BY <1>1, TranslationIs DEF Side
  <1> QED BY <1>1, <1>2, <1>3, <1>8, <1>9, <1>10, <1>11

(* A message behind the others.                                            *)
LEMMA ArrangedBehind ==
  ASSUME NEW list \in Seq(Spoken), NEW x \in Spoken, NEW sent \in Seq(Sides), Arranged(list, sent),
         sent # <<>> => sent[Len(sent)].role # Translated(x).role
  PROVE  Arranged(Added(list, x), Added(sent, Translated(x)))
  <1> DEFINE t == Translated(x)
  <1>0. x \in Messages
    BY DEF Spoken, Plain
  <1>1. t \in Sides /\ t.role = Side(x.role)
    <2>1. TranslationOf[x] \in Sides
      BY <1>0, TranslationIs, ValueIs
    <2> QED BY <1>0, <2>1, TranslationIs
  <1>n. PICK n \in Nat : n = Len(list)
    BY LenProperties
  <1>l. PICK l \in Nat : l = Len(sent)
    BY LenProperties
  <1> DEFINE more == Added(list, x)
             wide == Added(sent, t)
  <1>2. /\ n = Len(list) /\ Len(more) = n + 1
        /\ \A j \in 1..n : more[j] = list[j]
        /\ more[n + 1] = x
    <2>1. Len(more) = n + 1
      BY <1>n, AddedIs
    <2>2. \A j \in 1..n : more[j] = list[j]
      BY <1>n, AddedIs
    <2>3. more[n + 1] = x
      BY <1>n, AddedIs
    <2> HIDE DEF more
    <2> QED BY <1>n, <2>1, <2>2, <2>3
  <1> HIDE DEF t
  <1>3. /\ l = Len(sent) /\ Len(wide) = l + 1
        /\ \A j \in 1..l : wide[j] = sent[j]
        /\ wide[l + 1] = t
    <2>1. Len(wide) = l + 1
      BY <1>1, <1>l, AddedIs
    <2>2. \A j \in 1..l : wide[j] = sent[j]
      BY <1>1, <1>l, AddedIs
    <2>3. wide[l + 1] = t
      BY <1>1, <1>l, AddedIs
    <2> HIDE DEF wide
    <2> QED BY <1>l, <2>1, <2>2, <2>3
  <1> HIDE DEF more, wide
  <1>4. \A j \in 1..l : sent[j].role \in {"user", "assistant"}
    <2>1. \A j \in 1..l : sent[j] \in Sides
      BY <1>3, ElementOfSeq
    <2> QED BY <2>1 DEF Sides, WithRole
  <1>5. l # 0 => sent[l].role # t.role
    BY <1>3, EmptySeq DEF t
  <1>6. \A i \in 2..l : sent[i].role # sent[i - 1].role
    BY <1>3 DEF Arranged
  <1>7. \A i \in 1..l : sent[i].role = "assistant" =>
           \E p \in 1..n : /\ list[p].role = "assistant" /\ sent[i].items = Translated(list[p]).items
                           /\ Follows(list, sent, i, p)
    BY <1>2, <1>3 DEF Arranged
  <1>8. x.role = "tool" => t.role = "user" /\ Len(t.items) = 1
    BY ToolIs DEF t
  <1>9. t.role = "assistant" => x.role = "assistant"
    BY <1>1 DEF Side
  <1>10. more # <<>> /\ wide # <<>> /\ wide[Len(wide)].role = Side(more[Len(more)].role)
    BY <1>1, <1>2, <1>3, EmptySeq
  <1>11. ASSUME NEW i \in 2..l + 1 PROVE wide[i].role # wide[i - 1].role
    <2>1. CASE i \in 2..l
      <3>1. i \in 1..l /\ i - 1 \in 1..l
        BY <2>1
      <3> QED BY <1>3, <1>6, <2>1, <3>1
    <2>2. CASE i = l + 1
      <3>1. i - 1 = l /\ l \in 1..l /\ l # 0
        BY <2>2
      <3> QED BY <1>3, <1>5, <2>2, <3>1
    <2> QED BY <2>1, <2>2
  <1>12. ASSUME NEW i \in 1..l, NEW p \in 1..n, sent[i].role = "assistant", Follows(list, sent, i, p)
         PROVE  Follows(more, wide, i, p)
    <2> SUFFICES ASSUME NEW m \in Nat, Run(more, p, m)
                 PROVE  /\ \A k \in 1..m : p + k <= n + 1 =>
                             /\ k \in 1..Len(wide[i + 1].items)
                             /\ wide[i + 1].items[k] = Translated(more[p + k]).items[1]
                        /\ n + 1 <= p + m => i + 1 = l + 1 /\ Len(wide[i + 1].items) = (n + 1) - p
      <3>1. i # Len(wide)
        BY <1>3
      <3> QED BY <1>2, <1>3, <3>1 DEF Follows
    <2>1. \A k \in 1..m : p + k <= n + 1 => more[p + k].role = "tool"
      BY <1>2 DEF Run
    <2>2. Run(list, p, m)
      <3> SUFFICES ASSUME NEW k \in 1..m, p + k <= n PROVE list[p + k].role = "tool"
        BY <1>2 DEF Run
      <3>1. p + k \in 1..n /\ p + k <= n + 1
        OBVIOUS
      <3> QED BY <1>2, <2>1, <3>1
    <2>3. n + 1 <= p + m => t.role = "user" /\ Len(t.items) = 1
      <3> SUFFICES ASSUME n + 1 <= p + m PROVE x.role = "tool"
        BY <1>8
      <3>1. PICK k \in 1..m : p + k = n + 1
        <4>1. (n + 1) - p \in 1..m /\ p + ((n + 1) - p) = n + 1
          OBVIOUS
        <4> QED BY <4>1
      <3>2. n + 1 <= n + 1
        OBVIOUS
      <3> QED BY <1>2, <2>1, <3>1, <3>2
    <2>4. CASE i = l
      <3>1. p = n /\ wide[i + 1] = t
        BY <1>2, <1>3, <1>12, <2>4 DEF Follows
      <3>2. ASSUME NEW k \in 1..m, p + k <= n + 1
            PROVE  k = 1 /\ more[p + k] = x /\ n + 1 <= p + m
        <4>1. k = 1 /\ p + k = n + 1 /\ n + 1 <= p + m
          BY <3>1, <3>2
        <4> QED BY <1>2, <4>1
      <3>3. ASSUME n + 1 <= p + m PROVE Len(wide[i + 1].items) = (n + 1) - p
        BY <2>3, <3>1, <3>3
      <3>4. ASSUME NEW k \in 1..m, p + k <= n + 1 PROVE k \in 1..Len(wide[i + 1].items)
        <4>1. k = 1 /\ Len(wide[i + 1].items) = 1
          BY <2>3, <3>1, <3>2, <3>4
        <4>2. k \in 1..1
          BY <4>1
        <4> QED BY <4>1, <4>2
      <3>5. \A k \in 1..m : p + k <= n + 1 => wide[i + 1].items[k] = Translated(more[p + k]).items[1]
        BY <3>1, <3>2 DEF t
      <3> QED BY <2>4, <3>3, <3>4, <3>5
    <2>5. CASE i < l
      <3>1. wide[i + 1] = sent[i + 1] /\ i + 1 \in 2..l /\ i + 1 \in 1..l
        BY <1>3, <2>5
      <3>2. /\ \A k \in 1..m : p + k <= n =>
                 k \in 1..Len(sent[i + 1].items) /\ sent[i + 1].items[k] = Translated(list[p + k]).items[1]
            /\ n <= p + m => i + 1 = l
        BY <1>2, <1>3, <1>12, <2>2, <2>5 DEF Follows
      <3>3. ~(n + 1 <= p + m)
        <4> SUFFICES ASSUME n + 1 <= p + m PROVE FALSE
          OBVIOUS
        <4>1. i + 1 = l
          BY <3>2
        <4>2. sent[l].role # sent[i].role
          <5>1. (i + 1) - 1 = i
            OBVIOUS
          <5> QED BY <1>6, <3>1, <4>1, <5>1
        <4>3. sent[l].role = "user" /\ l # 0
          BY <1>4, <1>12, <3>1, <4>1, <4>2
        <4> QED BY <1>5, <2>3, <4>3
      <3>4. ASSUME NEW k \in 1..m, p + k <= n + 1
            PROVE  p + k <= n /\ more[p + k] = list[p + k]
        <4>1. p + k <= n /\ p + k \in 1..n
          BY <3>3, <3>4
        <4> QED BY <1>2, <4>1
      <3> QED BY <3>1, <3>2, <3>3, <3>4
    <2> QED BY <2>4, <2>5
  <1>13. ASSUME NEW i \in 1..l + 1, wide[i].role = "assistant"
         PROVE  \E p \in 1..n + 1 : /\ more[p].role = "assistant"
                                    /\ wide[i].items = Translated(more[p]).items
                                    /\ Follows(more, wide, i, p)
    <2>1. CASE i \in 1..l
      <3>1. sent[i].role = "assistant" /\ wide[i] = sent[i]
        BY <1>3, <1>13, <2>1
      <3>2. PICK p \in 1..n : /\ list[p].role = "assistant" /\ sent[i].items = Translated(list[p]).items
                              /\ Follows(list, sent, i, p)
        BY <1>7, <2>1, <3>1
      <3>3. p \in 1..n + 1 /\ more[p] = list[p]
        BY <1>2
      <3> QED BY <1>12, <2>1, <3>1, <3>2, <3>3
    <2>2. CASE i = l + 1
      <3>1. wide[i] = t /\ more[n + 1].role = "assistant" /\ t = Translated(more[n + 1])
        BY <1>2, <1>3, <1>9, <1>13, <2>2 DEF t
      <3>2. Follows(more, wide, i, n + 1)
        BY <1>2, <1>3, <2>2 DEF Follows
      <3>3. n + 1 \in 1..n + 1
        OBVIOUS
      <3> QED BY <3>1, <3>2, <3>3
    <2> QED BY <2>1, <2>2
  <1>14. Arranged(more, wide)
    BY <1>2, <1>3, <1>10, <1>11, <1>13 DEF Arranged
  <1> QED BY <1>14 DEF more, wide, t

-----------------------------------------------------------------------------
(* A message with more items behind its own.                                *)
LEMMA LongerIs ==
  ASSUME NEW message \in Sides, NEW items \in Seq(Items)
  PROVE  /\ Longer(message, items) \in Sides /\ Longer(message, items).role = message.role
         /\ Len(message.items) \in Nat /\ Len(items) \in Nat
         /\ Len(Longer(message, items).items) = Len(message.items) + Len(items)
         /\ \A k \in 1..Len(message.items) : Longer(message, items).items[k] = message.items[k]
         /\ \A k \in 1..Len(items) : Longer(message, items).items[Len(message.items) + k] = items[k]
  <1>1. PICK own \in Seq(Items) : own = message.items
    BY SidesAre, MessageIs
  <1>2. PICK all : all = Both(own, items)
    OBVIOUS
  <1>3. Longer(message, items) = [role |-> message.role, items |-> all]
    BY <1>1, <1>2 DEF Longer
  <1>4. PICK a \in Nat, b \in Nat : a = Len(own) /\ b = Len(items)
    BY LenProperties
  <1>5. all \in Seq(Items) /\ Len(all) = a + b
    BY <1>2, <1>4, BothIs
  <1>6. \A i \in 1..a + b : all[i] = IF i <= a THEN own[i] ELSE items[i - a]
    <2>1. \A i \in 1..Len(own) + Len(items) :
            Both(own, items)[i] = IF i <= Len(own) THEN own[i] ELSE items[i - Len(own)]
      BY BothIs
    <2> QED BY <1>2, <1>4, <2>1
  <1>7. \A k \in 1..a : all[k] = own[k]
    <2>1. \A k \in 1..a : k \in 1..a + b /\ k <= a
      OBVIOUS
    <2> QED BY <1>6, <2>1
  <1>8. \A k \in 1..b : all[a + k] = items[k]
    <2>1. \A k \in 1..b : a + k \in 1..a + b /\ ~(a + k <= a) /\ (a + k) - a = k
      OBVIOUS
    <2> QED BY <1>6, <2>1
  <1>9. Longer(message, items) \in Sides
    BY <1>3, <1>5 DEF Sides, WithRole, Messages
  <1> QED BY <1>1, <1>3, <1>4, <1>5, <1>7, <1>8, <1>9

(* A message that goes into the last one.                                  *)
LEMMA ArrangedInto ==
  ASSUME NEW list \in Seq(Spoken), NEW x \in Spoken, NEW front \in Seq(Sides), NEW last \in Sides,
         Arranged(list, Added(front, last)), last.role = Translated(x).role, Alternates(Added(list, x))
  PROVE  Arranged(Added(list, x), Added(front, Longer(last, Translated(x).items)))
  <1> DEFINE t == Translated(x)
  <1>0. x \in Messages
    BY DEF Spoken, Plain
  <1>1. t \in Sides /\ t.role = Side(x.role)
    <2>1. TranslationOf[x] \in Sides
      BY <1>0, TranslationIs, ValueIs
    <2> QED BY <1>0, <2>1, TranslationIs
  <1>n. PICK n \in Nat : n = Len(list)
    BY LenProperties
  <1>l. PICK l \in Nat : l = Len(front) + 1 /\ l - 1 = Len(front) /\ l # 0
    <2>1. Len(front) \in Nat
      BY LenProperties
    <2> QED BY <2>1
  <1> DEFINE more == Added(list, x)
             sent == Added(front, last)
             long == Longer(last, t.items)
             wide == Added(front, long)
  <1>2. /\ n = Len(list) /\ Len(more) = n + 1
        /\ \A j \in 1..n : more[j] = list[j]
        /\ more[n + 1] = x
    <2>1. Len(more) = n + 1
      BY <1>n, AddedIs
    <2>2. \A j \in 1..n : more[j] = list[j]
      BY <1>n, AddedIs
    <2>3. more[n + 1] = x
      BY <1>n, AddedIs
    <2> HIDE DEF more
    <2> QED BY <1>n, <2>1, <2>2, <2>3
  <1> HIDE DEF t
  <1>3. t.items \in Seq(Items) /\ Len(t.items) \in Nat
    BY <1>1, SidesAre, MessageIs, LenProperties
  <1>4. /\ long \in Sides /\ long.role = last.role
        /\ Len(last.items) \in Nat
        /\ Len(long.items) = Len(last.items) + Len(t.items)
        /\ \A k \in 1..Len(last.items) : long.items[k] = last.items[k]
        /\ \A k \in 1..Len(t.items) : long.items[Len(last.items) + k] = t.items[k]
    BY <1>3, LongerIs
  <1> HIDE DEF long
  <1>5. /\ sent \in Seq(Sides) /\ Len(sent) = l /\ Len(wide) = l
        /\ \A j \in 1..l - 1 : sent[j] = wide[j]
        /\ sent[l] = last /\ wide[l] = long
    <2>1. Len(wide) = Len(front) + 1 /\ Len(sent) = Len(front) + 1 /\ sent \in Seq(Sides)
      BY <1>4, AddedIs
    <2>2. \A j \in 1..Len(front) : wide[j] = front[j]
      BY <1>4, AddedIs
    <2>3. \A j \in 1..Len(front) : sent[j] = front[j]
      BY AddedIs
    <2>4. wide[Len(front) + 1] = long
      BY <1>4, AddedIs
    <2>5. sent[Len(front) + 1] = last
      BY AddedIs
    <2> HIDE DEF wide, sent
    <2> QED BY <1>l, <2>1, <2>2, <2>3, <2>4, <2>5
  <1>6. Arranged(list, sent) /\ Alternates(more) /\ last.role = t.role
    BY DEF t
  <1> HIDE DEF more, sent, wide
  <1>7. n # 0 /\ last.role = Side(list[n].role)
    <2>1. sent # <<>>
      BY <1>l, <1>5, EmptySeq
    <2>2. list # <<>>
      BY <1>6, <2>1 DEF Arranged
    <2>3. n # 0
      BY <1>n, <2>2, EmptySeq
    <2> QED BY <1>n, <1>5, <1>6, <2>2, <2>3 DEF Arranged
  <1>8. last.role = "user"
    <2>1. last.role \in {"user", "assistant"}
      BY DEF Sides, WithRole
    <2> SUFFICES ASSUME last.role = "assistant" PROVE FALSE
      BY <2>1
    <2>2. list[n].role = "assistant" /\ x.role = "assistant"
      BY <1>1, <1>6, <1>7 DEF Side
    <2>3. n + 1 \in 2..n + 1 /\ (n + 1) - 1 = n /\ n \in 1..n
      BY <1>7
    <2>4. more[n + 1].role = more[n].role => more[n + 1].role = "tool"
      BY <1>2, <1>6, <2>3 DEF Alternates
    <2> QED BY <1>2, <2>2, <2>3, <2>4
  <1>9. x.role = "tool" => Len(t.items) = 1
    BY ToolIs DEF t
  <1>10. more # <<>> /\ wide # <<>> /\ wide[Len(wide)].role = Side(more[Len(more)].role)
    <2>1. more # <<>> /\ wide # <<>>
      <3>1. n + 1 # 0
        OBVIOUS
      <3> QED BY <1>l, <1>2, <1>5, <3>1, EmptySeq
    <2> QED BY <1>1, <1>2, <1>4, <1>5, <1>6, <2>1
  <1>11. \A i \in 1..l : wide[i].role = sent[i].role
    <2>1. \A i \in 1..l : i \in 1..l - 1 \/ i = l
      OBVIOUS
    <2> QED BY <1>4, <1>5, <2>1
  <1>12. ASSUME NEW i \in 2..l PROVE wide[i].role # wide[i - 1].role
    <2>1. i \in 1..l /\ i - 1 \in 1..l
      OBVIOUS
    <2>2. sent[i].role # sent[i - 1].role
      BY <1>5, <1>6 DEF Arranged
    <2> QED BY <1>11, <2>1, <2>2
  <1>13. ASSUME NEW i \in 1..l - 1, NEW p \in 1..n, sent[i].role = "assistant", Follows(list, sent, i, p)
         PROVE  Follows(more, wide, i, p)
    <2> SUFFICES ASSUME NEW m \in Nat, Run(more, p, m)
                 PROVE  /\ \A k \in 1..m : p + k <= n + 1 =>
                             /\ k \in 1..Len(wide[i + 1].items)
                             /\ wide[i + 1].items[k] = Translated(more[p + k]).items[1]
                        /\ n + 1 <= p + m => i + 1 = l /\ Len(wide[i + 1].items) = (n + 1) - p
      <3>1. i # Len(wide)
        BY <1>5
      <3> QED BY <1>2, <1>5, <3>1 DEF Follows
    <2>1. \A k \in 1..m : p + k <= n + 1 => more[p + k].role = "tool"
      BY <1>2 DEF Run
    <2>2. Run(list, p, m)
      <3> SUFFICES ASSUME NEW k \in 1..m, p + k <= n PROVE list[p + k].role = "tool"
        BY <1>2 DEF Run
      <3>1. p + k \in 1..n /\ p + k <= n + 1
        OBVIOUS
      <3> QED BY <1>2, <2>1, <3>1
    <2>3. ASSUME n + 1 <= p + m
          PROVE  i + 1 = l /\ Len(t.items) = 1 /\ Len(last.items) = n - p
      <3>1. PICK k \in 1..m : p + k = n + 1
        <4>1. (n + 1) - p \in 1..m /\ p + ((n + 1) - p) = n + 1
          BY <2>3
        <4> QED BY <4>1
      <3>2. x.role = "tool"
        <4>1. n + 1 <= n + 1
          OBVIOUS
        <4> QED BY <1>2, <2>1, <3>1, <4>1
      <3>3. n <= p + m /\ i < l
        BY <2>3
      <3>4. i + 1 = l /\ Len(sent[i + 1].items) = n - p
        BY <1>2, <1>5, <1>13, <2>2, <3>3 DEF Follows
      <3> QED BY <1>5, <1>9, <3>2, <3>4
    <2>4. \A k \in 1..m : p + k <= n =>
            k \in 1..Len(sent[i + 1].items) /\ sent[i + 1].items[k] = Translated(list[p + k]).items[1]
      <3>1. i < l
        OBVIOUS
      <3> QED BY <1>2, <1>5, <1>13, <2>2, <3>1 DEF Follows
    <2>5. ASSUME NEW k \in 1..Len(sent[i + 1].items)
          PROVE  k \in 1..Len(wide[i + 1].items) /\ wide[i + 1].items[k] = sent[i + 1].items[k]
      <3>1. CASE i + 1 = l
        <4>1. k \in 1..Len(last.items)
          BY <1>5, <2>5, <3>1
        <4>2. k \in 1..Len(long.items)
          <5>1. PICK a \in Nat, b \in Nat : a = Len(last.items) /\ b = Len(t.items)
            BY <1>3, <1>4
          <5>2. k \in 1..a
            BY <4>1, <5>1
          <5>3. \A j \in 1..a : j \in 1..a + b
            OBVIOUS
          <5>4. Len(long.items) = a + b
            BY <1>4, <5>1
          <5> QED BY <5>2, <5>3, <5>4
        <4> QED BY <1>4, <1>5, <3>1, <4>1, <4>2
      <3>2. CASE i + 1 # l
        <4>1. i + 1 \in 1..l - 1
          BY <3>2
        <4> QED BY <1>5, <2>5, <4>1
      <3> QED BY <3>1, <3>2
    <2>6. ASSUME NEW k \in 1..m, p + k <= n
          PROVE  k \in 1..Len(wide[i + 1].items) /\ wide[i + 1].items[k] = Translated(more[p + k]).items[1]
      <3>1. p + k \in 1..n
        BY <2>6
      <3>2. more[p + k] = list[p + k]
        BY <1>2, <3>1
      <3> QED BY <2>4, <2>5, <2>6, <3>2
    <2>7. ASSUME NEW k \in 1..m, p + k = n + 1
          PROVE  k \in 1..Len(wide[i + 1].items) /\ wide[i + 1].items[k] = Translated(more[p + k]).items[1]
      <3>1. n + 1 <= p + m
        BY <2>7
      <3>2. i + 1 = l /\ Len(t.items) = 1 /\ Len(last.items) = n - p /\ k = (n - p) + 1
        BY <2>3, <2>7, <3>1
      <3>3. 1 \in 1..Len(t.items) /\ Len(last.items) + 1 = k
        BY <3>2
      <3>4. long.items[k] = t.items[1]
        BY <1>4, <3>3
      <3>5. k \in 1..Len(long.items)
        BY <1>4, <3>2
      <3> QED BY <1>2, <1>5, <2>7, <3>2, <3>4, <3>5 DEF t
    <2>8. ASSUME n + 1 <= p + m
          PROVE  i + 1 = l /\ Len(wide[i + 1].items) = (n + 1) - p
      <3>1. i + 1 = l /\ Len(t.items) = 1 /\ Len(last.items) = n - p
        BY <2>3, <2>8
      <3>2. Len(long.items) = (n - p) + 1
        BY <1>4, <3>1
      <3> QED BY <1>5, <3>1, <3>2
    <2>9. \A k \in 1..m : p + k <= n + 1 => p + k <= n \/ p + k = n + 1
      OBVIOUS
    <2> QED BY <2>6, <2>7, <2>8, <2>9
  <1>14. ASSUME NEW i \in 1..l, wide[i].role = "assistant"
         PROVE  \E p \in 1..n + 1 : /\ more[p].role = "assistant"
                                    /\ wide[i].items = Translated(more[p]).items
                                    /\ Follows(more, wide, i, p)
    <2>1. i # l
      BY <1>4, <1>5, <1>8, <1>14
    <2>2. i \in 1..l - 1 /\ sent[i].role = "assistant" /\ wide[i] = sent[i]
      BY <1>5, <1>11, <1>14, <2>1
    <2>3. PICK p \in 1..n : /\ list[p].role = "assistant" /\ sent[i].items = Translated(list[p]).items
                            /\ Follows(list, sent, i, p)
      BY <1>2, <1>5, <1>6, <2>2 DEF Arranged
    <2>4. p \in 1..n + 1 /\ more[p] = list[p]
      BY <1>2
    <2> QED BY <1>13, <2>2, <2>3, <2>4
  <1>15. Arranged(more, wide)
    BY <1>2, <1>5, <1>10, <1>12, <1>14 DEF Arranged
  <1> QED BY <1>15 DEF more, wide, long, t

-----------------------------------------------------------------------------
(* Those in turn were in turn one message before.                           *)
LEMMA AlternatesBefore ==
  ASSUME NEW list \in Seq(Spoken), NEW x \in Spoken, Alternates(Added(list, x))
  PROVE  Alternates(list)
  <1>1. PICK n \in Nat : n = Len(list)
    BY LenProperties
  <1> DEFINE more == Added(list, x)
  <1>3. Len(more) = n + 1
    BY <1>1, AddedIs
  <1>4. \A j \in 1..n : more[j] = list[j]
    BY <1>1, AddedIs
  <1>2. Alternates(more)
    OBVIOUS
  <1> HIDE DEF more
  <1>5. ASSUME NEW i \in 2..n, list[i].role = list[i - 1].role PROVE list[i].role = "tool"
    <2>1. i \in 1..n /\ i - 1 \in 1..n /\ i \in 2..n + 1
      OBVIOUS
    <2>2. more[i].role = more[i - 1].role => more[i].role = "tool"
      BY <1>2, <1>3, <2>1 DEF Alternates
    <2> QED BY <1>4, <1>5, <2>1, <2>2
  <1> QED BY <1>1, <1>5 DEF Alternates

(* So a conversation of sides in turn is arranged for Anthropic.           *)
LEMMA MergedIsArranged ==
  ASSUME NEW list \in Seq(Spoken), Alternates(list)
  PROVE  Arranged(list, Merged(list))
  <1> DEFINE T == {s \in Seq(Spoken) : Alternates(s) => Arranged(s, Merged(s))}
  <1>1. <<>> \in T
    <2>1. PICK none \in Seq(Spoken) : none = <<>> /\ Len(none) = 0 /\ Merged(none) = none
      BY EmptySeq, MergedNone
    <2>2. Arranged(none, none)
      BY <2>1 DEF Arranged
    <2> QED BY <2>1, <2>2
  <1>2. ASSUME NEW s \in T, NEW x \in Spoken PROVE Added(s, x) \in T
    <2>1. Added(s, x) \in Seq(Spoken) /\ s \in Seq(Spoken) /\ s \in Seq(Messages) /\ x \in Messages
      <3>1. s \in Seq(Spoken)
        OBVIOUS
      <3> QED BY <3>1, AddedIs, SpokenType DEF Spoken, Plain
    <2> SUFFICES ASSUME Alternates(Added(s, x)) PROVE Arranged(Added(s, x), Merged(Added(s, x)))
      BY <2>1
    <2>2. Arranged(s, Merged(s))
      BY <2>1, AlternatesBefore
    <2>3. PICK sent \in Seq(Sides) : sent = Merged(s)
      BY <2>1, MergedKeeps
    <2>4. PICK t \in Sides : t = Translated(x)
      <3>1. TranslationOf[x] \in Sides
        BY <2>1, TranslationIs, ValueIs
      <3> QED BY <2>1, <3>1, TranslationIs
    <2>5. Merged(Added(s, x)) = Merge(sent, t)
      BY <2>1, <2>3, <2>4, MergedMore
    <2> HIDE DEF T
    <2>6. CASE sent = <<>>
      <3>1. Merge(sent, t) = Added(sent, t)
        BY <2>6, MergeIs
      <3>2. Arranged(Added(s, x), Added(sent, Translated(x)))
        BY <2>1, <2>2, <2>3, <2>6, ArrangedBehind
      <3> QED BY <2>4, <2>5, <3>1, <3>2
    <2>7. CASE sent # <<>>
      <3>1. PICK front \in Seq(Sides), last \in Sides : sent = Added(front, last)
        BY <2>7, SequenceEmptyOrAppend DEF Added
      <3>2. CASE last.role # t.role
        <4>1. Merge(sent, t) = Added(sent, t)
          BY <3>1, <3>2, MergeIs
        <4>2. sent[Len(sent)].role # Translated(x).role
          <5>1. Last(sent) = last
            BY <3>1, FrontIs
          <5> QED BY <2>4, <3>2, <5>1 DEF Last
        <4>3. Arranged(Added(s, x), Added(sent, Translated(x)))
          BY <2>1, <2>2, <2>3, <4>2, ArrangedBehind
        <4> QED BY <2>4, <2>5, <4>1, <4>3
      <3>3. CASE last.role = t.role
        <4>1. Merge(sent, t) = Added(front, Longer(last, t.items))
          BY <3>1, <3>3, MergeIs
        <4>2. Arranged(s, Added(front, last)) /\ last.role = Translated(x).role
          BY <2>2, <2>3, <2>4, <3>1, <3>3
        <4>3. Arranged(Added(s, x), Added(front, Longer(last, Translated(x).items)))
          BY <2>1, <4>2, ArrangedInto
        <4> QED BY <2>4, <2>5, <4>1, <4>3
      <3> QED BY <3>2, <3>3
    <2> QED BY <2>6, <2>7
  <1>3. T = Seq(Spoken)
    <2>1. T \in SUBSET Seq(Spoken)
      OBVIOUS
    <2> HIDE DEF T
    <2> QED BY <1>1, <1>2, <2>1, AllLists
  <1> QED BY <1>3

(* Users do not call, in what is sent as in what is said.                  *)
Grouped == {message \in Sides : message.role = "user" => message.items \in Seq(Uncalled)}

(* A text of an item that is no call is none either,                        *)
LEMMA UncalledText ==
  ASSUME NEW list \in Seq(Uncalled)
  PROVE  Mapped(TextOf, list) \in Seq(Uncalled)
  <1>1. Uncalled \subseteq Items
    BY DEF Uncalled
  <1>2. list \in Seq(Items)
    BY <1>1, SeqMonotonic
  <1>3. PICK k \in Nat : k = Len(list)
    BY LenProperties
  <1>4. PICK texts \in Seq(Items) : texts = Mapped(TextOf, list) /\ Len(texts) = k
    BY <1>2, <1>3, FunctionsAre, MappedIs
  <1>5. \A i \in 1..k : texts[i] = TextOf[list[i]]
    BY <1>2, <1>3, <1>4, FunctionsAre, MappedIs
  <1>6. \A item \in Uncalled : TextOf[item] \in Uncalled
    <2>1. \A item \in Uncalled : TextOf[item] \in Items
      BY <1>1, FunctionsAre, ValueIs
    <2>2. \A item \in Uncalled : TextOf[item].kind # "call"
      BY DEF TextOf, Uncalled, Items
    <2> QED BY <2>1, <2>2 DEF Uncalled
  <1>7. \A i \in 1..k : list[i] \in Uncalled
    BY <1>3, ElementOfSeq
  <1>8. texts \in [1..k -> Uncalled]
    <2>1. texts \in [1..k -> Items]
      BY <1>4, LenProperties
    <2> QED BY <1>5, <1>6, <1>7, <2>1
  <1>9. \A S : texts \in [1..k -> S] => texts \in Seq(S)
    OBVIOUS
  <1> QED BY <1>4, <1>8, <1>9

(* so that what is sent for a message of another than the assistant,        *)
LEMMA TranslatedIsGrouped ==
  ASSUME NEW x \in Spoken
  PROVE  Translated(x) \in Grouped
  <1>1. x \in Messages
    BY DEF Spoken, Plain
  <1>2. Translated(x) \in Sides
    <2>1. TranslationOf[x] \in Sides
      BY <1>1, TranslationIs, ValueIs
    <2> QED BY <1>1, <2>1, TranslationIs
  <1>3. Translated(x).role = Side(x.role) /\ Translated(x).items = Mapped(TextOf, Picked(x.items, Aloud))
    BY <1>1, TranslationIs
  <1>4. ASSUME x.role # "assistant" PROVE Translated(x).items \in Seq(Uncalled)
    <2>1. x.items \in Seq(Uncalled)
      BY <1>4 DEF Spoken
    <2>2. Picked(x.items, Aloud) \in Seq(Uncalled)
      BY <2>1, PickedType
    <2> QED BY <1>3, <2>2, UncalledText
  <1>5. Translated(x).role = "user" => x.role # "assistant"
    BY <1>3 DEF Side
  <1> QED BY <1>2, <1>4, <1>5 DEF Grouped

(* and what they are merged to, has no calls.                               *)
LEMMA MergedIsGrouped ==
  ASSUME NEW list \in Seq(Spoken)
  PROVE  Merged(list) \in Seq(Grouped)
  <1>0. Grouped \subseteq Sides
    BY DEF Grouped
  <1> DEFINE T == {s \in Seq(Spoken) : Merged(s) \in Seq(Grouped)}
  <1>1. <<>> \in T
    BY EmptySeq, MergedNone
  <1>2. ASSUME NEW s \in T, NEW x \in Spoken PROVE Added(s, x) \in T
    <2>1. Added(s, x) \in Seq(Spoken)
      BY AddedIs
    <2>2. PICK t \in Grouped : t = Translated(x)
      BY TranslatedIsGrouped
    <2>3. PICK sent \in Seq(Grouped) : sent = Merged(s)
      OBVIOUS
    <2>4. Merged(Added(s, x)) = Merge(sent, t)
      BY <2>2, <2>3, MergedMore
    <2> HIDE DEF T
    <2>5. CASE sent = <<>>
      <3>1. Merge(sent, t) = Added(sent, t)
        <4>1. sent \in Seq(Sides) /\ t \in Sides
          BY <1>0, SeqMonotonic
        <4> QED BY <2>5, <4>1, MergeIs
      <3> QED BY <2>1, <2>4, <3>1, AddedIs DEF T
    <2>6. CASE sent # <<>>
      <3>1. PICK front \in Seq(Grouped), last \in Grouped : sent = Added(front, last)
        BY <2>6, SequenceEmptyOrAppend DEF Added
      <3>2. front \in Seq(Sides)
        BY <1>0, SeqMonotonic
      <3>3. CASE last.role # t.role
        <4>1. Merge(sent, t) = Added(sent, t)
          BY <1>0, <3>1, <3>2, <3>3, MergeIs
        <4> QED BY <2>1, <2>4, <4>1, AddedIs DEF T
      <3>4. CASE last.role = t.role
        <4>1. Merge(sent, t) = Added(front, Longer(last, t.items)) /\ Longer(last, t.items) \in Sides
          BY <1>0, <3>1, <3>2, <3>4, MergeIs
        <4>2. Longer(last, t.items) \in Grouped
          <5>1. Longer(last, t.items).role = last.role /\ Longer(last, t.items).items = Both(last.items, t.items)
            BY DEF Longer
          <5>2. last.role = "user" => last.items \in Seq(Uncalled) /\ t.items \in Seq(Uncalled)
            BY <3>4 DEF Grouped
          <5>3. last.role = "user" => Both(last.items, t.items) \in Seq(Uncalled)
            BY <5>2, BothIs
          <5> QED BY <4>1, <5>1, <5>3 DEF Grouped
        <4> QED BY <2>1, <2>4, <4>1, <4>2, AddedIs DEF T
      <3> QED BY <3>3, <3>4
    <2> QED BY <2>5, <2>6
  <1>3. T = Seq(Spoken)
    <2>1. T \in SUBSET Seq(Spoken)
      OBVIOUS
    <2> HIDE DEF T
    <2> QED BY <1>1, <1>2, <2>1, AllLists
  <1> QED BY <1>3

(* Calls are told as they are.                                             *)
LEMMA CallsOfTranslated ==
  ASSUME NEW message \in Messages
  PROVE  OfKind({"call"}, Translated(message).items) = OfKind({"call"}, message.items)
  <1> DEFINE C == OfThe("call", Items)
             T == {s \in Seq(Items) : Picked(Mapped(TextOf, Picked(s, Aloud)), C) = Picked(s, C)}
  <1>1. <<>> \in T
    BY EmptySeq, PickedNone, MappedNone
  <1>2. ASSUME NEW s \in T, NEW x \in Items PROVE Added(s, x) \in T
    <2>1. Added(s, x) \in Seq(Items)
      BY AddedIs
    <2>2. PICK told \in Seq(Items) : told = Picked(s, Aloud)
      BY PickedType
    <2>3. Picked(Added(s, x), Aloud) = IF x \in Aloud THEN Added(told, x) ELSE told
      BY <2>2, PickedMore
    <2>4. Picked(Added(s, x), C) = IF x \in C THEN Added(Picked(s, C), x) ELSE Picked(s, C)
      BY PickedMore
    <2>5. PICK texts \in Seq(Items) : texts = Mapped(TextOf, told)
      BY FunctionsAre, MappedIs
    <2>6. Mapped(TextOf, Added(told, x)) = Added(texts, TextOf[x])
      BY <2>5, FunctionsAre, MappedMore
    <2>7. PICK y \in Items : y = TextOf[x]
      BY FunctionsAre, ValueIs
    <2>8. Picked(Added(texts, y), C) = IF y \in C THEN Added(Picked(texts, C), y) ELSE Picked(texts, C)
      BY PickedMore
    <2>9. (x \in C => y = x /\ x \in Aloud) /\ (y \in C => x \in C)
      BY <2>7 DEF OfThe, TextOf, Aloud, Items
    <2>10. Picked(texts, C) = Picked(s, C)
      BY <2>2, <2>5
    <2> HIDE DEF T, C
    <2>11. Picked(Mapped(TextOf, Picked(Added(s, x), Aloud)), C) = Picked(Added(s, x), C)
      <3>1. CASE x \in C
        BY <2>3, <2>4, <2>6, <2>7, <2>8, <2>9, <2>10, <3>1
      <3>2. CASE x \notin C /\ x \in Aloud
        BY <2>3, <2>4, <2>6, <2>7, <2>8, <2>9, <2>10, <3>2
      <3>3. CASE x \notin C /\ x \notin Aloud
        BY <2>3, <2>4, <2>5, <2>10, <3>3
      <3> QED BY <3>1, <3>2, <3>3
    <2> QED BY <2>1, <2>11 DEF T
  <1>3. T = Seq(Items)
    <2>1. T \in SUBSET Seq(Items)
      OBVIOUS
    <2> HIDE DEF T
    <2> QED BY <1>1, <1>2, <2>1, AllLists
  <1>4. message.items \in Seq(Items)
    BY MessageIs
  <1>5. PICK told \in Seq(Items) : told = Translated(message).items
        /\ told = Mapped(TextOf, Picked(message.items, Aloud))
    <2>1. Picked(message.items, Aloud) \in Seq(Items)
      BY <1>4, PickedType
    <2>2. Mapped(TextOf, Picked(message.items, Aloud)) \in Seq(Items)
      BY <2>1, FunctionsAre, MappedIs
    <2> QED BY <2>2, TranslationIs
  <1>6. OfKind({"call"}, told) = Picked(told, C) /\ OfKind({"call"}, message.items) = Picked(message.items, C)
    BY <1>4, KindIs
  <1> QED BY <1>3, <1>4, <1>5, <1>6

(* The conversation is of messages that are said.                           *)
LEMMA ConversationIsSpoken ==
  ASSUME NEW list \in Seq(Spoken)
  PROVE  Conversation(list) \in Seq(Spoken)
  <1>1. list \in Seq(Messages)
    BY SpokenType
  <1>2. Conversation(list) = Picked(list, WithRole({"user", "assistant", "tool", "function"}))
    BY <1>1, RoleIs DEF Conversation
  <1> QED BY <1>2, PickedType

(* Of an arranged conversation that has its results behind their calls, so  *)
(* has what is sent.                                                        *)
LEMMA AnthropicIsArranged ==
  ASSUME NEW list \in Seq(Spoken), Alternates(list), Answered(list), NEW sent, sent = Merged(list),
         NEW i \in DOMAIN sent, NEW calls, calls = OfKind({"call"}, sent[i].items)
  PROVE  /\ i > 1 => sent[i].role # sent[i - 1].role
         /\ \A k \in DOMAIN calls : /\ i < Len(sent) /\ k <= Len(sent[i + 1].items)
                                    /\ sent[i + 1].items[k].kind = "result"
                                    /\ sent[i + 1].items[k].id = calls[k].id
  <1>1. sent \in Seq(Grouped) /\ Arranged(list, sent)
    BY MergedIsGrouped, MergedIsArranged
  <1>2. PICK l \in Nat, n \in Nat : l = Len(sent) /\ n = Len(list)
    BY <1>1, LenProperties
  <1>3. i \in 1..l /\ DOMAIN list = 1..n
    BY <1>1, <1>2, LenProperties
  <1>4. sent[i] \in Grouped
    BY <1>1, <1>2, <1>3, ElementOfSeq
  <1>5. i > 1 => sent[i].role # sent[i - 1].role
    <2>1. i > 1 => i \in 2..l
      BY <1>3
    <2> QED BY <1>1, <1>2, <2>1 DEF Arranged
  <1>6. CASE sent[i].role = "user"
    <2>1. sent[i].items \in Seq(Uncalled)
      BY <1>4, <1>6 DEF Grouped
    <2>2. calls = Picked(sent[i].items, OfThe("call", Uncalled))
      BY <2>1, KindIs
    <2>3. Uncalled \cap OfThe("call", Uncalled) = {}
      BY DEF Uncalled, OfThe
    <2>4. calls = <<>>
      BY <2>1, <2>2, <2>3, PickedAll
    <2>5. DOMAIN calls = {}
      BY <2>4, EmptySeq
    <2> QED BY <1>5, <2>5
  <1>7. CASE sent[i].role # "user"
    <2>1. sent[i].role = "assistant"
      BY <1>4, <1>7 DEF Grouped, Sides, WithRole
    <2>2. PICK p \in 1..n : /\ list[p].role = "assistant" /\ sent[i].items = Translated(list[p]).items
                            /\ Follows(list, sent, i, p)
      BY <1>1, <1>2, <1>3, <2>1 DEF Arranged
    <2>3. list[p] \in Messages
      <3>1. list[p] \in Spoken
        BY <1>2, ElementOfSeq
      <3> QED BY <3>1 DEF Spoken, Plain
    <2>4. calls = OfKind({"call"}, list[p].items)
      BY <2>2, <2>3, CallsOfTranslated
    <2>5. calls \in Seq(Items)
      <3>1. list[p].items \in Seq(Items)
        BY <2>3, MessageIs
      <3>2. calls = Picked(list[p].items, OfThe("call", Items))
        BY <2>4, <3>1, KindIs
      <3> QED BY <3>1, <3>2, PickedType
    <2>6. PICK m \in Nat : DOMAIN calls = 1..m
      BY <2>5, LenProperties
    <2>7. \A k \in 1..m : /\ p + k \in 1..n /\ list[p + k].role = "tool"
                          /\ list[p + k].items[1].id = calls[k].id
      <3>1. p \in DOMAIN list
        BY <1>3, <2>2
      <3>2. \A k \in DOMAIN calls : /\ p + k \in DOMAIN list /\ list[p + k].role = "tool"
                                    /\ list[p + k].items[1].id = calls[k].id
        BY <2>4, <3>1 DEF Answered
      <3> QED BY <1>3, <2>6, <3>2
    <2>8. Run(list, p, m)
      BY <2>7 DEF Run
    <2> SUFFICES ASSUME NEW k \in 1..m
                 PROVE  /\ i < l /\ k <= Len(sent[i + 1].items)
                        /\ sent[i + 1].items[k].kind = "result"
                        /\ sent[i + 1].items[k].id = calls[k].id
      BY <1>2, <1>5, <2>6
    <2>9. p + k \in 1..n /\ p + k <= n /\ p # n
      <3>1. p + k \in 1..n
        BY <2>7
      <3> QED BY <3>1
    <2>10. i < l
      BY <1>2, <1>3, <2>2, <2>9 DEF Follows
    <2>11. k \in 1..Len(sent[i + 1].items) /\ sent[i + 1].items[k] = Translated(list[p + k]).items[1]
      BY <1>2, <2>2, <2>8, <2>9, <2>10 DEF Follows
    <2>12. k <= Len(sent[i + 1].items)
      <3>1. i + 1 \in 1..l
        BY <1>3, <2>10
      <3>2. sent[i + 1] \in Grouped
        BY <1>1, <1>2, <3>1, ElementOfSeq
      <3>3. sent[i + 1].items \in Seq(Items)
        BY <3>2, SidesAre, MessageIs DEF Grouped
      <3>4. PICK b \in Nat : b = Len(sent[i + 1].items)
        BY <3>3, LenProperties
      <3> QED BY <2>11, <3>4
    <2>13. list[p + k] \in Spoken
      BY <1>2, <2>9, ElementOfSeq
    <2>14. /\ Translated(list[p + k]).items[1] = list[p + k].items[1]
           /\ list[p + k].items[1].kind = "result"
      BY <2>7, <2>13, ToolIs
    <2> QED BY <2>7, <2>10, <2>11, <2>12, <2>14
  <1> QED BY <1>6, <1>7

(* If the tools answered behind their calls, Anthropic gets the sides in    *)
(* turn and, behind the calls of the assistant, the results with their ids  *)
(* in the order of the calls, though results of many messages are merged    *)
(* into one of the user (_validate_messages, serialize_messages).           *)
THEOREM AnthropicAccepts == ClientSpec => []AcceptedByAnthropic
  <1>1. ASSUME ChatOk(chat), Sending PROVE AcceptedByAnthropic
    <2> SUFFICES ASSUME request.operation = "complete", request.provider.type = "anthropic",
                        Answered(Conversation(chat)), NEW i \in DOMAIN request.wire.messages
                 PROVE  LET messages == request.wire.messages
                            calls == OfKind({"call"}, messages[i].items)
                        IN  /\ i > 1 => messages[i].role # messages[i-1].role
                            /\ \A k \in DOMAIN calls :
                                 /\ i < Len(messages) /\ k <= Len(messages[i+1].items)
                                 /\ messages[i+1].items[k].kind = "result"
                                 /\ messages[i+1].items[k].id = calls[k].id
      BY DEF AcceptedByAnthropic
    <2>1. Valid(request.provider, chat) /\ request.wire = ToWire("anthropic", "complete", chat)
      BY <1>1 DEF Sending
    <2>2. PICK list \in Seq(Spoken) : list = Conversation(chat)
      BY <1>1, ConversationIsSpoken DEF ChatOk
    <2>3. Alternates(list) /\ Answered(list)
      BY <2>1, <2>2 DEF Valid
    <2>4. request.wire = ToAnthropic(chat)
      BY <2>1 DEF ToWire
    <2>5. request.wire.messages = Merged(list)
      BY <2>2, <2>4 DEF ToAnthropic
    <2> QED BY <2>2, <2>3, <2>5, AnthropicIsArranged
  <1>2. ClientInv => AcceptedByAnthropic
    BY <1>1 DEF ClientInv
  <1> QED BY <1>2, SpecClientInv, PTL
=============================================================================
