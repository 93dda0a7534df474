------------------------------- MODULE LLMClient -------------------------------
(***************************************************************************)
(* A client of giskard-llm at work: a caller grows a chat, sends it to a   *)
(* model by the name of a provider, and answers the tools that are called; *)
(* meanwhile the client is configured and reset.  A request keeps the      *)
(* provider that it was begun with.                                        *)
(***************************************************************************)
EXTENDS Routing, Translators

CONSTANTS Tools,        \* names of functions
          MaxItems,     \* bound on the items of a chat
          MaxBlocks,    \* bound on the blocks of a reply
          ShortChat     \* bound on the chats with odd messages, formats and failures

ASSUME ClientAssumption == {MaxItems, MaxBlocks, ShortChat} \subseteq Nat

VARIABLES chat,     \* the messages
          room,     \* how many items may follow
          request,  \* in flight: its provider, operation and what is sent
          outcome   \* of the last call: the provider, what it told, and its status

clientVars == <<chat, room, request, outcome, routing>>

NoRequest == [provider |-> NoProvider, name |-> "none", operation |-> "none", wire |-> <<>>]

Outcome(type, told, status) == [type |-> type, told |-> told, status |-> status]

NoOutcome == Outcome("none", "none", "none")

Idle == request = NoRequest /\ outcome = NoOutcome

(* Either a long chat, and all providers are made, or a short one while the *)
(* client is being configured.                                             *)
ClientInit ==
    /\ chat = <<>> /\ request = NoRequest /\ outcome = NoOutcome
    /\ \/ RoutingInit /\ changes = MaxChanges /\ room = ShortChat
       \/ RoutingMade /\ changes = 0 /\ room = MaxItems

(* A message of the caller.  Some are odd: blank instructions, the role of  *)
(* old for functions, and results of a call which the chat does not have.   *)
Said(role, kind) == [role |-> role, items |-> <<Item(kind, <<"said", Len(chat), 0>>, "none")>>]

Say ==
    /\ Idle /\ room > 0
    /\ \/ \E role \in {"user", "system"} : chat' = Append(chat, Said(role, "text"))
       \/ /\ Len(chat) < ShortChat
          /\ \E message \in {Said("system", "blank"), Said("function", "text"), Said("tool", "result")} :
               chat' = Append(chat, message)
    /\ room' = room - 1
    /\ UNCHANGED <<request, outcome, routing>>

(* The calls of the last reply, which the caller answers in their order.    *)
LastReply == Max({0} \cup {n \in DOMAIN chat : chat[n].role = "assistant"})

Called == IF LastReply = 0 THEN <<>> ELSE OfKind({"call"}, chat[LastReply].items)

Results ==
    LET items == AllItems(SubSeq(chat, LastReply + 1, Len(chat)))
    IN  Those(items, {i \in DOMAIN items : items[i].kind = "result" /\ items[i].id[1] # "said"})

AnswerTool ==
    /\ Idle /\ room > 0
    /\ Len(Results) < Len(Called)
    /\ LET call == Called[Len(Results) + 1]
       IN  chat' = Append(chat, [role |-> "tool", items |-> <<Item("result", call.id, call.name)>>])
    /\ room' = room - 1
    /\ UNCHANGED <<request, outcome, routing>>

-----------------------------------------------------------------------------
(* acompletion, aembedding and aresponse.  Callers do not call again before *)
(* they have said something, or given a result.                            *)
TheirTurn == Idle /\ (chat # <<>> => LastReply < Len(chat))

(* There is no provider for the name.                                      *)
CallNobody(name) ==
    /\ TheirTurn /\ Fails(name)
    /\ outcome' = Outcome("none", "none", "raised")
    /\ UNCHANGED <<chat, room, request, routing>>

(* What is wrong with a request, first in the order in which it is noticed. *)
Rejected(provider, operation, format) ==
    \/ operation = "complete" /\ ~Valid(provider, chat)
    \/ ~Translatable(operation, chat)
    \/ format \in RefusedFormats(provider.type, operation)

Complaint(provider, operation, format) ==
    IF ~Supports(provider.type, operation) THEN "UnsupportedOperationError"
    ELSE IF Rejected(provider, operation, format) THEN "BadRequestError"
    ELSE IF ~Serializable(provider.type, operation, chat) THEN "raised"
    ELSE "none"

Call(name, operation, format) ==
    LET provider == Provider(name)
        complaint == Complaint(provider, operation, format)
    IN  /\ TheirTurn /\ Finds(name)
        /\ format # "none" => operation # "embed" /\ Len(chat) <= ShortChat
        /\ KeepProvider(name)
        /\ outcome' = IF complaint = "none" THEN NoOutcome ELSE Outcome(provider.type, "none", complaint)
        /\ request' =
             IF complaint # "none" THEN NoRequest
             ELSE [provider |-> provider, name |-> name, operation |-> operation,
                   wire |-> ToWire(provider.type, operation, chat)]
        /\ UNCHANGED <<chat, room, configs, env, changes>>

Blocks ==
    {[kind |-> kind, name |-> "none"] : kind \in {"text", "reasoning", "other"}}
    \cup {[kind |-> "call", name |-> tool] : tool \in Tools}

Replies ==
    {Reply(blocks, FALSE, FALSE) : blocks \in BoundedSeq(Blocks, MaxBlocks)}
    \cup {Reply(blocks, TRUE, explained) : blocks \in BoundedSeq(Blocks, 1), explained \in BOOLEAN}

(* A reply becomes a message, unless it cannot be read; the caller keeps it *)
(* if the chat goes on.                                                    *)
Keep(message) ==
    LET size == Max({1, Len(message.items)})
    IN  IF size <= room THEN chat' = Append(chat, message) /\ room' = room - size
        ELSE UNCHANGED <<chat, room>>

Receive ==
    LET type == request.provider.type
        operation == request.operation
    IN  /\ request.operation \in {"complete", "respond"}
        /\ \E reply \in {reply \in Replies : Len(reply.blocks) <= Max({1, room})} :
             /\ reply.refused => Refuses(type, operation)
             /\ LET message == FromReply(type, operation, Len(chat), reply)
                    told == IF reply.refused THEN "refusal" ELSE "reply"
                IN  IF Readable(type, operation, reply)
                    THEN /\ outcome' = Outcome(type, told, Reading(message))
                         /\ Keep(message)
                    ELSE /\ outcome' = Outcome(type, told, "raised")
                         /\ UNCHANGED <<chat, room>>
        /\ request' = NoRequest
        /\ UNCHANGED routing

(* Google may have no candidate, and embeddings are not told in the chat.   *)
ReceiveNothing ==
    /\ \/ /\ request.operation = "embed"
          /\ outcome' = Outcome(request.provider.type, "vectors", "answer")
       \/ /\ request.operation = "complete" /\ request.provider.type = "google"
          /\ outcome' = Outcome("google", "none", "raised")
    /\ request' = NoRequest
    /\ UNCHANGED <<chat, room, routing>>

Fail ==
    /\ request # NoRequest /\ Len(chat) <= ShortChat
    /\ \E exception \in Raises(request.provider.type, request.operation) :
         outcome' = Outcome(request.provider.type, exception, MapError(request.provider.type, exception))
    /\ request' = NoRequest
    /\ UNCHANGED <<chat, room, routing>>

(* The caller takes what his call came to.                                 *)
Take ==
    /\ outcome # NoOutcome
    /\ outcome' = NoOutcome
    /\ UNCHANGED <<chat, room, request, routing>>

Change == (Configure \/ Reset \/ SetEnv) /\ UNCHANGED <<chat, room, request, outcome>>

ClientNext ==
    \/ Say \/ AnswerTool \/ Receive \/ ReceiveNothing \/ Fail \/ Take \/ Change
    \/ \E name \in Names : CallNobody(name)
    \/ \E name \in Names, operation \in {"complete", "respond", "embed"}, format \in Formats :
         Call(name, operation, format)

ClientSpec == ClientInit /\ [][ClientNext]_clientVars

-----------------------------------------------------------------------------
(* A call is served by what is configured for its name when it is made, not *)
(* by a provider made for what was configured before, and however the name  *)
(* was spelled.                                                            *)
ServedAsConfigured ==
    [][request' # request /\ request' # NoRequest =>
         request'.provider = Config(request'.name)]_clientVars

(* A chat is told in full and in order, on the wire of every provider: of   *)
(* each item that is not reasoning its kind and its text or its function.   *)
Shape(item) ==
    IF item.kind \in {"call", "result"} THEN <<item.kind, item.name>>
    ELSE <<"text", item.id>>

Shapes(items) == [i \in DOMAIN items |-> Shape(items[i])]

InOrder(messages) == OfRole(Instructions, messages) \o Conversation(messages)

ChatOnTheWire ==
    request.operation \in {"complete", "respond"} =>
        LET messages == request.wire.messages
        IN  Shapes(request.wire.system \o AllItems(InOrder(messages)))
              = Shapes(OfKind({"text", "blank", "refusal", "call", "result"}, AllItems(InOrder(chat))))

(* Whatever provider a call was made through, and whichever one it is told  *)
(* of later, its result goes with its own function.  Anthropic also wants   *)
(* both sides in turn, and results right behind their calls: so they are if *)
(* the chat has them there.                                                *)
Answered(messages) ==
    /\ \A i \in DOMAIN messages :
         LET calls == OfKind({"call"}, messages[i].items)
         IN  \A k \in DOMAIN calls :
               /\ i + k \in DOMAIN messages /\ messages[i + k].role = "tool"
               /\ messages[i + k].items[1].id = calls[k].id
    /\ Len(OfRole({"tool"}, messages)) = Len(OfKind({"call"}, AllItems(messages)))

AcceptedByAnthropic ==
    request.operation = "complete" /\ request.provider.type = "anthropic" /\ Answered(Conversation(chat)) =>
        LET messages == request.wire.messages
        IN  \A i \in DOMAIN messages :
              LET calls == OfKind({"call"}, messages[i].items)
              IN  /\ i > 1 => messages[i].role # messages[i-1].role
                  /\ \A k \in DOMAIN calls :
                       /\ i < Len(messages) /\ k <= Len(messages[i+1].items)
                       /\ messages[i+1].items[k].kind = "result"
                       /\ messages[i+1].items[k].id = calls[k].id

(* Callers are told what happened, and from what they are told the retries  *)
(* of a generator do the right thing: a model that refuses is seen to       *)
(* refuse, or at least not to answer, whichever way the provider tells it;  *)
(* rate limits, timeouts and errors of the server are tried again, whatever *)
(* classes the SDK has them in, and nothing else is.                        *)
OutcomesTold ==
    /\ outcome.told = "refusal" => outcome.status # "answer"
    /\ outcome.told \in OfSDK \cup OfGoogle \cup {"timed_out", "defect"} =>
        (ShouldRetry(outcome.status) <=>
            \/ outcome.told \in {"rate_limit", "timeout", "internal", "429", "5xx"}
            \/ outcome.told = "timed_out" /\ outcome.type = "google")
=============================================================================
