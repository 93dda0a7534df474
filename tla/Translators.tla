------------------------------ MODULE Translators ------------------------------
(***************************************************************************)
(* The translators and providers of giskard-llm: what becomes of a chat on *)
(* the wire of OpenAI, Anthropic and Google, what of their replies in the  *)
(* chat, and what of the exceptions of their SDKs.                         *)
(*                                                                         *)
(* A message has a role and items: its texts and refusals, calls of tools  *)
(* and their results, and its reasoning.  An item is known by its id, that *)
(* of a result is the id of its call; calls and results name a function.   *)
(***************************************************************************)
EXTENDS Naturals, SequencesExt, Sublists

Item(kind, id, name) == [kind |-> kind, id |-> id, name |-> name]

OfKind(kinds, items) == Those(items, {i \in DOMAIN items : items[i].kind \in kinds})

AllItems(messages) == FlattenSeq([i \in DOMAIN messages |-> messages[i].items])

Instructions == {"system", "developer"}

OfRole(roles, chat) == Those(chat, {i \in DOMAIN chat : chat[i].role \in roles})

Conversation(chat) == OfRole({"user", "assistant", "tool", "function"}, chat)

-----------------------------------------------------------------------------
(* Chats that a provider takes.                                            *)

(* _validate_messages: there is a conversation, and no blank instruction.   *)
ValidAnywhere(chat) ==
    /\ Conversation(chat) # <<>>
    /\ \A message \in ToSet(OfRole(Instructions, chat)) : message.items[1].kind # "blank"

(* Anthropic wants one instruction, unless it merges them, and users and    *)
(* assistants in turn.                                                     *)
Alternates(chat) ==
    \A i \in 2..Len(chat) : chat[i].role = chat[i-1].role => chat[i].role = "tool"

Valid(provider, chat) ==
    /\ ValidAnywhere(chat)
    /\ provider.type = "anthropic" =>
         /\ Len(OfRole(Instructions, chat)) <= 1 \/ provider.merge
         /\ Alternates(Conversation(chat))

(* The name that Google needs for a result is that of the last call with    *)
(* the id; a result whose call is not in the chat cannot be serialized.     *)
CallsOf(chat, id) ==
    LET items == AllItems(chat)
    IN  Those(items, {i \in DOMAIN items : items[i].kind = "call" /\ items[i].id = id})

NameOf(chat, id) == Last(CallsOf(chat, id)).name

(* The Responses API does not have the role of old for functions.           *)
Translatable(operation, chat) == operation = "respond" => OfRole({"function"}, chat) = <<>>

Serializable(type, operation, chat) ==
    operation = "complete" =>
        /\ type # "openai" => OfRole({"function"}, chat) = <<>>
        /\ type = "google" =>
             \A item \in ToSet(AllItems(chat)) :
                 item.kind = "result" => CallsOf(chat, item.id) # <<>>

-----------------------------------------------------------------------------
(* What is sent.                                                           *)

(* Reasoning is never sent, and refusals are texts for other providers.     *)
AsText(items) ==
    [i \in DOMAIN items |->
        IF items[i].kind = "refusal" THEN [items[i] EXCEPT !.kind = "text"] ELSE items[i]]

Sent(items) == Those(items, {i \in DOMAIN items : items[i].kind # "reasoning"})

(* Fault: results are messages of their own.                                *)
MergeTexts(done, message) ==
    IF done # <<>> /\ Last(done).role = message.role /\ OfKind({"result"}, message.items) = <<>>
    THEN Append(Front(done), [Last(done) EXCEPT !.items = @ \o message.items])
    ELSE Append(done, message)

(* To Anthropic results come from the user, and messages in a row from one  *)
(* side are one message.                                                   *)
Merge(done, message) ==
    IF done # <<>> /\ Last(done).role = message.role
    THEN Append(Front(done), [Last(done) EXCEPT !.items = @ \o message.items])
    ELSE Append(done, message)

Side(role) == IF role = "assistant" THEN "assistant" ELSE "user"

Translated(message) == [role |-> Side(message.role), items |-> AsText(Sent(message.items))]

Merged(messages) ==
    LET merged[n \in 0..Len(messages)] ==
          IF n = 0 THEN <<>> ELSE Merge(merged[n - 1], Translated(messages[n]))
    IN  merged[Len(messages)]

ToAnthropic(chat) ==
    [system |-> AllItems(OfRole(Instructions, chat)), messages |-> Merged(Conversation(chat))]

(* To Google calls have no ids, and results have the name of a function.    *)
NoId == <<"none">>

Nameless(chat, item) ==
    CASE item.kind = "call" -> [item EXCEPT !.id = NoId]
      [] item.kind = "result" -> Item("result", NoId, NameOf(chat, item.id))
      [] OTHER -> item

ToGoogle(chat) ==
    LET messages == Conversation(chat)
    IN  [system |-> AllItems(OfRole(Instructions, chat)),
         messages |-> [i \in DOMAIN messages |->
            LET translated == Translated(messages[i])
            IN  [translated EXCEPT !.items = [j \in DOMAIN @ |-> Nameless(chat, @[j])]]]]

ToOpenAI(chat) ==
    [system |-> <<>>,
     messages |-> [i \in DOMAIN chat |-> [chat[i] EXCEPT !.items = Sent(@)]]]

(* For the Responses and the Interactions API each item is one of the input; *)
(* results are named by the caller.                                         *)
StepsOf(message) ==
    LET items == Sent(message.items)
    IN  [j \in DOMAIN items |-> [role |-> message.role, items |-> <<items[j]>>]]

Steps(chat) == FlattenSeq([i \in DOMAIN chat |-> StepsOf(chat[i])])

ToInteractions(chat) ==
    LET steps == Steps(Conversation(chat))
    IN  [system |-> AllItems(OfRole(Instructions, chat)),
         messages |-> [i \in DOMAIN steps |-> [steps[i] EXCEPT !.items = AsText(@)]]]

ToWire(type, operation, chat) ==
    CASE operation = "embed" -> [system |-> <<>>, messages |-> <<>>]
      [] operation = "complete" /\ type = "anthropic" -> ToAnthropic(chat)
      [] operation = "complete" /\ type = "google" -> ToGoogle(chat)
      [] operation = "complete" /\ type = "openai" -> ToOpenAI(chat)
      [] operation = "respond" /\ type = "google" -> ToInteractions(chat)
      [] operation = "respond" /\ type = "openai" -> [system |-> <<>>, messages |-> Steps(chat)]

(* response_format: a class of pydantic, or a dict as OpenAI has it for     *)
(* chats (schema) or responses (bare), as Anthropic has it (native), or for *)
(* texts.  Google's chat leaves out all but classes.                       *)
Formats == {"none", "model", "schema", "bare", "native", "text"}

RefusedFormats(type, operation) ==
    CASE type = "anthropic" -> {"text"}
      [] type = "openai" /\ operation = "respond" -> {"native"}
      [] OTHER -> {}

-----------------------------------------------------------------------------
(* What comes back: blocks, and a refusal, with an explanation or without;  *)
(* interactions have no refusals.                                          *)
Refuses(type, operation) == type # "google" \/ operation # "respond"

Reply(blocks, refused, explained) ==
    [blocks |-> blocks, refused |-> refused, explained |-> explained]

(* Fault: the ids of Google's calls are made of the number of messages before *)
(* them alone.                                                             *)
NumberAsId(type, operation, n, i) ==
    IF type = "google" /\ operation = "complete" THEN <<"call", n, 0>> ELSE <<"new", n, i>>

(* The ids of Google's calls are made of the number of messages before them *)
(* and their place; those of the others are new to everybody.              *)
CallId(type, operation, n, i) ==
    <<IF type = "google" /\ operation = "complete" THEN "call" ELSE "new", n, i>>

(* Blocks that a translator does not know.                                  *)
Unreadable(type, operation) ==
    CASE operation = "complete" /\ type # "openai" -> {"other"}
      [] operation = "respond" /\ type = "openai" -> {"other", "reasoning"}
      [] OTHER -> {}

Readable(type, operation, reply) ==
    \A i \in DOMAIN reply.blocks : reply.blocks[i].kind \notin Unreadable(type, operation)

(* Anthropic may refuse without an explanation, which makes it "refusal".   *)
TellsRefusal(type, reply) == reply.refused

(* A thought is a text like others in the chats of Google.                  *)
KindOf(type, operation, block) ==
    IF type = "google" /\ operation = "complete" /\ block.kind = "reasoning" THEN "text" ELSE block.kind

FromReply(type, operation, n, reply) ==
    LET items == [i \in DOMAIN reply.blocks |->
                     Item(KindOf(type, operation, reply.blocks[i]),
                          IF reply.blocks[i].kind = "call" THEN CallId(type, operation, n, i) ELSE <<"new", n, i>>,
                          reply.blocks[i].name)]
        refusal == IF TellsRefusal(type, reply) THEN <<Item("refusal", <<"new", n, 0>>, "none")>> ELSE <<>>
        reasoning == IF operation = "complete" THEN OfKind({"reasoning"}, items) ELSE <<>>
    IN  [role |-> "assistant",
         items |-> OfKind({"text"}, items) \o refusal \o OfKind({"call"}, items) \o reasoning]

(* What a workflow with an output model makes of a reply: its calls come    *)
(* first, then its refusal.                                                *)
Reading(message) ==
    CASE OfKind({"call"}, message.items) # <<>> -> "calls"
      [] OfKind({"call"}, message.items) = <<>> /\ OfKind({"refusal"}, message.items) # <<>> -> "refusal"
      [] OTHER -> "answer"

-----------------------------------------------------------------------------
(* Exceptions of the SDKs, with the classes they are of.                   *)
OfSDK == {"rate_limit", "authentication", "permission", "bad_request", "other_status",
          "internal", "timeout", "connection", "api"}

OfGoogle == {"429", "401", "403", "400", "5xx", "other_code"}

Classes(exception) ==
    CASE exception \in {"rate_limit", "authentication", "permission", "bad_request", "internal"} ->
           {exception, "status", "api"}
      [] exception = "other_status" -> {"status", "api"}
      [] exception = "timeout" -> {"timeout", "connection", "api"}
      [] exception = "connection" -> {"connection", "api"}
      [] OTHER -> {exception}

(* _map_error: the handlers, each a class and what it raises, in order; and *)
(* for Google the handlers of chats and those of interactions.              *)
OpenAIHandlers ==
    <<<<"rate_limit", "RateLimitError">>, <<"authentication", "AuthenticationError">>,
      <<"bad_request", "BadRequestError">>, <<"timeout", "LLMTimeoutError">>,
      <<"internal", "ServerError">>, <<"api", "LLMError">>>>

(* Fault: whatever is of the SDK is caught before its timeouts.             *)
HandlersOfAny == <<<<"api", "LLMError">>>> \o OpenAIHandlers

AnthropicHandlers == OpenAIHandlers

GoogleHandlers ==
    <<<<"429", "RateLimitError">>, <<"401", "AuthenticationError">>, <<"403", "AuthenticationError">>,
      <<"400", "BadRequestError">>, <<"5xx", "ServerError">>, <<"other_code", "LLMError">>,
      <<"authentication", "AuthenticationError">>, <<"permission", "AuthenticationError">>,
      <<"rate_limit", "RateLimitError">>, <<"internal", "ServerError">>,
      <<"status", "BadRequestError">>, <<"timeout", "LLMTimeoutError">>,
      <<"connection", "LLMError">>, <<"api", "LLMError">>, <<"timed_out", "LLMTimeoutError">>>>

HandlersOf(type) ==
    CASE type = "openai" -> OpenAIHandlers
      [] type = "anthropic" -> AnthropicHandlers
      [] type = "google" -> GoogleHandlers

(* What nobody handles is raised as it is.                                  *)
MapError(type, exception) ==
    LET handlers == HandlersOf(type)
        fitting == {n \in DOMAIN handlers : handlers[n][1] \in Classes(exception)}
    IN  IF fitting = {} THEN "raised" ELSE handlers[Min(fitting)][2]

ShouldRetry(error) == error \in {"LLMTimeoutError", "RateLimitError", "ServerError"}

Raises(type, operation) ==
    {"timed_out", "defect"} \cup
    CASE type # "google" -> OfSDK
      [] type = "google" /\ operation = "respond" -> OfSDK
      [] type = "google" /\ operation # "respond" -> OfGoogle
=============================================================================
