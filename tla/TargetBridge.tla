----------------------------- MODULE TargetBridge -----------------------------
(***************************************************************************)
(* How the integrations of giskard-scan let a scanner of others talk to a  *)
(* target, and keep the typed trace of each conversation for the report.   *)
(*                                                                         *)
(* The scanner holds the turns and calls the bridge with them; the bridge  *)
(* keeps the traces by an id that it stamps on its replies: garak goes by  *)
(* the first stamp of a conversation, deepteam by the newest, and lidar    *)
(* hands the id of a thread back.  A talk is an attempt of a garak probe,  *)
(* a test case of deepteam, or an attempt of lidar.                        *)
(***************************************************************************)
EXTENDS SequencesExt, Integers, Sublists

CONSTANTS NumTalks,     \* bound on the talks of a scan
          MaxCalls,     \* bound on its calls
          MaxOpening    \* bound on the turns a talk begins with

ASSUME BridgeAssumption == {NumTalks, MaxCalls, MaxOpening} \subseteq Nat

Talks == 1..NumTalks

VARIABLES tool,       \* "off", "garak", "deepteam", "lidar", or "raised"
          talks,      \* what the scanner has of each talk
          inFlight,   \* the id and the trace of the call of each talk, or NoCall
          traces,     \* internal_cache, traces, _threads: of each id
          byCallId,   \* _by_call_id of lidar: calls whose interaction is kept
          minted,     \* ids given out
          answered,   \* calls that the target answered (history)
          reports     \* traces of the scenarios, in the order of the talks

bridgeVars == <<tool, talks, inFlight, traces, byCallId, minted, answered, reports>>

NoStamp == 0
NoCall == [id |-> NoStamp, trace |-> <<>>]

Turn(role, id) == [role |-> role, id |-> id]

Openings == UNION {[1..k -> {Turn(role, NoStamp) : role \in {"system", "user", "assistant"}}] :
                    k \in 0..MaxOpening}

(* A talk: its turns, its calls to the target, how often it was begun      *)
(* anew, the attempt of garak that it goes on from, and the one that began *)
(* the conversation (history).                                             *)
Fresh(t, doing, turns) ==
    [doing |-> doing, turns |-> turns, calls |-> 0, round |-> 1, parent |-> 0, root |-> t]

(* Garak makes its attempts as it goes; test cases may begin with turns    *)
(* that did not come from the target (the first one stands for all).       *)
BridgeInit ==
    /\ tool \in {"garak", "deepteam", "lidar"}
    /\ \E opening \in (IF tool = "garak" THEN {<<>>} ELSE Openings) :
         talks = [t \in Talks |-> Fresh(t, IF tool = "garak" THEN "unmade" ELSE "free",
                                           IF t = 1 THEN opening ELSE <<>>)]
    /\ inFlight = [t \in Talks |-> NoCall]
    /\ traces = <<>> /\ byCallId = {} /\ minted = 0
    /\ answered = <<>> /\ reports = <<>>

-----------------------------------------------------------------------------
(* _conv_uuid, _recover_uuid, and the thread_id in the metadata: the last  *)
(* is the scanner's to choose, from the replies that it has had.           *)
Stamps(turns) == {i \in DOMAIN turns : turns[i].id # NoStamp}

(* Fault: only the newest turn is looked at, which is the user's.          *)
RecoverFromLast(turns) ==
    IF tool = "garak" /\ Stamps(turns) # {} THEN turns[Min(Stamps(turns))].id
    ELSE IF turns # <<>> THEN Last(turns).id ELSE NoStamp

Recover(turns) ==
    IF Stamps(turns) = {} THEN NoStamp
    ELSE turns[IF tool = "garak" THEN Min(Stamps(turns)) ELSE Max(Stamps(turns))].id

IdsFor(t) ==
    IF tool = "lidar" THEN {NoStamp} \cup {turn.id : turn \in Range(talks[t].turns)}
    ELSE {Recover(talks[t].turns)}

TraceOf(id) == IF id \in DOMAIN traces THEN traces[id] ELSE <<>>

(* Garak's cache is popped, and what was popped is put back.               *)
Taken(id) ==
    IF tool = "garak" THEN [other \in DOMAIN traces \ {id} |-> traces[other]] ELSE traces

With(id, trace) ==
    [other \in DOMAIN traces \cup {id} |-> IF other = id THEN trace ELSE traces[other]]

TotalCalls == FoldLeft(LAMBDA n, talk : n + talk.calls, 0, talks)

Become(t, doing, turns) == [talks EXCEPT ![t].doing = doing, ![t].turns = @ \o turns]

(* The next attempt of a garak probe: a new conversation, or a copy of one *)
(* that goes on, breadth first.  Several may go on from the same one.      *)
MakeAttempt(t) ==
    /\ tool = "garak" /\ talks[t].doing = "unmade" /\ reports = <<>>
    /\ \A other \in 1..t - 1 : talks[other].doing = "over"
    /\ \E parent \in 0..t - 1 :
         /\ t > 1 => talks[t - 1].parent <= parent
         /\ talks' = IF parent = 0 THEN [talks EXCEPT ![t] = Fresh(t, "free", <<>>)]
                     ELSE [talks EXCEPT ![t] = [Fresh(talks[parent].root, "free", talks[parent].turns)
                                                EXCEPT !.parent = parent]]
    /\ UNCHANGED <<tool, inFlight, traces, byCallId, minted, answered, reports>>

(* The scanner asks: the id is recovered or made, and the trace read.      *)
Ask(t) ==
    /\ talks[t].doing = "free" /\ TotalCalls < MaxCalls
    /\ \E known \in IdsFor(t) :
         LET id == IF known = NoStamp THEN minted + 1 ELSE known
         IN  /\ minted' = IF known = NoStamp THEN id ELSE minted
             /\ inFlight' = [inFlight EXCEPT ![t] = [id |-> id, trace |-> TraceOf(id)]]
             /\ traces' = Taken(id)
    /\ talks' = [Become(t, "asking", <<Turn("user", NoStamp)>>) EXCEPT ![t].calls = @ + 1]
    /\ UNCHANGED <<tool, byCallId, answered, reports>>

(* After its one call an attempt of garak is over.                         *)
Then == IF tool = "garak" THEN "over" ELSE "free"

Replied(t) == Become(t, Then, <<Turn("assistant", inFlight[t].id)>>)

(* with_interaction returns: the new trace is put back under its id, and   *)
(* the reply stamped.                                                      *)
Answer(t) ==
    LET call == <<"call", t, talks[t].calls>>
    IN  /\ talks[t].doing = "asking"
        /\ traces' = With(inFlight[t].id, Append(inFlight[t].trace, call))
        /\ byCallId' = IF tool = "lidar" THEN byCallId \cup {call} ELSE byCallId
        /\ answered' = Append(answered, [call |-> call, talk |-> t, round |-> talks[t].round])
        /\ talks' = Replied(t)
        /\ inFlight' = [inFlight EXCEPT ![t] = NoCall]
        /\ UNCHANGED <<tool, minted, reports>>

(* Garak: a prompt without text does not reach the target.                 *)
PassOver(t) ==
    /\ tool = "garak" /\ talks[t].doing = "asking"
    /\ traces' = With(inFlight[t].id, inFlight[t].trace)
    /\ talks' = Replied(t)
    /\ inFlight' = [inFlight EXCEPT ![t] = NoCall]
    /\ UNCHANGED <<tool, byCallId, minted, answered, reports>>

(* The target raises: a garak probe ends with an error and no traces, a    *)
(* test case is over, and a probe of lidar may go on.                      *)
Raise(t) ==
    /\ talks[t].doing = "asking"
    /\ tool' = IF tool = "garak" THEN "raised" ELSE tool
    /\ \E doing \in (IF tool = "lidar" THEN {"free", "over"} ELSE {"over"}) :
         talks' = Become(t, doing, <<>>)
    /\ inFlight' = [inFlight EXCEPT ![t] = NoCall]
    /\ UNCHANGED <<traces, byCallId, minted, answered, reports>>

(* Tree attacks of deepteam play their best path again, from no turns.     *)
Replay(t) ==
    /\ tool = "deepteam" /\ talks[t].doing = "free"
    /\ talks[t].round = 1 /\ talks[t].calls > 0
    /\ talks' = [talks EXCEPT ![t].turns = <<>>, ![t].round = 2]
    /\ UNCHANGED <<tool, inFlight, traces, byCallId, minted, answered, reports>>

EndTalk(t) ==
    /\ tool # "garak" /\ talks[t].doing = "free"
    /\ talks' = Become(t, "over", <<>>)
    /\ UNCHANGED <<tool, inFlight, traces, byCallId, minted, answered, reports>>

-----------------------------------------------------------------------------
(* trace_from_role_content_turns: what the user said is paired with the    *)
(* reply behind it; what stays without one has no outputs (0).             *)
Waiting(acc) == IF acc.input = 0 THEN acc.pairs ELSE Append(acc.pairs, <<"pair", acc.input, 0>>)

PairUp(turns, acc, i) ==
    CASE turns[i].role = "user" -> [pairs |-> Waiting(acc), input |-> i]
      [] turns[i].role = "assistant" /\ acc.input # 0 ->
            [pairs |-> Append(acc.pairs, <<"pair", acc.input, i>>), input |-> 0]
      [] OTHER -> acc

Pairs(turns) ==
    LET acc[n \in 0..Len(turns)] ==
          IF n = 0 THEN [pairs |-> <<>>, input |-> 0] ELSE PairUp(turns, acc[n - 1], n)
    IN  Waiting(acc[Len(turns)])

(* _trace_from_target_calls: the calls of an attempt of lidar are joined   *)
(* with what the bridge keeps of them.                                     *)
Joined(t) ==
    LET calls == [n \in 1..talks[t].calls |-> <<"call", t, n>>]
    IN  IF calls = <<>> THEN Pairs(talks[t].turns)
        ELSE Those(calls, {n \in DOMAIN calls : calls[n] \in byCallId})

(* _trace_for: the trace of the bridge, or what the test case has.         *)
Recovered(t) ==
    LET turns == talks[t].turns
    IN  IF Recover(turns) \in DOMAIN traces THEN TraceOf(Recover(turns))
        ELSE IF turns # <<>> THEN Pairs(turns) ELSE <<"input and output of the case">>

FinalTrace(t) ==
    CASE tool = "garak" -> TraceOf(Recover(talks[t].turns))
      [] tool = "deepteam" -> Recovered(t)
      [] tool = "lidar" -> Joined(t)

(* When the talks are over their traces are reported, one by one.          *)
Report ==
    LET t == Len(reports) + 1
    IN  /\ t \in Talks /\ talks[t].doing = "over" /\ tool # "raised"
        /\ \A other \in Talks : talks[other].doing \in {"over", "unmade"}
        /\ reports' = Append(reports, FinalTrace(t))
        /\ traces' = Taken(Recover(talks[t].turns))
        /\ UNCHANGED <<tool, talks, inFlight, byCallId, minted, answered>>

BridgeNext ==
    \/ \E t \in Talks : \/ MakeAttempt(t) \/ Ask(t) \/ Answer(t) \/ PassOver(t)
                        \/ Raise(t) \/ Replay(t) \/ EndTalk(t)
    \/ Report

BridgeSpec == BridgeInit /\ [][BridgeNext]_bridgeVars

-----------------------------------------------------------------------------
(* Of the attempts of a garak conversation the first reported takes all.   *)
Belongs(entry, t) ==
    CASE tool = "garak" -> talks[entry.talk].root = t
      [] tool = "deepteam" -> entry.talk = t /\ entry.round = talks[t].round
      [] tool = "lidar" -> entry.talk = t

Own(t) == {n \in DOMAIN answered : Belongs(answered[n], t)}

OwnCalls(t) == Those([n \in DOMAIN answered |-> answered[n].call], Own(t))

(* Turns of the user, each with what was said before its next turn.        *)
SaidByUser(turns) == Those([i \in DOMAIN turns |-> i], {i \in DOMAIN turns : turns[i].role = "user"})

PairedRight(trace, turns) ==
    /\ [k \in DOMAIN trace |-> trace[k][2]] = SaidByUser(turns)
    /\ \A k \in DOMAIN trace :
         LET first == trace[k][2]
             until == IF k = Len(trace) THEN Len(turns) + 1 ELSE trace[k + 1][2]
             replies == {i \in first + 1..until - 1 : turns[i].role = "assistant"}
         IN  IF replies = {} THEN trace[k][3] = 0
             ELSE trace[k][3] \in replies /\ \A i \in replies : trace[k][3] <= i

(* The trace of a scenario is its own conversation: each call that the     *)
(* target answered in it, once and in order, and none of another talk that *)
(* went on at the same time.  Of the attempts of one garak conversation    *)
(* the first shows it all; and where the target answered nothing the turns *)
(* that the scanner has are shown.                                         *)
TracesTold ==
    \A t \in DOMAIN reports :
        LET called == IF tool = "lidar" THEN talks[t].calls > 0 ELSE OwnCalls(t) # <<>>
        IN  IF called \/ tool = "garak" THEN reports[t] = OwnCalls(t)
            ELSE talks[t].turns # <<>> => PairedRight(reports[t], talks[t].turns)
=============================================================================
